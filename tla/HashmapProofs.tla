---------------------------- MODULE HashmapProofs ----------------------------
(***************************************************************************)
(* Proofs about Hashmap, for any threads, hosts, configuration, capacity   *)
(* and hash function: probing loses no key, every lookup stops at its own  *)
(* key, and the race on the shared position never yields NULL.             *)
(***************************************************************************)
EXTENDS Hashmap, SequenceTheorems, WellFoundedInduction, TLAPS

(* Lookups begin when main has added every entry. *)
MainInv ==
  /\ started => size = Len(Config)
  /\ ~started => \A t \in Threads : pc[t] = "idle"
  /\ \A t \in Threads : pc[t] # "idle" => in[t] \in Entries

(* The thread inside the semaphore is the one that searches. *)
LockInv == \A t \in Threads : pc[t] \in {"hash", "probe"} <=> lock = t

(* The entries added so far, and no others, are in the table. *)
TableInv ==
  /\ \A s \in Slots : map[s] <= size
  /\ \A e \in 1..size : \E s \in Slots : map[s] = e

(* The d-th slot of a search, from which an entry of host lies ahead. *)
OnPath(host, s) ==
  \E d, D \in Slots :
    /\ d <= D
    /\ Probe(host, d) = s
    /\ KeyOf(Probe(host, D)) = host
    /\ \A i \in 0..D : Occupied(Probe(host, i))

(* Where the shared position is, for each thread that relies on it. *)
SearchInv ==
  \A t \in Threads :
    /\ pc[t] = "probe" => OnPath(Key(t), hash)
    /\ pc[t] = "return" => Occupied(hash)
    /\ pc[t] = "done" => result[t] # 0

(***************************************************************************)
(* The inductive invariant.  NeverNull needs to know that the position is  *)
(* on an occupied slot whoever moves it, which holds because every search  *)
(* is on a path without a free slot (SearchInv), which in turn holds       *)
(* because no search begins for a key that is not in the table.            *)
(***************************************************************************)
IInv ==
  /\ TypeOK
  /\ MainInv
  /\ LockInv
  /\ TableInv
  /\ ChainsIntact
  /\ SearchInv

-----------------------------------------------------------------------------
(* The probe sequence stays in the table, starts at the home slot and      *)
(* advances as __hmap_get advances its position.                           *)
LEMMA ProbeProperties ==
  ASSUME NEW host \in Hosts, NEW d \in Slots
  PROVE  /\ Probe(host, d) \in Slots
         /\ Probe(host, 0) = Hash[host]
         /\ d + 1 \in Slots => Probe(host, d + 1) = (Probe(host, d) + 1) % Capacity
<1> DEFINE h == Hash[host]
           C == Capacity
<1>1. C \in Nat \ {0} /\ h \in 0..C-1 /\ d \in 0..C-1
  BY HashmapAssumption DEF Slots, HashmapAssumption
<1> HIDE DEF h, C
<1>2. h % C = h
  BY <1>1
<1>3. (h + d) % C \in 0..C-1
  BY <1>1
<1>4. (h + (d + 1)) % C = (((h + d) % C) + 1) % C
  <2>1. CASE h + d < C
    <3>1. (h + d) % C = h + d
      BY <1>1, <2>1
    <3> QED
      BY <1>1, <3>1
  <2>2. CASE h + d >= C
    <3>1. (h + d) % C = h + d - C
      BY <1>1, <2>2
    <3>2. CASE h + d + 1 < 2 * C
      <4>1. (h + (d + 1)) % C = h + d + 1 - C
        BY <1>1, <2>2, <3>2
      <4>2. (h + d - C + 1) % C = h + d - C + 1
        BY <1>1, <2>2, <3>2
      <4> QED
        BY <1>1, <3>1, <4>1, <4>2
    <3> QED
      BY <1>1, <3>2
  <2> QED
    BY <1>1, <2>1, <2>2
<1>5. h + 0 = h
  BY <1>1
<1> QED
  BY <1>2, <1>3, <1>4, <1>5 DEF Probe, Slots, h, C

(* Every configured host is on the path of its own search once main is done. *)
LEMMA PathExists ==
  ASSUME IInv, started, NEW e \in Entries
  PROVE  OnPath(Config[e], Hash[Config[e]])
<1> DEFINE host == Config[e]
<1>1. host \in Hosts
  BY HashmapAssumption DEF HashmapAssumption, Entries
<1>2. PICK s \in Slots : map[s] = e
  BY DEF IInv, MainInv, TableInv, Entries
<1>3. Occupied(s) /\ KeyOf(s) = host
  BY <1>2 DEF Occupied, KeyOf, Entries
<1>4. PICK D \in Slots : /\ Probe(host, D) = s
                         /\ \A i \in 0..D : Occupied(Probe(host, i))
  BY <1>3 DEF IInv, ChainsIntact, Reachable
<1>5. 0 \in Slots /\ 0 <= D
  BY HashmapAssumption DEF HashmapAssumption, Slots
<1>6. Probe(host, 0) = Hash[host]
  BY <1>1, <1>5, ProbeProperties
<1> HIDE DEF host
<1>7. OnPath(host, Hash[host])
  BY <1>3, <1>4, <1>5, <1>6 DEF OnPath
<1> QED
  BY <1>7 DEF host

(* A position on a path is occupied; short of the key, so is the next. *)
LEMMA PathAdvances ==
  ASSUME NEW host \in Hosts, NEW s \in Slots, OnPath(host, s)
  PROVE  /\ Occupied(s)
         /\ KeyOf(s) # host => OnPath(host, (s + 1) % Capacity)
<1>1. PICK d \in Slots, D \in Slots :
        /\ d <= D
        /\ Probe(host, d) = s
        /\ KeyOf(Probe(host, D)) = host
        /\ \A i \in 0..D : Occupied(Probe(host, i))
  BY DEF OnPath
<1>2. d \in 0..D
  BY <1>1, HashmapAssumption DEF HashmapAssumption, Slots
<1>3. ASSUME KeyOf(s) # host PROVE OnPath(host, (s + 1) % Capacity)
  <2>1. d # D
    BY <1>1, <1>3
  <2>2. d + 1 \in Slots /\ d + 1 <= D
    BY <1>1, <2>1, HashmapAssumption DEF HashmapAssumption, Slots
  <2>3. Probe(host, d + 1) = (s + 1) % Capacity
    BY <1>1, <2>2, ProbeProperties
  <2> QED
    BY <1>1, <2>2, <2>3 DEF OnPath
<1> QED
  BY <1>1, <1>2, <1>3

-----------------------------------------------------------------------------
(* How far a search has to go *)

LEMMA LeastHit ==
  ASSUME NEW host, NEW s, Hits(host, s) # {}
  PROVE  /\ ToGo(host, s) \in Hits(host, s)
         /\ \A m \in Hits(host, s) : ToGo(host, s) <= m
<1> DEFINE H == Hits(host, s)
<1>1. H \in SUBSET Nat /\ H # {}
  BY HashmapAssumption DEF Hits, Slots, HashmapAssumption
<1> HIDE DEF H
<1>2. PICK x \in H : \A y \in H : ~ (<<y, x>> \in OpToRel(<, Nat))
  BY <1>1, NatLessThanWellFounded, WFMin, Zenon
<1>3. \A y \in H : <<y, x>> \in Nat \X Nat
  BY <1>1
<1>4. \A y \in H : ~ (y < x)
  BY <1>2, <1>3, Zenon DEF OpToRel
<1>5. \A y \in H : x <= y
  BY <1>1, <1>4
<1> QED
  BY <1>5 DEF ToGo, H

(* Positions around the end of the table *)
LEMMA Around ==
  ASSUME NEW a \in Slots, NEW m \in Slots, NEW n \in Slots, m + n \in Slots
  PROVE  (((a + m) % Capacity) + n) % Capacity = (a + (m + n)) % Capacity
<1> DEFINE C == Capacity
<1>1. C \in Nat \ {0} /\ a \in 0..C-1 /\ m \in 0..C-1 /\ n \in 0..C-1 /\ m + n < C
  BY HashmapAssumption DEF Slots, HashmapAssumption
<1> HIDE DEF C
<1>2. CASE a + m < C
  <2>1. (a + m) % C = a + m
    BY <1>1, <1>2
  <2> QED
    BY <1>1, <2>1 DEF C
<1>3. CASE a + m >= C
  <2>1. (a + m) % C = a + m - C
    BY <1>1, <1>3
  <2>2. (a + m - C + n) % C = a + m - C + n
    BY <1>1, <1>3
  <2>3. (a + (m + n)) % C = a + m + n - C
    BY <1>1, <1>3
  <2> QED
    BY <1>1, <2>1, <2>2, <2>3 DEF C
<1> QED
  BY <1>1, <1>2, <1>3

(* A search on a path has an entry of its key ahead. *)
LEMMA PathHits ==
  ASSUME NEW host \in Hosts, NEW s \in Slots, OnPath(host, s)
  PROVE  Hits(host, s) # {}
<1>1. PICK d \in Slots, D \in Slots :
        /\ d <= D
        /\ Probe(host, d) = s
        /\ KeyOf(Probe(host, D)) = host
        /\ \A i \in 0..D : Occupied(Probe(host, i))
  BY DEF OnPath
<1>2. D - d \in Slots /\ d + (D - d) = D /\ D \in 0..D /\ Hash[host] \in Slots
  BY <1>1, HashmapAssumption DEF HashmapAssumption, Slots
<1>3. (s + (D - d)) % Capacity = Probe(host, D)
  BY <1>1, <1>2, Around DEF Probe
<1> QED
  BY <1>1, <1>2, <1>3 DEF Hits

(* One slot further, the first entry ahead is one slot closer. *)
LEMMA OneCloser ==
  ASSUME NEW host, NEW s \in Slots, Hits(host, s) # {}, ~(Occupied(s) /\ KeyOf(s) = host)
  PROVE  ToGo(host, (s + 1) % Capacity) = ToGo(host, s) - 1
<1> DEFINE n == ToGo(host, s)
           next == (s + 1) % Capacity
<1>0. Capacity \in Nat \ {0}
  BY HashmapAssumption DEF HashmapAssumption
<1>1. n \in Hits(host, s) /\ \A m \in Hits(host, s) : n <= m
  BY LeastHit
<1>2. n # 0
  <2>1. (s + 0) % Capacity = s
    BY <1>0 DEF Slots
  <2> QED
    BY <1>1, <2>1 DEF Hits
<1>3. n \in Slots /\ n - 1 \in Slots /\ 1 \in Slots
  BY <1>0, <1>1, <1>2 DEF Hits, Slots
<1>4. \A m \in Slots : m + 1 \in Slots => (next + m) % Capacity = (s + (m + 1)) % Capacity
  <2> SUFFICES ASSUME NEW m \in Slots, m + 1 \in Slots
               PROVE  (next + m) % Capacity = (s + (m + 1)) % Capacity
    OBVIOUS
  <2>1. 1 + m = m + 1
    BY DEF Slots
  <2> QED
    BY <1>3, <2>1, Around
<1> HIDE DEF n, next
<1>5. n - 1 \in Hits(host, next)
  <2>1. (n - 1) + 1 = n
    BY <1>3 DEF Slots
  <2>2. (next + (n - 1)) % Capacity = (s + n) % Capacity
    BY <1>3, <1>4, <2>1
  <2> QED
    BY <1>1, <1>3, <2>2 DEF Hits
<1>6. ASSUME NEW m \in Hits(host, next) PROVE n - 1 <= m
  <2>1. m \in Slots
    BY DEF Hits
  <2>2. CASE m + 1 \in Slots
    <3>1. (next + m) % Capacity = (s + (m + 1)) % Capacity
      BY <1>4, <2>1, <2>2
    <3>2. m + 1 \in Hits(host, s)
      BY <2>2, <3>1 DEF Hits
    <3> QED
      BY <1>1, <1>3, <2>1, <3>2 DEF Slots
  <2>3. CASE m + 1 \notin Slots
    BY <1>0, <1>3, <2>1, <2>3 DEF Slots
  <2> QED
    BY <2>2, <2>3
<1>7. /\ ToGo(host, next) \in Hits(host, next)
      /\ \A m \in Hits(host, next) : ToGo(host, next) <= m
  BY <1>5, LeastHit
<1>8. ToGo(host, next) \in Int /\ n \in Int
  BY <1>0, <1>3, <1>7 DEF Hits, Slots
<1>9. ToGo(host, next) <= n - 1 /\ n - 1 <= ToGo(host, next)
  BY <1>5, <1>6, <1>7
<1> QED
  BY <1>8, <1>9 DEF n, next

-----------------------------------------------------------------------------
LEMMA InitInv == Init => IInv
<1> SUFFICES ASSUME Init PROVE IInv
  OBVIOUS
<1> USE DEF Init
<1>1. TypeOK
  <2>1. 0 \in Slots /\ 0 \in 0..Len(Config)
    BY HashmapAssumption DEF HashmapAssumption, Slots
  <2> QED
    BY <2>1 DEF TypeOK
<1>2. MainInv /\ LockInv
  BY HashmapAssumption DEF MainInv, LockInv, HashmapAssumption
<1>3. TableInv /\ ChainsIntact /\ SearchInv
  BY DEF TableInv, ChainsIntact, SearchInv, Occupied
<1> QED
  BY <1>1, <1>2, <1>3 DEF IInv

(* main's step: the new entry ends its own chain and breaks no other. *)
LEMMA AddKeeps == IInv /\ Add => IInv'
<1> SUFFICES ASSUME IInv, Add PROVE IInv'
  OBVIOUS
<1> DEFINE n == size + 1
<1>0. PICK host \in Hosts : host = Config[n]
  BY HashmapAssumption DEF Add, IInv, TypeOK, HashmapAssumption
<1>1. n \in Entries /\ size \in Nat
  BY HashmapAssumption DEF Add, IInv, TypeOK, HashmapAssumption, Entries
<1>2. PICK d \in Slots :
        /\ \A i \in 0..d-1 : Occupied(Probe(host, i))
        /\ ~Occupied(Probe(host, d))
        /\ map' = [map EXCEPT ![Probe(host, d)] = n]
  BY <1>0 DEF Add
<1>3. /\ ~started /\ size' = n
      /\ started' = started /\ lock' = lock /\ hash' = hash
      /\ pc' = pc /\ in' = in /\ result' = result
  BY DEF Add, getVars
<1> HIDE DEF n
<1> DEFINE new == Probe(host, d)
<1>4. new \in Slots /\ map[new] = 0 /\ map \in [Slots -> Entries \union {0}]
  BY <1>1, <1>2, ProbeProperties DEF Occupied, IInv, TypeOK
<1>5. /\ map'[new] = n
      /\ \A s \in Slots \ {new} : map'[s] = map[s]
  BY <1>2, <1>4
<1> HIDE DEF new
<1>6. 0 \notin Entries
  BY DEF Entries
<1>7. TypeOK'
  <2>1. map' \in [Slots -> Entries \union {0}]
    BY <1>1, <1>2, <1>4
  <2>2. size' \in 0..Len(Config)
    BY <1>1, <1>3 DEF Entries
  <2> QED
    BY <1>3, <2>1, <2>2 DEF IInv, TypeOK
<1>8. MainInv' /\ LockInv' /\ SearchInv'
  BY <1>3 DEF IInv, MainInv, LockInv, SearchInv
<1>9. TableInv'
  <2>1. \A s \in Slots : map'[s] <= size'
    <3> SUFFICES ASSUME NEW s \in Slots PROVE map'[s] <= n
      BY <1>3
    <3>1. map[s] <= size /\ map[s] \in Nat
      BY <1>4 DEF IInv, TableInv, Entries
    <3> QED
      BY <3>1, <1>1, <1>5 DEF n
  <2>2. \A e \in 1..size' : \E s \in Slots : map'[s] = e
    <3> SUFFICES ASSUME NEW e \in 1..n PROVE \E s \in Slots : map'[s] = e
      BY <1>3
    <3>1. CASE e = n
      BY <3>1, <1>4, <1>5
    <3>2. CASE e \in 1..size
      <4>1. PICK s \in Slots : map[s] = e
        BY <3>2 DEF IInv, TableInv
      <4>2. s # new
        BY <4>1, <3>2, <1>1, <1>4
      <4> QED
        BY <4>1, <4>2, <1>5
    <3>3. e = n \/ e \in 1..size
      BY <1>1 DEF n
    <3> QED
      BY <3>1, <3>2, <3>3
  <2> QED
    BY <2>1, <2>2 DEF TableInv
<1>10. ChainsIntact'
  <2>1. \A s \in Slots : Occupied(s) => Occupied(s)' /\ KeyOf(s)' = KeyOf(s)
    BY <1>4, <1>5 DEF Occupied, KeyOf
  <2>2. map'[new] # 0 /\ Config[map'[new]] = host
    BY <1>0, <1>1, <1>5, <1>6
  <2> SUFFICES ASSUME NEW s \in Slots, Occupied(s)' PROVE Reachable(s)'
    BY DEF ChainsIntact
  <2>3. CASE s = new
    <3>1. \A i \in 0..d : i \in Slots /\ (i = d \/ i \in 0..d-1)
      BY HashmapAssumption DEF HashmapAssumption, Slots
    <3>2. \A i \in 0..d : Occupied(Probe(host, i))'
      <4> SUFFICES ASSUME NEW i \in 0..d PROVE Occupied(Probe(host, i))'
        OBVIOUS
      <4>1. CASE i = d
        BY <4>1, <2>2 DEF new, Occupied, Probe
      <4>2. CASE i \in 0..d-1
        <5>1. Probe(host, i) \in Slots /\ Occupied(Probe(host, i))
          BY <4>2, <3>1, <1>1, <1>2, ProbeProperties
        <5>2. Probe(host, i) # new
          BY <5>1, <1>4 DEF Occupied
        <5> QED
          BY <5>1, <5>2, <1>5 DEF Occupied, Probe
      <4> QED
        BY <3>1, <4>1, <4>2
    <3>3. KeyOf(s)' = host
      BY <2>2, <2>3 DEF KeyOf
    <3> QED
      BY <2>3, <3>2, <3>3 DEF Reachable, new, Probe
  <2>4. CASE s # new
    <3>1. Occupied(s) /\ KeyOf(s)' = KeyOf(s)
      BY <2>1, <2>4, <1>5 DEF Occupied, KeyOf
    <3>2. KeyOf(s) \in Hosts
      BY <3>1, <1>4, HashmapAssumption DEF Occupied, KeyOf, Entries, HashmapAssumption
    <3>3. PICK D \in Slots : /\ Probe(KeyOf(s), D) = s
                             /\ \A i \in 0..D : Occupied(Probe(KeyOf(s), i))
      BY <3>1 DEF IInv, ChainsIntact, Reachable
    <3>4. \A i \in 0..D : i \in Slots
      BY HashmapAssumption DEF HashmapAssumption, Slots
    <3>5. \A i \in 0..D : Occupied(Probe(KeyOf(s), i))'
      <4> SUFFICES ASSUME NEW i \in 0..D PROVE Occupied(Probe(KeyOf(s), i))'
        OBVIOUS
      <4> DEFINE p == Probe(KeyOf(s), i)
      <4>1. p \in Slots /\ map[p] # 0
        BY <3>2, <3>3, <3>4, ProbeProperties DEF Occupied
      <4>2. Probe(KeyOf(s), i)' = p
        BY <3>1 DEF Probe
      <4> HIDE DEF p
      <4>3. map'[p] # 0
        BY <4>1, <1>4, <1>5
      <4> QED
        BY <4>2, <4>3 DEF Occupied
    <3> QED
      BY <3>1, <3>3, <3>5 DEF Reachable, Probe
  <2> QED
    BY <2>3, <2>4
<1> QED
  BY <1>7, <1>8, <1>9, <1>10 DEF IInv

(* The lookups leave the table alone, so only SearchInv can be disturbed. *)
LEMMA GetKeeps ==
  IInv /\ (\E t \in Threads : GetWait(t) \/ GetStep(t) \/ Use(t)) => IInv'
<1> SUFFICES ASSUME IInv, NEW t \in Threads, GetWait(t) \/ GetStep(t) \/ Use(t) PROVE IInv'
  OBVIOUS
<1>1. map' = map /\ size' = size /\ started' = started
  BY DEF GetStep, GetWait, GetHash, GetNext, GetPost, GetReturn, Use
<1>2. TableInv' /\ ChainsIntact'
  BY <1>1 DEF IInv, TableInv, ChainsIntact, Reachable, Occupied, KeyOf, Probe
<1>3. TypeOK
  BY DEF IInv
<1>4. Capacity \in Nat \ {0} /\ \A e \in Entries : Config[e] \in Hosts /\ Hash[Config[e]] \in Slots
  BY HashmapAssumption DEF HashmapAssumption, Entries
<1>5. \A s \in Slots : (s + 1) % Capacity \in Slots
  BY <1>4 DEF Slots
<1>6. \A u \in Threads : pc[u] = "probe" => in[u] \in Entries /\ Key(u) \in Hosts
  BY <1>4 DEF IInv, MainInv, Key
<1>7. CASE GetWait(t)
  <2>1. TypeOK' /\ MainInv' /\ LockInv'
    BY <1>3, <1>7, HashmapAssumption
       DEF IInv, TypeOK, MainInv, LockInv, GetWait, HashmapAssumption
  <2>2. SearchInv'
    BY <1>3, <1>7 DEF IInv, TypeOK, SearchInv, GetWait, Key, OnPath, Occupied, KeyOf, Probe, LockInv
  <2> QED
    BY <1>2, <2>1, <2>2 DEF IInv
<1>8. CASE GetHash(t)
  <2>1. in[t] \in Entries /\ started
    BY <1>8 DEF GetHash, IInv, MainInv
  <2>2. TypeOK' /\ MainInv' /\ LockInv'
    BY <1>3, <1>4, <1>8, <2>1 DEF IInv, TypeOK, MainInv, LockInv, GetHash, Key
  <2>3. OnPath(Key(t), hash')
    BY <1>8, <2>1, PathExists DEF GetHash, Key
  <2>4. Occupied(hash')
    BY <1>4, <2>1, <2>2, <2>3, PathAdvances DEF TypeOK, Key
  <2>5. \A u \in Threads : u # t => pc[u] # "probe"
    BY <1>8 DEF IInv, LockInv, GetHash
  <2>6. in' = in /\ result' = result /\ (\A u \in Threads : pc'[u] = IF u = t THEN "probe" ELSE pc[u])
    BY <1>3, <1>8 DEF TypeOK, GetHash
  <2>7. OnPath(Key(t), hash)'
    BY <1>1, <2>3, <2>6 DEF OnPath, Occupied, KeyOf, Key, Probe
  <2>8. Occupied(hash)'
    BY <1>1, <2>4 DEF Occupied
  <2>9. SearchInv'
    BY <2>5, <2>6, <2>7, <2>8 DEF IInv, SearchInv
  <2> QED
    BY <1>2, <2>2, <2>9 DEF IInv
<1>9. CASE GetNext(t)
  <2>1. TypeOK' /\ MainInv' /\ LockInv'
    BY <1>3, <1>5, <1>9 DEF IInv, TypeOK, MainInv, LockInv, GetNext
  <2>2. OnPath(Key(t), hash) /\ KeyOf(hash) # Key(t) /\ hash \in Slots
    BY <1>3, <1>9 DEF IInv, TypeOK, SearchInv, GetNext
  <2>3. OnPath(Key(t), hash')
    BY <1>6, <1>9, <2>2, PathAdvances DEF GetNext
  <2>4. Occupied(hash')
    BY <1>6, <1>9, <2>1, <2>3, PathAdvances DEF TypeOK, GetNext
  <2>5. \A u \in Threads : u # t => pc[u] # "probe"
    BY <1>9 DEF IInv, LockInv, GetNext
  <2>6. in' = in /\ result' = result /\ (\A u \in Threads : pc'[u] = IF u = t THEN "probe" ELSE pc[u])
    BY <1>3, <1>9 DEF TypeOK, GetNext
  <2>7. OnPath(Key(t), hash)'
    BY <1>1, <2>3, <2>6 DEF OnPath, Occupied, KeyOf, Key, Probe
  <2>8. Occupied(hash)'
    BY <1>1, <2>4 DEF Occupied
  <2>9. SearchInv'
    BY <2>5, <2>6, <2>7, <2>8 DEF IInv, SearchInv
  <2> QED
    BY <1>2, <2>1, <2>9 DEF IInv
<1>10. CASE GetPost(t)
  <2>1. Occupied(hash)
    BY <1>3, <1>6, <1>10, PathAdvances DEF IInv, TypeOK, SearchInv, GetPost
  <2>2. TypeOK' /\ MainInv' /\ LockInv'
    BY <1>3, <1>10, <2>1, HashmapAssumption
       DEF IInv, TypeOK, MainInv, LockInv, GetPost, HashmapAssumption
  <2>3. SearchInv'
    BY <1>1, <1>3, <1>10, <2>1
       DEF IInv, TypeOK, SearchInv, GetPost, Key, OnPath, Occupied, KeyOf, Probe
  <2> QED
    BY <1>2, <2>2, <2>3 DEF IInv
<1>11. CASE GetReturn(t)
  <2>1. Occupied(hash) /\ map[hash] \in Entries
    BY <1>3, <1>11 DEF IInv, TypeOK, SearchInv, GetReturn, Occupied
  <2>2. TypeOK' /\ MainInv' /\ LockInv'
    BY <1>3, <1>11, <2>1 DEF IInv, TypeOK, MainInv, LockInv, GetReturn
  <2>3. SearchInv'
    BY <1>1, <1>3, <1>11, <2>1
       DEF IInv, TypeOK, SearchInv, GetReturn, Key, OnPath, Occupied, KeyOf, Probe, Entries
  <2> QED
    BY <1>2, <2>2, <2>3 DEF IInv
<1>12. CASE Use(t)
  <2>1. TypeOK' /\ MainInv' /\ LockInv'
    BY <1>3, <1>12 DEF IInv, TypeOK, MainInv, LockInv, Use
  <2>2. SearchInv'
    BY <1>1, <1>3, <1>12 DEF IInv, TypeOK, SearchInv, Use, Key, OnPath, Occupied, KeyOf, Probe
  <2> QED
    BY <1>2, <2>1, <2>2 DEF IInv
<1> QED
  BY <1>7, <1>8, <1>9, <1>10, <1>11, <1>12 DEF GetStep

LEMMA StartKeeps == IInv /\ Start => IInv'
BY DEF IInv, Start, getVars, TypeOK, MainInv, LockInv, TableInv, ChainsIntact, SearchInv,
       Reachable, OnPath, Occupied, KeyOf, Key, Probe

LEMMA Inductive == IInv /\ [Next]_vars => IInv'
<1> SUFFICES ASSUME IInv, [Next]_vars PROVE IInv'
  OBVIOUS
<1>1. CASE UNCHANGED vars
  BY <1>1 DEF vars, IInv, TypeOK, MainInv, LockInv, TableInv, ChainsIntact, SearchInv,
              Reachable, OnPath, Occupied, KeyOf, Key, Probe
<1> QED
  BY <1>1, AddKeeps, StartKeeps, GetKeeps DEF Next

-----------------------------------------------------------------------------
(* The inductive invariant holds in every reachable state. *)
THEOREM HashmapInvariant == Spec => []IInv
BY InitInv, Inductive, PTL DEF Spec

(* hash.c keeps the types of its table and of the lookups' variables. *)
THEOREM HashmapTypeOK == Spec => []TypeOK
BY HashmapInvariant, PTL DEF IInv

(* No free slot ever separates an entry from the slot its key hashes to. *)
THEOREM HashmapChainsIntact == Spec => []ChainsIntact
BY HashmapInvariant, PTL DEF IInv

(* __hmap_get never returns NULL for a configured host, whatever the race. *)
THEOREM HashmapNeverNull == Spec => []NeverNull
<1>1. IInv => NeverNull
  BY DEF IInv, SearchInv, NeverNull
<1> QED
  BY <1>1, HashmapInvariant, PTL

(* The probe loop of __hmap_get ends on an entry of the key it looks up. *)
THEOREM HashmapStopsAtOwnKey == Spec => StopsAtOwnKey
<1> DEFINE A == \A t \in Threads : pc[t] = "probe" /\ pc'[t] # "probe" =>
                                     Occupied(hash) /\ KeyOf(hash) = Key(t)
<1>1. ASSUME IInv, Next PROVE A
  <2> SUFFICES ASSUME NEW t \in Threads, pc[t] = "probe", pc'[t] # "probe"
               PROVE  Occupied(hash) /\ KeyOf(hash) = Key(t)
    OBVIOUS
  <2>1. Occupied(hash)
    <3>1. Key(t) \in Hosts /\ hash \in Slots /\ OnPath(Key(t), hash)
      <4>1. in[t] \in Entries /\ \A e \in Entries : Config[e] \in Hosts
        BY <1>1, HashmapAssumption DEF IInv, MainInv, HashmapAssumption, Entries
      <4> QED
        BY <1>1, <4>1 DEF IInv, TypeOK, SearchInv, Key
    <3> QED
      BY <3>1, PathAdvances
  <2>2. PICK u \in Threads : GetWait(u) \/ GetStep(u) \/ Use(u)
    BY <1>1 DEF Next, Add, Start, getVars
  <2>3. pc \in [Threads -> {"idle", "hash", "probe", "return", "done"}]
    BY <1>1 DEF IInv, TypeOK
  <2>4. u = t
    BY <2>2, <2>3 DEF GetStep, GetWait, GetHash, GetNext, GetPost, GetReturn, Use
  <2>5. GetPost(t)
    BY <2>2, <2>3, <2>4 DEF GetStep, GetWait, GetHash, GetNext, GetReturn, Use
  <2> QED
    BY <2>1, <2>5 DEF GetPost
<1>2. IInv /\ [Next]_vars => [A]_vars
  BY <1>1
<1> QED
  BY <1>2, HashmapInvariant, PTL DEF Spec, StopsAtOwnKey

(***************************************************************************)
(* While __hmap_get probes, no thread moves the shared position but one    *)
(* slot towards the key: a lookup of a configured host ends.               *)
(***************************************************************************)
THEOREM HashmapSearchApproaches == Spec => SearchApproaches
<1> DEFINE Closer(t) == /\ Hits(Key(t), hash) # {}
                        /\ hash' = hash \/ ToGo(Key(t), hash)' = ToGo(Key(t), hash) - 1
           A == \A t \in Threads : pc[t] = "probe" /\ pc'[t] = "probe" => Closer(t)
<1>1. ASSUME IInv, Next PROVE A
  <2> SUFFICES ASSUME NEW t \in Threads, pc[t] = "probe", pc'[t] = "probe"
               PROVE  Closer(t)
    OBVIOUS
  <2>1. Key(t) \in Hosts /\ hash \in Slots /\ OnPath(Key(t), hash)
    <3>1. in[t] \in Entries /\ \A e \in Entries : Config[e] \in Hosts
      BY <1>1, HashmapAssumption DEF IInv, MainInv, HashmapAssumption, Entries
    <3> QED
      BY <1>1, <3>1 DEF IInv, TypeOK, SearchInv, Key
  <2>2. Hits(Key(t), hash) # {}
    BY <2>1, PathHits
  <2>3. PICK u \in Threads : GetWait(u) \/ GetStep(u) \/ Use(u)
    BY <1>1 DEF Next, Add, Start, getVars, IInv, MainInv
  <2>4. lock = t
    BY <1>1 DEF IInv, LockInv
  <2>5. CASE GetNext(u)
    <3>1. u = t
      BY <1>1, <2>4, <2>5 DEF IInv, LockInv, GetNext
    <3>2. KeyOf(hash) # Key(t) /\ hash' = (hash + 1) % Capacity /\ in' = in /\ map' = map
      BY <2>5, <3>1 DEF GetNext
    <3>3. ToGo(Key(t), (hash + 1) % Capacity) = ToGo(Key(t), hash) - 1
      BY <2>1, <2>2, <3>2, OneCloser
    <3>4. ToGo(Key(t), hash)' = ToGo(Key(t), hash')
      BY <3>2 DEF ToGo, Hits, Occupied, KeyOf, Key
    <3>5. ToGo(Key(t), hash') = ToGo(Key(t), (hash + 1) % Capacity)
      BY <3>2
    <3> QED
      BY <2>2, <3>3, <3>4, <3>5
  <2>6. CASE ~GetNext(u)
    <3>1. ~GetHash(u)
      BY <1>1, <2>4 DEF IInv, LockInv, GetHash
    <3>2. hash' = hash
      BY <2>3, <2>6, <3>1 DEF GetStep, GetWait, GetPost, GetReturn, Use
    <3> QED
      BY <2>2, <3>2
  <2> QED
    BY <2>5, <2>6
<1>2. IInv /\ [Next]_vars => [A]_vars
  BY <1>1
<1> QED
  BY <1>2, HashmapInvariant, PTL DEF Spec, SearchApproaches

-----------------------------------------------------------------------------
(* What the wrong session needs *)

(* Nobody moves the position between a sem_post and the return after it. *)
Undisturbed == hash' # hash => \A t \in Threads : pc[t] # "return"

ValueInv ==
  \A t \in Threads :
    /\ pc[t] = "return" => KeyOf(hash) = Key(t)
    /\ pc[t] = "done" => Config[result[t]] = Key(t)

LEMMA ValueStep == IInv /\ ValueInv /\ [Next]_vars /\ [Undisturbed]_vars => ValueInv'
<1> SUFFICES ASSUME IInv, ValueInv, [Next]_vars, [Undisturbed]_vars PROVE ValueInv'
  OBVIOUS
<1>0. TypeOK
  BY DEF IInv
<1>1. CASE UNCHANGED vars
  BY <1>1 DEF vars, ValueInv, KeyOf, Key
<1>2. CASE Add \/ Start
  <2>1. \A t \in Threads : pc[t] = "idle" /\ pc'[t] = "idle"
    BY <1>2 DEF Add, Start, getVars, IInv, MainInv
  <2> QED
    BY <2>1 DEF ValueInv
<1>3. ASSUME NEW u \in Threads, GetWait(u) \/ GetStep(u) \/ Use(u) PROVE ValueInv'
  <2> SUFFICES ASSUME NEW t \in Threads
               PROVE  /\ pc'[t] = "return" => KeyOf(hash)' = Key(t)'
                      /\ pc'[t] = "done" => Config[result'[t]] = Key(t)'
    BY DEF ValueInv
  <2>1. map' = map
    BY <1>3 DEF GetStep, GetWait, GetHash, GetNext, GetPost, GetReturn, Use
  <2>2. CASE t # u
    <3>1. pc'[t] = pc[t] /\ in'[t] = in[t] /\ result'[t] = result[t]
      BY <1>0, <1>3, <2>2 DEF TypeOK, GetStep, GetWait, GetHash, GetNext, GetPost, GetReturn, Use
    <3>2. pc[t] = "return" => hash' = hash
      BY DEF Undisturbed, vars
    <3> QED
      BY <2>1, <3>1, <3>2 DEF ValueInv, KeyOf, Key
  <2>3. CASE t = u
    <3>1. CASE GetPost(u)
      <4>1. Occupied(hash)
        <5>1. Key(u) \in Hosts /\ hash \in Slots /\ OnPath(Key(u), hash)
          <6>1. in[u] \in Entries /\ \A e \in Entries : Config[e] \in Hosts
            BY <3>1, HashmapAssumption DEF GetPost, IInv, MainInv, HashmapAssumption, Entries
          <6> QED
            BY <1>0, <3>1, <6>1 DEF IInv, TypeOK, SearchInv, Key, GetPost
        <5> QED
          BY <5>1, PathAdvances
      <4> QED
        BY <1>0, <2>1, <2>3, <3>1, <4>1 DEF TypeOK, GetPost, KeyOf, Key
    <3>2. CASE GetReturn(u)
      BY <1>0, <2>3, <3>2 DEF TypeOK, GetReturn, ValueInv, KeyOf, Key
    <3>3. CASE GetWait(u) \/ GetHash(u) \/ GetNext(u) \/ Use(u)
      <4>1. pc'[t] \in {"hash", "probe", "idle"}
        BY <1>0, <2>3, <3>3 DEF TypeOK, GetWait, GetHash, GetNext, Use
      <4> QED
        BY <4>1
    <3> QED
      BY <1>3, <3>1, <3>2, <3>3 DEF GetStep
  <2> QED
    BY <2>2, <2>3
<1> QED
  BY <1>1, <1>2, <1>3 DEF Next

(***************************************************************************)
(* ReturnsYourValue fails for one reason only: in every behaviour in which *)
(* no thread moves the position while another stands between sem_post and  *)
(* its return, __hmap_get returns the value of its key.                    *)
(***************************************************************************)
THEOREM HashmapReturnsUndisturbed == Spec /\ [][Undisturbed]_vars => []ReturnsYourValue
<1>1. Init => ValueInv
  BY DEF Init, ValueInv
<1>2. IInv /\ ValueInv => ReturnsYourValue
  BY DEF ValueInv, ReturnsYourValue
<1> QED
  BY <1>1, <1>2, ValueStep, HashmapInvariant, PTL DEF Spec
=============================================================================
