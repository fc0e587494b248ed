-------------------------- MODULE PeriodicalProofs --------------------------
(***************************************************************************)
(* Proofs about Periodical, for any threads, configuration and table: the  *)
(* composition uses the table as module Hashmap says, so the invariant of  *)
(* HashmapProofs holds of it; with that and with an invariant that ties    *)
(* the pointers of main and of the threads to what has been done, every    *)
(* round is complete and every lookup comes after its login.               *)
(***************************************************************************)
EXTENDS Periodical, TLAPS

HP == INSTANCE HashmapProofs

(***************************************************************************)
(* Every step of main and of the threads is a step of the table, or leaves *)
(* it alone.                                                               *)
(***************************************************************************)
LEMMA TableStep == [Next]_vars => [HM!Next]_(HM!vars)
<1> SUFFICES ASSUME [Next]_vars PROVE HM!Next \/ UNCHANGED hashmapVars
  BY DEF HM!vars, hashmapVars
<1>1. CASE Login
  BY <1>1 DEF Login, HM!Next
<1>2. CASE Spawn
  BY <1>2 DEF Spawn, HM!Next
<1>3. CASE MongoConnect \/ ParseConfig \/ ParseConfigCrashes \/ LoggedIn \/ SpawnFails \/ Serve
  BY <1>3 DEF MongoConnect, ParseConfig, ParseConfigCrashes, LoggedIn, SpawnFails, Serve
<1>4. ASSUME NEW t \in Threads, Lookup(t) \/ LookupStep(t) \/ AddJob(t)
      PROVE  HM!Next
  BY <1>4 DEF Lookup, LookupStep, AddJob, HM!Next
<1>5. ASSUME NEW t \in Threads, CopyHosts(t) \/ EndRound(t) \/ Wake(t)
      PROVE  UNCHANGED hashmapVars
  BY <1>5 DEF CopyHosts, EndRound, Wake
<1>6. CASE UNCHANGED vars
  BY <1>6 DEF vars
<1> QED
  BY <1>1, <1>2, <1>3, <1>4, <1>5, <1>6 DEF Next, MainStep, OwnStep

(* The table of module Hashmap is the one that HashmapProofs is about. *)
LEMMA SameTable ==
  /\ HM!Init => HP!Init
  /\ [HM!Next]_(HM!vars) => [HP!Next]_(HP!vars)
BY Zenon DEF
     HM!Init, HP!Init, HM!Next, HP!Next, HM!vars, HP!vars, HM!Slots,
     HP!Slots, HM!Entries, HP!Entries, HM!Occupied, HP!Occupied,
     HM!KeyOf, HP!KeyOf, HM!Key, HP!Key, HM!Probe, HP!Probe, HM!Add,
     HP!Add, HM!Start, HP!Start, HM!GetWait, HP!GetWait, HM!GetHash,
     HP!GetHash, HM!GetNext, HP!GetNext, HM!GetPost, HP!GetPost,
     HM!GetReturn, HP!GetReturn, HM!Use, HP!Use, HM!GetStep,
     HP!GetStep, HM!getVars, HP!getVars

LEMMA TableInvariant == Spec => []HP!IInv
<1>1. Init => HP!Init
  BY SameTable DEF Init
<1>2. [Next]_vars => [HP!Next]_(HP!vars)
  BY TableStep, SameTable
<1>0. HP!HashmapAssumption
  BY PeriodicalAssumption, TableAssumption DEF HP!HashmapAssumption, HP!Slots, Threads
<1>3. HP!Spec => []HP!IInv
  BY <1>0, HP!HashmapInvariant DEF HP!HashmapAssumption
<1> QED
  BY <1>1, <1>2, <1>3, PTL DEF Spec, HP!Spec

-----------------------------------------------------------------------------
N == Len(Config)
Upto(n) == [i \in 1..n |-> i]

(* Where main's pointer is, and how far the table is filled. *)
MainInv ==
  /\ main \in {"connect", "config"} => hosts = 0 /\ size = 0
  /\ main = "login" => hosts = size
  /\ main \in {"threads", "serve"} => hosts = 0 /\ size = N
  /\ main \in {"connect", "config", "login"} => ~started
  /\ ~started => spawned = 0

(* Where the pointer of a thread is, and what it has added. *)
ThreadInv ==
  \A t \in Threads :
    /\ todo[t] # "new" => started
    /\ todo[t] \in {"new", "sleep"} => copy[t] = 0
    /\ todo[t] \in {"scan", "get"} => round[t] = Upto(copy[t])
    /\ todo[t] = "get" => copy[t] < N
    /\ todo[t] = "sleep" => round[t] = Upto(N)
    /\ todo[t] = "new" => round[t] = <<>>

PInv == TypeOK /\ MainInv /\ ThreadInv

LEMMA ConfigFacts ==
  /\ N \in Nat \ {0}
  /\ \A i \in 0..N : Hostname(i) = NULL <=> i = N
BY PeriodicalAssumption DEF N, Hostname

LEMMA UptoFacts ==
  ASSUME NEW n \in 0..N
  PROVE  /\ Upto(n) \in Seq(1..N)
         /\ Len(Upto(n)) = n
         /\ Upto(0) = <<>>
         /\ n < N => Append(Upto(n), n + 1) = Upto(n + 1)
<1>1. N \in Nat
  BY ConfigFacts
<1>2. Upto(n) \in Seq(1..N) /\ Len(Upto(n)) = n
  BY <1>1 DEF Upto
<1>3. Upto(0) = <<>>
  BY DEF Upto
<1>4. ASSUME n < N PROVE Append(Upto(n), n + 1) = Upto(n + 1)
  BY <1>1, <1>2, <1>4 DEF Upto
<1> QED
  BY <1>2, <1>3, <1>4

LEMMA UptoNext ==
  \A n \in 0..N : n < N => n + 1 \in 0..N /\ Append(Upto(n), n + 1) = Upto(n + 1)
<1> SUFFICES ASSUME NEW n \in 0..N, n < N
             PROVE  n + 1 \in 0..N /\ Append(Upto(n), n + 1) = Upto(n + 1)
  OBVIOUS
<1>1. n + 1 \in 0..N
  BY ConfigFacts
<1>2. Append(Upto(n), n + 1) = Upto(n + 1)
  BY UptoFacts
<1> QED
  BY <1>1, <1>2

LEMMA UptoZero == Upto(0) = <<>>
BY DEF Upto

LEMMA PInit == Init => PInv
<1> SUFFICES ASSUME Init PROVE PInv
  OBVIOUS
<1>1. size = 0 /\ started = FALSE
  BY DEF Init, HM!Init
<1>2. TypeOK
  <2>1. N \in Nat /\ Len(Config) = N
    BY ConfigFacts DEF N
  <2>2. Len(Periods) \in Nat
    BY PeriodicalAssumption
  <2>3. <<>> \in Seq(1..N)
    OBVIOUS
  <2>4. copy \in [Threads -> 0..N]
    BY <2>1 DEF Init
  <2>5. round \in [Threads -> Seq(1..N)]
    BY <2>3 DEF Init
  <2>6. todo \in [Threads -> {"new", "scan", "get", "sleep"}]
    BY DEF Init
  <2>7. main = "connect" /\ spawned = 0 /\ hosts = 0 /\ dead = FALSE
    BY Zenon DEF Init
  <2>8. 0 \in 0..Len(Periods) /\ 0 \in 0..N
    BY <2>1, <2>2
  <2> QED
    BY <2>1, <2>4, <2>5, <2>6, <2>7, <2>8, Zenon DEF TypeOK
<1>3. MainInv
  BY <1>1 DEF Init, MainInv
<1>4. ThreadInv
  BY DEF Init, ThreadInv
<1> QED
  BY <1>2, <1>3, <1>4 DEF PInv

LEMMA MainKeeps == PInv /\ HP!TypeOK /\ MainStep => PInv'
<1> SUFFICES ASSUME PInv, HP!TypeOK, MainStep PROVE PInv'
  OBVIOUS
<1> USE ConfigFacts DEF PInv, TypeOK, MainInv, ThreadInv
<1> size \in 0..N
  BY DEF HP!TypeOK, N
<1> Len(Config) = N
  BY DEF N
<1>1. CASE MongoConnect
  BY <1>1 DEF MongoConnect, hashmapVars, threadVars
<1>2. CASE ParseConfig
  BY <1>2 DEF ParseConfig, hashmapVars, threadVars
<1>3. CASE ParseConfigCrashes
  BY <1>3 DEF ParseConfigCrashes, hashmapVars, mainVars, threadVars
<1>4. CASE Login
  <2>1. size' = size + 1 /\ size < N /\ started' = started
    BY <1>4 DEF Login, HM!Add, HM!getVars
  <2> QED
    BY <1>4, <2>1 DEF Login, threadVars
<1>5. CASE LoggedIn
  <2>1. hosts = N
    BY <1>5 DEF LoggedIn
  <2> QED
    BY <1>5, <2>1 DEF LoggedIn, hashmapVars, threadVars
<1>6. CASE Spawn
  <2>1. started' /\ size' = size
    BY <1>6 DEF Spawn, HM!Start, hashmapVars
  <2> QED
    BY <1>6, <2>1, PeriodicalAssumption DEF Spawn, threadVars
<1>7. CASE SpawnFails
  BY <1>7 DEF SpawnFails, hashmapVars, mainVars, threadVars
<1>8. CASE Serve
  BY <1>8 DEF Serve, hashmapVars, threadVars
<1> QED
  BY <1>1, <1>2, <1>3, <1>4, <1>5, <1>6, <1>7, <1>8 DEF MainStep

LEMMA ThreadKeeps ==
  ASSUME NEW t \in Threads, PInv, OwnStep(t) \/ Lookup(t)
  PROVE  PInv'
<1> USE ConfigFacts DEF PInv, TypeOK, MainInv, ThreadInv
<1> Len(Config) = N
  BY DEF N
<1>1. CASE CopyHosts(t)
  <2>1. started
    BY <1>1, PeriodicalAssumption DEF CopyHosts, Goto, Running
  <2>2. hosts = 0
    BY <2>1
  <2> QED
    BY <1>1, <2>1, <2>2, UptoFacts DEF CopyHosts, Goto, hashmapVars, mainVars
<1>2. CASE LookupStep(t)
  <2>1. UNCHANGED <<size, started>>
    BY <1>2 DEF LookupStep, HM!GetStep, HM!GetHash, HM!GetNext, HM!GetPost, HM!GetReturn
  <2> QED
    BY <1>2, <2>1 DEF LookupStep, mainVars, threadVars
<1>3. CASE AddJob(t)
  <2>1. UNCHANGED <<size, started>>
    BY <1>3 DEF AddJob, HM!Use
  <2>2. copy[t] \in 0..N /\ copy[t] < N /\ round[t] = Upto(copy[t])
    BY <1>3 DEF AddJob, Goto
  <2> DEFINE c == copy[t]
  <2>8. N \in Nat
    BY ConfigFacts
  <2>6. c + 1 \in 0..N /\ Append(Upto(c), c + 1) = Upto(c + 1)
    BY <2>2, <2>8, UptoNext
  <2>7. round'[t] = Append(Upto(c), c + 1) /\ copy'[t] = c + 1
    BY <1>3, <2>2 DEF AddJob
  <2>3. round'[t] = Upto(copy'[t]) /\ copy'[t] = c + 1 /\ copy'[t] \in 0..N
    BY <2>6, <2>7
  <2>4. round'[t] \in Seq(1..N)
    BY <2>3, UptoFacts
  <2>5. dead' \in BOOLEAN
    BY <1>3 DEF AddJob
  <2> QED
    BY <1>3, <2>1, <2>3, <2>4, <2>5 DEF AddJob, Goto, mainVars
<1>4. CASE EndRound(t)
  <2>1. copy[t] = N
    BY <1>4 DEF EndRound, Goto
  <2> QED
    BY <1>4, <2>1 DEF EndRound, Goto, hashmapVars, mainVars
<1>5. CASE Wake(t)
  <2>1. <<>> \in Seq(1..N)
    OBVIOUS
  <2>2. copy[t] = 0
    BY <1>5 DEF Wake, Goto
  <2> QED
    BY <1>5, <2>1, <2>2, UptoZero DEF Wake, Goto, hashmapVars, mainVars
<1>6. CASE Lookup(t)
  <2>1. UNCHANGED <<size, started>> /\ copy[t] < N
    BY <1>6 DEF Lookup, Goto, HM!GetWait
  <2> QED
    BY <1>6, <2>1 DEF Lookup, Goto, mainVars
<1> QED
  BY <1>1, <1>2, <1>3, <1>4, <1>5, <1>6 DEF OwnStep

THEOREM PeriodicalInvariant == Spec => [](PInv /\ HP!IInv)
<1>1. PInv /\ HP!IInv /\ [Next]_vars => PInv'
  <2> SUFFICES ASSUME PInv, HP!IInv, [Next]_vars PROVE PInv'
    OBVIOUS
  <2>1. CASE MainStep
    BY <2>1, MainKeeps DEF HP!IInv
  <2>2. ASSUME NEW t \in Threads, OwnStep(t) \/ Lookup(t) PROVE PInv'
    BY <2>2, ThreadKeeps
  <2>3. CASE UNCHANGED vars
    BY <2>3 DEF vars, hashmapVars, mainVars, threadVars, PInv, TypeOK, MainInv, ThreadInv
  <2> QED
    BY <2>1, <2>2, <2>3 DEF Next
<1> QED
  BY PInit, TableInvariant, <1>1, PTL DEF Spec

(* The pointers stay in the array of hosts. *)
THEOREM PeriodicalTypeOK == Spec => []TypeOK
<1>1. PInv => TypeOK
  BY DEF PInv
<1> QED
  BY <1>1, PeriodicalInvariant, PTL

(* A thread goes to sleep only when it has added a job for every host. *)
THEOREM PeriodicalRoundComplete == Spec => []RoundComplete
<1>1. PInv => RoundComplete
  BY DEF PInv, ThreadInv, RoundComplete, Upto, N
<1> QED
  BY <1>1, PeriodicalInvariant, PTL

(* The session that a thread looks up has been stored. *)
THEOREM PeriodicalLookupAfterLogin == Spec => []LookupAfterLogin
<1>1. PInv /\ HP!IInv => LookupAfterLogin
  <2> SUFFICES ASSUME PInv, HP!IInv, NEW t \in Threads, todo[t] = "get"
               PROVE  \E s \in HM!Slots : map[s] = copy[t] + 1
    BY DEF LookupAfterLogin
  <2>1. size = N /\ copy[t] + 1 \in 1..N
    BY ConfigFacts DEF PInv, TypeOK, MainInv, ThreadInv, N
  <2>2. \A e \in 1..size : \E s \in HP!Slots : map[s] = e
    BY DEF HP!IInv, HP!TableInv
  <2> QED
    BY <2>1, <2>2 DEF HM!Slots, HP!Slots
<1> QED
  BY <1>1, PeriodicalInvariant, PTL

(* For any threads, configuration and hash function, no thread crashes. *)
THEOREM PeriodicalNoThreadCrashes == Spec => NoThreadCrashes
<1> DEFINE A == \A t \in Threads : todo[t] = "get" /\ todo'[t] # "get" => ~dead'
<1>1. ASSUME PInv, HP!IInv, Next PROVE A
  <2> SUFFICES ASSUME NEW t \in Threads, todo[t] = "get", todo'[t] # "get" PROVE ~dead'
    OBVIOUS
  <2> USE DEF PInv, TypeOK
  <2>1. CASE AddJob(t)
    <3>1. pc[t] = "done" /\ dead' = (result[t] = 0)
      BY <2>1 DEF AddJob, HM!Use
    <3>2. result[t] # 0
      BY <1>1, <3>1 DEF HP!IInv, HP!SearchInv
    <3> QED
      BY <3>1, <3>2
  <2>2. ASSUME MainStep PROVE FALSE
    BY <2>2 DEF MainStep, MongoConnect, ParseConfig, ParseConfigCrashes, Login, LoggedIn, Spawn,
                SpawnFails, Serve, threadVars
  <2>3. ASSUME NEW u \in Threads, (OwnStep(u) \/ Lookup(u)), ~AddJob(t) PROVE FALSE
    <3>1. CASE u = t
      BY <1>1, <2>3, <3>1 DEF OwnStep, CopyHosts, LookupStep, AddJob, EndRound, Wake, Lookup, Goto, threadVars
    <3>2. CASE u # t
      BY <1>1, <2>3, <3>2 DEF OwnStep, CopyHosts, LookupStep, AddJob, EndRound, Wake, Lookup, Goto, threadVars
    <3> QED
      BY <3>1, <3>2
  <2> QED
    BY <1>1, <2>1, <2>2, <2>3 DEF Next
<1>2. PInv /\ HP!IInv /\ [Next]_vars => [A]_vars
  BY <1>1
<1> QED
  BY <1>2, PeriodicalInvariant, PTL DEF Spec, NoThreadCrashes
=============================================================================
