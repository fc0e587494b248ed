------------------------------- MODULE Hashmap -------------------------------
(***************************************************************************)
(* hash.c as the server uses it: main logs in to every XenServer of        *)
(* config.json and stores the session under the host name, then starts the *)
(* periodical_* threads, which look sessions up.                           *)
(*                                                                         *)
(* The table is open addressed with linear probing, guarded by the         *)
(* semaphore of HMAP_THREAD_SAFE builds (the Makefile builds no other).    *)
(* The probe position of __hmap_get is a `static uint32_t hash`: one       *)
(* variable for all threads, which the return statement reads once more    *)
(* AFTER sem_post (the compiled server reloads it there too).              *)
(***************************************************************************)
EXTENDS Integers, Sequences

CONSTANTS Threads,   \* the periodical_* threads
          Hosts,     \* host names
          Config,    \* the host of each entry of config.json, in order
          Capacity,  \* HMAP_PRESET_SIZE
          Hash,      \* str_hash_fn(host) % capacity
          NULL       \* no thread

Slots == 0..Capacity-1

(***************************************************************************)
(* parse_config_json has room for 512 hosts and the table for 2 << 23      *)
(* entries, so the load test of __hmap_add (more than 0.70) never holds    *)
(* and the growth branch is never entered.                                 *)
(***************************************************************************)
ASSUME HashmapAssumption ==
  /\ Capacity \in Nat \ {0}
  /\ Config \in Seq(Hosts)
  /\ Hash \in [Hosts -> Slots]
  /\ 10 * Len(Config) <= 7 * Capacity
  /\ NULL \notin Threads

VARIABLES map,     \* the entry of Config whose session a slot holds, 0 if v is NULL
          size,    \* hmap->size
          started, \* main has created the threads
          lock,    \* the thread inside the semaphore, or NULL
          hash,    \* static uint32_t hash of __hmap_get
          pc,      \* per thread: the next statement
          in,      \* per thread: the entry of Config whose host it looks up, or 0
          result   \* per thread: the entry whose session __hmap_get returned, 0 for NULL

vars == <<map, size, started, lock, hash, pc, in, result>>
getVars == <<lock, hash, pc, in, result>>

Entries == 1..Len(Config)

TypeOK ==
  /\ map \in [Slots -> Entries \union {0}]
  /\ size \in 0..Len(Config)
  /\ started \in BOOLEAN
  /\ lock \in Threads \union {NULL}
  /\ hash \in Slots
  /\ pc \in [Threads -> {"idle", "hash", "probe", "return", "done"}]
  /\ in \in [Threads -> Entries \union {0}]
  /\ result \in [Threads -> Entries \union {0}]

(* mk_hmap: calloc, so every v is NULL; and the static hash is 0. *)
Init ==
  /\ map = [s \in Slots |-> 0]
  /\ size = 0
  /\ started = FALSE
  /\ lock = NULL
  /\ hash = 0
  /\ pc = [t \in Threads |-> "idle"]
  /\ in = [t \in Threads |-> 0]
  /\ result = [t \in Threads |-> 0]

(* The d-th slot that a search for host looks at. *)
Probe(host, d) == (Hash[host] + d) % Capacity

Occupied(s) == map[s] # 0
KeyOf(s) == Config[map[s]]
Key(t) == Config[in[t]]

-----------------------------------------------------------------------------
(* A broken variant of Add: the first free slot of the table, not of the chain. *)
AddAnywhere ==
  /\ ~started
  /\ size < Len(Config)
  /\ \E s \in Slots :
       /\ \A i \in 0..s-1 : Occupied(i)
       /\ ~Occupied(s)
       /\ map' = [map EXCEPT ![s] = size + 1]
  /\ size' = size + 1
  /\ UNCHANGED <<started, getVars>>

(* main, still alone: __hmap_add of the next host of config.json.  The key *)
(* goes to the first free slot, whether or not it is in the table already. *)
Add ==
  /\ ~started
  /\ size < Len(Config)
  /\ LET host == Config[size + 1]
     IN \E d \in Slots :
          /\ \A i \in 0..d-1 : Occupied(Probe(host, i))
          /\ ~Occupied(Probe(host, d))
          /\ map' = [map EXCEPT ![Probe(host, d)] = size + 1]
  /\ size' = size + 1
  /\ UNCHANGED <<started, getVars>>

Start ==
  /\ ~started
  /\ size = Len(Config)
  /\ started' = TRUE
  /\ UNCHANGED <<map, size, getVars>>

-----------------------------------------------------------------------------
(* __hmap_get, called by a periodical thread for a host of its list *)

(* A broken variant of GetWait: no sem_wait. *)
GetWaitUnlocked(t) ==
  /\ started
  /\ pc[t] = "idle"
  /\ lock' = t
  /\ \E e \in Entries : in' = [in EXCEPT ![t] = e]
  /\ pc' = [pc EXCEPT ![t] = "hash"]
  /\ UNCHANGED <<map, size, started, hash, result>>

GetWait(t) ==
  /\ started
  /\ pc[t] = "idle"
  /\ lock = NULL
  /\ lock' = t
  /\ \E e \in Entries : in' = [in EXCEPT ![t] = e]
  /\ pc' = [pc EXCEPT ![t] = "hash"]
  /\ UNCHANGED <<map, size, started, hash, result>>

GetHash(t) ==
  /\ pc[t] = "hash"
  /\ hash' = Hash[Key(t)]
  /\ pc' = [pc EXCEPT ![t] = "probe"]
  /\ UNCHANGED <<map, size, started, lock, in, result>>

(* Broken variants of GetNext: the end of the table is not its beginning, *)
GetNextPastEnd(t) ==
  /\ pc[t] = "probe"
  /\ Occupied(hash)
  /\ KeyOf(hash) # Key(t)
  /\ hash' = hash + 1
  /\ UNCHANGED <<map, size, started, lock, pc, in, result>>

(* lookups probe otherwise than insertions, *)
GetNextSkips(t) ==
  /\ pc[t] = "probe"
  /\ Occupied(hash)
  /\ KeyOf(hash) # Key(t)
  /\ hash' = (hash + 2) % Capacity
  /\ UNCHANGED <<map, size, started, lock, pc, in, result>>

(* or the position does not advance. *)
GetNextStays(t) ==
  /\ pc[t] = "probe"
  /\ Occupied(hash)
  /\ KeyOf(hash) # Key(t)
  /\ hash' = hash
  /\ UNCHANGED <<map, size, started, lock, pc, in, result>>

GetNext(t) ==
  /\ pc[t] = "probe"
  /\ Occupied(hash)
  /\ KeyOf(hash) # Key(t)
  /\ hash' = (hash + 1) % Capacity
  /\ UNCHANGED <<map, size, started, lock, pc, in, result>>

(***************************************************************************)
(* The loop ends: sem_post.  On an entry of the key the value is still to  *)
(* be read; on a free slot the key is not in the table, and NULL returned. *)
(***************************************************************************)
GetPost(t) ==
  /\ pc[t] = "probe"
  /\ Occupied(hash) => KeyOf(hash) = Key(t)
  /\ lock' = NULL
  /\ pc' = [pc EXCEPT ![t] = IF Occupied(hash) THEN "return" ELSE "done"]
  /\ UNCHANGED <<map, size, started, hash, in, result>>

(* return hmap->map[hash].v, with the hash of this moment. *)
GetReturn(t) ==
  /\ pc[t] = "return"
  /\ result' = [result EXCEPT ![t] = map[hash]]
  /\ pc' = [pc EXCEPT ![t] = "done"]
  /\ UNCHANGED <<map, size, started, lock, hash, in>>

(* The caller has used the session and comes back for another host. *)
Use(t) ==
  /\ pc[t] = "done"
  /\ pc' = [pc EXCEPT ![t] = "idle"]
  /\ in' = [in EXCEPT ![t] = 0]
  /\ result' = [result EXCEPT ![t] = 0]
  /\ UNCHANGED <<map, size, started, lock, hash>>

-----------------------------------------------------------------------------
GetStep(t) ==
  GetHash(t) \/ GetNext(t) \/ GetPost(t) \/ GetReturn(t)

Next ==
  \/ Add
  \/ Start
  \/ \E t \in Threads : GetWait(t) \/ GetStep(t) \/ Use(t)

(* A lookup under way goes on: the scheduler runs every runnable thread. *)
Fairness == \A t \in Threads : WF_vars(GetStep(t))

Spec == Init /\ [][Next]_vars
FairSpec == Spec /\ Fairness

-----------------------------------------------------------------------------
(* Properties *)

(***************************************************************************)
(* Linear probing loses no key: from the slot a key hashes to, around the  *)
(* end of the table, up to the slot it was stored in, no slot is free.     *)
(***************************************************************************)
Reachable(s) ==
  \E d \in Slots :
    /\ Probe(KeyOf(s), d) = s
    /\ \A i \in 0..d : Occupied(Probe(KeyOf(s), i))

ChainsIntact == \A s \in Slots : Occupied(s) => Reachable(s)

(***************************************************************************)
(* The position at which a lookup stops is an entry of its own key: what   *)
(* __hmap_get would return if it read the value before sem_post.           *)
(***************************************************************************)
StopsAtOwnKey ==
  [][\A t \in Threads : pc[t] = "probe" /\ pc'[t] # "probe" => Occupied(hash) /\ KeyOf(hash) = Key(t)]_vars

(***************************************************************************)
(* How many slots a search for host that is at s has still to pass.  While *)
(* a search runs, every step of whichever thread leaves the shared         *)
(* position alone or moves it one slot closer: no other search moves it,   *)
(* none steps over the entry, and so the loop ends.                        *)
(***************************************************************************)
Hits(host, s) ==
  {n \in Slots : LET at == (s + n) % Capacity IN Occupied(at) /\ KeyOf(at) = host}

ToGo(host, s) == CHOOSE n \in Hits(host, s) : \A m \in Hits(host, s) : n <= m

SearchApproaches ==
  [][\A t \in Threads :
       pc[t] = "probe" /\ pc'[t] = "probe" =>
         /\ Hits(Key(t), hash) # {}
         /\ hash' = hash \/ ToGo(Key(t), hash)' = ToGo(Key(t), hash) - 1]_vars

(***************************************************************************)
(* A configured host is never reported absent, in spite of the shared      *)
(* position: the callers dereference the session without a test, so a NULL *)
(* would be a crash.                                                       *)
(***************************************************************************)
NeverNull == \A t \in Threads : pc[t] = "done" => result[t] # 0

(* A lookup ends: probing does not go round the table forever. *)
GetReturns == \A t \in Threads : pc[t] = "hash" ~> pc[t] = "done"

(***************************************************************************)
(* hash.h: "retrieve a value using a given key from the hashmap; returns   *)
(* your value if successful": the session returned was stored under the    *)
(* key that was looked up.                                                 *)
(***************************************************************************)
ReturnsYourValue ==
  \A t \in Threads : pc[t] = "done" /\ result[t] # 0 => Config[result[t]] = Key(t)
=============================================================================
