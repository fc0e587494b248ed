----------------------------- MODULE Periodical -----------------------------
(***************************************************************************)
(* How jobs come about: main (server.c) connects to MongoDB, reads         *)
(* config.json, logs in to every XenServer and starts the periodical_*     *)
(* threads (server_perf.c), which then add a job for every host, sleep,    *)
(* and start over.                                                         *)
(*                                                                         *)
(* main and the threads walk the array of hosts by moving the `hosts`      *)
(* pointer of an all_host_t up to the first NULL name, and set it back by  *)
(* subtracting `size`.  main moves the pointer that the threads copy.      *)
(* Pointers are offsets into the array.                                    *)
(*                                                                         *)
(* The sessions are in the table of module Hashmap, of which this module   *)
(* is the only user; its actions are taken from there.                     *)
(***************************************************************************)
EXTENDS Integers, Sequences, SequencesExt, FiniteSets

CONSTANTS Periods,        \* the periodical_* threads, in the order of creation
          Hosts,          \* host names
          Config,         \* the host of each entry of config.json, in order
          Capacity, Hash, \* of the hash table
          MAX_XEN_HOST,   \* the room in the array of hosts
          NULL

(***************************************************************************)
(* The name after the last host must be the NULL of calloc, so an entry of *)
(* the array must be left over.  With no host at all the threads copy an   *)
(* all_host_t of zero bytes; the behaviour is then undefined.              *)
(***************************************************************************)
ASSUME PeriodicalAssumption ==
  /\ Config \in Seq(Hosts)
  /\ Len(Config) \in 1..MAX_XEN_HOST - 1
  /\ MAX_XEN_HOST \in Nat
  /\ NULL \notin Hosts \union ToSet(Periods)
  /\ \A i, j \in DOMAIN Periods : Periods[i] = Periods[j] => i = j
  /\ Periods \in Seq(ToSet(Periods))

(* What module Hashmap assumes. *)
ASSUME TableAssumption ==
  /\ Capacity \in Nat \ {0}
  /\ Hash \in [Hosts -> 0..Capacity - 1]
  /\ 10 * Len(Config) <= 7 * Capacity

Threads == ToSet(Periods)

VARIABLES map, size, started, lock, hash, pc, in, result   \* see Hashmap

VARIABLES main,       \* what main does next
          spawned,    \* how many of Periods it has created
          hosts,      \* main's pointer: all_host_t.hosts
          copy,       \* per thread: copy_xen_hosts->hosts
          todo,       \* per thread: what it does next
          round,      \* per thread: the hosts it has added since it woke up
          dead        \* the process is gone: returned from main, or SIGSEGV

hashmapVars == <<map, size, started, lock, hash, pc, in, result>>
mainVars == <<main, spawned, hosts>>
threadVars == <<copy, todo, round>>
vars == <<hashmapVars, mainVars, threadVars, dead>>

HM == INSTANCE Hashmap

TypeOK ==
  /\ main \in {"connect", "config", "login", "threads", "serve"}
  /\ spawned \in 0..Len(Periods)
  /\ hosts \in 0..Len(Config)
  /\ copy \in [Threads -> 0..Len(Config)]
  /\ todo \in [Threads -> {"new", "scan", "get", "sleep"}]
  /\ round \in [Threads -> Seq(1..Len(Config))]
  /\ dead \in BOOLEAN

Init ==
  /\ HM!Init
  /\ main = "connect"
  /\ spawned = 0
  /\ hosts = 0
  /\ copy = [t \in Threads |-> 0]
  /\ todo = [t \in Threads |-> "new"]
  /\ round = [t \in Threads |-> <<>>]
  /\ dead = FALSE

(* The name at an offset of the array. *)
Hostname(i) == IF i < Len(Config) THEN Config[i + 1] ELSE NULL

-----------------------------------------------------------------------------
(* main *)

(***************************************************************************)
(* MongoConnect stores the result 0 whatever mongo_client returns, so main *)
(* carries on, connected or not.                                           *)
(***************************************************************************)
MongoConnect ==
  /\ main = "connect"
  /\ main' = "config"
  /\ UNCHANGED <<hashmapVars, spawned, hosts, threadVars, dead>>

(* parse_config; mk_hmap has made an empty table. *)
ParseConfig ==
  /\ main = "config"
  /\ main' = "login"
  /\ UNCHANGED <<hashmapVars, spawned, hosts, threadVars, dead>>

(* config.json is not JSON, or lacks a member: a NULL is dereferenced. *)
ParseConfigCrashes ==
  /\ main = "config"
  /\ dead' = TRUE
  /\ UNCHANGED <<hashmapVars, mainVars, threadVars>>

(* XenLogin, and its session into the table under the host's name *)
Login ==
  /\ main = "login"
  /\ Hostname(hosts) # NULL
  /\ HM!Add
  /\ hosts' = hosts + 1
  /\ UNCHANGED <<main, spawned, threadVars, dead>>

(* A broken variant of LoggedIn: the pointer is not set back. *)
LoggedInAtEnd ==
  /\ main = "login"
  /\ Hostname(hosts) = NULL
  /\ main' = "threads"
  /\ UNCHANGED <<hashmapVars, spawned, hosts, threadVars, dead>>

(* After the last host: set the pointer back, and Initialize_Queue. *)
LoggedIn ==
  /\ main = "login"
  /\ Hostname(hosts) = NULL
  /\ main' = "threads"
  /\ hosts' = hosts - Len(Config)
  /\ UNCHANGED <<hashmapVars, spawned, threadVars, dead>>

(* A broken variant of Spawn: the threads are created before the logins. *)
SpawnEarly ==
  /\ main \in {"login", "threads"}
  /\ spawned < Len(Periods)
  /\ spawned' = spawned + 1
  /\ started' = TRUE
  /\ UNCHANGED <<map, size, lock, hash, pc, in, result>>
  /\ UNCHANGED <<main, hosts, threadVars, dead>>

(* pthread_create of the next periodical_* thread *)
Spawn ==
  /\ main = "threads"
  /\ spawned < Len(Periods)
  /\ spawned' = spawned + 1
  /\ IF started THEN UNCHANGED hashmapVars ELSE HM!Start
  /\ UNCHANGED <<main, hosts, threadVars, dead>>

(* pthread_create or bind_socket fails: main returns -1. *)
SpawnFails ==
  /\ main = "threads"
  /\ dead' = TRUE
  /\ UNCHANGED <<hashmapVars, mainVars, threadVars>>

(* The getters and the HTTP threads run, and main waits for the latter. *)
Serve ==
  /\ main = "threads"
  /\ spawned = Len(Periods)
  /\ main' = "serve"
  /\ UNCHANGED <<hashmapVars, spawned, hosts, threadVars, dead>>

-----------------------------------------------------------------------------
(* periodical_10m; _2h, _1w and _1y differ in the period they sleep and ask for *)

Running(t) == \E i \in 1..spawned : Periods[i] = t

Goto(t, from, to) ==
  /\ Running(t)
  /\ todo[t] = from
  /\ todo' = [todo EXCEPT ![t] = to]

(***************************************************************************)
(* The thread's own all_host_t, with the pointer as main has it now.  The  *)
(* memcpy copies `size` structures where there is one; what it reads past  *)
(* the first goes to memory that nobody uses, and is left out.             *)
(***************************************************************************)
CopyHosts(t) ==
  /\ Goto(t, "new", "scan")
  /\ copy' = [copy EXCEPT ![t] = hosts]
  /\ UNCHANGED <<hashmapVars, mainVars, round, dead>>

(* hmap_get of the host's session: __hmap_get starts, *)
Lookup(t) ==
  /\ Goto(t, "scan", "get")
  /\ Hostname(copy[t]) # NULL
  /\ HM!GetWait(t)
  /\ in'[t] = copy[t] + 1
  /\ UNCHANGED <<mainVars, copy, round, dead>>

(* runs, *)
LookupStep(t) ==
  /\ HM!GetStep(t)
  /\ UNCHANGED <<mainVars, threadVars, dead>>

(***************************************************************************)
(* and returns: the url is made of the host and the session, which is      *)
(* dereferenced without a test, and the job is added.                      *)
(***************************************************************************)
AddJob(t) ==
  /\ Goto(t, "get", "scan")
  /\ HM!Use(t)
  /\ dead' = (result[t] = 0)
  /\ round' = [round EXCEPT ![t] = Append(@, copy[t] + 1)]
  /\ copy' = [copy EXCEPT ![t] = @ + 1]
  /\ UNCHANGED mainVars

(* Broken variants of EndRound: the pointer is set back one too far, *)
EndRoundTooFar(t) ==
  /\ Goto(t, "scan", "sleep")
  /\ Hostname(copy[t]) = NULL
  /\ copy' = [copy EXCEPT ![t] = @ - (Len(Config) + 1)]
  /\ UNCHANGED <<hashmapVars, mainVars, round, dead>>

(* or not at all. *)
EndRoundAtEnd(t) ==
  /\ Goto(t, "scan", "sleep")
  /\ Hostname(copy[t]) = NULL
  /\ UNCHANGED <<hashmapVars, mainVars, copy, round, dead>>

EndRound(t) ==
  /\ Goto(t, "scan", "sleep")
  /\ Hostname(copy[t]) = NULL
  /\ copy' = [copy EXCEPT ![t] = @ - Len(Config)]
  /\ UNCHANGED <<hashmapVars, mainVars, round, dead>>

Wake(t) ==
  /\ Goto(t, "sleep", "scan")
  /\ round' = [round EXCEPT ![t] = <<>>]
  /\ UNCHANGED <<hashmapVars, mainVars, copy, dead>>

-----------------------------------------------------------------------------
MainStep ==
  \/ MongoConnect \/ ParseConfig \/ ParseConfigCrashes
  \/ Login \/ LoggedIn \/ Spawn \/ SpawnFails \/ Serve

OwnStep(t) ==
  \/ CopyHosts(t) \/ LookupStep(t) \/ AddJob(t) \/ EndRound(t) \/ Wake(t)

Next ==
  /\ ~dead
  /\ \/ MainStep
     \/ \E t \in Threads : OwnStep(t) \/ Lookup(t)

(***************************************************************************)
(* Every thread runs, sleep ends, and a thread that waits for the          *)
(* semaphore of the table, which is posted again and again, gets it.       *)
(* Nothing is assumed of main: a login may hang.                           *)
(***************************************************************************)
Fairness ==
  \A t \in Threads : WF_vars(~dead /\ OwnStep(t)) /\ SF_vars(~dead /\ Lookup(t))

Spec == Init /\ [][Next]_vars
FairSpec == Spec /\ Fairness

-----------------------------------------------------------------------------
(* Properties *)

(***************************************************************************)
(* A thread that goes to sleep has added a job for every host of the       *)
(* configuration, once and in order: main had set the pointer back before  *)
(* the thread copied it, and the thread itself after its last round.       *)
(***************************************************************************)
RoundComplete ==
  \A t \in Threads : todo[t] = "sleep" => round[t] = [i \in 1..Len(Config) |-> i]

(***************************************************************************)
(* A thread never looks up a host that main has yet to log in to: the      *)
(* session of the entry its pointer is at has been stored by then.         *)
(***************************************************************************)
LookupAfterLogin ==
  \A t \in Threads : todo[t] = "get" => \E s \in HM!Slots : map[s] = copy[t] + 1

(***************************************************************************)
(* No thread dereferences a NULL session: main's logins, the threads'      *)
(* pointers and the table, which all threads search with one position,     *)
(* never leave a lookup without a session when its job is added.           *)
(***************************************************************************)
NoThreadCrashes ==
  [][\A t \in Threads : todo[t] = "get" /\ todo'[t] # "get" => ~dead']_vars

(***************************************************************************)
(* No host is forgotten: once a thread runs it adds a job for every host   *)
(* again and again (round is emptied when it wakes), unless the process    *)
(* dies.                                                                   *)
(***************************************************************************)
EveryHostPolled ==
  \A t \in Threads : \A e \in 1..Len(Config) : Running(t) ~> e \in ToSet(round[t]) \/ dead
=============================================================================
