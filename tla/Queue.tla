-------------------------------- MODULE Queue --------------------------------
(***************************************************************************)
(* queue.c: the job queue between the periodical_* threads, which call     *)
(* Add_Queue_Item, and the periodical_get_perf threads, which loop on      *)
(* Get_Queue_Item and Free_Queue_Item.  One action per statement that      *)
(* another thread can observe.                                             *)
(*                                                                         *)
(* read_mutex is locked by one thread and unlocked by another, so it is a  *)
(* binary semaphore ("an item may be there"); a default glibc mutex does   *)
(* not check its owner.  modify_mutex guards the list and the counter.     *)
(***************************************************************************)
EXTENDS Naturals, Sequences, SequencesExt

CONSTANTS Producers,   \* threads that call Add_Queue_Item
          Consumers,   \* threads that run periodical_get_perf
          Nodes,       \* the memory calloc can hand out as QUEUE_ITEMs
          NULL

ASSUME QueueAssumption ==
  /\ Producers \intersect Consumers = {}
  /\ NULL \notin Producers \union Consumers \union Nodes

VARIABLES items,       \* the linked list, head (newest) first
          numitems,    \* QUEUE.numitems
          modify,      \* the thread that holds modify_mutex, or NULL
          readLocked,  \* whether read_mutex is locked
          pc,          \* what each thread does next
          node,        \* the item a producer has allocated and not yet linked
          link,        \* the qi->next that producer has stored
          got,         \* the item a consumer has unlinked and not yet freed
          crashed      \* a NULL item was dereferenced: SIGSEGV ends the process

vars == <<items, numitems, modify, readLocked, pc, node, link, got, crashed>>

Threads == Producers \union Consumers

(* Inside modify_mutex, for each role. *)
AddSection == {"link", "publish", "addUnlock"}
GetSection == {"test", "unlink", "getSignal", "getUnlock"}

TypeOK ==
  /\ items \in Seq(Nodes)
  /\ numitems \in Nat
  /\ modify \in Threads \union {NULL}
  /\ readLocked \in BOOLEAN
  /\ pc \in [Threads -> {"idle", "addLock", "addSignal", "getLock", "null", "work"}
                          \union AddSection \union GetSection]
  /\ node \in [Producers -> Nodes \union {NULL}]
  /\ link \in [Producers -> Seq(Nodes)]
  /\ got \in [Consumers -> Nodes \union {NULL}]
  /\ crashed \in BOOLEAN

(* Initialize_Queue: an empty list, and read_mutex locked. *)
Init ==
  /\ items = <<>>
  /\ numitems = 0
  /\ modify = NULL
  /\ readLocked = TRUE
  /\ pc = [t \in Threads |-> "idle"]
  /\ node = [p \in Producers |-> NULL]
  /\ link = [p \in Producers |-> <<>>]
  /\ got = [c \in Consumers |-> NULL]
  /\ crashed = FALSE

Goto(t, from, to) ==
  /\ pc[t] = from
  /\ pc' = [pc EXCEPT ![t] = to]

LockModify(t) ==
  /\ modify = NULL
  /\ modify' = t

-----------------------------------------------------------------------------
(* Add_Queue_Item *)

InUse == ToSet(items) \union {node[p] : p \in Producers} \union {got[c] : c \in Consumers}

AddAlloc(p) ==
  /\ Goto(p, "idle", "addLock")
  /\ \E n \in Nodes \ InUse : node' = [node EXCEPT ![p] = n]
  /\ UNCHANGED <<items, numitems, modify, readLocked, link, got, crashed>>

(* calloc returns NULL: Add_Queue_Item returns and the job is dropped. *)
AddNoMemory(p) ==
  /\ pc[p] = "idle"
  /\ Nodes \subseteq InUse
  /\ UNCHANGED vars

AddLock(p) ==
  /\ Goto(p, "addLock", "link")
  /\ LockModify(p)
  /\ UNCHANGED <<items, numitems, readLocked, node, link, got, crashed>>

(* qi->next = queue->items *)
AddLink(p) ==
  /\ Goto(p, "link", "publish")
  /\ link' = [link EXCEPT ![p] = items]
  /\ UNCHANGED <<items, numitems, modify, readLocked, node, got, crashed>>

(* A broken variant, for the mutation of AddPublish: the counter is forgotten. *)
AddPublishUncounted(p) ==
  /\ Goto(p, "publish", "addUnlock")
  /\ items' = <<node[p]>> \o link[p]
  /\ node' = [node EXCEPT ![p] = NULL]
  /\ link' = [link EXCEPT ![p] = <<>>]
  /\ UNCHANGED <<numitems, modify, readLocked, got, crashed>>

(* queue->items = qi; queue->numitems++ *)
AddPublish(p) ==
  /\ Goto(p, "publish", "addUnlock")
  /\ items' = <<node[p]>> \o link[p]
  /\ numitems' = numitems + 1
  /\ node' = [node EXCEPT ![p] = NULL]
  /\ link' = [link EXCEPT ![p] = <<>>]
  /\ UNCHANGED <<modify, readLocked, got, crashed>>

AddUnlock(p) ==
  /\ Goto(p, "addUnlock", "addSignal")
  /\ modify' = NULL
  /\ UNCHANGED <<items, numitems, readLocked, node, link, got, crashed>>

(* pthread_mutex_unlock(&queue->read_mutex), after modify_mutex is released *)
AddSignal(p) ==
  /\ Goto(p, "addSignal", "idle")
  /\ readLocked' = FALSE
  /\ UNCHANGED <<items, numitems, modify, node, link, got, crashed>>

-----------------------------------------------------------------------------
(* Get_Queue_Item, as periodical_get_perf calls it *)

GetLockRead(c) ==
  /\ ~readLocked
  /\ Goto(c, "idle", "getLock")
  /\ readLocked' = TRUE
  /\ UNCHANGED <<items, numitems, modify, node, link, got, crashed>>

GetLockModify(c) ==
  /\ Goto(c, "getLock", "test")
  /\ LockModify(c)
  /\ UNCHANGED <<items, numitems, readLocked, node, link, got, crashed>>

(* The list is empty: release modify_mutex, keep read_mutex, return NULL. *)
GetEmpty(c) ==
  /\ items = <<>>
  /\ Goto(c, "test", "null")
  /\ modify' = NULL
  /\ UNCHANGED <<items, numitems, readLocked, node, link, got, crashed>>

GetTest(c) ==
  /\ items # <<>>
  /\ Goto(c, "test", "unlink")
  /\ UNCHANGED <<items, numitems, modify, readLocked, node, link, got, crashed>>

(* Broken variants of GetUnlink: the case of a single item is forgotten, *)
GetUnlinkKeepsLast(c) ==
  /\ Goto(c, "unlink", "getSignal")
  /\ got' = [got EXCEPT ![c] = Last(items)]
  /\ items' = IF Len(items) = 1 THEN items ELSE Front(items)
  /\ numitems' = numitems - 1
  /\ UNCHANGED <<modify, readLocked, node, link, crashed>>

(* or the walk is, and the newest item leaves first. *)
GetUnlinkNewest(c) ==
  /\ Goto(c, "unlink", "getSignal")
  /\ got' = [got EXCEPT ![c] = Head(items)]
  /\ items' = Tail(items)
  /\ numitems' = numitems - 1
  /\ UNCHANGED <<modify, readLocked, node, link, crashed>>

(***************************************************************************)
(* The walk ends with qi on the last item and pqi on the one before, or on *)
(* the same one if it is alone: then pqi->next = NULL unlinks nothing and  *)
(* it is numitems == 1 that empties the list.                              *)
(***************************************************************************)
GetUnlink(c) ==
  /\ Goto(c, "unlink", "getSignal")
  /\ got' = [got EXCEPT ![c] = Last(items)]
  /\ items' = IF numitems = 1 THEN <<>>
              ELSE IF Len(items) = 1 THEN items ELSE Front(items)
  /\ numitems' = numitems - 1
  /\ UNCHANGED <<modify, readLocked, node, link, crashed>>

(* Broken variants of GetSignal: read_mutex is not handed on, *)
GetSignalNever(c) ==
  /\ Goto(c, "getSignal", "getUnlock")
  /\ UNCHANGED <<readLocked, items, numitems, modify, node, link, got, crashed>>

(* or not to the last item. *)
GetSignalOffByOne(c) ==
  /\ Goto(c, "getSignal", "getUnlock")
  /\ readLocked' = IF numitems > 1 THEN FALSE ELSE readLocked
  /\ UNCHANGED <<items, numitems, modify, node, link, got, crashed>>

(* Hand read_mutex on while items remain; otherwise leave it locked. *)
GetSignal(c) ==
  /\ Goto(c, "getSignal", "getUnlock")
  /\ readLocked' = IF numitems > 0 THEN FALSE ELSE readLocked
  /\ UNCHANGED <<items, numitems, modify, node, link, got, crashed>>

GetUnlock(c) ==
  /\ Goto(c, "getUnlock", "work")
  /\ modify' = NULL
  /\ UNCHANGED <<items, numitems, readLocked, node, link, got, crashed>>

(* Free_Queue_Item, once get_perf_from_xenserver has returned *)
Free(c) ==
  /\ Goto(c, "work", "idle")
  /\ got' = [got EXCEPT ![c] = NULL]
  /\ UNCHANGED <<items, numitems, modify, readLocked, node, link, crashed>>

(* periodical_get_perf reads item->action without looking at item. *)
DerefNull(c) ==
  /\ pc[c] = "null"
  /\ crashed' = TRUE
  /\ UNCHANGED <<items, numitems, modify, readLocked, pc, node, link, got>>

-----------------------------------------------------------------------------
AddStep(p) ==
  \/ AddLock(p) \/ AddLink(p) \/ AddPublish(p) \/ AddUnlock(p) \/ AddSignal(p)

GetStep(c) ==
  \/ GetLockRead(c) \/ GetLockModify(c) \/ GetEmpty(c) \/ GetTest(c)
  \/ GetUnlink(c) \/ GetSignal(c) \/ GetUnlock(c) \/ DerefNull(c)

Next ==
  /\ ~crashed
  /\ \/ \E p \in Producers : AddAlloc(p) \/ AddNoMemory(p) \/ AddStep(p)
     \/ \E c \in Consumers : GetStep(c) \/ Free(c)

(***************************************************************************)
(* The scheduler runs every thread that can run, so an Add or a Get under  *)
(* way goes on.  But a producer need not add (its thread sleeps between    *)
(* rounds), and a job need not end (Free): its download has no timeout.    *)
(***************************************************************************)
Fairness ==
  /\ \A p \in Producers : WF_vars(~crashed /\ AddStep(p))
  /\ \A c \in Consumers : WF_vars(~crashed /\ GetStep(c))

Spec == Init /\ [][Next]_vars
FairSpec == Spec /\ Fairness

-----------------------------------------------------------------------------
(* Properties *)

(***************************************************************************)
(* The counter on which Get_Queue_Item bases both of its decisions (empty  *)
(* the list, hand read_mutex on) is the length of the list.                *)
(***************************************************************************)
CountIsLength == numitems = Len(items)

(***************************************************************************)
(* An item has one owner: it is on the list once, or in the hands of one   *)
(* thread.  An item owned twice would be freed while linked, or by two     *)
(* workers.                                                                *)
(***************************************************************************)
OneOwner ==
  /\ \A i, j \in 1..Len(items) : items[i] = items[j] => i = j
  /\ \A i \in 1..Len(items) :
       /\ \A p \in Producers : node[p] # items[i]
       /\ \A c \in Consumers : got[c] # items[i]
  /\ \A p, q \in Producers : node[p] = node[q] /\ node[p] # NULL => p = q
  /\ \A c, d \in Consumers : got[c] = got[d] /\ got[c] # NULL => c = d
  /\ \A p \in Producers, c \in Consumers : node[p] = got[c] => got[c] = NULL

ListConsistent == CountIsLength /\ OneOwner

(***************************************************************************)
(* The wakeup is never lost: while an item waits, read_mutex is unlocked,  *)
(* or the thread that will unlock it or that is about to look at the list  *)
(* is on its way.  Otherwise every worker would sleep on a full queue.     *)
(***************************************************************************)
NoLostWakeup ==
  items # <<>> =>
    \/ ~readLocked
    \/ \E p \in Producers : pc[p] \in {"addUnlock", "addSignal"}
    \/ \E c \in Consumers : pc[c] \in {"getLock", "test", "unlink", "getSignal"}

(***************************************************************************)
(* Behind the mutexes, the list and the counter there is a FIFO queue: no  *)
(* job is lost, duplicated or overtaken between an Add and a Get.          *)
(***************************************************************************)
Fifo == INSTANCE FifoQueue WITH waiting <- Reverse(items)
ImplementsFifo == Fifo!Spec

(***************************************************************************)
(* Every job that is added reaches a worker, unless the process dies or    *)
(* the download of every worker hangs: one worker that always comes back   *)
(* is enough, for whoever goes to sleep or to work hands read_mutex on.    *)
(***************************************************************************)
SomeWorkerComesBack == \E c \in Consumers : []<>(pc[c] # "work")

EveryItemTaken ==
  SomeWorkerComesBack =>
    \A n \in Nodes : n \in ToSet(items) ~> n \notin ToSet(items) \/ crashed

(***************************************************************************)
(* server.c calls this "the global thread-safe queue": a worker that gets  *)
(* past read_mutex finds an item, so Get_Queue_Item does not return NULL   *)
(* to periodical_get_perf, which would dereference it.                     *)
(***************************************************************************)
GetFindsItem == \A c \in Consumers : pc[c] # "null"
=============================================================================
