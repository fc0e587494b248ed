--------------------------- MODULE CollectorProofs ---------------------------
(***************************************************************************)
(* Proofs about Collector, for any workers, HTTP threads, keys and number  *)
(* of jobs and errors: the lock and exit_hook, the replies on the socket,  *)
(* one document per key, and reports stored as a whole.                    *)
(***************************************************************************)
EXTENDS Collector, SequenceTheorems, TLAPS

(* What a thread's position says of its job. *)
LocalInv ==
  /\ \A r \in Readers : pc[r] \in {"idle", "queryReply"}
  /\ \A w \in Workers :
       /\ pc[w] # "idle" => job[w] # 0
       /\ pc[w] # "queryReply"
       /\ todo[w] \subseteq batch[w]
       /\ pc[w] \in {"findReply", "write", "writeReply"} => key[w] \in todo[w]
       /\ pc[w] = "release" => todo[w] = {}

(* exit_hook keeps the lock, and main's thread never has it otherwise. *)
MainInv == gil = Main <=> exit = "done"

-----------------------------------------------------------------------------
(* The lock *)

LockInv == TypeOK /\ LockDiscipline /\ LocalInv /\ MainInv

LEMMA LockInit == Init => LockInv
<1> SUFFICES ASSUME Init PROVE LockInv
  OBVIOUS
<1> USE CollectorAssumption DEF Init, CollectorAssumption, Threads
<1>1. TypeOK
  <2>1. docs \in [Keys -> Seq(1..MaxJobs)] /\ wire \in Seq(Replies)
    BY EmptySeq
  <2>2. jobs \in 0..MaxJobs /\ job \in [Workers -> 0..MaxJobs]
    OBVIOUS
  <2> QED
    BY <2>1, <2>2 DEF TypeOK
<1>2. LockDiscipline /\ LocalInv /\ MainInv
  BY DEF LockDiscipline, LocalInv, MainInv, Locked, Storing
<1> QED
  BY <1>1, <1>2 DEF LockInv

(* The driver's operations keep the socket well typed and connected. *)
LEMMA WireTyped ==
  ASSUME wire \in Seq(Replies), NEW t \in Threads
  PROVE  /\ \A d \in BOOLEAN : Reply(t, d) => wire' \in Seq(Replies)
         /\ Receive(t) => wire' \in Seq(Replies) /\ Head(wire) \in Replies
<1>1. \A d \in BOOLEAN : Reply(t, d) => wire' \in Seq(Replies)
  BY AppendProperties DEF Reply, Replies
<1>2. Receive(t) => wire' \in Seq(Replies) /\ Head(wire) \in Replies
  BY HeadTailProperties DEF Receive
<1> QED
  BY <1>1, <1>2

(* Every reply appended or taken, every document written keeps its type. *)
LEMMA TypeStep == LockInv /\ [Next]_vars => TypeOK'
<1> SUFFICES ASSUME LockInv, [Next]_vars PROVE TypeOK'
  OBVIOUS
<1> USE CollectorAssumption DEF LockInv, TypeOK, Goto, jobVars, mongoVars, procVars, Threads, CollectorAssumption
<1>1. ASSUME NEW w \in Workers, Take(w) PROVE TypeOK'
  BY <1>1 DEF Take
<1>2. ASSUME NEW w \in Workers, FetchFails(w) \/ Fetched(w) \/ Waiting(w) \/ Yield(w) \/ ConvertRaises(w)
      PROVE TypeOK'
  BY <1>2 DEF FetchFails, Fetched, Waiting, Ensure, Resume, Yield, ConvertRaises
<1>3. ASSUME NEW w \in Workers, Converted(w) \/ ConvertedNothing(w) \/ Release(w) PROVE TypeOK'
  <2>1. CASE Converted(w)
    BY <2>1 DEF Converted
  <2>2. CASE ConvertedNothing(w)
    BY <2>2 DEF ConvertedNothing
  <2>3. CASE Release(w)
    BY <2>3 DEF Release
  <2> QED
    BY <1>3, <2>1, <2>2, <2>3
<1>4. ASSUME NEW w \in Workers, Find(w) PROVE TypeOK'
  <2>1. PICK k \in todo[w] : key' = [key EXCEPT ![w] = k] /\ Reply(w, Stored(k))
    BY <1>4 DEF Find
  <2>2. Stored(k) \in BOOLEAN
    BY DEF Stored
  <2>3. wire' \in Seq(Replies)
    BY <2>1, <2>2, WireTyped
  <2>4. key' \in [Workers -> Keys \union {NULL}]
    BY <2>1
  <2> QED
    BY <1>4, <2>3, <2>4 DEF Find
<1>4a. ASSUME NEW w \in Workers, FindRefused(w) PROVE TypeOK'
  <2>1. PICK k \in todo[w] : key' = [key EXCEPT ![w] = k] /\ Reply(w, FALSE) /\ Fails(w, "find", k)
    BY <1>4a DEF FindRefused
  <2>2. k \in Keys /\ job[w] \in 1..MaxJobs
    BY <1>4a DEF FindRefused, LocalInv
  <2>3. wire' \in Seq(Replies)
    BY <2>1, WireTyped
  <2>4. key' \in [Workers -> Keys \union {NULL}] /\ failed' \subseteq Requests
    BY <2>1, <2>2 DEF Fails, Requests
  <2> QED
    BY <1>4a, <2>3, <2>4 DEF FindRefused
<1>5. ASSUME NEW w \in Workers, FindReply(w) PROVE TypeOK'
  <2>1. wire' \in Seq(Replies) /\ Head(wire).hasDoc \in BOOLEAN
    BY <1>5, WireTyped DEF FindReply, Replies
  <2> QED
    BY <1>5, <2>1 DEF FindReply, Receive
<1>6. ASSUME NEW w \in Workers, FindFails(w) PROVE TypeOK'
  <2>1. PICK k \in Keys : key' = [key EXCEPT ![w] = k] /\ Fails(w, "find", k)
    <3>1. PICK k \in IF pc[w] = "find" THEN todo[w] ELSE {key[w]} :
            key' = [key EXCEPT ![w] = k] /\ Fails(w, "find", k)
      BY <1>6 DEF FindFails
    <3>2. k \in Keys
      BY <1>6, <3>1 DEF FindFails, LocalInv
    <3> QED
      BY <3>1, <3>2
  <2>2. job[w] \in 1..MaxJobs
    BY <1>6 DEF FindFails, LocalInv
  <2>3. key' \in [Workers -> Keys \union {NULL}] /\ failed' \subseteq Requests
    BY <2>1, <2>2 DEF Fails, Requests
  <2> QED
    BY <1>6, <2>3 DEF FindFails
<1>7a. ASSUME NEW w \in Workers, WriteRefused(w) PROVE TypeOK'
  <2>1. job[w] \in 1..MaxJobs /\ key[w] \in Keys /\ Fails(w, "write", key[w])
    BY <1>7a DEF WriteRefused, LocalInv
  <2>2. failed' \subseteq Requests
    BY <2>1 DEF Fails, Requests
  <2>3. wire' \in Seq(Replies)
    BY <1>7a, WireTyped DEF WriteRefused
  <2> QED
    BY <1>7a, <2>2, <2>3 DEF WriteRefused
<1>7. ASSUME NEW w \in Workers, Write(w) PROVE TypeOK'
  <2>1. job[w] \in 1..MaxJobs /\ key[w] \in Keys
    BY <1>7 DEF Write, LocalInv
  <2> DEFINE d == docs[key[w]]
             j == job[w]
  <2>2. d \in Seq(1..MaxJobs) /\ Len(d) \in Nat /\ DOMAIN d = 1..Len(d)
    BY <2>1, LenProperties
  <2> HIDE DEF d, j
  <2>3. [i \in DOMAIN d |-> j] \in Seq(1..MaxJobs) /\ Append(d, j) \in Seq(1..MaxJobs)
    <3>1. j \in 1..MaxJobs
      BY <2>1 DEF j
    <3>2. [i \in 1..Len(d) |-> j] \in Seq(1..MaxJobs)
      BY <2>2, <3>1, SeqDef
    <3> QED
      BY <2>2, <3>1, <3>2, AppendProperties
  <2>4. docs' = [docs EXCEPT ![key[w]] = IF found[w] THEN [i \in DOMAIN d |-> j] ELSE Append(d, j)]
    BY <1>7 DEF Write, d, j
  <2>5. docs' \in [Keys -> Seq(1..MaxJobs)]
    BY <2>1, <2>3, <2>4
  <2>6. wire' \in Seq(Replies)
    BY <1>7, WireTyped DEF Write
  <2> QED
    BY <1>7, <2>5, <2>6 DEF Write
<1>8. ASSUME NEW w \in Workers, Written(w) PROVE TypeOK'
  <2>1. wire' \in Seq(Replies)
    BY <1>8, WireTyped DEF Written
  <2> QED
    BY <1>8, <2>1 DEF Written, NextRecord, EndRecord, Receive
<1>9. ASSUME NEW w \in Workers, WriteFails(w) PROVE TypeOK'
  <2>1. failed' \subseteq Requests
    <3>1. CASE pc[w] = "writeReply"
      BY <1>9, <3>1 DEF WriteFails
    <3>2. CASE pc[w] = "write"
      <4>1. job[w] \in 1..MaxJobs /\ key[w] \in Keys /\ Fails(w, "write", key[w])
        BY <1>9, <3>2 DEF WriteFails, LocalInv
      <4> QED
        BY <4>1 DEF Fails, Requests
    <3> QED
      BY <1>9, <3>1, <3>2 DEF WriteFails
  <2> QED
    BY <1>9, <2>1 DEF WriteFails, NextRecord, EndRecord
<1>10. ASSUME NEW r \in Readers, ReaderStep(r) PROVE TypeOK'
  <2>1. wire' \in Seq(Replies)
    <3>1. CASE Query(r)
      <4>1. \E d \in BOOLEAN : Reply(r, d)
        BY <3>1 DEF Query, Stored
      <4> QED
        BY <4>1, WireTyped
    <3>2. CASE QueryReply(r)
      BY <3>2, WireTyped DEF QueryReply
    <3>3. CASE QueryFails(r)
      BY <3>3 DEF QueryFails
    <3> QED
      BY <1>10, <3>1, <3>2, <3>3 DEF ReaderStep
  <2> QED
    BY <1>10, <2>1 DEF ReaderStep, Query, QueryReply, QueryFails, Receive
<1>11. CASE Disconnect \/ Signal \/ ExitHook \/ EnsureFinalized
  <2>1. wire' \in Seq(Replies)
    <3>1. wire' = <<>> \/ wire' = wire
      BY <1>11 DEF Disconnect, Signal, ExitHook, EnsureFinalized
    <3>2. <<>> \in Seq(Replies)
      BY EmptySeq
    <3> QED
      BY <3>1, <3>2
  <2> QED
    BY <1>11, <2>1 DEF Disconnect, Signal, ExitHook, EnsureFinalized
<1>12. CASE UNCHANGED vars
  BY <1>12 DEF vars
<1> HIDE DEF LockInv, TypeOK, Goto, jobVars, mongoVars, procVars, Threads
<1> QED
  BY <1>1, <1>2, <1>3, <1>4, <1>4a, <1>5, <1>6, <1>7, <1>7a, <1>8, <1>9, <1>10, <1>11, <1>12
     DEF Next, WorkerStep, Holding, Answered

LEMMA LockStep == LockInv /\ [Next]_vars => LockDiscipline' /\ LocalInv' /\ MainInv'
<1> SUFFICES ASSUME LockInv, [Next]_vars PROVE LockDiscipline' /\ LocalInv' /\ MainInv'
  OBVIOUS
<1> USE CollectorAssumption DEF LockInv, TypeOK, LockDiscipline, LocalInv, MainInv, Locked, Storing, Goto, jobVars,
                                mongoVars, procVars, Threads, CollectorAssumption
<1>1. ASSUME NEW w \in Workers, Take(w) PROVE LockDiscipline' /\ LocalInv' /\ MainInv'
  BY <1>1 DEF Take
<1>2. ASSUME NEW w \in Workers, FetchFails(w) \/ Fetched(w) PROVE LockDiscipline' /\ LocalInv' /\ MainInv'
  <2>1. CASE FetchFails(w)
    BY <2>1 DEF FetchFails
  <2>2. CASE Fetched(w)
    BY <2>2 DEF Fetched
  <2> QED
    BY <1>2, <2>1, <2>2
<1>3. ASSUME NEW w \in Workers, Waiting(w) PROVE LockDiscipline' /\ LocalInv' /\ MainInv'
  BY <1>3 DEF Waiting, Ensure, Resume
<1>4. ASSUME NEW w \in Workers, Yield(w) \/ ConvertRaises(w) PROVE LockDiscipline' /\ LocalInv' /\ MainInv'
  <2>1. CASE Yield(w)
    BY <2>1 DEF Yield
  <2>2. CASE ConvertRaises(w)
    BY <2>2 DEF ConvertRaises
  <2> QED
    BY <1>4, <2>1, <2>2
<1>5. ASSUME NEW w \in Workers, Converted(w) PROVE LockDiscipline' /\ LocalInv' /\ MainInv'
  BY <1>5 DEF Converted
<1>6. ASSUME NEW w \in Workers, ConvertedNothing(w) PROVE LockDiscipline' /\ LocalInv' /\ MainInv'
  BY <1>6 DEF ConvertedNothing
<1>7. ASSUME NEW w \in Workers, Release(w) PROVE LockDiscipline' /\ LocalInv' /\ MainInv'
  BY <1>7 DEF Release
<1>8. ASSUME NEW w \in Workers, Find(w) PROVE LockDiscipline' /\ LocalInv' /\ MainInv'
  BY <1>8 DEF Find
<1>8a. ASSUME NEW w \in Workers, FindRefused(w) PROVE LockDiscipline' /\ LocalInv' /\ MainInv'
  BY <1>8a DEF FindRefused
<1>9. ASSUME NEW w \in Workers, FindReply(w) PROVE LockDiscipline' /\ LocalInv' /\ MainInv'
  BY <1>9 DEF FindReply
<1>10. ASSUME NEW w \in Workers, FindFails(w) PROVE LockDiscipline' /\ LocalInv' /\ MainInv'
  BY <1>10 DEF FindFails
<1>11. ASSUME NEW w \in Workers, Write(w) PROVE LockDiscipline' /\ LocalInv' /\ MainInv'
  BY <1>11 DEF Write
<1>11a. ASSUME NEW w \in Workers, WriteRefused(w) PROVE LockDiscipline' /\ LocalInv' /\ MainInv'
  BY <1>11a DEF WriteRefused
<1>12. ASSUME NEW w \in Workers, Written(w) PROVE LockDiscipline' /\ LocalInv' /\ MainInv'
  BY <1>12 DEF Written, NextRecord, EndRecord
<1>13. ASSUME NEW w \in Workers, WriteFails(w) PROVE LockDiscipline' /\ LocalInv' /\ MainInv'
  BY <1>13 DEF WriteFails, NextRecord, EndRecord
<1>14. ASSUME NEW r \in Readers, ReaderStep(r) PROVE LockDiscipline' /\ LocalInv' /\ MainInv'
  <2>1. \E p \in {"idle", "queryReply"} : pc' = [pc EXCEPT ![r] = p]
    BY <1>14 DEF ReaderStep, Query, QueryReply, QueryFails
  <2>2. UNCHANGED <<jobVars, gil, procVars>>
    BY <1>14 DEF ReaderStep, Query, QueryReply, QueryFails
  <2>3. \A w \in Workers : pc'[w] = pc[w]
    BY <2>1
  <2>4. \A q \in Readers : pc'[q] \in {"idle", "queryReply"}
    BY <2>1
  <2> QED
    BY <2>2, <2>3, <2>4
<1>15. CASE Disconnect \/ Signal \/ ExitHook \/ EnsureFinalized
  BY <1>15 DEF Disconnect, Signal, ExitHook, EnsureFinalized
<1>16. CASE UNCHANGED vars
  BY <1>16 DEF vars
<1> HIDE DEF LockInv, TypeOK, LockDiscipline, LocalInv, MainInv, Locked, Storing, Goto, jobVars, mongoVars, procVars, Threads
<1> QED
  BY <1>1, <1>2, <1>3, <1>4, <1>5, <1>6, <1>7, <1>8, <1>8a, <1>9, <1>10, <1>11, <1>11a, <1>12, <1>13, <1>14, <1>15,
     <1>16
     DEF Next, WorkerStep, Holding, Answered

(* The lock invariant holds in every reachable state. *)
THEOREM CollectorLockInvariant == Spec => []LockInv
<1>1. LockInv /\ [Next]_vars => LockInv'
  BY TypeStep, LockStep DEF LockInv
<1> QED
  BY <1>1, LockInit, PTL DEF Spec

(* The collector's variables keep their types. *)
THEOREM CollectorTypeOK == Spec => []TypeOK
<1>1. LockInv => TypeOK
  BY DEF LockInv
<1> QED
  BY <1>1, CollectorLockInvariant, PTL

(* No path through get_perf_from_xenserver leaks the lock or releases another's. *)
THEOREM CollectorLockDiscipline == Spec => []LockDiscipline
<1>1. LockInv => LockDiscipline
  BY DEF LockInv
<1> QED
  BY <1>1, CollectorLockInvariant, PTL

(* exit_hook cuts off no report between its first request and the release of the lock. *)
THEOREM CollectorExitCutsNoReport == Spec => []ExitCutsNoReport
<1>1. LockInv => ExitCutsNoReport
  BY CollectorAssumption
     DEF CollectorAssumption, LockInv, MainInv, LockDiscipline, ExitCutsNoReport, Locked, Storing
<1> QED
  BY <1>1, CollectorLockInvariant, PTL

-----------------------------------------------------------------------------
(* The socket *)

(***************************************************************************)
(* What a step does to the calls under way: nothing, it sends a request    *)
(* for a thread that has none, or it takes a reply for a thread that has.  *)
(* On a dead socket anything goes.                                         *)
(***************************************************************************)
SameCalls == wire' = wire /\ Asking' = Asking /\ mixed' = mixed
Sends(t) == /\ t \notin Asking
            /\ Asking' = Asking \union {t}
            /\ \E d \in BOOLEAN : Reply(t, d)
            /\ mixed' = mixed
Receives(t) == /\ t \in Asking
               /\ Asking' = Asking \ {t}
               /\ Receive(t)

LEMMA CallStep ==
  ASSUME LockInv, [Next]_vars
  PROVE  \/ ~connected'
         \/ connected /\ (SameCalls \/ \E t \in Threads : Sends(t) \/ Receives(t))
<1> DEFINE Goal == \/ ~connected'
                   \/ connected /\ (SameCalls \/ \E t \in Threads : Sends(t) \/ Receives(t))
<1> USE CollectorAssumption
    DEF CollectorAssumption, LockInv, TypeOK, Asking, Threads, Goto, jobVars, mongoVars, procVars
<1>1. ASSUME NEW w \in Workers, Take(w) \/ FetchFails(w) \/ Fetched(w) \/ Yield(w) \/ ConvertRaises(w)
      PROVE Goal
  BY <1>1 DEF Take, FetchFails, Fetched, Yield, ConvertRaises, SameCalls
<1>2. ASSUME NEW w \in Workers, Waiting(w) \/ Converted(w) \/ ConvertedNothing(w) \/ Release(w) PROVE Goal
  BY <1>2 DEF Waiting, Ensure, Resume, Converted, ConvertedNothing, Release, SameCalls
<1>3. ASSUME NEW w \in Workers, Find(w) \/ FindRefused(w) \/ Write(w) \/ WriteRefused(w) PROVE Goal
  <2>1. w \notin Asking /\ Asking' = Asking \union {w} /\ mixed' = mixed
    <3>1. pc[w] \in {"find", "write"} /\ mixed' = mixed
      BY <1>3 DEF Find, FindRefused, Write, WriteRefused
    <3>2. \E p \in {"findReply", "writeReply"} : pc' = [pc EXCEPT ![w] = p]
      BY <1>3 DEF Find, FindRefused, Write, WriteRefused
    <3> QED
      BY <3>1, <3>2
  <2>2. \E d \in BOOLEAN : Reply(w, d)
    BY <1>3 DEF Find, FindRefused, Write, WriteRefused, Stored
  <2>3. Sends(w)
    BY <2>1, <2>2 DEF Sends
  <2> QED
    BY <1>3, <2>3 DEF Find, FindRefused, Write, WriteRefused, MayRefuse
<1>4. ASSUME NEW w \in Workers, FindReply(w) \/ Written(w) PROVE Goal
  <2>1. w \in Asking /\ Asking' = Asking \ {w} /\ Receive(w)
    BY <1>4 DEF FindReply, Written, NextRecord, EndRecord
  <2> QED
    BY <1>4, <2>1 DEF FindReply, Written, Receives
<1>5. ASSUME NEW w \in Workers, FindFails(w) \/ WriteFails(w) PROVE Goal
  <2>1. CASE ~connected
    BY <1>5, <2>1 DEF FindFails, WriteFails
  <2>2. CASE connected
    <3>1. pc[w] \in {"find", "write"} /\ connected' /\ wire' = wire /\ mixed' = mixed
      BY <1>5, <2>2 DEF FindFails, WriteFails
    <3>2. \E p \in {"find", "write", "release"} : pc' = [pc EXCEPT ![w] = p]
      BY <1>5 DEF FindFails, WriteFails, NextRecord
    <3>3. Asking' = Asking
      BY <3>1, <3>2
    <3> QED
      BY <2>2, <3>1, <3>3 DEF SameCalls
  <2> QED
    BY <2>1, <2>2
<1>6. ASSUME NEW r \in Readers, ReaderStep(r) PROVE Goal
  <2>1. CASE Query(r)
    <3>1. r \notin Asking /\ Asking' = Asking \union {r} /\ mixed' = mixed
      BY <2>1 DEF Query
    <3>2. \E d \in BOOLEAN : Reply(r, d)
      BY <2>1 DEF Query, Stored
    <3> QED
      BY <2>1, <3>1, <3>2 DEF Query, Sends
  <2>2. CASE QueryReply(r)
    BY <2>2 DEF QueryReply, Receives
  <2>3. CASE QueryFails(r)
    BY <2>3 DEF QueryFails
  <2> QED
    BY <1>6, <2>1, <2>2, <2>3 DEF ReaderStep
<1>7. ASSUME Disconnect \/ Signal \/ ExitHook \/ EnsureFinalized PROVE Goal
  BY <1>7 DEF Disconnect, Signal, ExitHook, EnsureFinalized, SameCalls
<1>8. ASSUME UNCHANGED vars PROVE Goal
  BY <1>8 DEF vars, SameCalls
<1> HIDE DEF Goal, LockInv, TypeOK, Asking, Threads, Goto, jobVars, mongoVars, procVars
<1>9. Goal
  BY <1>1, <1>2, <1>3, <1>4, <1>5, <1>6, <1>7, <1>8 DEF Next, WorkerStep, Holding, Answered
<1> QED
  BY <1>9 DEF Goal

-----------------------------------------------------------------------------
(* The collection, until a thread reads another's reply *)

(* The replies on the socket are of threads that wait, one each. *)
WireInv ==
  connected /\ ~mixed =>
    /\ \A i \in 1..Len(wire) : wire[i].asker \in Asking
    /\ \A i, j \in 1..Len(wire) : wire[i].asker = wire[j].asker => i = j

(* What is answered to a look-up, or taken for the answer: it errs on one side, *)
(* and only if the look-up has failed.                                          *)
Truthful(w, answer) ==
  /\ answer => Stored(key[w])
  /\ Stored(key[w]) /\ ~answer => ~Done(w, "find", key[w])

(* The answer to a worker's look-up is still true when it is read. *)
AnswerInv ==
  connected /\ ~mixed =>
    \A i \in 1..Len(wire), w \in Workers :
      wire[i].asker = w /\ pc[w] = "findReply" => Truthful(w, wire[i].hasDoc)

(* What the worker that holds the lock knows of the collection. *)
DocsInv ==
  ~mixed =>
    \A w \in Workers :
      /\ pc[w] = "write" => Truthful(w, found[w])
      /\ w \in Storing => \A k \in batch[w] \ Unwritten(w) : RecordStored(w, k)

(***************************************************************************)
(* The inductive invariant of the collection.  UniqueDocument needs found  *)
(* to be true of the document when it is used (DocsInv), hence the reply   *)
(* to be true when it is read (AnswerInv) and to be the worker's own       *)
(* (WireInv), and no other worker to write meanwhile (LockDiscipline).     *)
(***************************************************************************)
IInv ==
  /\ LockInv
  /\ WireInv
  /\ AnswerInv
  /\ DocsInv
  /\ UniqueDocument

(* The worker that acts between Ensure and Release is alone there. *)
LEMMA Alone ==
  ASSUME LockDiscipline, NEW w \in Workers, w \in Locked
  PROVE  \A v \in Workers : v # w => v \notin Locked
BY DEF LockDiscipline

LEMMA WireStep ==
  ASSUME LockInv, WireInv, [Next]_vars
  PROVE  WireInv'
<1> SUFFICES ASSUME connected', ~mixed'
             PROVE  /\ \A i \in 1..Len(wire') : wire'[i].asker \in Asking'
                    /\ \A i, j \in 1..Len(wire') : wire'[i].asker = wire'[j].asker => i = j
  BY DEF WireInv
<1>1. connected /\ (SameCalls \/ \E t \in Threads : Sends(t) \/ Receives(t))
  BY CallStep
<1>2. wire \in Seq(Replies)
  BY DEF LockInv, TypeOK
<1>3. CASE SameCalls
  BY <1>1, <1>3 DEF SameCalls, WireInv
<1>4. ASSUME NEW t \in Threads, Sends(t)
      PROVE  /\ \A i \in 1..Len(wire') : wire'[i].asker \in Asking'
             /\ \A i, j \in 1..Len(wire') : wire'[i].asker = wire'[j].asker => i = j
  <2>1. PICK d \in BOOLEAN : wire' = Append(wire, [asker |-> t, hasDoc |-> d])
    BY <1>4 DEF Sends, Reply
  <2>2. /\ Len(wire') = Len(wire) + 1 /\ Len(wire) \in Nat
        /\ \A i \in 1..Len(wire) : wire'[i] = wire[i]
        /\ wire'[Len(wire) + 1].asker = t
    <3> DEFINE e == [asker |-> t, hasDoc |-> d]
    <3>1. e \in Replies /\ e.asker = t
      BY DEF Replies
    <3> HIDE DEF e
    <3> QED
      BY <1>2, <2>1, <3>1, AppendProperties, LenProperties DEF e
  <2>3. /\ \A i \in 1..Len(wire) : wire[i].asker \in Asking /\ wire[i].asker # t
        /\ \A i, j \in 1..Len(wire) : wire[i].asker = wire[j].asker => i = j
        /\ Asking' = Asking \union {t}
    BY <1>1, <1>4 DEF Sends, WireInv
  <2> QED
    BY <2>2, <2>3
<1>5. ASSUME NEW t \in Threads, Receives(t)
      PROVE  /\ \A i \in 1..Len(wire') : wire'[i].asker \in Asking'
             /\ \A i, j \in 1..Len(wire') : wire'[i].asker = wire'[j].asker => i = j
  <2>1. wire # <<>> /\ wire' = Tail(wire) /\ Head(wire).asker = t /\ ~mixed /\ Asking' = Asking \ {t}
    BY <1>5 DEF Receives, Receive
  <2>2. /\ Len(wire) \in Nat /\ Len(wire) >= 1 /\ Len(wire') = Len(wire) - 1
        /\ \A i \in 1..Len(wire') : wire'[i] = wire[i + 1]
        /\ wire[1].asker = t
    BY <1>2, <2>1, HeadTailProperties, LenProperties, EmptySeq
  <2>3. /\ \A i \in 1..Len(wire) : wire[i].asker \in Asking
        /\ \A i, j \in 1..Len(wire) : wire[i].asker = wire[j].asker => i = j
    BY <1>1, <2>1 DEF WireInv
  <2>4. \A i \in 1..Len(wire') : i + 1 \in 1..Len(wire) /\ i + 1 # 1
    BY <2>2
  <2> QED
    BY <2>1, <2>2, <2>3, <2>4
<1> QED
  BY <1>1, <1>3, <1>4, <1>5

(* What is true of an answer stays true while nothing is written. *)
LEMMA TruthfulKept ==
  ASSUME NEW w \in Workers, NEW a, Truthful(w, a),
         docs' = docs, failed \subseteq failed', key'[w] = key[w], job'[w] = job[w]
  PROVE  Truthful(w, a)'
BY DEF Truthful, Stored, Done

(* A step that sends nothing and writes nothing spoils no answer. *)
LEMMA AnswerKept ==
  ASSUME AnswerInv, wire \in Seq(Replies), connected, ~mixed,
         wire' = wire \/ (wire # <<>> /\ wire' = Tail(wire)),
         docs' = docs, failed \subseteq failed',
         \A v \in Workers : pc'[v] = "findReply" => pc[v] = "findReply" /\ key'[v] = key[v] /\ job'[v] = job[v]
  PROVE  AnswerInv'
<1>1. \A i \in 1..Len(wire') : \E j \in 1..Len(wire) : wire'[i] = wire[j]
  <2>1. CASE wire' = wire
    BY <2>1
  <2>2. CASE wire # <<>> /\ wire' = Tail(wire)
    <3>1. Len(wire) \in Nat /\ Len(wire') = Len(wire) - 1 /\ \A i \in 1..Len(wire') : wire'[i] = wire[i + 1]
      BY <2>2, HeadTailProperties, LenProperties
    <3>2. \A i \in 1..Len(wire') : i + 1 \in 1..Len(wire)
      BY <3>1
    <3> QED
      BY <3>1, <3>2
  <2> QED
    BY <2>1, <2>2
<1>2. SUFFICES ASSUME NEW i \in 1..Len(wire'), NEW w \in Workers,
                      wire'[i].asker = w, pc'[w] = "findReply"
               PROVE  Truthful(w, wire[i].hasDoc)'
  BY DEF AnswerInv
<1>3. PICK j \in 1..Len(wire) : wire'[i] = wire[j]
  BY <1>1
<1>4. Truthful(w, wire[j].hasDoc)
  BY <1>2, <1>3 DEF AnswerInv
<1> QED
  BY <1>2, <1>3, <1>4 DEF Truthful, Stored, Done

(* A request that is sent gets a true answer, and the others stay true. *)
LEMMA AnswerSent ==
  ASSUME AnswerInv, WireInv, wire \in Seq(Replies), connected, ~mixed,
         NEW t \in Threads, Sends(t), NEW d \in BOOLEAN, Reply(t, d),
         docs' = docs, job' = job, failed \subseteq failed',
         \A v \in Workers \ {t} : key'[v] = key[v] /\ pc'[v] = pc[v],
         t \in Workers => Truthful(t, d)'
  PROVE  AnswerInv'
<1> DEFINE e == [asker |-> t, hasDoc |-> d]
<1>1. e \in Replies /\ e.asker = t /\ e.hasDoc = d
  BY DEF Replies
<1>2. wire' = Append(wire, e)
  BY DEF Reply
<1> HIDE DEF e
<1>3. /\ Len(wire') = Len(wire) + 1 /\ Len(wire) \in Nat
      /\ \A i \in 1..Len(wire) : wire'[i] = wire[i]
      /\ wire'[Len(wire) + 1] = e
  BY <1>1, <1>2, AppendProperties, LenProperties
<1>4. SUFFICES ASSUME NEW i \in 1..Len(wire'), NEW w \in Workers,
                      wire'[i].asker = w, pc'[w] = "findReply"
               PROVE  Truthful(w, wire[i].hasDoc)'
  BY DEF AnswerInv
<1>5. CASE i = Len(wire) + 1
  <2>1. w = t /\ wire'[i].hasDoc = d
    BY <1>1, <1>3, <1>4, <1>5
  <2> QED
    BY <2>1 DEF Truthful, Stored, Done
<1>6. CASE i # Len(wire) + 1
  <2>1. i \in 1..Len(wire) /\ wire[i] = wire'[i]
    BY <1>3, <1>6
  <2>2. wire[i].asker = w /\ w # t
    BY <1>4, <2>1 DEF WireInv, Sends
  <2>3. pc[w] = "findReply" /\ key'[w] = key[w]
    BY <1>4, <2>2
  <2>4. Truthful(w, wire[i].hasDoc)
    BY <2>1, <2>2, <2>3 DEF AnswerInv
  <2> QED
    BY <2>1, <2>3, <2>4 DEF Truthful, Stored, Done
<1> QED
  BY <1>5, <1>6

(* No worker forgets a failure. *)
LEMMA FailedGrows ==
  ASSUME [Next]_vars
  PROVE  failed \subseteq failed'
BY DEF Next, WorkerStep, Waiting, Holding, Answered, ReaderStep, Take, FetchFails, Fetched, Ensure, Resume, Yield,
       ConvertRaises, Converted, ConvertedNothing, Find, FindRefused, FindReply, FindFails, Write, WriteRefused,
       Written, WriteFails, Release, Query, QueryReply, QueryFails, Disconnect, Signal, ExitHook,
       EnsureFinalized, Fails, mongoVars, vars

LEMMA AnswerStep ==
  ASSUME IInv, [Next]_vars
  PROVE  AnswerInv'
<1> SUFFICES ASSUME connected', ~mixed' PROVE AnswerInv'
  BY DEF AnswerInv
<1>1. connected /\ (SameCalls \/ \E t \in Threads : Sends(t) \/ Receives(t))
  BY CallStep DEF IInv
<1>2. ~mixed
  BY <1>1 DEF SameCalls, Sends, Receives, Receive
<1>3. wire \in Seq(Replies) /\ AnswerInv /\ WireInv /\ LockDiscipline /\ failed \subseteq failed'
  BY FailedGrows DEF IInv, LockInv, TypeOK
<1> USE CollectorAssumption
    DEF CollectorAssumption, IInv, LockInv, TypeOK, Threads, Goto, jobVars, mongoVars, procVars
<1>4. ASSUME NEW w \in Workers, Take(w) \/ FetchFails(w) \/ Fetched(w) \/ Waiting(w) \/ Yield(w)
      PROVE AnswerInv'
  BY <1>1, <1>2, <1>3, <1>4, AnswerKept DEF Take, FetchFails, Fetched, Waiting, Ensure, Resume, Yield
<1>5. ASSUME NEW w \in Workers, ConvertRaises(w) \/ Converted(w) \/ ConvertedNothing(w) \/ Release(w)
      PROVE AnswerInv'
  BY <1>1, <1>2, <1>3, <1>5, AnswerKept DEF ConvertRaises, Converted, ConvertedNothing, Release
<1>6. ASSUME NEW w \in Workers, Find(w) \/ FindRefused(w) PROVE AnswerInv'
  <2>1. PICK k \in todo[w] :
          /\ key' = [key EXCEPT ![w] = k]
          /\ Reply(w, Stored(k)) \/ (Reply(w, FALSE) /\ Fails(w, "find", k))
    BY <1>6 DEF Find, FindRefused
  <2>2. Sends(w) /\ docs' = docs /\ job' = job
    <3>1. pc[w] = "find" /\ pc' = [pc EXCEPT ![w] = "findReply"] /\ UNCHANGED <<docs, job, mixed>>
      BY <1>6 DEF Find, FindRefused
    <3>2. w \notin Asking /\ Asking' = Asking \union {w}
      BY <3>1 DEF Asking
    <3>3. \E d \in BOOLEAN : Reply(w, d)
      BY <2>1 DEF Stored
    <3> QED
      BY <3>1, <3>2, <3>3 DEF Sends
  <2>3. \A v \in Workers \ {w} : key'[v] = key[v] /\ pc'[v] = pc[v]
    BY <1>6, <2>1 DEF Find, FindRefused
  <2>4. key'[w] = k /\ w \in Threads
    BY <2>1
  <2>5. CASE Reply(w, Stored(k))
    <3>1. PICK d \in BOOLEAN : d = Stored(k) /\ Reply(w, d)
      BY <2>5 DEF Stored
    <3>2. Truthful(w, d)'
      BY <2>2, <2>4, <3>1 DEF Truthful, Stored
    <3> HIDE DEF IInv, LockInv, TypeOK, Threads, Goto, jobVars, mongoVars, procVars
    <3> QED
      BY <1>1, <1>2, <1>3, <2>2, <2>3, <2>4, <3>1, <3>2, AnswerSent
  <2>6. CASE Reply(w, FALSE) /\ Fails(w, "find", k)
    <3>1. Truthful(w, FALSE)'
      BY <2>2, <2>4, <2>6 DEF Truthful, Fails, Done
    <3> QED
      BY <1>1, <1>2, <1>3, <2>2, <2>3, <2>4, <2>6, <3>1, AnswerSent
  <2> QED
    BY <2>1, <2>5, <2>6
<1>7. ASSUME NEW w \in Workers, FindReply(w) \/ Written(w) PROVE AnswerInv'
  BY <1>1, <1>2, <1>3, <1>7, AnswerKept DEF FindReply, Written, NextRecord, EndRecord, Receive
<1>8. ASSUME NEW w \in Workers, Write(w) \/ WriteRefused(w) PROVE AnswerInv'
  <2>1. \A v \in Workers : v # w => pc[v] # "findReply"
    BY <1>3, <1>8, Alone DEF Write, WriteRefused, Locked, Storing
  <2>2. \A v \in Workers : pc'[v] # "findReply"
    BY <1>8, <2>1 DEF Write, WriteRefused
  <2> QED
    BY <2>2 DEF AnswerInv
<1>9. ASSUME NEW w \in Workers, FindFails(w) \/ WriteFails(w) PROVE AnswerInv'
  <2>1. \A v \in Workers : v # w => pc[v] # "findReply"
    BY <1>3, <1>9, Alone DEF FindFails, WriteFails, Locked, Storing
  <2>2. \A v \in Workers : pc'[v] # "findReply"
    BY <1>9, <2>1 DEF FindFails, WriteFails, NextRecord
  <2> QED
    BY <2>2 DEF AnswerInv
<1>10. ASSUME NEW r \in Readers, Query(r) PROVE AnswerInv'
  <2>1. PICK d \in BOOLEAN : Reply(r, d)
    BY <1>10 DEF Query, Stored
  <2>2. Sends(r) /\ docs' = docs /\ job' = job /\ r \notin Workers
    <3>1. r \notin Asking /\ Asking' = Asking \union {r}
      BY <1>10 DEF Query, Asking
    <3> QED
      BY <1>10, <2>1, <3>1 DEF Query, Sends
  <2>3. \A v \in Workers \ {r} : key'[v] = key[v] /\ pc'[v] = pc[v]
    BY <1>10 DEF Query
  <2>4. r \in Threads /\ (r \in Workers => Truthful(r, d)')
    BY <2>2
  <2> HIDE DEF IInv, LockInv, TypeOK, Threads, Goto, jobVars, mongoVars, procVars
  <2> QED
    BY <1>1, <1>2, <1>3, <2>1, <2>2, <2>3, <2>4, AnswerSent
<1>11. ASSUME NEW r \in Readers, QueryReply(r) \/ QueryFails(r) PROVE AnswerInv'
  BY <1>1, <1>2, <1>3, <1>11, AnswerKept DEF QueryReply, QueryFails, Receive
<1>12. CASE Disconnect \/ Signal \/ ExitHook \/ EnsureFinalized
  BY <1>1, <1>2, <1>3, <1>12, AnswerKept DEF Disconnect, Signal, ExitHook, EnsureFinalized
<1>13. CASE UNCHANGED vars
  BY <1>1, <1>2, <1>3, <1>13, AnswerKept DEF vars
<1> HIDE DEF IInv, LockInv, TypeOK, Threads, Goto, jobVars, mongoVars, procVars
<1> QED
  BY <1>4, <1>5, <1>6, <1>7, <1>8, <1>9, <1>10, <1>11, <1>12, <1>13
     DEF Next, WorkerStep, Holding, Answered, ReaderStep

-----------------------------------------------------------------------------
(* What a write makes of the documents of a key. *)

(* An update puts the job in every document. *)
LEMMA Updated ==
  ASSUME NEW d \in Seq(1..MaxJobs), NEW j, NEW e, e = [i \in DOMAIN d |-> j]
  PROVE  /\ Len(e) = Len(d)
         /\ ToSet(e) = IF d = <<>> THEN {} ELSE {j}
<1>1. Len(d) \in Nat /\ DOMAIN d = 1..Len(d)
  BY LenProperties
<1>2. d = <<>> <=> Len(d) = 0
  BY EmptySeq
<1> DEFINE f == [i \in 1..Len(d) |-> j]
<1>3. f \in Seq({j}) /\ DOMAIN f = 1..Len(d)
  BY <1>1, SeqDef
<1>4. Len(f) = Len(d)
  BY <1>1, <1>3, LenProperties
<1>5. ToSet(f) = IF d = <<>> THEN {} ELSE {j}
  <2>1. ToSet(f) = {f[i] : i \in 1..Len(d)}
    BY <1>3 DEF ToSet
  <2>2. \A i \in 1..Len(d) : f[i] = j
    OBVIOUS
  <2>3. Len(d) # 0 => 1 \in 1..Len(d)
    BY <1>1
  <2>4. Len(d) = 0 => 1..Len(d) = {}
    OBVIOUS
  <2> HIDE DEF f
  <2> QED
    BY <1>2, <2>1, <2>2, <2>3, <2>4
<1> QED
  BY <1>1, <1>4, <1>5

(* An insert adds one. *)
LEMMA Inserted ==
  ASSUME NEW d \in Seq(1..MaxJobs), NEW j \in 1..MaxJobs
  PROVE  /\ Len(Append(d, j)) = Len(d) + 1
         /\ ToSet(Append(d, j)) = ToSet(d) \union {j}
         /\ d = <<>> => ToSet(d) = {} /\ Len(Append(d, j)) = 1
<1>1. Len(d) \in Nat /\ DOMAIN d = 1..Len(d)
  BY LenProperties
<1>2. d = <<>> => Len(d) = 0
  BY EmptySeq
<1>3. /\ Append(d, j) \in Seq(1..MaxJobs)
      /\ Len(Append(d, j)) = Len(d) + 1
      /\ \A i \in 1..Len(d) : Append(d, j)[i] = d[i]
      /\ Append(d, j)[Len(d) + 1] = j
  BY AppendProperties
<1>4. DOMAIN Append(d, j) = 1..Len(d) + 1
  BY <1>1, <1>3, LenProperties
<1>5. ToSet(Append(d, j)) = ToSet(d) \union {j}
  BY <1>1, <1>3, <1>4 DEF ToSet
<1> QED
  BY <1>1, <1>2, <1>3, <1>5 DEF ToSet

(* The state before a write, and what it leaves, in general: *)
LEMMA WriteEffect ==
  ASSUME LockInv, NEW w \in Workers, Write(w)
  PROVE  /\ key[w] \in Keys /\ key[w] \in todo[w] /\ job[w] \in 1..MaxJobs /\ pc[w] = "write" /\ connected
         /\ docs[key[w]] \in Seq(1..MaxJobs)
         /\ docs' = [docs EXCEPT ![key[w]] = docs'[key[w]]]
         /\ found[w] => /\ Len(docs'[key[w]]) = Len(docs[key[w]])
                        /\ ToSet(docs'[key[w]]) = IF Stored(key[w]) THEN {job[w]} ELSE {}
         /\ ~found[w] => /\ Len(docs'[key[w]]) = Len(docs[key[w]]) + 1
                         /\ ToSet(docs'[key[w]]) = ToSet(docs[key[w]]) \union {job[w]}
         /\ ~Stored(key[w]) => Len(docs[key[w]]) = 0 /\ ToSet(docs[key[w]]) = {}
<1> DEFINE k == key[w]
           d == docs[k]
           j == job[w]
<1>1. k \in Keys /\ k \in todo[w] /\ j \in 1..MaxJobs /\ pc[w] = "write" /\ connected /\ d \in Seq(1..MaxJobs)
  BY DEF LockInv, TypeOK, LocalInv, Write, Goto
<1>2. docs' = [docs EXCEPT ![k] = IF found[w] THEN [i \in DOMAIN d |-> j] ELSE Append(d, j)]
  BY DEF Write
<1>3. docs'[k] = IF found[w] THEN [i \in DOMAIN d |-> j] ELSE Append(d, j)
  BY <1>1, <1>2 DEF LockInv, TypeOK
<1>4. docs' = [docs EXCEPT ![k] = docs'[k]]
  BY <1>2, <1>3
<1>5. ~Stored(k) => Len(d) = 0 /\ ToSet(d) = {}
  BY <1>1, Inserted, EmptySeq DEF Stored
<1> HIDE DEF k, d, j
<1>6. /\ found[w] => Len(docs'[k]) = Len(d) /\ ToSet(docs'[k]) = IF d = <<>> THEN {} ELSE {j}
      /\ ~found[w] => Len(docs'[k]) = Len(d) + 1 /\ ToSet(docs'[k]) = ToSet(d) \union {j}
  <2>1. CASE found[w]
    <3>1. docs'[k] = [i \in DOMAIN d |-> j]
      BY <1>3, <2>1
    <3> QED
      BY <1>1, <2>1, <3>1, Updated
  <2>2. CASE ~found[w]
    <3>1. docs'[k] = Append(d, j)
      BY <1>3, <2>2
    <3> QED
      BY <1>1, <2>2, <3>1, Inserted
  <2> QED
    BY <2>1, <2>2
<1> QED
  BY <1>1, <1>4, <1>5, <1>6 DEF k, d, j, Stored

(* The reply that counts is the worker's own, and true. *)
LEMMA FindReplyTrue ==
  ASSUME IInv, connected, NEW w \in Workers, FindReply(w), ~mixed'
  PROVE  Truthful(w, found'[w])
<1>1. wire # <<>> /\ wire \in Seq(Replies) /\ Head(wire).asker = w /\ ~mixed /\ pc[w] = "findReply"
  BY DEF FindReply, Receive, Goto, IInv, LockInv, TypeOK
<1>2. 1 \in 1..Len(wire) /\ Head(wire) = wire[1]
  BY <1>1, HeadTailProperties, LenProperties, EmptySeq
<1>3. Truthful(w, Head(wire).hasDoc)
  BY <1>1, <1>2 DEF IInv, AnswerInv
<1>4. found'[w] = Head(wire).hasDoc
  BY DEF FindReply, IInv, LockInv, TypeOK
<1> QED
  BY <1>3, <1>4

(* A record that is stored stays so while nothing is written. *)
LEMMA RecordKept ==
  ASSUME NEW w \in Workers, NEW k \in Keys, RecordStored(w, k),
         docs'[k] = docs[k], job'[w] = job[w], failed \subseteq failed'
  PROVE  RecordStored(w, k)'
BY DEF RecordStored, Done

(* A step that writes nothing and leaves the storing worker where it is. *)
LEMMA DocsKept ==
  ASSUME IInv, ~mixed, docs' = docs, failed \subseteq failed', batch' \in [Workers -> SUBSET Keys],
         \A v \in Workers : pc'[v] = "write" => Truthful(v, found[v])',
         \A v \in Storing' : \A k \in batch'[v] \ Unwritten(v)' :
            \/ v \in Storing /\ k \in batch[v] \ Unwritten(v) /\ job'[v] = job[v]
            \/ ~Done(v, "write", k)'
  PROVE  DocsInv' /\ UniqueDocument'
<1>1. UniqueDocument'
  <2> SUFFICES ASSUME NEW k \in Keys
               PROVE  Len(docs[k]) <= 1 \/ \E j \in 1..MaxJobs : <<"find", j, k>> \in failed'
    BY DEF UniqueDocument
  <2> QED
    BY DEF UniqueDocument, IInv
<1>2. ASSUME NEW v \in Storing', NEW k \in batch'[v] \ Unwritten(v)' PROVE RecordStored(v, k)'
  <2>0. v \in Workers /\ k \in Keys
    BY DEF Storing
  <2>1. CASE ~Done(v, "write", k)'
    BY <2>1 DEF RecordStored
  <2>2. CASE v \in Storing /\ k \in batch[v] \ Unwritten(v) /\ job'[v] = job[v]
    <3>1. RecordStored(v, k)
      BY <2>0, <2>2 DEF IInv, DocsInv
    <3> QED
      BY <2>0, <2>2, <3>1, RecordKept
  <2> QED
    BY <1>2, <2>1, <2>2
<1> QED
  BY <1>1, <1>2 DEF DocsInv

LEMMA DocsStep ==
  ASSUME IInv, [Next]_vars, TypeOK'
  PROVE  DocsInv' /\ UniqueDocument'
<1> SUFFICES ASSUME ~mixed' PROVE DocsInv' /\ UniqueDocument'
  BY DEF DocsInv, UniqueDocument
<1>a. ~mixed
  BY DEF Next, WorkerStep, Waiting, Holding, Answered, ReaderStep, Take, FetchFails, Fetched, Ensure, Resume, Yield,
         ConvertRaises, Converted, ConvertedNothing, Find, FindRefused, FindReply, FindFails, Write, WriteRefused,
         Written, WriteFails, Release, Query, QueryReply, QueryFails, Disconnect, Signal, ExitHook,
         EnsureFinalized, Receive, mongoVars, vars
<1>b. failed \subseteq failed' /\ batch' \in [Workers -> SUBSET Keys]
  BY FailedGrows DEF TypeOK
<1>c. \A v \in Workers : pc[v] = "write" => Truthful(v, found[v])
  BY <1>a DEF IInv, DocsInv
<1> USE DEF IInv, LockInv, TypeOK, Goto, jobVars, mongoVars, procVars, Threads, Storing, Unwritten
<1>d. ASSUME docs' = docs, \A v \in Workers : pc'[v] = "write" => pc[v] = "write" /\ UNCHANGED <<found[v], key[v], job[v]>>
      PROVE  \A v \in Workers : pc'[v] = "write" => Truthful(v, found[v])'
  BY <1>b, <1>c, <1>d DEF Truthful, Stored, Done
<1>1. ASSUME NEW w \in Workers,
             \/ Take(w) \/ FetchFails(w) \/ Fetched(w) \/ Waiting(w) \/ Yield(w) \/ ConvertRaises(w)
             \/ Converted(w) \/ ConvertedNothing(w) \/ Release(w) \/ Find(w) \/ FindRefused(w)
      PROVE DocsInv' /\ UniqueDocument'
  <2>1. docs' = docs /\ \A v \in Workers : pc'[v] = "write" => pc[v] = "write" /\ UNCHANGED <<found[v], key[v], job[v]>>
    BY <1>1 DEF Take, FetchFails, Fetched, Waiting, Ensure, Resume, Yield, ConvertRaises, Converted,
                ConvertedNothing, Release, Find, FindRefused
  <2>2. \A v \in Storing' : \A k \in batch'[v] \ Unwritten(v)' :
           v \in Storing /\ k \in batch[v] \ Unwritten(v) /\ job'[v] = job[v]
    <3>1. CASE Take(w) \/ FetchFails(w) \/ Fetched(w) \/ Waiting(w) \/ Yield(w) \/ ConvertRaises(w)
      BY <3>1 DEF Take, FetchFails, Fetched, Waiting, Ensure, Resume, Yield, ConvertRaises
    <3>2. CASE Converted(w)
      BY <3>2 DEF Converted
    <3>3. CASE ConvertedNothing(w) \/ Release(w)
      BY <3>3 DEF ConvertedNothing, Release
    <3>4. CASE Find(w) \/ FindRefused(w)
      BY <3>4 DEF Find, FindRefused
    <3> QED
      BY <1>1, <3>1, <3>2, <3>3, <3>4
  <2> QED
    BY <1>a, <1>b, <1>d, <2>1, <2>2, DocsKept
<1>2. ASSUME NEW w \in Workers, FindReply(w) PROVE DocsInv' /\ UniqueDocument'
  <2>1. Truthful(w, found'[w])
    BY <1>2, FindReplyTrue DEF FindReply
  <2>2. docs' = docs /\ key' = key /\ job' = job /\ failed' = failed /\ pc[w] = "findReply"
        /\ pc' = [pc EXCEPT ![w] = "write"] /\ (\A v \in Workers \ {w} : found'[v] = found[v])
    BY <1>2 DEF FindReply
  <2>3. \A v \in Workers : pc'[v] = "write" => Truthful(v, found[v])'
    <3>1. Truthful(w, found[w])'
      BY <2>1, <2>2 DEF Truthful, Stored, Done
    <3>2. ASSUME NEW v \in Workers, v # w, pc'[v] = "write" PROVE Truthful(v, found[v])'
      BY <1>c, <2>2, <3>2 DEF Truthful, Stored, Done
    <3> QED
      BY <3>1, <3>2
  <2>4. \A v \in Storing' : \A k \in batch'[v] \ Unwritten(v)' :
           v \in Storing /\ k \in batch[v] \ Unwritten(v) /\ job'[v] = job[v]
    BY <1>2 DEF FindReply
  <2> QED
    BY <1>a, <1>b, <2>2, <2>3, <2>4, DocsKept
<1>3. ASSUME NEW w \in Workers, FindFails(w) PROVE DocsInv' /\ UniqueDocument'
  <2>1. PICK k \in Keys : key' = [key EXCEPT ![w] = k] /\ Fails(w, "find", k)
    <3>1. PICK k \in IF pc[w] = "find" THEN todo[w] ELSE {key[w]} :
            key' = [key EXCEPT ![w] = k] /\ Fails(w, "find", k)
      BY <1>3 DEF FindFails
    <3>2. k \in Keys
      BY <1>3, <3>1 DEF FindFails, LocalInv
    <3> QED
      BY <3>1, <3>2
  <2>2. docs' = docs /\ job' = job /\ pc[w] \in {"find", "findReply"} /\ todo' = todo /\ batch' = batch
        /\ pc' = [pc EXCEPT ![w] = "write"] /\ found' = [found EXCEPT ![w] = FALSE]
    BY <1>3 DEF FindFails
  <2>3. \A v \in Workers : pc'[v] = "write" => Truthful(v, found[v])'
    <3>1. Truthful(w, found[w])'
      BY <2>1, <2>2 DEF Truthful, Done, Fails
    <3>2. ASSUME NEW v \in Workers, v # w, pc'[v] = "write" PROVE Truthful(v, found[v])'
      BY <1>b, <1>c, <2>1, <2>2, <3>2 DEF Truthful, Stored, Done
    <3> QED
      BY <3>1, <3>2
  <2>4. \A v \in Storing' : \A k2 \in batch'[v] \ Unwritten(v)' :
           v \in Storing /\ k2 \in batch[v] \ Unwritten(v) /\ job'[v] = job[v]
    BY <2>1, <2>2
  <2> QED
    BY <1>a, <1>b, <2>2, <2>3, <2>4, DocsKept
<1>4. ASSUME NEW w \in Workers, WriteRefused(w) \/ Written(w) \/ WriteFails(w) PROVE DocsInv' /\ UniqueDocument'
  <2>1. docs' = docs /\ job' = job /\ batch' = batch /\ pc[w] \in {"write", "writeReply"}
        /\ (pc[w] = "write" => Fails(w, "write", key[w])) /\ key[w] \in todo[w]
    BY <1>4 DEF WriteRefused, Written, WriteFails, LocalInv
  <2>2. \A v \in Workers \ {w} : UNCHANGED <<pc[v], found[v], key[v], todo[v]>>
    BY <1>4 DEF WriteRefused, Written, WriteFails, NextRecord, EndRecord
  <2>3. pc'[w] # "write"
    BY <1>4 DEF WriteRefused, Written, WriteFails, NextRecord
  <2>4. \A v \in Workers : pc'[v] = "write" => Truthful(v, found[v])'
    BY <1>d, <2>1, <2>2, <2>3
  <2>5. Unwritten(w)' = Unwritten(w) \ {key[w]}
    <3>1. CASE WriteRefused(w)
      BY <3>1 DEF WriteRefused
    <3>2. CASE Written(w) \/ WriteFails(w)
      BY <2>1, <3>2 DEF Written, WriteFails, NextRecord, EndRecord
    <3> QED
      BY <1>4, <3>1, <3>2
  <2>6. ASSUME NEW v \in Storing', NEW k \in batch'[v] \ Unwritten(v)'
        PROVE  \/ v \in Storing /\ k \in batch[v] \ Unwritten(v) /\ job'[v] = job[v]
               \/ ~Done(v, "write", k)'
    <3>1. CASE v # w
      BY <2>1, <2>2, <2>6, <3>1
    <3>2. CASE v = w /\ k # key[w]
      BY <2>1, <2>5, <2>6, <3>2
    <3>3. CASE v = w /\ k = key[w] /\ pc[w] = "writeReply"
      BY <2>1, <2>6, <3>3
    <3>4. CASE v = w /\ k = key[w] /\ pc[w] = "write"
      BY <2>1, <3>4 DEF Fails, Done
    <3> QED
      BY <2>1, <3>1, <3>2, <3>3, <3>4
  <2> QED
    BY <1>a, <1>b, <2>1, <2>4, <2>6, DocsKept
<1>5. ASSUME NEW w \in Workers, Write(w) PROVE DocsInv' /\ UniqueDocument'
  <2>1. /\ key[w] \in Keys /\ key[w] \in todo[w] /\ job[w] \in 1..MaxJobs /\ pc[w] = "write"
        /\ docs[key[w]] \in Seq(1..MaxJobs)
        /\ docs' = [docs EXCEPT ![key[w]] = docs'[key[w]]]
        /\ found[w] => /\ Len(docs'[key[w]]) = Len(docs[key[w]])
                       /\ ToSet(docs'[key[w]]) = IF Stored(key[w]) THEN {job[w]} ELSE {}
        /\ ~found[w] => /\ Len(docs'[key[w]]) = Len(docs[key[w]]) + 1
                        /\ ToSet(docs'[key[w]]) = ToSet(docs[key[w]]) \union {job[w]}
        /\ ~Stored(key[w]) => Len(docs[key[w]]) = 0 /\ ToSet(docs[key[w]]) = {}
    BY <1>5, WriteEffect
  <2>2. /\ UNCHANGED <<job, batch, todo, key, found, failed>>
        /\ pc' = [pc EXCEPT ![w] = "writeReply"]
    BY <1>5 DEF Write
  <2>3. Truthful(w, found[w])
    BY <1>c, <2>1
  <2>4. UniqueDocument'
    <3> SUFFICES ASSUME NEW k \in Keys
                 PROVE  Len(docs'[k]) <= 1 \/ \E j \in 1..MaxJobs : <<"find", j, k>> \in failed
      BY <2>2 DEF UniqueDocument
    <3>1. Len(docs[k]) <= 1 \/ \E j \in 1..MaxJobs : <<"find", j, k>> \in failed
      BY <1>a DEF UniqueDocument
    <3>2. CASE k # key[w]
      BY <2>1, <3>1, <3>2
    <3>3. CASE k = key[w] /\ found[w]
      BY <2>1, <3>1, <3>3
    <3>4. CASE k = key[w] /\ ~found[w] /\ Stored(k)
      <4>1. <<"find", job[w], k>> \in failed
        BY <2>3, <3>4 DEF Truthful, Done
      <4> QED
        BY <2>1, <4>1
    <3>5. CASE k = key[w] /\ ~found[w] /\ ~Stored(k)
      <4>1. Len(docs'[key[w]]) = 0 + 1
        BY <2>1, <3>5
      <4> QED
        BY <3>5, <4>1
    <3> QED
      BY <3>2, <3>3, <3>4, <3>5
  <2>5. \A v \in Workers : v # w => v \notin Storing
    BY <2>1, Alone DEF Locked
  <2>6. ASSUME NEW v \in Storing', NEW k \in batch'[v] \ Unwritten(v)' PROVE RecordStored(v, k)'
    <3>1. v = w /\ k \in Keys
      BY <2>2, <2>5, <2>6
    <3>2. CASE k # key[w]
      <4>1. k \in batch[w] \ Unwritten(w) /\ w \in Storing
        BY <2>1, <2>2, <2>6, <3>1, <3>2
      <4>2. RecordStored(w, k)
        BY <1>a, <4>1 DEF DocsInv
      <4>3. docs'[k] = docs[k]
        BY <2>1, <3>1, <3>2
      <4> QED
        BY <2>2, <3>1, <4>2, <4>3, RecordKept
    <3>3. CASE k = key[w]
      <4>1. Stored(k) /\ ~found[w] => ~Done(w, "find", k)
        BY <2>3, <3>3 DEF Truthful
      <4>2. found[w] => Stored(k)
        BY <2>3, <3>3 DEF Truthful
      <4>3. job[w] \in ToSet(docs'[k]) /\ (Done(w, "find", k) => ToSet(docs'[k]) = {job[w]})
        BY <2>1, <3>3, <4>1, <4>2
      <4> QED
        BY <2>2, <3>1, <4>3 DEF RecordStored, Done
    <3> QED
      BY <3>2, <3>3
  <2>7. \A v \in Workers : pc'[v] # "write"
    BY <2>1, <2>2, <2>5
  <2> QED
    BY <2>4, <2>6, <2>7 DEF DocsInv
<1>6. ASSUME \/ \E r \in Readers : ReaderStep(r)
             \/ Disconnect \/ Signal \/ ExitHook \/ EnsureFinalized \/ UNCHANGED vars
      PROVE DocsInv' /\ UniqueDocument'
  <2>1. UNCHANGED <<jobVars, docs, failed>>
    <3>1. CASE \E r \in Readers : ReaderStep(r)
      BY <3>1 DEF ReaderStep, Query, QueryReply, QueryFails
    <3>2. CASE Disconnect \/ Signal \/ ExitHook \/ EnsureFinalized
      BY <3>2 DEF Disconnect, Signal, ExitHook, EnsureFinalized
    <3> QED
      BY <1>6, <3>1, <3>2 DEF vars
  <2>2. \A w \in Workers : pc'[w] = pc[w]
    <3>1. ASSUME NEW r \in Readers, ReaderStep(r) PROVE \A w \in Workers : pc'[w] = pc[w]
      <4>1. \E q \in {"idle", "queryReply"} : pc' = [pc EXCEPT ![r] = q]
        BY <3>1 DEF ReaderStep, Query, QueryReply, QueryFails
      <4>2. r \notin Workers
        BY CollectorAssumption DEF CollectorAssumption
      <4> QED
        BY <4>1, <4>2
    <3>2. CASE Disconnect \/ Signal \/ ExitHook \/ EnsureFinalized
      BY <3>2 DEF Disconnect, Signal, ExitHook, EnsureFinalized
    <3> QED
      BY <1>6, <3>1, <3>2 DEF vars
  <2>3. \A v \in Storing' : \A k \in batch'[v] \ Unwritten(v)' :
           v \in Storing /\ k \in batch[v] \ Unwritten(v) /\ job'[v] = job[v]
    BY <2>1, <2>2
  <2> QED
    BY <1>a, <1>b, <1>d, <2>1, <2>2, <2>3, DocsKept
<1> HIDE DEF IInv, LockInv, TypeOK, Goto, jobVars, mongoVars, procVars, Threads, Storing, Unwritten
<1> QED
  BY <1>1, <1>2, <1>3, <1>4, <1>5, <1>6 DEF Next, WorkerStep, Holding, Answered

LEMMA StoreInit == Init => WireInv /\ AnswerInv /\ DocsInv /\ UniqueDocument
BY EmptySeq DEF Init, WireInv, AnswerInv, DocsInv, UniqueDocument, Storing, Threads

(* The inductive invariant holds in every reachable state. *)
LEMMA CollectorInvariant == Spec => []IInv
<1>1. Init => IInv
  BY LockInit, StoreInit DEF IInv
<1>2. IInv /\ [Next]_vars => IInv'
  BY TypeStep, LockStep, WireStep, AnswerStep, DocsStep DEF IInv, LockInv
<1> QED
  BY <1>1, <1>2, PTL DEF Spec

(* Until a thread reads another's reply or a look-up fails, no two documents have one (uuid, type). *)
THEOREM CollectorUniqueDocument == Spec => []UniqueDocument
<1>1. IInv => UniqueDocument
  BY DEF IInv
<1> QED
  BY <1>1, CollectorInvariant, PTL

(***************************************************************************)
(* Until replies are mixed up, a report is stored before its worker gives  *)
(* up the lock, but for the records whose own requests failed, and whether *)
(* or not the connection lives.                                            *)
(***************************************************************************)
THEOREM CollectorReportStored == Spec => []ReportStored
<1>1. IInv => ReportStored
  BY DEF IInv, LockInv, ReportStored, DocsInv, LocalInv, Storing, Unwritten
<1> QED
  BY <1>1, CollectorInvariant, PTL

-----------------------------------------------------------------------------
(* What the second document needs *)

(* A step changes the documents only by writing. *)
LEMMA OnlyWrites ==
  ASSUME [Next]_vars, \A w \in Workers : ~Write(w)
  PROVE  docs' = docs
BY DEF Next, WorkerStep, Waiting, Holding, Answered, ReaderStep, Take, FetchFails, Fetched, Ensure, Resume, Yield,
       ConvertRaises, Converted, ConvertedNothing, Find, FindRefused, FindReply, FindFails, WriteRefused, Written,
       WriteFails, Release, Query, QueryReply, QueryFails, Disconnect, Signal, ExitHook, EnsureFinalized,
       mongoVars, vars

(* The look-up of k by the worker that is about to write k has failed. *)
LookupFailed(k) == \E w \in Workers : pc[w] = "write" /\ key[w] = k /\ ~Done(w, "find", k)

LEMMA InsertStep ==
  ASSUME IInv, [Next]_vars, NEW k \in Keys, Len(docs'[k]) > Len(docs[k]), docs[k] # <<>>
  PROVE  mixed \/ LookupFailed(k)
<1> SUFFICES ASSUME ~mixed PROVE LookupFailed(k)
  OBVIOUS
<1>1. docs \in [Keys -> Seq(1..MaxJobs)] /\ Len(docs[k]) \in Nat
  BY LenProperties DEF IInv, LockInv, TypeOK
<1>2. PICK w \in Workers : Write(w)
  BY <1>1, OnlyWrites
<1>3. /\ docs' = [docs EXCEPT ![key[w]] = docs'[key[w]]]
      /\ found[w] => Len(docs'[key[w]]) = Len(docs[key[w]])
      /\ pc[w] = "write"
  BY <1>2, WriteEffect DEF IInv
<1>4. k = key[w]
  <2>1. k # key[w] => docs'[k] = docs[k]
    BY <1>1, <1>3
  <2> QED
    BY <1>1, <2>1
<1>5. Stored(k) /\ ~found[w]
  BY <1>1, <1>3, <1>4 DEF Stored
<1>6. Truthful(w, found[w])
  BY <1>3 DEF IInv, DocsInv
<1> QED
  BY <1>3, <1>4, <1>5, <1>6 DEF Truthful, LookupFailed

(***************************************************************************)
(* A document is inserted beside another for one of two reasons, and for   *)
(* no other: a thread has read a reply that was not its own, or this very  *)
(* job's look-up of the key has failed.  No order of the workers alone     *)
(* brings it about, nor does the failure of another request.               *)
(***************************************************************************)
SecondDocumentHasCause ==
  [][\A k \in Keys :
       Len(docs'[k]) > Len(docs[k]) /\ docs[k] # <<>> => mixed \/ LookupFailed(k)]_vars

THEOREM CollectorSecondDocumentHasCause == Spec => SecondDocumentHasCause
<1> DEFINE A == \A k \in Keys :
                  Len(docs'[k]) > Len(docs[k]) /\ docs[k] # <<>> => mixed \/ LookupFailed(k)
<1>1. IInv /\ [Next]_vars => [A]_vars
  BY InsertStep
<1> QED
  BY <1>1, CollectorInvariant, PTL DEF Spec, SecondDocumentHasCause
=============================================================================
