------------------------- MODULE CollectorRefinement -------------------------
(***************************************************************************)
(* Proof that the collector implements the store into which one report at  *)
(* a time is written, for any workers, HTTP threads, keys and number of    *)
(* jobs and errors: every step of the collector is one step of ReportStore *)
(* or changes nothing there.                                               *)
(***************************************************************************)
EXTENDS CollectorProofs

OpenJobs == {job[w] : w \in Open}

(* An HTTP thread does not move a worker. *)
LEMMA ReaderApart ==
  ASSUME TypeOK, NEW r \in Readers, ReaderStep(r)
  PROVE  \A w \in Workers : pc'[w] = pc[w]
<1>1. \E q \in {"idle", "queryReply"} : pc' = [pc EXCEPT ![r] = q]
  BY DEF ReaderStep, Query, QueryReply, QueryFails, Goto
<1>2. r \notin Workers
  BY CollectorAssumption DEF CollectorAssumption
<1> QED
  BY <1>1, <1>2 DEF TypeOK, Threads

(* Jobs under way have numbers of their own. *)
JobInv ==
  /\ \A w \in Workers : job[w] <= jobs
  /\ \A v, w \in Workers : pc[v] # "idle" /\ pc[w] # "idle" /\ job[v] = job[w] => v = w

RInv == IInv /\ JobInv

LEMMA JobStep ==
  ASSUME RInv, [Next]_vars
  PROVE  JobInv'
<1> USE DEF RInv, IInv, LockInv, TypeOK, JobInv, Goto, jobVars, Threads
<1>1. ASSUME NEW w \in Workers, Take(w) PROVE JobInv'
  BY <1>1 DEF Take
<1>2. ASSUME jobs' = jobs, job' = job, \A v \in Workers : pc[v] = "idle" => pc'[v] = "idle" PROVE JobInv'
  BY <1>2
<1>3. ASSUME NEW w \in Workers, WorkerStep(w), ~Take(w) PROVE JobInv'
  <2>1. jobs' = jobs /\ job' = job
    BY <1>3 DEF WorkerStep, Waiting, Holding, Answered, FetchFails, Fetched, Ensure, Resume, Yield, ConvertRaises,
                Converted, ConvertedNothing, Find, FindRefused, FindReply, FindFails, Write, WriteRefused, Written,
                WriteFails, Release
  <2>2. \A v \in Workers : pc[v] = "idle" => pc'[v] = "idle"
    BY <1>3 DEF WorkerStep, Waiting, Holding, Answered, FetchFails, Fetched, Ensure, Resume, Yield, ConvertRaises,
                Converted, ConvertedNothing, Find, FindRefused, FindReply, FindFails, Write, WriteRefused, Written,
                WriteFails, Release, NextRecord
  <2> QED
    BY <1>2, <2>1, <2>2
<1>4. ASSUME NEW r \in Readers, ReaderStep(r) PROVE JobInv'
  <2>1. jobs' = jobs /\ job' = job
    BY <1>4 DEF ReaderStep, Query, QueryReply, QueryFails
  <2>2. \A v \in Workers : pc'[v] = pc[v]
    BY <1>4, ReaderApart
  <2> QED
    BY <1>2, <2>1, <2>2
<1>5. ASSUME Disconnect \/ Signal \/ ExitHook \/ EnsureFinalized PROVE JobInv'
  BY <1>2, <1>5 DEF Disconnect, Signal, ExitHook, EnsureFinalized
<1>6. ASSUME UNCHANGED vars PROVE JobInv'
  BY <1>6 DEF vars
<1> HIDE DEF RInv, IInv, LockInv, TypeOK, JobInv, Goto, jobVars, Threads
<1> QED
  BY <1>1, <1>3, <1>4, <1>5, <1>6 DEF Next

-----------------------------------------------------------------------------
(* The abstract store, seen from the worker that stores *)

LEMMA Holder ==
  LockDiscipline => \A w \in Storing : Writer = job[w] /\ Due = Unwritten(w)
<1> SUFFICES ASSUME LockDiscipline, NEW w \in Storing
             PROVE  Writer = job[w] /\ Due = Unwritten(w)
  OBVIOUS
<1>1. \A v \in Storing : v = w
  BY Alone DEF Locked, Storing
<1>2. (CHOOSE v \in Storing : TRUE) = w
  BY <1>1
<1> QED
  BY <1>1, <1>2 DEF Writer, Due

LEMMA NoHolder ==
  Storing = {} => Writer = 0 /\ Due = {}
BY DEF Writer, Due

(* The same lemmas in the next state. *)
LEMMA HolderNext ==
  /\ LockDiscipline' => \A w \in Storing' : Writer' = job'[w] /\ Due' = Unwritten(w)'
  /\ Storing' = {} => Writer' = 0 /\ Due' = {}
<1>1. (LockDiscipline => \A w \in Storing : Writer = job[w] /\ Due = Unwritten(w))'
  BY Holder, PTL
<1>2. (Storing = {} => Writer = 0 /\ Due = {})'
  BY NoHolder, PTL
<1> QED
  BY <1>1, <1>2

(* A step that leaves the storing worker alone. *)
LEMMA SameWriter ==
  ASSUME LockDiscipline, LockDiscipline', Storing' = Storing,
         \A v \in Storing : UNCHANGED <<pc[v], todo[v], key[v], job[v]>>
  PROVE  Writer' = Writer /\ Due' = Due
<1>1. CASE Storing = {}
  BY <1>1, NoHolder, HolderNext
<1>2. ASSUME NEW w \in Storing PROVE Writer' = Writer /\ Due' = Due
  <2>1. Unwritten(w)' = Unwritten(w) /\ job'[w] = job[w]
    BY <1>2 DEF Unwritten
  <2> QED
    BY <1>2, <2>1, Holder, HolderNext
<1> QED
  BY <1>1, <1>2

(* A step that is not seen in the store, or only mixes replies up. *)
LEMMA Quiet ==
  ASSUME jobs' = jobs, OpenJobs' = OpenJobs, Writer' = Writer, Due' = Due, failed' = failed,
         StoreView' = StoreView, mixed' = mixed \/ mixed'
  PROVE  [Store!Next]_(Store!vars)
<1>1. CASE mixed' = mixed
  BY <1>1 DEF Store!vars, OpenJobs
<1>2. CASE mixed' /\ mixed' # mixed
  <2>1. mixed' = TRUE
    BY <1>2
  <2>2. Store!MixUp
    BY <2>1 DEF Store!MixUp, OpenJobs
  <2> QED
    BY <2>2 DEF Store!Next
<1> QED
  BY <1>1, <1>2

(* A job that ends is the only one of its number. *)
LEMMA OneLess ==
  ASSUME JobInv, job' = job, NEW w \in Open, Open' = Open \ {w}
  PROVE  job[w] \in OpenJobs /\ OpenJobs' = OpenJobs \ {job[w]}
<1>1. \A v \in Open : v # w => job[v] # job[w]
  BY DEF JobInv, Open
<1>2. OpenJobs' = {job[v] : v \in Open \ {w}}
  BY DEF OpenJobs
<1>3. OpenJobs = {job[v] : v \in Open}
  BY DEF OpenJobs
<1> QED
  BY <1>1, <1>2, <1>3

LEMMA OfJob ==
  ASSUME NEW j \in OpenJobs, Store!Drop(j) \/ Store!Start(j)
  PROVE  [Store!Next]_(Store!vars)
BY Zenon DEF Store!Next, OpenJobs

LEMMA OfRecord ==
  ASSUME NEW k \in Due, Store!LookupFails(k) \/ Store!Replace(k) \/ Store!PutBeside(k) \/ Store!LeaveOut(k)
  PROVE  [Store!Next]_(Store!vars)
BY Zenon DEF Store!Next

-----------------------------------------------------------------------------
(* Step simulation *)

(* Steps of a worker that stores nothing yet. *)
LEMMA BeforeStep ==
  ASSUME RInv, LockDiscipline', NEW w \in Workers,
         \/ Take(w) \/ FetchFails(w) \/ Fetched(w) \/ Waiting(w) \/ Yield(w) \/ ConvertRaises(w)
         \/ ConvertedNothing(w)
  PROVE  [Store!Next]_(Store!vars)
<1> USE DEF Goto, jobVars, mongoVars, RInv, IInv, LockInv, TypeOK, Threads
<1>1. UNCHANGED <<failed, mixed, docs, todo, key>>
  BY DEF Take, FetchFails, Fetched, Waiting, Ensure, Resume, Yield, ConvertRaises, ConvertedNothing
<1>2. Storing' = Storing
  BY DEF Take, FetchFails, Fetched, Waiting, Ensure, Resume, Yield, ConvertRaises, ConvertedNothing, Storing
<1>3. \A v \in Storing : job'[v] = job[v] /\ pc'[v] = pc[v]
  BY DEF Take, FetchFails, Fetched, Waiting, Ensure, Resume, Yield, ConvertRaises, ConvertedNothing, Storing
<1>4. Writer' = Writer /\ Due' = Due /\ StoreView' = StoreView
  <2>1. LockDiscipline
    OBVIOUS
  <2> QED
    BY <1>1, <1>2, <1>3, <2>1, SameWriter DEF StoreView
<1>5. CASE Take(w)
  <2>1. Open' = Open \union {w} /\ w \notin Open
    BY <1>5 DEF Take, Open
  <2>2. OpenJobs' = OpenJobs \union {jobs'}
    BY <1>5, <2>1 DEF Take, OpenJobs, Open
  <2> QED
    BY <1>1, <1>4, <1>5, <2>2 DEF Take, OpenJobs, Store!Next, Store!Begin
<1>6. CASE FetchFails(w) \/ ConvertedNothing(w)
  <2>1. w \in Open /\ Open' = Open \ {w} /\ job' = job /\ jobs' = jobs
    BY <1>6 DEF FetchFails, ConvertedNothing, Open
  <2>2. OpenJobs' = OpenJobs \ {job[w]} /\ job[w] \in OpenJobs
    BY <2>1, OneLess
  <2>3. PICK j \in OpenJobs : j = job[w]
    BY <2>2
  <2>4. Store!Drop(j)
    BY <1>1, <1>4, <2>1, <2>2, <2>3 DEF OpenJobs, Store!Drop
  <2> QED
    BY <2>4, OfJob
<1>7. CASE Fetched(w) \/ Waiting(w) \/ Yield(w) \/ ConvertRaises(w)
  <2>1. Open' = Open /\ job' = job /\ jobs' = jobs
    BY <1>7 DEF Fetched, Waiting, Ensure, Resume, Yield, ConvertRaises, Open
  <2> QED
    BY <1>1, <1>4, <2>1, Quiet DEF OpenJobs
<1> QED
  BY <1>5, <1>6, <1>7

(* The converter returns: the writing of the report starts. *)
LEMMA StartStep ==
  ASSUME RInv, LockDiscipline', NEW w \in Workers, Converted(w)
  PROVE  [Store!Next]_(Store!vars)
<1> USE DEF Goto, jobVars, mongoVars, RInv, IInv, LockInv, TypeOK, Threads
<1>1. PICK vms \in (SUBSET Keys) \ {{}} : todo' = [todo EXCEPT ![w] = vms]
  BY DEF Converted
<1>2. pc[w] \in {"convert", "resumed"} /\ pc' = [pc EXCEPT ![w] = "find"]
  BY DEF Converted
<1>3. UNCHANGED <<docs, failed, mixed, job, jobs>>
  BY DEF Converted
<1>4. Storing = {} /\ w \in Storing'
  <2>1. w \in Locked
    BY <1>2 DEF Locked
  <2>2. \A v \in Storing : v = w
    BY <2>1, Alone DEF Locked, Storing
  <2>3. w \notin Storing
    BY <1>2 DEF Storing
  <2> QED
    BY <1>2, <2>2, <2>3 DEF Storing
<1>5. Writer = 0
  BY <1>4, NoHolder
<1>6. Writer' = job[w] /\ Due' = vms
  BY <1>1, <1>2, <1>3, <1>4, HolderNext DEF Unwritten
<1>7. w \in Open /\ Open' = Open \ {w}
  BY <1>2 DEF Open
<1>8. OpenJobs' = OpenJobs \ {job[w]} /\ job[w] \in OpenJobs
  BY <1>3, <1>7, OneLess
<1>9. PICK j \in OpenJobs : j = job[w]
  BY <1>8
<1>10. Store!Start(j)
  BY <1>3, <1>5, <1>6, <1>8, <1>9 DEF OpenJobs, StoreView, Store!Start
<1> QED
  BY <1>10, OfJob

(* What the steps that write a report have in common. *)
LEMMA StoringStep ==
  ASSUME RInv, NEW w \in Workers,
         \/ Find(w) \/ FindRefused(w) \/ FindReply(w) \/ FindFails(w) \/ Write(w) \/ WriteRefused(w)
         \/ Written(w) \/ WriteFails(w) \/ Release(w)
  PROVE  /\ jobs' = jobs /\ job' = job /\ OpenJobs' = OpenJobs
         /\ w \in Storing /\ Writer = job[w] /\ Due = Unwritten(w)
<1> USE DEF Goto, RInv, IInv, LockInv, TypeOK, Threads
<1>1. jobs' = jobs /\ job' = job
  BY DEF Find, FindRefused, FindReply, FindFails, Write, WriteRefused, Written, WriteFails, Release, jobVars
<1>2. Open' = Open
  BY DEF Find, FindRefused, FindReply, FindFails, Write, WriteRefused, Written, WriteFails, Release, NextRecord, Open
<1>3. w \in Storing
  BY DEF Find, FindRefused, FindReply, FindFails, Write, WriteRefused, Written, WriteFails, Release, Storing
<1>4. Writer = job[w] /\ Due = Unwritten(w)
  BY <1>3, Holder
<1> QED
  BY <1>1, <1>2, <1>3, <1>4 DEF OpenJobs

LEMMA FindStep ==
  ASSUME RInv, LockDiscipline', NEW w \in Workers, Find(w) \/ FindRefused(w) \/ FindReply(w) \/ FindFails(w)
  PROVE  [Store!Next]_(Store!vars)
<1>1. /\ jobs' = jobs /\ job' = job /\ OpenJobs' = OpenJobs
      /\ Writer = job[w] /\ Due = Unwritten(w)
  BY StoringStep
<1> USE DEF Goto, jobVars, mongoVars, RInv, IInv, LockInv, TypeOK, Threads
<1>2. /\ pc[w] \in {"find", "findReply"} /\ pc'[w] \in {"findReply", "write"}
      /\ UNCHANGED <<docs, todo>>
  BY DEF Find, FindRefused, FindReply, FindFails
<1>3. w \in Storing' /\ Unwritten(w)' = Unwritten(w) /\ Unwritten(w) = todo[w]
  BY <1>2 DEF Storing, Unwritten
<1>4. Writer' = Writer /\ Due' = Due /\ StoreView' = StoreView
  BY <1>1, <1>2, <1>3, HolderNext DEF StoreView
<1>5. CASE Find(w) \/ FindReply(w)
  <2>1. failed' = failed /\ (mixed' = mixed \/ mixed')
    BY <1>5 DEF Find, FindReply, Receive
  <2> QED
    BY <1>1, <1>4, <2>1, Quiet
<1>6. CASE FindRefused(w) \/ FindFails(w)
  <2>1. PICK k \in todo[w] : Fails(w, "find", k)
    <3>1. CASE FindRefused(w)
      BY <3>1 DEF FindRefused
    <3>2. CASE FindFails(w)
      <4>1. PICK k \in IF pc[w] = "find" THEN todo[w] ELSE {key[w]} : Fails(w, "find", k)
        BY <3>2 DEF FindFails
      <4>2. k \in todo[w]
        BY <1>2, <4>1 DEF LocalInv
      <4> QED
        BY <4>1, <4>2
    <3> QED
      BY <1>6, <3>1, <3>2
  <2>2. k \in Due /\ mixed' = mixed
    BY <1>1, <1>3, <1>6 DEF FindRefused, FindFails
  <2>3. Store!LookupFails(k)
    BY <1>1, <1>4, <2>1, <2>2 DEF Fails, OpenJobs, Store!LookupFails
  <2> QED
    BY <2>2, <2>3, OfRecord
<1> QED
  BY <1>5, <1>6

(* A write that mongod carries out, whatever the worker has found. *)
LEMMA WriteStep ==
  ASSUME RInv, LockDiscipline', NEW w \in Workers, Write(w)
  PROVE  [Store!Next]_(Store!vars)
<1>1. /\ jobs' = jobs /\ job' = job /\ OpenJobs' = OpenJobs
      /\ Writer = job[w] /\ Due = Unwritten(w)
  BY StoringStep
<1>2. /\ key[w] \in Keys /\ key[w] \in todo[w] /\ pc[w] = "write"
      /\ docs' = [docs EXCEPT ![key[w]] = docs'[key[w]]]
      /\ found[w] => ToSet(docs'[key[w]]) = IF Stored(key[w]) THEN {job[w]} ELSE {}
      /\ ~found[w] => ToSet(docs'[key[w]]) = ToSet(docs[key[w]]) \union {job[w]}
      /\ ~Stored(key[w]) => ToSet(docs[key[w]]) = {}
  BY WriteEffect DEF RInv, IInv
<1>3. PICK k \in Keys : k = key[w]
  BY <1>2
<1>4. UNCHANGED <<todo, key, failed, mixed>> /\ pc'[w] = "writeReply" /\ docs \in [Keys -> Seq(1..MaxJobs)]
  BY DEF Write, Goto, jobVars, RInv, IInv, LockInv, TypeOK, Threads
<1>5. Writer' = Writer /\ Due' = Due \ {k} /\ k \in Due
  <2>1. w \in Storing' /\ Unwritten(w)' = Unwritten(w) \ {k} /\ k \in Unwritten(w)
    BY <1>2, <1>3, <1>4 DEF Storing, Unwritten
  <2> QED
    BY <1>1, <2>1, HolderNext
<1>6. StoreView' = [StoreView EXCEPT ![k] = ToSet(docs'[k])] /\ StoreView[k] = ToSet(docs[k])
  <2>1. \A i \in Keys : i # k => docs'[i] = docs[i]
    BY <1>2, <1>3, <1>4
  <2> QED
    BY <2>1 DEF StoreView
<1>7. Truthful(w, found[w]) \/ mixed
  BY <1>2 DEF RInv, IInv, DocsInv
<1>8. CASE ToSet(docs'[k]) = {job[w]}
  <2>1. Store!Replace(k)
    BY <1>1, <1>4, <1>5, <1>6, <1>8 DEF OpenJobs, Store!Replace
  <2> QED
    BY <1>5, <2>1, OfRecord
<1>9. CASE found[w] /\ ~Stored(k)
  <2>1. mixed
    BY <1>3, <1>7, <1>9 DEF Truthful
  <2>2. StoreView' = StoreView
    <3>1. ToSet(docs'[k]) = ToSet(docs[k])
      BY <1>2, <1>3, <1>9
    <3> QED
      BY <1>6, <3>1 DEF StoreView
  <2>3. Store!LeaveOut(k)
    BY <1>1, <1>4, <1>5, <2>1, <2>2 DEF OpenJobs, Store!LeaveOut
  <2> QED
    BY <1>5, <2>3, OfRecord
<1>10. CASE ~found[w] /\ Stored(k)
  <2>1. mixed \/ <<"find", job[w], k>> \in failed
    BY <1>3, <1>7, <1>10 DEF Truthful, Done
  <2>2. StoreView' = [StoreView EXCEPT ![k] = @ \union {job[w]}]
    BY <1>2, <1>3, <1>6, <1>10
  <2>3. Store!PutBeside(k)
    BY <1>1, <1>4, <1>5, <2>1, <2>2 DEF OpenJobs, Store!PutBeside
  <2> QED
    BY <1>5, <2>3, OfRecord
<1>11. CASE found[w] /\ Stored(k)
  BY <1>2, <1>3, <1>8, <1>11
<1>12. CASE ~found[w] /\ ~Stored(k)
  BY <1>2, <1>3, <1>8, <1>12
<1> QED
  BY <1>9, <1>10, <1>11, <1>12

(* A write that is not carried out, and the return from a call. *)
LEMMA WrittenStep ==
  ASSUME RInv, LockDiscipline', NEW w \in Workers, WriteRefused(w) \/ Written(w) \/ WriteFails(w)
  PROVE  [Store!Next]_(Store!vars)
<1>1. /\ jobs' = jobs /\ job' = job /\ OpenJobs' = OpenJobs
      /\ Writer = job[w] /\ Due = Unwritten(w)
  BY StoringStep
<1> USE DEF Goto, jobVars, mongoVars, RInv, IInv, LockInv, TypeOK, Threads
<1>2. /\ docs' = docs /\ key[w] \in todo[w] /\ pc[w] \in {"write", "writeReply"} /\ w \in Storing'
      /\ mixed' = mixed \/ mixed'
  BY DEF WriteRefused, Written, WriteFails, NextRecord, LocalInv, Storing, Receive
<1>3. Unwritten(w)' = Unwritten(w) \ {key[w]}
  <2>1. CASE WriteRefused(w)
    BY <2>1 DEF WriteRefused, Unwritten
  <2>2. CASE Written(w) \/ WriteFails(w)
    BY <1>2, <2>2 DEF Written, WriteFails, NextRecord, EndRecord, Unwritten
  <2> QED
    BY <2>1, <2>2
<1>4. Writer' = Writer /\ Due' = Due \ {key[w]} /\ StoreView' = StoreView
  BY <1>1, <1>2, <1>3, HolderNext DEF StoreView
<1>5. CASE pc[w] = "write"
  <2>1. mixed' = mixed /\ Fails(w, "write", key[w]) /\ key[w] \in Due
    BY <1>1, <1>2, <1>5 DEF WriteRefused, Written, WriteFails, Unwritten
  <2>2. PICK k \in Due : k = key[w]
    BY <2>1
  <2>3. Store!LeaveOut(k)
    BY <1>1, <1>4, <2>1, <2>2 DEF Fails, OpenJobs, Store!LeaveOut
  <2> QED
    BY <2>2, <2>3, OfRecord
<1>6. CASE pc[w] = "writeReply"
  <2>1. failed' = failed
    BY <1>6 DEF WriteRefused, Written, WriteFails
  <2>2. Due' = Due
    BY <1>1, <1>4, <1>6 DEF Unwritten
  <2> QED
    BY <1>1, <1>2, <1>4, <2>1, <2>2, Quiet
<1> QED
  BY <1>2, <1>5, <1>6

LEMMA ReleaseStep ==
  ASSUME RInv, NEW w \in Workers, Release(w)
  PROVE  [Store!Next]_(Store!vars)
<1>1. /\ jobs' = jobs /\ OpenJobs' = OpenJobs
      /\ w \in Storing /\ Writer = job[w] /\ Due = Unwritten(w)
  BY StoringStep
<1> USE DEF Goto, jobVars, mongoVars, RInv, IInv, LockInv, TypeOK, Threads
<1>2. UNCHANGED <<docs, failed, mixed>> /\ Due = {} /\ Writer # 0
  BY <1>1 DEF Release, LocalInv, Unwritten
<1>3. Storing' = {}
  <2>1. \A v \in Storing : v = w
    BY <1>1, Alone DEF Locked, Storing
  <2> QED
    BY <2>1 DEF Release, Storing
<1>4. Writer' = 0 /\ Due' = {}
  BY <1>3, HolderNext
<1>5. Store!Finish
  BY <1>1, <1>2, <1>4 DEF OpenJobs, StoreView, Store!Finish
<1> QED
  BY <1>5 DEF Store!Next

(* Everything else leaves the workers alone. *)
LEMMA OtherStep ==
  ASSUME RInv, LockDiscipline',
         \/ \E r \in Readers : ReaderStep(r)
         \/ Disconnect \/ Signal \/ ExitHook \/ EnsureFinalized \/ UNCHANGED vars
  PROVE  [Store!Next]_(Store!vars)
<1>1. UNCHANGED <<jobVars, docs, failed>> /\ (mixed' = mixed \/ mixed')
  <2>1. ASSUME NEW r \in Readers, ReaderStep(r) PROVE UNCHANGED <<jobVars, docs, failed>> /\ (mixed' = mixed \/ mixed')
    <3>1. CASE Query(r) \/ QueryFails(r)
      BY <3>1 DEF Query, QueryFails, mongoVars
    <3>2. CASE QueryReply(r)
      <4>1. mixed' = (mixed \/ Head(wire).asker # r) /\ mixed \in BOOLEAN
        BY <3>2 DEF QueryReply, Receive, RInv, IInv, LockInv, TypeOK
      <4>2. mixed' = mixed \/ mixed'
        BY <4>1
      <4>3. UNCHANGED <<jobVars, docs, failed>>
        BY <3>2 DEF QueryReply
      <4> QED
        BY <4>2, <4>3
    <3> QED
      BY <2>1, <3>1, <3>2 DEF ReaderStep
  <2>2. CASE Disconnect \/ Signal \/ ExitHook \/ EnsureFinalized
    BY <2>2 DEF Disconnect, Signal, ExitHook, EnsureFinalized, mongoVars
  <2>3. CASE UNCHANGED vars
    BY <2>3 DEF vars, mongoVars
  <2> QED
    BY <2>1, <2>2, <2>3
<1>2. \A w \in Workers : pc'[w] = pc[w]
  BY ReaderApart DEF RInv, IInv, LockInv, Disconnect, Signal, ExitHook, EnsureFinalized, vars
<1>3. Storing' = Storing /\ OpenJobs' = OpenJobs /\ StoreView' = StoreView
  BY <1>1, <1>2 DEF Storing, OpenJobs, Open, StoreView, jobVars
<1>4. Writer' = Writer /\ Due' = Due
  <2>1. LockDiscipline /\ \A v \in Storing : UNCHANGED <<pc[v], todo[v], key[v], job[v]>>
    BY <1>1, <1>2 DEF Storing, RInv, IInv, LockInv, jobVars
  <2> QED
    BY <1>3, <2>1, SameWriter
<1> QED
  BY <1>1, <1>3, <1>4, Quiet DEF jobVars

(***************************************************************************)
(* For any workers, HTTP threads, keys, jobs and errors, reports are       *)
(* written one after the other and each to its end; a record replaces      *)
(* what was stored, or stands beside it after a failed look-up, and is     *)
(* left out only if its write failed or replies were mixed up.             *)
(***************************************************************************)
THEOREM CollectorImplementsStore == Spec => ImplementsStore
<1>1. Init => RInv
  <2> SUFFICES ASSUME Init PROVE JobInv
    BY LockInit, StoreInit DEF RInv, IInv
  <2> QED
    BY DEF Init, JobInv, Threads
<1>2. RInv /\ [Next]_vars => RInv'
  BY JobStep, TypeStep, LockStep, WireStep, AnswerStep, DocsStep DEF RInv, IInv, LockInv
<1>3. Init => Store!Init
  <2> SUFFICES ASSUME Init PROVE Store!Init
    OBVIOUS
  <2>1. Open = {} /\ Storing = {}
    BY DEF Init, Open, Storing, Threads
  <2>2. StoreView = [k \in Keys |-> {}]
    <3>1. ToSet(<<>>) = {}
      BY EmptySeq DEF ToSet
    <3> QED
      BY <3>1 DEF Init, StoreView
  <2> QED
    BY <2>1, <2>2, NoHolder DEF Store!Init, Init
<1>4. RInv /\ RInv' /\ [Next]_vars => [Store!Next]_(Store!vars)
  <2> SUFFICES ASSUME RInv, RInv', [Next]_vars PROVE [Store!Next]_(Store!vars)
    OBVIOUS
  <2>1. LockDiscipline'
    BY DEF RInv, IInv, LockInv
  <2> QED
    BY <2>1, BeforeStep, StartStep, FindStep, WriteStep, WrittenStep, ReleaseStep, OtherStep
       DEF Next, WorkerStep, Holding, Answered
<1> QED
  BY <1>1, <1>2, <1>3, <1>4, PTL DEF Spec, ImplementsStore, Store!Spec
=============================================================================
