------------------------------ MODULE Collector ------------------------------
(***************************************************************************)
(* The worker side of server_perf.c, get_perf_from_xenserver, with what it *)
(* shares: the Python interpreter lock, and the one MongoDB connection,    *)
(* which the HTTP threads use too (query.c) and which nothing guards.      *)
(*                                                                         *)
(* A job downloads a report, has Python convert it to one record per VM,   *)
(* and writes each record: it looks for the document of that (uuid, type), *)
(* then updates or inserts it.                                             *)
(*                                                                         *)
(* The MongoDB driver is outside src/.  It is modelled as a socket: a call *)
(* sends its request and takes the next reply off the socket, without a    *)
(* lock and without looking whose reply it is; mongod serves the requests  *)
(* in the order sent, and may refuse one with an error.  mongo_client      *)
(* connections acknowledge writes.  The server never reconnects.           *)
(*                                                                         *)
(* A signal makes main's thread run exit_hook (server.c), which waits for  *)
(* the interpreter lock and finalises Python.  The process goes on.        *)
(***************************************************************************)
EXTENDS Naturals, Sequences, SequencesExt, FiniteSets

CONSTANTS Workers,   \* periodical_get_perf threads
          Readers,   \* HTTP threads in query_perfdata
          Keys,      \* the (uuid, type) pairs that documents are about
          MaxJobs,   \* bound: jobs taken off the queue in a run
          MaxErrors, \* bound: requests refused in a run, while the connection is up
          Main,      \* main's thread, which runs exit_hook
          NULL       \* no thread

ASSUME CollectorAssumption ==
  /\ Workers \intersect Readers = {}
  /\ {Main, NULL} \intersect (Workers \union Readers \union Keys) = {}
  /\ Main # NULL
  /\ MaxJobs \in Nat
  /\ MaxErrors \in Nat

VARIABLES pc,        \* what each thread does next
          jobs,      \* jobs started; a job's number stands for its time_stamp
          job,       \* the job of each worker
          batch,     \* the keys its report has records for
          todo,      \* those not yet written
          key,       \* the one being written
          found,     \* mg_ret: whether mongo_find_one found a document
          gil,       \* the thread that holds the interpreter lock, or NULL
          docs,      \* the job numbers of the documents stored under each key
          wire,      \* replies on the socket: whose they are, whether they have a document
          connected, \* the socket is up
          mixed,     \* history: a thread has read a reply that was not its own
          failed,    \* history: look-ups that brought no answer, writes not carried out
          exit,      \* exit_hook: not called, waiting for the lock, or done
          crashed    \* a null pointer is followed: SIGSEGV ends the process

jobVars == <<jobs, job, batch, todo, key, found>>
mongoVars == <<docs, wire, connected, mixed, failed>>
procVars == <<exit, crashed>>
vars == <<pc, jobVars, gil, mongoVars, procVars>>

Threads == Workers \union Readers
Replies == [asker : Threads, hasDoc : BOOLEAN]
Requests == {"find", "write"} \X (1..MaxJobs) \X Keys

TypeOK ==
  /\ pc \in [Threads -> {"idle", "fetch", "ensure", "convert", "yielded", "resumed",
                         "find", "findReply", "write", "writeReply", "release", "queryReply"}]
  /\ jobs \in 0..MaxJobs
  /\ job \in [Workers -> 0..MaxJobs]
  /\ batch \in [Workers -> SUBSET Keys]
  /\ todo \in [Workers -> SUBSET Keys]
  /\ key \in [Workers -> Keys \union {NULL}]
  /\ found \in [Workers -> BOOLEAN]
  /\ gil \in Workers \union {Main, NULL}
  /\ docs \in [Keys -> Seq(1..MaxJobs)]
  /\ wire \in Seq(Replies)
  /\ connected \in BOOLEAN
  /\ mixed \in BOOLEAN
  /\ failed \subseteq Requests
  /\ exit \in {"none", "waits", "done"}
  /\ crashed \in BOOLEAN

(* A fresh collection, and main connected. *)
Init ==
  /\ pc = [t \in Threads |-> "idle"]
  /\ jobs = 0
  /\ job = [w \in Workers |-> 0]
  /\ batch = [w \in Workers |-> {}]
  /\ todo = [w \in Workers |-> {}]
  /\ key = [w \in Workers |-> NULL]
  /\ found = [w \in Workers |-> FALSE]
  /\ gil = NULL
  /\ docs = [k \in Keys |-> <<>>]
  /\ wire = <<>>
  /\ connected = TRUE
  /\ mixed = FALSE
  /\ failed = {}
  /\ exit = "none"
  /\ crashed = FALSE

Goto(t, from, to) ==
  /\ pc[t] = from
  /\ pc' = [pc EXCEPT ![t] = to]

-----------------------------------------------------------------------------
(* The driver *)

Stored(k) == docs[k] # <<>>

(* mongod has served the request of t, and its reply is on the way. *)
Reply(t, hasDoc) == wire' = Append(wire, [asker |-> t, hasDoc |-> hasDoc])

(* What w asks for its job and the key k is not done. *)
Fails(w, what, k) == failed' = failed \union {<<what, job[w], k>>}

(* mongod, or the driver before it sends anything, may refuse a request. *)
MayRefuse == connected /\ Cardinality(failed) < MaxErrors

(* The next reply on the socket is taken for the answer to t. *)
Receive(t) ==
  /\ wire # <<>>
  /\ wire' = Tail(wire)
  /\ mixed' = (mixed \/ Head(wire).asker # t)

-----------------------------------------------------------------------------
(* get_perf_from_xenserver *)

(* A job off the queue: get_before_now, then the download. *)
Take(w) ==
  /\ jobs < MaxJobs
  /\ Goto(w, "idle", "fetch")
  /\ jobs' = jobs + 1
  /\ job' = [job EXCEPT ![w] = jobs + 1]
  /\ UNCHANGED <<batch, todo, key, found, gil, mongoVars, procVars>>

(* curl_easy_perform fails: return -1, before the lock is touched. *)
FetchFails(w) ==
  /\ Goto(w, "fetch", "idle")
  /\ UNCHANGED <<jobVars, gil, mongoVars, procVars>>

Fetched(w) ==
  /\ Goto(w, "fetch", "ensure")
  /\ UNCHANGED <<jobVars, gil, mongoVars, procVars>>

(* A broken variant of Ensure: it does not wait for the lock. *)
EnsureAtOnce(w) ==
  /\ Goto(w, "ensure", "convert")
  /\ gil' = w
  /\ UNCHANGED <<jobVars, mongoVars, procVars>>

(* PyGILState_Ensure *)
Ensure(w) ==
  /\ gil = NULL
  /\ Goto(w, "ensure", "convert")
  /\ gil' = w
  /\ UNCHANGED <<jobVars, mongoVars, procVars>>

(***************************************************************************)
(* The interpreter runs converter() and may hand its lock to another       *)
(* thread on the way (bound: once a job).  C code that holds the lock      *)
(* keeps it until it releases it.                                          *)
(***************************************************************************)
Yield(w) ==
  /\ Goto(w, "convert", "yielded")
  /\ gil' = NULL
  /\ UNCHANGED <<jobVars, mongoVars, procVars>>

Resume(w) ==
  /\ gil = NULL
  /\ Goto(w, "yielded", "resumed")
  /\ gil' = w
  /\ UNCHANGED <<jobVars, mongoVars, procVars>>

(* The list has a record for each VM of the report. *)
Converted(w) ==
  /\ pc[w] \in {"convert", "resumed"}
  /\ \E vms \in (SUBSET Keys) \ {{}} :
       /\ batch' = [batch EXCEPT ![w] = vms]
       /\ todo' = [todo EXCEPT ![w] = vms]
  /\ pc' = [pc EXCEPT ![w] = "find"]
  /\ UNCHANGED <<jobs, job, key, found, gil, mongoVars, procVars>>

(* A broken variant of ConvertedNothing: the early return leaks the lock. *)
ConvertedNothingLeaks(w) ==
  /\ pc[w] \in {"convert", "resumed"}
  /\ pc' = [pc EXCEPT ![w] = "idle"]
  /\ UNCHANGED <<jobVars, gil, mongoVars, procVars>>

(* [[], ""], or an empty list: release the lock and return -1. *)
ConvertedNothing(w) ==
  /\ pc[w] \in {"convert", "resumed"}
  /\ pc' = [pc EXCEPT ![w] = "idle"]
  /\ gil' = NULL
  /\ UNCHANGED <<jobVars, mongoVars, procVars>>

(* The call raises: PyCall returns NULL, which nobody tests. *)
ConvertRaises(w) ==
  /\ pc[w] \in {"convert", "resumed"}
  /\ crashed' = TRUE
  /\ UNCHANGED <<pc, jobVars, gil, mongoVars, exit>>

(* mongo_find_one sends its query for the next record. *)
Find(w) ==
  /\ connected
  /\ Goto(w, "find", "findReply")
  /\ \E k \in todo[w] :
       /\ key' = [key EXCEPT ![w] = k]
       /\ Reply(w, Stored(k))
  /\ UNCHANGED <<jobs, job, batch, todo, found, gil, docs, connected, mixed, failed, procVars>>

(* mongod answers it with an error, a reply without a document. *)
FindRefused(w) ==
  /\ MayRefuse
  /\ Goto(w, "find", "findReply")
  /\ \E k \in todo[w] :
       /\ key' = [key EXCEPT ![w] = k]
       /\ Reply(w, FALSE)
       /\ Fails(w, "find", k)
  /\ UNCHANGED <<jobs, job, batch, todo, found, gil, docs, connected, mixed, procVars>>

(* The call returns MONGO_OK if the reply has a document. *)
FindReply(w) ==
  /\ connected
  /\ Goto(w, "findReply", "write")
  /\ Receive(w)
  /\ found' = [found EXCEPT ![w] = Head(wire).hasDoc]
  /\ UNCHANGED <<jobs, job, batch, todo, key, gil, docs, connected, failed, procVars>>

(***************************************************************************)
(* It returns MONGO_ERROR if the driver cannot send the query or if the    *)
(* socket is dead, as it does when there is no document; the code inserts  *)
(* on anything but MONGO_OK.                                               *)
(***************************************************************************)
FindFails(w) ==
  /\ \/ ~connected /\ pc[w] \in {"find", "findReply"}
     \/ MayRefuse /\ pc[w] = "find"
  /\ \E k \in IF pc[w] = "find" THEN todo[w] ELSE {key[w]} :
       /\ key' = [key EXCEPT ![w] = k]
       /\ Fails(w, "find", k)
  /\ found' = [found EXCEPT ![w] = FALSE]
  /\ pc' = [pc EXCEPT ![w] = "write"]
  /\ UNCHANGED <<jobs, job, batch, todo, gil, docs, wire, connected, mixed, procVars>>

(* A broken variant of Write: the document gets no time_stamp. *)
WriteUnstamped(w) ==
  /\ connected
  /\ Goto(w, "write", "writeReply")
  /\ docs' = [docs EXCEPT ![key[w]] = IF found[w] THEN [i \in DOMAIN @ |-> job[w]]
                                                  ELSE Append(@, 0)]
  /\ Reply(w, TRUE)
  /\ UNCHANGED <<jobVars, gil, connected, mixed, failed, procVars>>

(* mongo_insert, or mongo_update of every document of the key. *)
Write(w) ==
  /\ connected
  /\ Goto(w, "write", "writeReply")
  /\ docs' = [docs EXCEPT ![key[w]] = IF found[w] THEN [i \in DOMAIN @ |-> job[w]]
                                                  ELSE Append(@, job[w])]
  /\ Reply(w, TRUE)
  /\ UNCHANGED <<jobVars, gil, connected, mixed, failed, procVars>>

(* mongod refuses it, and says so in the acknowledgement. *)
WriteRefused(w) ==
  /\ MayRefuse
  /\ Goto(w, "write", "writeReply")
  /\ Reply(w, TRUE)
  /\ Fails(w, "write", key[w])
  /\ UNCHANGED <<jobVars, gil, docs, connected, mixed, procVars>>

(* The variables of the loop's body go out of scope. *)
EndRecord(w) ==
  /\ todo' = [todo EXCEPT ![w] = @ \ {key[w]}]
  /\ key' = [key EXCEPT ![w] = NULL]
  /\ found' = [found EXCEPT ![w] = FALSE]

(* A broken variant of NextRecord: the loop ends after one record. *)
OneRecordOnly(w) ==
  /\ EndRecord(w)
  /\ pc' = [pc EXCEPT ![w] = "release"]

(* On to the next record, or to PyGILState_Release after the last. *)
NextRecord(w) ==
  /\ EndRecord(w)
  /\ pc' = [pc EXCEPT ![w] = IF todo[w] = {key[w]} THEN "release" ELSE "find"]

(* The acknowledgement, good or bad: an error is printed, and the job goes on. *)
Written(w) ==
  /\ connected
  /\ pc[w] = "writeReply"
  /\ Receive(w)
  /\ NextRecord(w)
  /\ UNCHANGED <<jobs, job, batch, gil, docs, connected, failed, procVars>>

(***************************************************************************)
(* The driver does not send the write, or the socket is dead, before the   *)
(* write or after it: printed as well, and the job goes on.                *)
(***************************************************************************)
WriteFails(w) ==
  /\ \/ /\ ~connected \/ MayRefuse
        /\ pc[w] = "write"
        /\ Fails(w, "write", key[w])
     \/ /\ ~connected
        /\ pc[w] = "writeReply"
        /\ UNCHANGED failed
  /\ NextRecord(w)
  /\ UNCHANGED <<jobs, job, batch, gil, docs, wire, connected, mixed, procVars>>

(* A broken variant of Release: the lock is kept. *)
ReleaseForgotten(w) ==
  /\ Goto(w, "release", "idle")
  /\ batch' = [batch EXCEPT ![w] = {}]
  /\ UNCHANGED <<jobs, job, todo, key, found, gil, mongoVars, procVars>>

Release(w) ==
  /\ Goto(w, "release", "idle")
  /\ gil' = NULL
  /\ batch' = [batch EXCEPT ![w] = {}]
  /\ UNCHANGED <<jobs, job, todo, key, found, mongoVars, procVars>>

-----------------------------------------------------------------------------
(* query_perfdata: mongo_find and the replies its cursor needs (one); if mongod *)
(* refuses the query, the reply has no document                                *)

Query(r) ==
  /\ connected
  /\ Goto(r, "idle", "queryReply")
  /\ \E hasDoc \in {FALSE} \union {Stored(k) : k \in Keys} : Reply(r, hasDoc)
  /\ UNCHANGED <<jobVars, gil, docs, connected, mixed, failed, procVars>>

QueryReply(r) ==
  /\ connected
  /\ Goto(r, "queryReply", "idle")
  /\ Receive(r)
  /\ UNCHANGED <<jobVars, gil, docs, connected, failed, procVars>>

(* mongo_find returns NULL, the cursor loop ends, the answer is empty. *)
QueryFails(r) ==
  /\ ~connected
  /\ Goto(r, "queryReply", "idle")
  /\ UNCHANGED <<jobVars, gil, mongoVars, procVars>>

(* mongod goes away: nobody connects again. *)
Disconnect ==
  /\ connected
  /\ connected' = FALSE
  /\ wire' = <<>>
  /\ UNCHANGED <<pc, jobVars, gil, docs, mixed, failed, procVars>>

-----------------------------------------------------------------------------
(* exit_hook, on main's thread *)

Signal ==
  /\ exit = "none"
  /\ exit' = "waits"
  /\ UNCHANGED <<pc, jobVars, gil, mongoVars, crashed>>

(* A broken variant of ExitHook: it does not take the lock first. *)
ExitHookAtOnce ==
  /\ exit = "waits"
  /\ exit' = "done"
  /\ gil' = Main
  /\ UNCHANGED <<pc, jobVars, mongoVars, crashed>>

(* PyGILState_Ensure and Py_Finalize, which does not give the lock back. *)
ExitHook ==
  /\ exit = "waits"
  /\ gil = NULL
  /\ exit' = "done"
  /\ gil' = Main
  /\ UNCHANGED <<pc, jobVars, mongoVars, crashed>>

(* PyGILState_Ensure without an interpreter, in a worker or for a second signal. *)
EnsureFinalized ==
  /\ exit = "done"
  /\ crashed' = TRUE
  /\ UNCHANGED <<pc, jobVars, gil, mongoVars, exit>>

-----------------------------------------------------------------------------
(***************************************************************************)
(* The steps of a worker: with the lock held, taking a reply off the       *)
(* socket, and waiting for the lock.                                       *)
(***************************************************************************)
Holding(w) ==
  \/ Converted(w) \/ ConvertedNothing(w) \/ Find(w) \/ FindRefused(w) \/ FindFails(w)
  \/ Write(w) \/ WriteRefused(w) \/ WriteFails(w) \/ Release(w)

Answered(w) == FindReply(w) \/ Written(w)

Waiting(w) == Ensure(w) \/ Resume(w)

WorkerStep(w) ==
  \/ Take(w) \/ FetchFails(w) \/ Fetched(w) \/ Waiting(w) \/ Yield(w) \/ ConvertRaises(w)
  \/ Holding(w) \/ Answered(w)

ReaderStep(r) == Query(r) \/ QueryReply(r) \/ QueryFails(r)

Next ==
  /\ ~crashed
  /\ \/ \E w \in Workers : WorkerStep(w)
     \/ \E r \in Readers : ReaderStep(r)
     \/ Disconnect \/ Signal \/ ExitHook \/ EnsureFinalized

(***************************************************************************)
(* Of threads only: one that holds the lock runs, and one that waits gets  *)
(* it when it is freed again and again.  Neither the download (Fetched)    *)
(* nor a call to mongod (Answered) has a timeout, so nothing makes them    *)
(* end.                                                                    *)
(***************************************************************************)
Fairness ==
  /\ \A w \in Workers : WF_vars(~crashed /\ Holding(w)) /\ SF_vars(~crashed /\ Waiting(w))
  /\ SF_vars(~crashed /\ ExitHook)

Spec == Init /\ [][Next]_vars
FairSpec == Spec /\ Fairness

-----------------------------------------------------------------------------
(* Properties *)

(* The threads that wait for a reply, the workers that have a report to store, *)
(* and those that hold the interpreter lock.                                   *)
Asking == {t \in Threads : pc[t] \in {"findReply", "writeReply", "queryReply"}}
Storing == {w \in Workers : pc[w] \in {"find", "findReply", "write", "writeReply", "release"}}
Locked == Storing \union {w \in Workers : pc[w] \in {"convert", "resumed"}}

(***************************************************************************)
(* There is at most one document for each (uuid, type): the look-up and    *)
(* the insert that follows are two requests, and no two workers interleave *)
(* theirs, because the interpreter lock happens to be held across both.    *)
(* Holds until a thread reads another's reply, and for each key until a    *)
(* look-up of it has failed: the code takes that for "no document".        *)
(***************************************************************************)
UniqueDocument ==
  ~mixed => \A k \in Keys : Len(docs[k]) <= 1 \/ \E j \in 1..MaxJobs : <<"find", j, k>> \in failed

(***************************************************************************)
(* A report is stored as a whole: when its job is about to release the     *)
(* lock, each VM of the report has a document, unless this very write      *)
(* failed, and none that is not this job's, unless the look-up failed.     *)
(* That holds also when the connection is lost half way; replies that are  *)
(* mixed up can cost the report anything.                                  *)
(***************************************************************************)
Done(w, what, k) == <<what, job[w], k>> \notin failed

RecordStored(w, k) ==
  Done(w, "write", k) =>
    /\ job[w] \in ToSet(docs[k])
    /\ Done(w, "find", k) => ToSet(docs[k]) = {job[w]}

ReportStored ==
  \A w \in Workers : pc[w] = "release" /\ ~mixed => \A k \in batch[w] : RecordStored(w, k)

(***************************************************************************)
(* The interpreter lock is held by exactly the worker between Ensure and   *)
(* Release that has not lent it out, so no path of the job leaks it and    *)
(* none releases another worker's.                                         *)
(***************************************************************************)
LockDiscipline == \A w \in Workers : gil = w <=> w \in Locked

(***************************************************************************)
(* exit_hook cuts off no report that is being stored: it waits for the     *)
(* interpreter lock, which no worker lends out between its first request   *)
(* and the last.  (It does finalise Python under a worker that has lent    *)
(* the lock out inside converter().)                                       *)
(***************************************************************************)
ExitCutsNoReport == exit = "done" => Storing = {}

(* mongod answers what the workers ask, or the connection breaks. *)
MongodAnswers == \A w \in Workers : []<>(w \notin Asking)

(***************************************************************************)
(* If mongod answers, a downloaded report is dealt with: its worker gets   *)
(* the lock, gives it back and returns to the queue, unless the process    *)
(* dies or exit_hook has finalised Python.                                 *)
(***************************************************************************)
JobEnds ==
  MongodAnswers =>
    \A w \in Workers : pc[w] = "ensure" ~> pc[w] = "idle" \/ exit = "done" \/ crashed

(* If mongod answers, exit_hook gets the lock, however many workers want it too. *)
ExitHookEnds == MongodAnswers => (exit = "waits" ~> exit = "done" \/ crashed)

(***************************************************************************)
(* server_perf.c inserts a document "if the record of the uuid does not    *)
(* exist", and only then.                                                  *)
(***************************************************************************)
InsertOnlyIfAbsent ==
  [][\A k \in Keys : Len(docs'[k]) > Len(docs[k]) => docs[k] = <<>>]_vars

(***************************************************************************)
(* The store of ReportStore.  The worker that stores is its writer; what   *)
(* is due are the keys for which no write has been sent.                   *)
(***************************************************************************)
Open == {w \in Workers : pc[w] \in {"fetch", "ensure", "convert", "yielded", "resumed"}}
Unwritten(w) == IF pc[w] = "writeReply" THEN todo[w] \ {key[w]} ELSE todo[w]
Writer == IF Storing = {} THEN 0 ELSE job[CHOOSE w \in Storing : TRUE]
Due == UNION {Unwritten(w) : w \in Storing}
StoreView == [k \in Keys |-> ToSet(docs[k])]

Store == INSTANCE ReportStore
           WITH open <- {job[w] : w \in Open}, writer <- Writer, due <- Due, store <- StoreView

(***************************************************************************)
(* The workers, the lock and the two requests per record make a store into *)
(* which one report at a time is written, to its end, record by record.    *)
(***************************************************************************)
ImplementsStore == Store!Spec
=============================================================================
