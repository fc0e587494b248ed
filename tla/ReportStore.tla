----------------------------- MODULE ReportStore -----------------------------
(***************************************************************************)
(* What the collector promises of the collection of documents.  Reports    *)
(* are written one after the other, each to its end.  A record takes the   *)
(* place of whatever was stored under its key, unless the look-up of the   *)
(* key has failed (it may then stand beside it), and is left out only if   *)
(* its write has failed.  A reader can see a report half written.  No      *)
(* order of jobs is promised: of two under way, the older may come last.   *)
(* Once replies are mixed up, a record may be left out or stand beside     *)
(* another without a failure.                                              *)
(***************************************************************************)
EXTENDS Naturals

CONSTANTS Keys, MaxJobs

VARIABLES jobs,   \* jobs begun; a job's number stands for its time_stamp
          open,   \* those whose report is neither written nor dropped
          writer, \* the job whose report is being written, or 0
          due,    \* the keys of its records that are still to be written
          failed, \* look-ups that brought no answer, writes not carried out
          mixed,  \* replies have been mixed up
          store   \* the jobs whose documents are stored under each key

vars == <<jobs, open, writer, due, failed, mixed, store>>

Init ==
  /\ jobs = 0
  /\ open = {}
  /\ writer = 0
  /\ due = {}
  /\ failed = {}
  /\ mixed = FALSE
  /\ store = [k \in Keys |-> {}]

Begin ==
  /\ jobs < MaxJobs
  /\ jobs' = jobs + 1
  /\ open' = open \union {jobs'}
  /\ UNCHANGED <<writer, due, failed, mixed, store>>

(* The download fails, or the converter returns nothing. *)
Drop(j) ==
  /\ open' = open \ {j}
  /\ UNCHANGED <<jobs, writer, due, failed, mixed, store>>

(* One report at a time. *)
Start(j) ==
  /\ writer = 0
  /\ writer' = j
  /\ open' = open \ {j}
  /\ due' \in (SUBSET Keys) \ {{}}
  /\ UNCHANGED <<jobs, failed, mixed, store>>

LookupFails(k) ==
  /\ failed' = failed \union {<<"find", writer, k>>}
  /\ UNCHANGED <<jobs, open, writer, due, mixed, store>>

Replace(k) ==
  /\ due' = due \ {k}
  /\ store' = [store EXCEPT ![k] = {writer}]
  /\ UNCHANGED <<jobs, open, writer, failed, mixed>>

PutBeside(k) ==
  /\ mixed \/ <<"find", writer, k>> \in failed
  /\ due' = due \ {k}
  /\ store' = [store EXCEPT ![k] = @ \union {writer}]
  /\ UNCHANGED <<jobs, open, writer, failed, mixed>>

LeaveOut(k) ==
  /\ due' = due \ {k}
  /\ failed' = failed \union {<<"write", writer, k>>} \/ (mixed /\ UNCHANGED failed)
  /\ UNCHANGED <<jobs, open, writer, mixed, store>>

(* Nothing of the report is left to write. *)
Finish ==
  /\ writer # 0
  /\ due = {}
  /\ writer' = 0
  /\ UNCHANGED <<jobs, open, due, failed, mixed, store>>

MixUp ==
  /\ mixed' = TRUE
  /\ UNCHANGED <<jobs, open, writer, due, failed, store>>

Next ==
  \/ Begin \/ Finish \/ MixUp
  \/ \E j \in open : Drop(j) \/ Start(j)
  \/ \E k \in due : LookupFails(k) \/ Replace(k) \/ PutBeside(k) \/ LeaveOut(k)

Spec == Init /\ [][Next]_vars
=============================================================================
