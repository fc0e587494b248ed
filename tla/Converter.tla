------------------------------ MODULE Converter ------------------------------
(***************************************************************************)
(* converter.py, which get_perf_from_xenserver calls with the text of a    *)
(* report: converter() loads it into an RRDUpdates object, one column of   *)
(* the legend at a time, then lists one record per VM for the C code to    *)
(* store.  An exception while loading is caught and printed, and the       *)
(* listing goes on with what has been loaded; one while listing makes      *)
(* converter() return [[], ""].                                            *)
(*                                                                         *)
(* The sample of column c in row r is not a number here but the pair       *)
(* <<c, r>>: the properties ask where a value comes from.                  *)
(***************************************************************************)
EXTENDS Integers, Sequences

CONSTANTS Uuids,    \* of VMs
          Hosts,    \* uuids of hosts
          Params,   \* names of variables
          NoParam,  \* the empty name
          Reports,  \* the documents a XenServer may send
          NULL

(***************************************************************************)
(* A document: whether it is XML with the metadata that is read before the *)
(* legend; the legend, in column order; the number of rows that the        *)
(* metadata claims; the time of each row there is, newest first; and the   *)
(* row with a value that float() refuses, or 0.  An entry of the legend    *)
(* that __handle_col cannot interpret has kind "bad".                      *)
(***************************************************************************)
Legends == Seq(      [kind : {"vm"}, uuid : Uuids, param : Params \union {NoParam}]
              \union [kind : {"host"}, uuid : Hosts, param : Params]
              \union [kind : {"bad"}, uuid : {NULL}, param : {NULL}])

ASSUME ConverterAssumption ==
  /\ Reports \subseteq [wellFormed : BOOLEAN, legend : Legends, rows : Nat,
                        times : Seq(Nat), badRow : Nat]
  /\ NULL \notin Hosts
  /\ NoParam \notin Params

VARIABLES pc,         \* what converter() does next
          report,     \* its argument
          col,        \* columns handled
          vmReports,  \* vm_reports: per uuid, the column of each variable
          hostUuid,   \* the uuid of host_report, or NULL
          raised,     \* loading has raised an exception
          ret         \* the list of records

vars == <<pc, report, col, vmReports, hostUuid, raised, ret>>

Columns == 1..Len(report.legend)

TypeOK ==
  /\ pc \in {"load", "columns", "list", "return"}
  /\ report \in Reports
  /\ col \in 0..Len(report.legend)
  /\ DOMAIN vmReports \subseteq Uuids
  /\ \A u \in DOMAIN vmReports :
       /\ DOMAIN vmReports[u] \in (SUBSET (Params \union {NoParam})) \ {{}}
       /\ \A p \in DOMAIN vmReports[u] : vmReports[u][p] \in Columns
  /\ hostUuid \in Hosts \union {NULL}
  /\ raised \in BOOLEAN
  /\ \A i \in DOMAIN ret :
       /\ ret[i].uuid \in DOMAIN vmReports
       /\ DOMAIN ret[i].data = DOMAIN vmReports[ret[i].uuid]

Init ==
  /\ pc = "load"
  /\ report \in Reports
  /\ col = 0
  /\ vmReports = <<>>
  /\ hostUuid = NULL
  /\ raised = FALSE
  /\ ret = <<>>

-----------------------------------------------------------------------------
(* load and __parse_xmldoc *)

Parse ==
  /\ pc = "load"
  /\ report.wellFormed
  /\ pc' = "columns"
  /\ UNCHANGED <<report, col, vmReports, hostUuid, raised, ret>>

(* Without vm_reports, get_vm_list raises as well: return [[], ""]. *)
ParseRaises ==
  /\ pc = "load"
  /\ ~report.wellFormed
  /\ raised' = TRUE
  /\ pc' = "return"
  /\ UNCHANGED <<report, col, vmReports, hostUuid, ret>>

(* The entry of the legend that __handle_col is called for. *)
More == pc = "columns" /\ col < Len(report.legend)
Entry == report.legend[col + 1]

(* f with one more argument, or a new value for it; a dict assignment. *)
Assign(f, x, v) == [y \in DOMAIN f \union {x} |-> IF y = x THEN v ELSE f[y]]

(* Broken variants of HandleVm: the time of a row is counted as a column, *)
HandleVmOffByOne ==
  /\ More /\ Entry.kind = "vm"
  /\ LET known == IF Entry.uuid \in DOMAIN vmReports THEN vmReports[Entry.uuid] ELSE <<>>
     IN vmReports' = Assign(vmReports, Entry.uuid, Assign(known, Entry.param, col))
  /\ col' = col + 1
  /\ UNCHANGED <<pc, report, hostUuid, raised, ret>>

(* or a VMReport is created for every column. *)
HandleVmAnew ==
  /\ More /\ Entry.kind = "vm"
  /\ vmReports' = Assign(vmReports, Entry.uuid, Assign(<<>>, Entry.param, col + 1))
  /\ col' = col + 1
  /\ UNCHANGED <<pc, report, hostUuid, raised, ret>>

HandleVm ==
  /\ More /\ Entry.kind = "vm"
  /\ LET known == IF Entry.uuid \in DOMAIN vmReports THEN vmReports[Entry.uuid] ELSE <<>>
     IN vmReports' = Assign(vmReports, Entry.uuid, Assign(known, Entry.param, col + 1))
  /\ col' = col + 1
  /\ UNCHANGED <<pc, report, hostUuid, raised, ret>>

(* The variables of the host are looked at and never listed. *)
HandleHost ==
  /\ More /\ Entry.kind = "host"
  /\ hostUuid \in {NULL, Entry.uuid}
  /\ hostUuid' = Entry.uuid
  /\ col' = col + 1
  /\ UNCHANGED <<pc, report, vmReports, raised, ret>>

(* An entry that is not cf:vm|host:uuid:param, or a second host. *)
HandleRaises ==
  /\ More
  /\ \/ Entry.kind = "bad"
     \/ Entry.kind = "host" /\ hostUuid \notin {NULL, Entry.uuid}
  /\ raised' = TRUE
  /\ pc' = "list"
  /\ UNCHANGED <<report, col, vmReports, hostUuid, ret>>

Loaded ==
  /\ pc = "columns"
  /\ col = Len(report.legend)
  /\ pc' = "list"
  /\ UNCHANGED <<report, col, vmReports, hostUuid, raised, ret>>

-----------------------------------------------------------------------------
(* get_vm_data *)

(* Rows are counted from the oldest, and the document has the newest first. *)
Row(r) == report.rows - r + 1
RowTime(r) == report.times[Row(r)]

(* get_row_time or get_vm_data raises for some row of a variable. *)
RowsRaise(u) ==
  \E p \in DOMAIN vmReports[u] \ {NoParam} :
    \E r \in 1..report.rows : Row(r) \notin DOMAIN report.times \/ Row(r) = report.badRow

(***************************************************************************)
(* The loop over the rows of column c, whose times are time: a row newer   *)
(* than all before replaces max_time and data, and the two are appended    *)
(* whether or not it did.  A time of 0 never does; then data is "",        *)
(* float("") raises, and 0 is stored.                                      *)
(***************************************************************************)
Zero == <<0, 0>>

Samples(time, c) ==
  LET newest[r \in 0..Len(time)] ==
        IF r = 0 THEN [timestamp |-> 0, data |-> Zero]
        ELSE IF time[r] > newest[r - 1].timestamp THEN [timestamp |-> time[r], data |-> <<c, r>>]
        ELSE newest[r - 1]
  IN [r \in 1..Len(time) |-> newest[r]]

Times == [r \in 1..report.rows |-> RowTime(r)]

(* A broken variant of Series, for its mutation: every row is taken as it comes. *)
SeriesUnordered(c) ==
  [r \in 1..report.rows |-> [timestamp |-> RowTime(r), data |-> <<c, r>>]]

Series(c) == Samples(Times, c)

(* A variable without a name gets an empty list. *)
get_vm_data(u) ==
  [uuid |-> u,
   data |-> [p \in DOMAIN vmReports[u] |-> IF p = NoParam THEN <<>> ELSE Series(vmReports[u][p])]]

Listed == {ret[i].uuid : i \in DOMAIN ret}

(* converter() lists the VMs in the order of a dict, which is any. *)
List ==
  /\ pc = "list"
  /\ \E u \in DOMAIN vmReports \ Listed : ~RowsRaise(u) /\ ret' = Append(ret, get_vm_data(u))
  /\ UNCHANGED <<pc, report, col, vmReports, hostUuid, raised>>

ListRaises ==
  /\ pc = "list"
  /\ \E u \in DOMAIN vmReports \ Listed : RowsRaise(u)
  /\ raised' = TRUE
  /\ ret' = <<>>
  /\ pc' = "return"
  /\ UNCHANGED <<report, col, vmReports, hostUuid>>

Return ==
  /\ pc = "list"
  /\ DOMAIN vmReports = Listed
  /\ pc' = "return"
  /\ UNCHANGED <<report, col, vmReports, hostUuid, raised, ret>>

Next ==
  \/ Parse \/ ParseRaises \/ HandleVm \/ HandleHost \/ HandleRaises \/ Loaded
  \/ List \/ ListRaises \/ Return

Spec == Init /\ [][Next]_vars

-----------------------------------------------------------------------------
(* Properties *)

(***************************************************************************)
(* A report that raises nothing is listed in full: every variable of every *)
(* VM of the legend, with the samples of its own column, the last one if   *)
(* the legend names it twice.                                              *)
(***************************************************************************)
NothingMissing ==
  pc = "return" /\ ~raised =>
    \A c \in Columns :
      LET e == report.legend[c]
          IsLast == \A d \in Columns : d > c => report.legend[d] # e
      IN e.kind = "vm" /\ IsLast =>
           \E i \in DOMAIN ret :
             /\ ret[i].uuid = e.uuid
             /\ e.param \in DOMAIN ret[i].data
             /\ e.param # NoParam =>
                  /\ Len(ret[i].data[e.param]) = report.rows
                  /\ \A r \in 1..report.rows : ret[i].data[e.param][r].data \in {Zero} \union {<<c, q>> : q \in 1..r}

(***************************************************************************)
(* The samples of a variable are in the order of time, and each is the     *)
(* newest of the rows up to its own, whatever the order of the document.   *)
(***************************************************************************)
NewestSoFar ==
  \A i \in DOMAIN ret : \A p \in DOMAIN ret[i].data : \A r \in DOMAIN ret[i].data[p] :
    LET sample == ret[i].data[p][r]
    IN /\ \A q \in 1..r : RowTime(q) <= sample.timestamp
       /\ \/ sample.timestamp = 0 /\ sample.data = Zero
          \/ \E q \in 1..r : /\ RowTime(q) = sample.timestamp
                             /\ sample.data = <<vmReports[ret[i].uuid][p], q>>

(***************************************************************************)
(* server_perf.c: "when convert.py fails it returns [[], ""]".             *)
(***************************************************************************)
ErrorReturnsNothing == pc = "return" /\ raised => ret = <<>>
=============================================================================
