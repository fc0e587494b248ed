--------------------------- MODULE ConverterProofs ---------------------------
(***************************************************************************)
(* Proofs about Converter, for any set of reports: the columns it records  *)
(* are columns of the report, each variable has the samples of its own     *)
(* column, in order, and a report that raises nothing is listed in full.   *)
(***************************************************************************)
EXTENDS Converter, SequenceTheorems, WellFoundedInduction, TLAPS

-----------------------------------------------------------------------------
(* The loop over the rows *)

(* Induction for a set: the least number outside it would have a predecessor. *)
LEMMA SetInduction ==
  ASSUME NEW S, 0 \in S, \A n \in Nat : n \in S => n + 1 \in S
  PROVE  Nat \subseteq S
<1> DEFINE T == Nat \ S
           R == OpToRel(<, Nat)
<1> SUFFICES ASSUME T # {} PROVE FALSE
  OBVIOUS
<1>1. IsWellFoundedOn(R, Nat)
  BY NatLessThanWellFounded
<1>2. \A x, y \in Nat : x < y => <<x, y>> \in R
  BY DEF OpToRel
<1> HIDE DEF R
<1>3. PICK x \in T : \A y \in T : ~ (<<y, x>> \in R)
  BY <1>1, WFMin
<1>4. x # 0 /\ x - 1 \in Nat
  BY <1>3
<1>5. x - 1 \in S
  <2>1. x \in Nat /\ x - 1 < x
    BY <1>4
  <2>2. <<x - 1, x>> \in R
    BY <1>2, <1>4, <2>1
  <2>3. x - 1 \notin T
    BY <1>3, <2>2
  <2> QED
    BY <1>4, <2>3
<1> QED
  BY <1>4, <1>5

(* The sample after row r of column c, given the one before. *)
Step(time, c, v, r) ==
  IF time[r] > v.timestamp THEN [timestamp |-> time[r], data |-> <<c, r>>] ELSE v

None == [timestamp |-> 0, data |-> Zero]

(* f is the samples before and after each of the first n rows. *)
IsNewest(f, time, c, n) ==
  f = [r \in 0..n |-> IF r = 0 THEN None ELSE Step(time, c, f[r - 1], r)]

(* The recursive function of Samples exists. *)
LEMMA NewestExists ==
  ASSUME NEW time, NEW c
  PROVE  \A n \in Nat : \E f : IsNewest(f, time, c, n)
<1> DEFINE S == {n \in Nat : \E f : IsNewest(f, time, c, n)}
<1>1. 0 \in S
  <2>1. IsNewest([r \in 0..0 |-> None], time, c, 0)
    BY DEF IsNewest
  <2> QED
    BY <2>1
<1>2. ASSUME NEW n \in Nat, n \in S PROVE n + 1 \in S
  <2>1. PICK f : IsNewest(f, time, c, n)
    BY <1>2
  <2> DEFINE g == [r \in 0..n + 1 |-> IF r = n + 1 THEN Step(time, c, f[n], n + 1) ELSE f[r]]
  <2>2. ASSUME NEW r \in 0..n + 1
        PROVE  g[r] = IF r = 0 THEN None ELSE Step(time, c, g[r - 1], r)
    <3>1. CASE r = n + 1
      BY <3>1
    <3>2. CASE r \in 0..n
      <4>1. g[r] = f[r] /\ (r # 0 => g[r - 1] = f[r - 1])
        BY <3>2
      <4>2. f[r] = IF r = 0 THEN None ELSE Step(time, c, f[r - 1], r)
        BY <2>1, <3>2 DEF IsNewest
      <4> QED
        BY <4>1, <4>2
    <3> QED
      BY <3>1, <3>2
  <2>3. IsNewest(g, time, c, n + 1)
    BY <2>2 DEF IsNewest
  <2> QED
    BY <2>3
<1> HIDE DEF S
<1>3. Nat \subseteq S
  BY <1>1, <1>2, SetInduction
<1> QED
  BY <1>3 DEF S

(***************************************************************************)
(* v is the sample of the newest of the first r rows, the first of them if *)
(* there are several.                                                      *)
(***************************************************************************)
NewestOf(v, time, c, r) ==
  /\ v.timestamp \in Nat
  /\ \A q \in 1..r : time[q] <= v.timestamp
  /\ \/ v = None
     \/ \E q \in 1..r : /\ v = [timestamp |-> time[q], data |-> <<c, q>>]
                        /\ \A s \in 1..q - 1 : time[s] < time[q]
                        /\ time[q] > 0

LEMMA SamplesNewest ==
  ASSUME NEW time, NEW n \in Nat, time \in [1..n -> Nat], NEW c
  PROVE  /\ DOMAIN Samples(time, c) = 1..n
         /\ \A r \in 1..n : NewestOf(Samples(time, c)[r], time, c, r)
<1> DEFINE f == CHOOSE f : IsNewest(f, time, c, n)
<1>1. Len(time) = n
  OBVIOUS
<1>2. Samples(time, c) = [r \in 1..n |-> f[r]]
  BY <1>1 DEF Samples, IsNewest, Step, None
<1>3. IsNewest(f, time, c, n)
  BY NewestExists
<1> HIDE DEF f
<1> DEFINE S == {r \in Nat : r <= n => NewestOf(f[r], time, c, r)}
<1>4. 0 \in S
  <2>1. f[0] = None
    BY <1>3 DEF IsNewest
  <2> QED
    BY <2>1 DEF NewestOf, None
<1>5. ASSUME NEW r \in Nat, r \in S PROVE r + 1 \in S
  <2> SUFFICES ASSUME r + 1 <= n PROVE NewestOf(f[r + 1], time, c, r + 1)
    OBVIOUS
  <2>1. NewestOf(f[r], time, c, r)
    BY <1>5
  <2>2. f[r + 1] = Step(time, c, f[r], r + 1)
    BY <1>3 DEF IsNewest
  <2>3. time[r + 1] \in Nat /\ \A q \in 1..r : time[q] \in Nat
    OBVIOUS
  <2>4. CASE time[r + 1] > f[r].timestamp
    <3>1. f[r + 1] = [timestamp |-> time[r + 1], data |-> <<c, r + 1>>]
      BY <2>2, <2>4 DEF Step
    <3>2. \A q \in 1..r : time[q] < time[r + 1]
      BY <2>1, <2>3, <2>4 DEF NewestOf
    <3>3. time[r + 1] > 0
      BY <2>1, <2>3, <2>4 DEF NewestOf
    <3>4. \A q \in 1..r + 1 : time[q] <= f[r + 1].timestamp
      BY <2>3, <3>1, <3>2
    <3>5. \E q \in 1..r + 1 : /\ f[r + 1] = [timestamp |-> time[q], data |-> <<c, q>>]
                              /\ \A s \in 1..q - 1 : time[s] < time[q]
                              /\ time[q] > 0
      <4>1. r + 1 \in 1..r + 1 /\ \A s \in 1..(r + 1) - 1 : s \in 1..r
        OBVIOUS
      <4>2. \A s \in 1..(r + 1) - 1 : time[s] < time[r + 1]
        BY <3>2, <4>1
      <4> QED
        BY <3>1, <3>3, <4>1, <4>2, Zenon
    <3>6. f[r + 1].timestamp \in Nat
      BY <2>3, <3>1
    <3> QED
      BY <3>4, <3>5, <3>6 DEF NewestOf
  <2>5. CASE ~(time[r + 1] > f[r].timestamp)
    <3>1. f[r + 1] = f[r]
      BY <2>2, <2>5 DEF Step
    <3>2. time[r + 1] <= f[r].timestamp
      BY <2>1, <2>3, <2>5 DEF NewestOf
    <3>3. \A q \in 1..r + 1 : time[q] <= f[r].timestamp
      BY <2>1, <3>2 DEF NewestOf
    <3>4. ASSUME NEW q \in 1..r PROVE q \in 1..r + 1
      OBVIOUS
    <3>5. \/ f[r] = None
          \/ \E q \in 1..r + 1 : /\ f[r] = [timestamp |-> time[q], data |-> <<c, q>>]
                                 /\ \A s \in 1..q - 1 : time[s] < time[q]
                                 /\ time[q] > 0
      BY <2>1, <3>4, Zenon DEF NewestOf
    <3> QED
      BY <2>1, <3>1, <3>3, <3>5 DEF NewestOf
  <2> QED
    BY <2>4, <2>5
<1> HIDE DEF S
<1>6. Nat \subseteq S
  BY <1>4, <1>5, SetInduction
<1>7. \A r \in 1..n : NewestOf(f[r], time, c, r)
  BY <1>6 DEF S
<1> QED
  BY <1>2, <1>7

-----------------------------------------------------------------------------
(* The invariant *)

(***************************************************************************)
(* Nothing is listed while columns are still handled, so the records       *)
(* listed are those of the VMs as loaded.                                  *)
(***************************************************************************)
ListInv ==
  /\ pc \in {"load", "columns"} => ret = <<>>
  /\ ret \in Seq({get_vm_data(u) : u \in DOMAIN vmReports})

LoadInv ==
  /\ pc \in {"load", "columns", "list", "return"}
  /\ report \in Reports
  /\ col \in 0..Len(report.legend)
  /\ DOMAIN vmReports \subseteq Uuids
  /\ \A u \in DOMAIN vmReports :
       /\ DOMAIN vmReports[u] \in (SUBSET (Params \union {NoParam})) \ {{}}
       /\ \A p \in DOMAIN vmReports[u] : vmReports[u][p] \in Columns
  /\ hostUuid \in Hosts \union {NULL}
  /\ raised \in BOOLEAN

IInv == LoadInv /\ ListInv

LEMMA EntryTyped ==
  ASSUME LoadInv, More
  PROVE  /\ Entry.kind = "vm" => Entry.uuid \in Uuids /\ Entry.param \in Params \union {NoParam}
         /\ Entry.kind = "host" => Entry.uuid \in Hosts
         /\ col + 1 \in Columns /\ Len(report.legend) \in Nat
<1> DEFINE VmEntries == [kind : {"vm"}, uuid : Uuids, param : Params \union {NoParam}]
           HostEntries == [kind : {"host"}, uuid : Hosts, param : Params]
           BadEntries == [kind : {"bad"}, uuid : {NULL}, param : {NULL}]
<1>1. report.legend \in Seq(VmEntries \union HostEntries \union BadEntries)
  BY ConverterAssumption DEF ConverterAssumption, LoadInv, Legends
<1>2. Len(report.legend) \in Nat /\ col + 1 \in 1..Len(report.legend)
  BY <1>1, LenProperties DEF LoadInv, More
<1>3. Entry \in VmEntries \union HostEntries \union BadEntries
  BY <1>1, <1>2, ElementOfSeq DEF Entry
<1> QED
  BY <1>2, <1>3 DEF Columns

LEMMA LoadStep ==
  ASSUME LoadInv, [Next]_vars
  PROVE  LoadInv'
<1>1. CASE HandleVm
  <2> DEFINE u == Entry.uuid
             p == Entry.param
             known == IF u \in DOMAIN vmReports THEN vmReports[u] ELSE <<>>
             new == Assign(known, p, col + 1)
  <2>1. More /\ vmReports' = Assign(vmReports, u, new) /\ col' = col + 1 /\ UNCHANGED <<pc, report, hostUuid, raised>>
    BY <1>1 DEF HandleVm
  <2>2. u \in Uuids /\ p \in Params \union {NoParam} /\ col + 1 \in Columns /\ Columns' = Columns
    BY <1>1, <2>1, EntryTyped DEF HandleVm, Columns
  <2>3. DOMAIN known \subseteq Params \union {NoParam} /\ \A q \in DOMAIN known : known[q] \in Columns
    BY DEF LoadInv
  <2> HIDE DEF u, p, known
  <2>4. /\ DOMAIN new \subseteq Params \union {NoParam} /\ DOMAIN new # {}
        /\ \A q \in DOMAIN new : new[q] \in Columns
    <3>1. DOMAIN new = DOMAIN known \union {p}
      BY DEF Assign
    <3>2. \A q \in DOMAIN new : new[q] = IF q = p THEN col + 1 ELSE known[q]
      BY DEF Assign
    <3> QED
      BY <2>2, <2>3, <3>1, <3>2
  <2> HIDE DEF new
  <2>5. DOMAIN vmReports' = DOMAIN vmReports \union {u} /\ vmReports'[u] = new
        /\ \A v \in DOMAIN vmReports \ {u} : vmReports'[v] = vmReports[v]
    BY <2>1 DEF Assign
  <2>6. \A v \in DOMAIN vmReports' :
          /\ DOMAIN vmReports'[v] \in (SUBSET (Params \union {NoParam})) \ {{}}
          /\ \A q \in DOMAIN vmReports'[v] : vmReports'[v][q] \in Columns
    BY <2>4, <2>5 DEF LoadInv
  <2> QED
    BY <2>1, <2>2, <2>5, <2>6 DEF LoadInv, Columns
<1>2. CASE HandleHost
  <2>1. Entry.uuid \in Hosts /\ col + 1 \in Columns
    BY <1>2, EntryTyped DEF HandleHost
  <2> QED
    BY <1>2, <2>1 DEF HandleHost, LoadInv, Columns
<1>3. CASE Parse \/ ParseRaises \/ HandleRaises \/ Loaded \/ List \/ ListRaises \/ Return \/ UNCHANGED vars
  BY <1>3 DEF Parse, ParseRaises, HandleRaises, Loaded, List, ListRaises, Return, vars, LoadInv, Columns
<1> QED
  BY <1>1, <1>2, <1>3 DEF Next

(* The records depend on the report and on vm_reports only. *)
LEMMA RecordsStay ==
  ASSUME vmReports' = vmReports, report' = report
  PROVE  {get_vm_data(u) : u \in DOMAIN vmReports}' = {get_vm_data(u) : u \in DOMAIN vmReports}
<1>1. ASSUME NEW u PROVE get_vm_data(u)' = get_vm_data(u)
  BY DEF get_vm_data, Series, Times, RowTime, Row
<1> QED
  BY <1>1

LEMMA ListStep ==
  ASSUME IInv, [Next]_vars
  PROVE  ListInv'
<1> DEFINE S == {get_vm_data(u) : u \in DOMAIN vmReports}
<1>1. CASE HandleVm
  <2>1. ret = <<>> /\ ret' = <<>> /\ pc' = pc
    BY <1>1 DEF HandleVm, More, IInv, ListInv
  <2> QED
    BY <2>1, EmptySeq DEF IInv, ListInv
<1>2. CASE Parse \/ ParseRaises \/ HandleHost \/ HandleRaises \/ Loaded \/ Return \/ UNCHANGED vars
  <2>1. ret' = ret /\ vmReports' = vmReports /\ report' = report
    BY <1>2 DEF Parse, ParseRaises, HandleHost, HandleRaises, Loaded, Return, vars
  <2>2. pc' \in {"load", "columns"} => pc \in {"load", "columns"}
    BY <1>2 DEF Parse, ParseRaises, HandleHost, HandleRaises, Loaded, Return, vars, IInv, LoadInv, More
  <2>3. S' = S
    BY <2>1, RecordsStay
  <2> QED
    BY <2>1, <2>2, <2>3 DEF IInv, ListInv
<1>3. CASE List
  <2>1. PICK u \in DOMAIN vmReports \ Listed : ret' = Append(ret, get_vm_data(u))
    BY <1>3 DEF List
  <2>2. pc' = "list" /\ vmReports' = vmReports /\ report' = report
    BY <1>3 DEF List
  <2>3. S' = S
    BY <2>2, RecordsStay
  <2> DEFINE rec == get_vm_data(u)
  <2>4. rec \in S
    OBVIOUS
  <2>5. ret \in Seq(S)
    BY DEF IInv, ListInv
  <2> HIDE DEF S, rec
  <2>6. ret' \in Seq(S)
    BY <2>1, <2>4, <2>5, AppendProperties DEF rec
  <2> QED
    BY <2>2, <2>3, <2>6 DEF ListInv, S
<1>4. CASE ListRaises
  <2>1. ret' = <<>> /\ pc' = "return"
    BY <1>4 DEF ListRaises
  <2> QED
    BY <2>1, EmptySeq DEF ListInv
<1> QED
  BY <1>1, <1>2, <1>3, <1>4 DEF Next

(***************************************************************************)
(* vm_reports has, of the columns handled, the last of each variable; and  *)
(* converter() ends, without an exception, with all columns handled, all   *)
(* VMs listed, and no row missing of a VM it lists.                        *)
(***************************************************************************)
HasColumn(u, p, c) ==
  /\ c \in 1..col
  /\ report.legend[c].kind = "vm" /\ report.legend[c].uuid = u /\ report.legend[c].param = p

ColumnsInv ==
  /\ \A c \in 1..col : report.legend[c].kind = "vm" =>
       LET e == report.legend[c]
       IN /\ e.uuid \in DOMAIN vmReports
          /\ e.param \in DOMAIN vmReports[e.uuid]
          /\ c <= vmReports[e.uuid][e.param]
  /\ \A u \in DOMAIN vmReports : \A p \in DOMAIN vmReports[u] : HasColumn(u, p, vmReports[u][p])

EndInv ==
  /\ pc \in {"list", "return"} /\ ~raised => col = Len(report.legend)
  /\ pc = "return" /\ ~raised => DOMAIN vmReports = Listed
  /\ \A u \in Listed : ~RowsRaise(u)

FullInv == IInv /\ ColumnsInv /\ EndInv

LEMMA ColumnsStep ==
  ASSUME LoadInv, ColumnsInv, [Next]_vars
  PROVE  ColumnsInv'
<1>1. CASE HandleVm
  <2> DEFINE u == Entry.uuid
             p == Entry.param
             known == IF u \in DOMAIN vmReports THEN vmReports[u] ELSE <<>>
             new == Assign(known, p, col + 1)
  <2>1. More /\ Entry.kind = "vm" /\ vmReports' = Assign(vmReports, u, new) /\ col' = col + 1 /\ report' = report
    BY <1>1 DEF HandleVm
  <2>2. col \in Nat /\ Entry = report.legend[col + 1]
    BY <2>1, EntryTyped DEF LoadInv, Entry
  <2>3. /\ DOMAIN vmReports' = DOMAIN vmReports \union {u} /\ vmReports'[u] = new
        /\ \A v \in DOMAIN vmReports \ {u} : vmReports'[v] = vmReports[v]
    BY <2>1 DEF Assign
  <2>4. /\ DOMAIN new = DOMAIN known \union {p} /\ new[p] = col + 1
        /\ \A q \in DOMAIN known \ {p} : new[q] = known[q]
    BY DEF Assign
  <2>5. /\ u \in DOMAIN vmReports => known = vmReports[u]
        /\ u \notin DOMAIN vmReports => DOMAIN known = {}
    OBVIOUS
  <2>6. u = report.legend[col + 1].uuid /\ p = report.legend[col + 1].param /\ report.legend[col + 1].kind = "vm"
    BY <2>1, <2>2
  <2> HIDE DEF u, p, new, known
  <2>7. ASSUME NEW c \in 1..col + 1, report.legend[c].kind = "vm"
        PROVE  /\ report.legend[c].uuid \in DOMAIN vmReports'
               /\ report.legend[c].param \in DOMAIN vmReports'[report.legend[c].uuid]
               /\ c <= vmReports'[report.legend[c].uuid][report.legend[c].param]
    <3>1. CASE c = col + 1
      BY <2>2, <2>3, <2>4, <2>6, <3>1
    <3>2. CASE c \in 1..col
      <4>1. /\ report.legend[c].uuid \in DOMAIN vmReports
            /\ report.legend[c].param \in DOMAIN vmReports[report.legend[c].uuid]
            /\ c <= vmReports[report.legend[c].uuid][report.legend[c].param]
        BY <2>7, <3>2 DEF ColumnsInv
      <4>2. CASE report.legend[c].uuid = u
        BY <2>2, <2>3, <2>4, <2>5, <4>1, <4>2, <3>2
      <4>3. CASE report.legend[c].uuid # u
        BY <2>3, <4>1, <4>3
      <4> QED
        BY <4>2, <4>3
    <3> QED
      BY <2>2, <3>1, <3>2
  <2>8. ASSUME NEW v \in DOMAIN vmReports', NEW q \in DOMAIN vmReports'[v]
        PROVE  HasColumn(v, q, vmReports[v][q])'
    <3>1. CASE v = u /\ q = p
      <4>1. vmReports'[v][q] = col + 1
        BY <2>3, <2>4, <3>1
      <4>2. col + 1 \in 1..col'
        BY <2>1, <2>2
      <4> QED
        BY <2>1, <2>6, <3>1, <4>1, <4>2 DEF HasColumn
    <3>2. CASE ~(v = u /\ q = p)
      <4>1. v \in DOMAIN vmReports /\ q \in DOMAIN vmReports[v] /\ vmReports'[v][q] = vmReports[v][q]
        BY <2>3, <2>4, <2>5, <2>8, <3>2
      <4>2. HasColumn(v, q, vmReports[v][q])
        BY <4>1 DEF ColumnsInv
      <4> QED
        BY <2>1, <2>2, <4>1, <4>2 DEF HasColumn
    <3> QED
      BY <3>1, <3>2
  <2> QED
    BY <2>1, <2>7, <2>8 DEF ColumnsInv
<1>2. CASE HandleHost
  <2>1. More /\ Entry.kind = "host" /\ col' = col + 1 /\ report' = report /\ vmReports' = vmReports
    BY <1>2 DEF HandleHost
  <2>2. col \in Nat /\ Entry = report.legend[col + 1]
    BY <2>1, EntryTyped DEF LoadInv, Entry
  <2>3. \A c \in 1..col + 1 : report.legend[c].kind = "vm" => c \in 1..col
    BY <2>1, <2>2
  <2>4. \A u, p, c : HasColumn(u, p, c) => HasColumn(u, p, c)'
    BY <2>1, <2>2 DEF HasColumn
  <2> QED
    BY <2>1, <2>3, <2>4 DEF ColumnsInv
<1>3. CASE Parse \/ ParseRaises \/ HandleRaises \/ Loaded \/ List \/ ListRaises \/ Return \/ UNCHANGED vars
  <2>1. col' = col /\ report' = report /\ vmReports' = vmReports
    BY <1>3 DEF Parse, ParseRaises, HandleRaises, Loaded, List, ListRaises, Return, vars
  <2> QED
    BY <2>1 DEF ColumnsInv, HasColumn
<1> QED
  BY <1>1, <1>2, <1>3 DEF Next

LEMMA EndStep ==
  ASSUME IInv, EndInv, [Next]_vars
  PROVE  EndInv'
<1>1. CASE HandleVm \/ HandleHost
  <2>1. pc' = "columns" /\ ret' = <<>>
    BY <1>1 DEF HandleVm, HandleHost, More, IInv, ListInv
  <2> QED
    BY <2>1 DEF EndInv, Listed
<1>2. CASE List
  <2>1. PICK u \in DOMAIN vmReports \ Listed : ~RowsRaise(u) /\ ret' = Append(ret, get_vm_data(u))
    BY <1>2 DEF List
  <2>2. pc = "list" /\ UNCHANGED <<pc, report, col, vmReports, raised>>
    BY <1>2 DEF List
  <2>3. \A i \in DOMAIN ret' : ret'[i] = get_vm_data(u) \/ (i \in DOMAIN ret /\ ret'[i] = ret[i])
    <3> DEFINE S == {get_vm_data(v) : v \in DOMAIN vmReports}
               rec == get_vm_data(u)
    <3>1. ret \in Seq(S) /\ rec \in S /\ ret' = Append(ret, rec)
      BY <2>1 DEF IInv, ListInv
    <3> HIDE DEF S, rec
    <3>2. \A i \in DOMAIN ret' : ret'[i] = rec \/ (i \in DOMAIN ret /\ ret'[i] = ret[i])
      BY <3>1
    <3> QED
      BY <3>2 DEF rec
  <2>4. get_vm_data(u).uuid = u
    BY DEF get_vm_data
  <2>5. \A v \in Listed' : v = u \/ v \in Listed
    BY <2>3, <2>4 DEF Listed
  <2>6. \A v : RowsRaise(v)' = RowsRaise(v)
    BY <2>2 DEF RowsRaise, Row
  <2> QED
    BY <2>1, <2>2, <2>5, <2>6 DEF EndInv
<1>3. CASE Parse \/ ParseRaises \/ HandleRaises \/ Loaded \/ Return \/ UNCHANGED vars
  <2>1. UNCHANGED <<report, col, vmReports, ret>>
    BY <1>3 DEF Parse, ParseRaises, HandleRaises, Loaded, Return, vars
  <2>2. Listed' = Listed /\ \A v : RowsRaise(v)' = RowsRaise(v)
    BY <2>1 DEF Listed, RowsRaise, Row
  <2> QED
    BY <1>3, <2>1, <2>2 DEF EndInv, Parse, ParseRaises, HandleRaises, Loaded, Return, vars
<1>4. CASE ListRaises
  <2>1. raised' = TRUE /\ ret' = <<>>
    BY <1>4 DEF ListRaises
  <2> QED
    BY <2>1 DEF EndInv, Listed
<1> QED
  BY <1>1, <1>2, <1>3, <1>4 DEF Next

LEMMA ConverterInit == Init => FullInv
<1> SUFFICES ASSUME Init PROVE FullInv
  OBVIOUS
<1>1. LoadInv
  <2>1. Len(report.legend) \in Nat
    <3>1. report.legend \in Legends
      BY ConverterAssumption DEF ConverterAssumption, Init
    <3> QED
      BY <3>1, LenProperties DEF Legends
  <2>2. DOMAIN vmReports = {}
    BY DEF Init
  <2>3. col \in 0..Len(report.legend)
    BY <2>1 DEF Init
  <2> QED
    BY <2>2, <2>3 DEF Init, LoadInv
<1>2. ListInv
  <2>1. ret = <<>>
    BY DEF Init
  <2> QED
    BY <2>1, EmptySeq DEF ListInv
<1>3. ColumnsInv
  BY DEF Init, ColumnsInv
<1>4. EndInv
  BY DEF Init, EndInv, Listed
<1> QED
  BY <1>1, <1>2, <1>3, <1>4 DEF FullInv, IInv

LEMMA ConverterInvariant == Spec => []FullInv
<1>1. FullInv /\ [Next]_vars => FullInv'
  BY LoadStep, ListStep, ColumnsStep, EndStep DEF FullInv, IInv
<1> QED
  BY <1>1, ConverterInit, PTL DEF Spec

(***************************************************************************)
(* vm_reports holds columns of the report, and every record listed has the *)
(* variables of its VM.                                                    *)
(***************************************************************************)
THEOREM ConverterTypeOK == Spec => []TypeOK
<1>1. FullInv => TypeOK
  <2> SUFFICES ASSUME IInv PROVE TypeOK
    BY DEF FullInv
  <2>1. ASSUME NEW i \in DOMAIN ret
        PROVE  ret[i].uuid \in DOMAIN vmReports /\ DOMAIN ret[i].data = DOMAIN vmReports[ret[i].uuid]
    <3>1. ret[i] \in {get_vm_data(u) : u \in DOMAIN vmReports}
      BY ElementOfSeq, LenProperties DEF IInv, ListInv
    <3>2. PICK u \in DOMAIN vmReports : ret[i] = get_vm_data(u)
      BY <3>1
    <3> QED
      BY <3>2 DEF get_vm_data
  <2> QED
    BY <2>1 DEF IInv, LoadInv, TypeOK
<1> QED
  BY <1>1, ConverterInvariant, PTL

(* Where a VM with a variable is listed, every row has a time. *)
LEMMA TimesTyped ==
  ASSUME FullInv, NEW u \in Listed, NEW p \in DOMAIN vmReports[u] \ {NoParam}
  PROVE  report.rows \in Nat /\ Times \in [1..report.rows -> Nat]
<1>1. report.rows \in Nat /\ report.times \in Seq(Nat)
  BY ConverterAssumption DEF ConverterAssumption, FullInv, IInv, LoadInv
<1>2. \A r \in 1..report.rows : Row(r) \in DOMAIN report.times
  BY DEF FullInv, EndInv, RowsRaise
<1>3. \A r \in 1..report.rows : RowTime(r) \in Nat
  BY <1>1, <1>2, ElementOfSeq, LenProperties DEF RowTime
<1> QED
  BY <1>1, <1>3 DEF Times

(* The samples that a record has of a variable. *)
LEMMA RecordSamples ==
  ASSUME FullInv, NEW i \in DOMAIN ret
  PROVE  /\ ret[i].uuid \in Listed /\ ret[i].uuid \in DOMAIN vmReports
         /\ DOMAIN ret[i].data = DOMAIN vmReports[ret[i].uuid]
         /\ \A p \in DOMAIN ret[i].data :
              IF p = NoParam THEN ret[i].data[p] = <<>>
              ELSE /\ DOMAIN ret[i].data[p] = 1..report.rows
                   /\ report.rows \in Nat
                   /\ Len(ret[i].data[p]) = report.rows
                   /\ \A r \in 1..report.rows :
                        NewestOf(ret[i].data[p][r], Times, vmReports[ret[i].uuid][p], r)
<1>1. ret[i] \in {get_vm_data(u) : u \in DOMAIN vmReports}
  BY ElementOfSeq, LenProperties DEF FullInv, IInv, ListInv
<1>2. PICK u \in DOMAIN vmReports : ret[i] = get_vm_data(u)
  BY <1>1
<1>3. /\ ret[i].uuid = u /\ u \in Listed
      /\ ret[i].data = [p \in DOMAIN vmReports[u] |->
                          IF p = NoParam THEN <<>> ELSE Samples(Times, vmReports[u][p])]
  BY <1>2 DEF get_vm_data, Series, Listed
<1>4. ASSUME NEW p \in DOMAIN vmReports[u], p # NoParam
      PROVE  /\ DOMAIN ret[i].data[p] = 1..report.rows
             /\ report.rows \in Nat
             /\ Len(ret[i].data[p]) = report.rows
             /\ \A r \in 1..report.rows : NewestOf(ret[i].data[p][r], Times, vmReports[u][p], r)
  <2>1. report.rows \in Nat /\ Times \in [1..report.rows -> Nat]
    BY <1>3, <1>4, TimesTyped
  <2>2. ret[i].data[p] = Samples(Times, vmReports[u][p])
    BY <1>3, <1>4
  <2> DEFINE time == Times
             c == vmReports[u][p]
             n == report.rows
             samples == Samples(time, c)
  <2> HIDE DEF time, c, n
  <2>3. n \in Nat /\ time \in [1..n -> Nat]
    BY <2>1 DEF time, n
  <2>4. DOMAIN samples = 1..n /\ \A r \in 1..n : NewestOf(samples[r], time, c, r)
    BY <2>3, SamplesNewest
  <2>5. samples = [r \in 1..Len(time) |-> samples[r]] /\ Len(time) = n
    BY <2>3 DEF Samples
  <2>6. Len(samples) = n
    BY <2>3, <2>5
  <2> QED
    BY <2>1, <2>2, <2>4, <2>6 DEF time, c, n
<1> QED
  BY <1>3, <1>4

(***************************************************************************)
(* The samples of a variable are in the order of time, and each is the     *)
(* newest of the rows up to its own.                                       *)
(***************************************************************************)
THEOREM ConverterNewestSoFar == Spec => []NewestSoFar
<1>1. FullInv => NewestSoFar
  <2> SUFFICES ASSUME FullInv, NEW i \in DOMAIN ret, NEW p \in DOMAIN ret[i].data,
                      NEW r \in DOMAIN ret[i].data[p]
               PROVE  LET sample == ret[i].data[p][r]
                      IN /\ \A q \in 1..r : RowTime(q) <= sample.timestamp
                         /\ \/ sample.timestamp = 0 /\ sample.data = Zero
                            \/ \E q \in 1..r : /\ RowTime(q) = sample.timestamp
                                               /\ sample.data = <<vmReports[ret[i].uuid][p], q>>
    BY DEF NewestSoFar
  <2>1. /\ p # NoParam
        /\ r \in 1..report.rows /\ report.rows \in Nat
        /\ NewestOf(ret[i].data[p][r], Times, vmReports[ret[i].uuid][p], r)
    BY RecordSamples
  <2>2. \A q \in 1..r : Times[q] = RowTime(q)
    BY <2>1 DEF Times
  <2> DEFINE v == ret[i].data[p][r]
             c == vmReports[ret[i].uuid][p]
  <2>3. NewestOf(v, Times, c, r)
    BY <2>1
  <2> HIDE DEF v, c
  <2>4. \A q \in 1..r : RowTime(q) <= v.timestamp
    BY <2>2, <2>3 DEF NewestOf
  <2>5. CASE v = None
    BY <2>4, <2>5 DEF None, v, c
  <2>6. CASE \E q \in 1..r : v = [timestamp |-> Times[q], data |-> <<c, q>>]
    <3>1. PICK q \in 1..r : v = [timestamp |-> Times[q], data |-> <<c, q>>]
      BY <2>6
    <3>2. RowTime(q) = v.timestamp /\ v.data = <<c, q>>
      BY <2>2, <3>1
    <3> QED
      BY <2>4, <3>2 DEF v, c
  <2> QED
    BY <2>3, <2>5, <2>6 DEF NewestOf
<1> QED
  BY <1>1, ConverterInvariant, PTL

(***************************************************************************)
(* A report that raises nothing is listed in full: every variable of every *)
(* VM of the legend, with the samples of its own column.                   *)
(***************************************************************************)
THEOREM ConverterNothingMissing == Spec => []NothingMissing
<1>1. FullInv => NothingMissing
  <2> SUFFICES ASSUME FullInv, pc = "return", ~raised, NEW c \in Columns,
                      report.legend[c].kind = "vm",
                      \A d \in Columns : d > c => report.legend[d] # report.legend[c]
               PROVE  \E i \in DOMAIN ret :
                        /\ ret[i].uuid = report.legend[c].uuid
                        /\ report.legend[c].param \in DOMAIN ret[i].data
                        /\ report.legend[c].param # NoParam =>
                             /\ Len(ret[i].data[report.legend[c].param]) = report.rows
                             /\ \A r \in 1..report.rows :
                                  ret[i].data[report.legend[c].param][r].data
                                    \in {Zero} \union {<<c, q>> : q \in 1..r}
    BY DEF NothingMissing
  <2> DEFINE u == report.legend[c].uuid
             p == report.legend[c].param
  <2>1. col = Len(report.legend) /\ DOMAIN vmReports = Listed /\ c \in 1..col
    BY DEF FullInv, EndInv, Columns
  <2>2. u \in DOMAIN vmReports /\ p \in DOMAIN vmReports[u] /\ c <= vmReports[u][p]
    BY <2>1 DEF FullInv, ColumnsInv
  <2>3. vmReports[u][p] = c
    <3> DEFINE d == vmReports[u][p]
    <3>1. d \in 1..col /\ report.legend[d].kind = "vm" /\ report.legend[d].uuid = u /\ report.legend[d].param = p
      BY <2>2 DEF FullInv, ColumnsInv, HasColumn
    <3>2. report.legend[d] = report.legend[c]
      <4> DEFINE VmEntries == [kind : {"vm"}, uuid : Uuids, param : Params \union {NoParam}]
                 HostEntries == [kind : {"host"}, uuid : Hosts, param : Params]
                 BadEntries == [kind : {"bad"}, uuid : {NULL}, param : {NULL}]
      <4>1. report.legend \in Seq(VmEntries \union HostEntries \union BadEntries)
        BY ConverterAssumption DEF ConverterAssumption, FullInv, IInv, LoadInv, Legends
      <4>2. d \in 1..Len(report.legend) /\ c \in 1..Len(report.legend)
        BY <2>1, <3>1
      <4>3. /\ report.legend[d] \in VmEntries \union HostEntries \union BadEntries
            /\ report.legend[c] \in VmEntries \union HostEntries \union BadEntries
        <5> HIDE DEF VmEntries, HostEntries, BadEntries, d
        <5> QED
          BY <4>1, <4>2, ElementOfSeq
      <4> DEFINE e == report.legend[d]
                 f == report.legend[c]
      <4>4. e.kind = "vm" /\ f.kind = "vm" /\ e.uuid = f.uuid /\ e.param = f.param
        BY <3>1
      <4> HIDE DEF d, e, f
      <4>5. e \in VmEntries /\ f \in VmEntries
        BY <4>3, <4>4 DEF e, f
      <4>6. /\ e = [kind |-> e.kind, uuid |-> e.uuid, param |-> e.param]
            /\ f = [kind |-> f.kind, uuid |-> f.uuid, param |-> f.param]
        BY <4>5
      <4>7. e = f
        BY <4>4, <4>6
      <4> QED
        BY <4>7 DEF e, f
    <3>3. d \in Columns /\ ~(d > c)
      BY <2>1, <3>1, <3>2 DEF Columns
    <3> QED
      BY <2>1, <2>2, <3>1, <3>3
  <2>4. PICK i \in DOMAIN ret : ret[i].uuid = u
    BY <2>1, <2>2 DEF Listed
  <2>5. p \in DOMAIN ret[i].data
    BY <2>2, <2>4, RecordSamples
  <2>6. ASSUME p # NoParam
        PROVE  /\ Len(ret[i].data[p]) = report.rows
               /\ \A r \in 1..report.rows :
                    ret[i].data[p][r].data \in {Zero} \union {<<c, q>> : q \in 1..r}
    <3>1. /\ Len(ret[i].data[p]) = report.rows
          /\ \A r \in 1..report.rows : NewestOf(ret[i].data[p][r], Times, c, r)
      BY <2>3, <2>4, <2>5, <2>6, RecordSamples
    <3>2. ASSUME NEW v, NEW r \in 1..report.rows, NewestOf(v, Times, c, r)
          PROVE  v.data \in {Zero} \union {<<c, q>> : q \in 1..r}
      <4>1. CASE v = None
        BY <4>1 DEF None
      <4>2. CASE \E q \in 1..r : v = [timestamp |-> Times[q], data |-> <<c, q>>]
        BY <4>2
      <4> QED
        BY <3>2, <4>1, <4>2 DEF NewestOf
    <3> QED
      BY <3>1, <3>2
  <2> QED
    BY <2>4, <2>5, <2>6
<1> QED
  BY <1>1, ConverterInvariant, PTL

-----------------------------------------------------------------------------
(* Where an exception does end in [[], ""] *)

(* A legend that __handle_col can read: cf:vm|host:uuid:param throughout, one host. *)
Readable(legend) ==
  \A c, d \in 1..Len(legend) :
    /\ legend[c].kind # "bad"
    /\ legend[c].kind = "host" /\ legend[d].kind = "host" => legend[c].uuid = legend[d].uuid

(* host_report is that of a column handled, and an exception has ended the call. *)
RaiseInv ==
  /\ hostUuid # NULL => \E c \in 1..col : report.legend[c].kind = "host" /\ report.legend[c].uuid = hostUuid
  /\ raised => pc = "return" /\ ret = <<>>

LEMMA RaiseStep ==
  ASSUME IInv, RaiseInv, [Next]_vars, Readable(report.legend)
  PROVE  RaiseInv'
<1>1. CASE HandleVm \/ HandleHost
  <2>1. More /\ col' = col + 1 /\ UNCHANGED <<pc, report, raised>> /\ hostUuid' \in {hostUuid, Entry.uuid}
    BY <1>1 DEF HandleVm, HandleHost
  <2>2. col \in Nat /\ Entry = report.legend[col + 1] /\ (hostUuid' # hostUuid => Entry.kind = "host")
    BY <1>1, <2>1, EntryTyped DEF IInv, LoadInv, Entry, HandleVm, HandleHost
  <2>3. ~raised
    BY <2>1 DEF RaiseInv, More
  <2>4. hostUuid' # NULL => \E c \in 1..col + 1 :
          report.legend[c].kind = "host" /\ report.legend[c].uuid = hostUuid'
    <3>1. CASE hostUuid' = hostUuid
      <4>1. \A c \in 1..col : c \in 1..col + 1
        BY <2>2
      <4> QED
        BY <3>1, <4>1 DEF RaiseInv
    <3>2. CASE hostUuid' # hostUuid
      <4>1. col + 1 \in 1..col + 1
        BY <2>2
      <4> QED
        BY <2>1, <2>2, <3>2, <4>1
    <3> QED
      BY <3>1, <3>2
  <2> QED
    BY <2>1, <2>3, <2>4 DEF RaiseInv
<1>2. CASE HandleRaises
  <2>1. More /\ (Entry.kind = "bad" \/ (Entry.kind = "host" /\ hostUuid \notin {NULL, Entry.uuid}))
    BY <1>2 DEF HandleRaises
  <2>2. Entry = report.legend[col + 1] /\ col + 1 \in 1..Len(report.legend) /\ col \in 0..Len(report.legend)
    BY <2>1, EntryTyped DEF IInv, Entry, Columns, LoadInv
  <2>3. Entry.kind = "host" /\ hostUuid # NULL /\ hostUuid # Entry.uuid
    BY <2>1, <2>2 DEF Readable
  <2>4. PICK c \in 1..col : report.legend[c].kind = "host" /\ report.legend[c].uuid = hostUuid
    BY <2>3 DEF RaiseInv
  <2>5. c \in 1..Len(report.legend)
    <3>1. Len(report.legend) \in Nat
      BY <2>1, EntryTyped DEF IInv
    <3> QED
      BY <2>2, <3>1
  <2> QED
    BY <2>2, <2>3, <2>4, <2>5 DEF Readable
<1>3. CASE Parse \/ ParseRaises \/ Loaded \/ List \/ ListRaises \/ Return \/ UNCHANGED vars
  <2>1. UNCHANGED <<report, col, hostUuid>>
    BY <1>3 DEF Parse, ParseRaises, Loaded, List, ListRaises, Return, vars
  <2>2. raised' => pc' = "return" /\ ret' = <<>>
    BY <1>3 DEF Parse, ParseRaises, Loaded, List, ListRaises, Return, vars, RaiseInv, IInv, ListInv
  <2> QED
    BY <2>1, <2>2 DEF RaiseInv
<1> QED
  BY <1>1, <1>2, <1>3 DEF Next

(***************************************************************************)
(* A report that is not XML, has too few rows or a value that is no number *)
(* does make converter() return [[], ""]: a part of a report is returned   *)
(* only because of an entry of the legend or of a second host.             *)
(***************************************************************************)
THEOREM ConverterErrorReturnsNothing ==
  ASSUME \A r \in Reports : Readable(r.legend)
  PROVE  Spec => []ErrorReturnsNothing
<1>1. Init => RaiseInv
  BY DEF Init, RaiseInv
<1>2. FullInv /\ RaiseInv /\ [Next]_vars => RaiseInv'
  BY RaiseStep DEF FullInv, IInv, LoadInv
<1>3. RaiseInv => ErrorReturnsNothing
  BY DEF RaiseInv, ErrorReturnsNothing
<1> QED
  BY <1>1, <1>2, <1>3, ConverterInvariant, PTL DEF Spec
=============================================================================
