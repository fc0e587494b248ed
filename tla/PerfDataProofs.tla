--------------------------- MODULE PerfDataProofs ---------------------------
(***************************************************************************)
(* Proofs about PerfData, for any reports, readings and earlier documents: *)
(* an answer about a stored report is what the report says, and storing it *)
(* leaves the answers about everything else as they are.                   *)
(***************************************************************************)
EXTENDS PerfData, ConverterProofs

-----------------------------------------------------------------------------
(* The answers about everything else *)

(* An answer says what the document of its uuid and type says. *)
LEMMA AnswerFromDocument ==
  ASSUME NEW req \in Requests,
         LET k == <<req.uuid, req.type>>
         IN /\ k \in DOMAIN docs' <=> k \in DOMAIN docs
            /\ k \in DOMAIN docs => docs'[k] = docs[k]
  PROVE  api_handler(req)' = api_handler(req)
<1>1. query_perfdata(req.uuid, req.type)' = query_perfdata(req.uuid, req.type)
  <2> DEFINE k == <<req.uuid, req.type>>
  <2>1. /\ query_perfdata(req.uuid, req.type) =
            [status |-> "0",
             data |-> IF k \notin DOMAIN docs THEN <<>>
                      ELSE [p \in DOMAIN docs[k] |-> [j \in DOMAIN docs[k][p] |-> Item(docs[k][p][j])]]]
        /\ query_perfdata(req.uuid, req.type)' =
            [status |-> "0",
             data |-> IF k \notin DOMAIN docs' THEN <<>>
                      ELSE [p \in DOMAIN docs'[k] |-> [j \in DOMAIN docs'[k][p] |-> Item(docs'[k][p][j])]]]
    BY DEF query_perfdata
  <2>2. CASE k \in DOMAIN docs
    BY <2>1, <2>2
  <2>3. CASE k \notin DOMAIN docs
    BY <2>1, <2>3
  <2> QED
    BY <2>2, <2>3
<1> QED
  BY <1>1 DEF api_handler, get_perfdata, Failure

(***************************************************************************)
(* Writing a report changes no answer but those about the VMs listed and   *)
(* the type of the job; converting one changes none.                       *)
(***************************************************************************)
THEOREM PerfOtherAnswersStay == PerfSpec => OtherAnswersStay
<1> DEFINE Others == \A req \in Requests :
                       api_handler(req)' # api_handler(req) => req.uuid \in Listed /\ req.type = type
<1>1. ASSUME [PerfNext]_pvars
      PROVE  Others
  <2> SUFFICES ASSUME NEW req \in Requests, ~(req.uuid \in Listed /\ req.type = type)
               PROVE  api_handler(req)' = api_handler(req)
    OBVIOUS
  <2>1. CASE docs' = docs
    BY <2>1, AnswerFromDocument
  <2>2. CASE Store
    <3> DEFINE k == <<req.uuid, req.type>>
    <3>1. k \notin Listed \X {type}
      OBVIOUS
    <3>2. /\ DOMAIN docs' = DOMAIN docs \union Listed \X {type}
          /\ k \in DOMAIN docs => docs'[k] = docs[k]
      BY <2>2 DEF Store
    <3> QED
      BY <3>1, <3>2, AnswerFromDocument
  <2> QED
    BY <1>1, <2>1, <2>2 DEF PerfNext, pvars
<1> QED
  BY <1>1, PTL DEF PerfSpec, OtherAnswersStay

-----------------------------------------------------------------------------
(* The answers about the report *)

(* What is stored is the list that converter() has returned. *)
StoredInv ==
  /\ type \in Types
  /\ stored => /\ pc = "return"
               /\ \A u \in Listed : <<u, type>> \in DOMAIN docs /\ docs[<<u, type>>] = Document(Record(u))

LEMMA PerfInvariant == PerfSpec => [](FullInv /\ StoredInv)
<1>1. PerfSpec => Spec
  <2>1. PerfInit => Init
    BY DEF PerfInit
  <2>2. [PerfNext]_pvars => [Next]_vars
    BY DEF PerfNext, pvars, Store
  <2> QED
    BY <2>1, <2>2, PTL DEF PerfSpec, Spec
<1>2. PerfInit => StoredInv
  BY DEF PerfInit, StoredInv
<1>3. ASSUME StoredInv, [PerfNext]_pvars
      PROVE  StoredInv'
  <2>1. CASE Next /\ UNCHANGED <<type, docs, stored>>
    <3>1. pc # "return"
      BY <2>1 DEF Next, Parse, ParseRaises, HandleVm, HandleHost, HandleRaises, More, Loaded,
                  List, ListRaises, Return
    <3> QED
      BY <1>3, <2>1, <3>1 DEF StoredInv
  <2>2. CASE Store
    <3>1. UNCHANGED <<type, pc, ret>> /\ pc = "return"
      BY <2>2 DEF Store, vars
    <3>2. Listed' = Listed /\ \A u : Document(Record(u))' = Document(Record(u))
      BY <3>1 DEF Listed, Document, Record
    <3>3. \A u \in Listed : <<u, type>> \in DOMAIN docs' /\ docs'[<<u, type>>] = Document(Record(u))
      BY <2>2 DEF Store
    <3> QED
      BY <1>3, <3>1, <3>2, <3>3 DEF StoredInv
  <2>3. CASE UNCHANGED pvars
    <3>1. UNCHANGED <<type, pc, ret, docs, stored>>
      BY <2>3 DEF pvars, vars
    <3>2. Listed' = Listed /\ \A u : Document(Record(u))' = Document(Record(u))
      BY <3>1 DEF Listed, Document, Record
    <3> QED
      BY <1>3, <3>1, <3>2 DEF StoredInv
  <2> QED
    BY <1>3, <2>1, <2>2, <2>3 DEF PerfNext
<1> QED
  BY <1>1, <1>2, <1>3, ConverterInvariant, PTL DEF PerfSpec

LEMMA Division ==
  ASSUME NEW a \in Nat, NEW b \in Nat \ {0}
  PROVE  a \div b \in Nat /\ (a \div b) * b <= a /\ a < (a \div b + 1) * b
OBVIOUS

(* The int of query.c is the value without its fraction, if that is an int. *)
LEMMA IntegerPart ==
  ASSUME NEW v \in Int, v \in -(IntLimit * Unit)..IntLimit * Unit - 1
  PROVE  AsInt(v) \in Int /\ IsIntegerPart(AsInt(v), v)
<1> USE PerfDataAssumption DEF PerfDataAssumption
<1>1. CASE v >= 0
  <2> DEFINE n == v \div Unit
  <2>1. n \in Nat /\ n * Unit <= v /\ v < (n + 1) * Unit
    BY <1>1, Division
  <2> HIDE DEF n
  <2>2. n < IntLimit
    <3>1. n * Unit < IntLimit * Unit
      BY <2>1
    <3> QED
      BY <2>1, <3>1
  <2>3. AsInt(v) = n
    BY <1>1, <2>1, <2>2 DEF AsInt, n
  <2> QED
    BY <1>1, <2>1, <2>3 DEF IsIntegerPart
<1>2. CASE v < 0
  <2> DEFINE m == (-v) \div Unit
  <2>1. m \in Nat /\ m * Unit <= -v /\ -v < (m + 1) * Unit
    BY <1>2, Division
  <2> HIDE DEF m
  <2>2. m <= IntLimit
    <3>1. m * Unit <= IntLimit * Unit
      BY <2>1
    <3> QED
      BY <2>1, <3>1
  <2>3. AsInt(v) = -m
    BY <1>2, <2>1, <2>2 DEF AsInt, m
  <2> QED
    BY <1>2, <2>1, <2>3 DEF IsIntegerPart
<1> QED
  BY <1>1, <1>2

(* Two values less than 1 apart have integer parts next to each other. *)
LEMMA NextInteger ==
  ASSUME NEW v \in Int, NEW w \in Int, v - w \in -(Unit - 1)..Unit - 1,
         NEW n \in Int, IsIntegerPart(n, w)
  PROVE  \E e \in -1..1 : IsIntegerPart(n + e, v)
<1> Unit \in Nat \ {0}
  BY PerfDataAssumption DEF PerfDataAssumption
<1> DEFINE a == n * Unit
<1>1. /\ a \in Int
      /\ (n - 1) * Unit = a - Unit /\ (n - 2) * Unit = a - 2 * Unit
      /\ (n + 1) * Unit = a + Unit /\ (n + 2) * Unit = a + 2 * Unit
  OBVIOUS
<1>2. n = 0 <=> a > -Unit /\ a < Unit
  <2>1. n <= -1 => a <= -Unit
    OBVIOUS
  <2>2. n >= 1 => a >= Unit
    OBVIOUS
  <2> QED
    BY <2>1, <2>2
<1>3. n + 0 = n /\ n + 1 - 1 = n /\ n + (-1) = n - 1 /\ n - 1 + 1 = n /\ n - 1 - 1 = n - 2
  OBVIOUS
<1>4. IF w >= 0 THEN a <= w /\ w < a + Unit ELSE a - Unit < w /\ w <= a
  BY <1>1 DEF IsIntegerPart
<1> SUFFICES \/ IsIntegerPart(n, v) \/ IsIntegerPart(n + 1, v) \/ IsIntegerPart(n - 1, v)
  BY <1>3
<1>5. /\ IsIntegerPart(n, v) <=> IF v >= 0 THEN a <= v /\ v < a + Unit ELSE a - Unit < v /\ v <= a
      /\ IsIntegerPart(n + 1, v) <=>
           IF v >= 0 THEN a + Unit <= v /\ v < a + 2 * Unit ELSE a < v /\ v <= a + Unit
      /\ IsIntegerPart(n - 1, v) <=>
           IF v >= 0 THEN a - Unit <= v /\ v < a ELSE a - 2 * Unit < v /\ v <= a - Unit
  <2>1. n + 1 + 1 = n + 2 /\ n + 1 - 1 = n /\ n - 1 + 1 = n /\ n - 1 - 1 = n - 2
    OBVIOUS
  <2> QED
    BY <1>1, <2>1 DEF IsIntegerPart
<1> HIDE DEF a
<1> QED
  BY <1>1, <1>2, <1>4, <1>5

(* The row that Newest picks is the one whose sample a record has. *)
LEMMA NewestRow ==
  ASSUME NEW j \in Nat \ {0}, NEW v, NEW c, Times \in [1..report.rows -> Nat], report.rows \in Nat,
         j <= report.rows, NewestOf(v, Times, c, j)
  PROVE  /\ Newest(j) \in 1..j
         /\ IF RowTime(Newest(j)) = 0 THEN v = None ELSE v.data = <<c, Newest(j)>>
<1> DEFINE P(q) == \A r \in 1..j : RowTime(r) < RowTime(q) \/ (RowTime(r) = RowTime(q) /\ q <= r)
<1>1. \A q \in 1..j : Times[q] = RowTime(q) /\ RowTime(q) \in Nat
  <2> SUFFICES ASSUME NEW q \in 1..j PROVE Times[q] = RowTime(q) /\ RowTime(q) \in Nat
    OBVIOUS
  <2>1. q \in 1..report.rows
    OBVIOUS
  <2>2. Times[q] = RowTime(q)
    BY <2>1 DEF Times
  <2>3. Times[q] \in Nat
    BY <2>1
  <2> QED
    BY <2>2, <2>3
<1>2. Newest(j) = CHOOSE q \in 1..j : P(q)
  BY DEF Newest
<1>3. CASE v = None
  <2>1. \A q \in 1..j : RowTime(q) = 0
    BY <1>1, <1>3 DEF NewestOf, None
  <2>2. 1 \in 1..j /\ P(1)
    BY <2>1
  <2>3. Newest(j) \in 1..j
    BY <1>2, <2>2
  <2> QED
    BY <1>3, <2>1, <2>3
<1>4. CASE \E q \in 1..j : /\ v = [timestamp |-> Times[q], data |-> <<c, q>>]
                           /\ \A s \in 1..q - 1 : Times[s] < Times[q]
                           /\ Times[q] > 0
  <2>1. PICK q \in 1..j : /\ v = [timestamp |-> Times[q], data |-> <<c, q>>]
                          /\ \A s \in 1..q - 1 : Times[s] < Times[q]
                          /\ Times[q] > 0
    BY <1>4
  <2>2. P(q)
    <3> SUFFICES ASSUME NEW r \in 1..j
                 PROVE  RowTime(r) < RowTime(q) \/ (RowTime(r) = RowTime(q) /\ q <= r)
      OBVIOUS
    <3>1. Times[r] <= Times[q]
      BY <2>1 DEF NewestOf
    <3>2. q <= r \/ Times[r] < Times[q]
      BY <2>1
    <3> QED
      BY <1>1, <3>1, <3>2
  <2>3. ASSUME NEW s \in 1..j, P(s) PROVE s = q
    BY <1>1, <2>2, <2>3
  <2> HIDE DEF P
  <2>4. Newest(j) = q
    BY <1>2, <2>2, <2>3
  <2>5. RowTime(q) # 0
    BY <1>1, <2>1
  <2>6. v.data = <<c, q>>
    BY <2>1
  <2> QED
    BY <2>4, <2>5, <2>6
<1> QED
  BY <1>3, <1>4 DEF NewestOf

(* The stored document, read back. *)
LEMMA StoredAnswer ==
  ASSUME FullInv, StoredInv, stored, NEW u \in Listed
  PROVE  LET answer == api_handler([call |-> "equal", uuid |-> u, type |-> type])
             i == CHOOSE i \in DOMAIN ret : ret[i].uuid = u
             data == ret[i].data
         IN /\ i \in DOMAIN ret /\ ret[i].uuid = u
            /\ answer.status = "0"
            /\ DOMAIN answer.data = DOMAIN data
            /\ \A p \in DOMAIN data :
                 answer.data[p] = [j \in DOMAIN data[p] |-> [data |-> AsInt(Number(p, data[p][j].data))]]
<1> DEFINE req == [call |-> "equal", uuid |-> u, type |-> type]
           i == CHOOSE i \in DOMAIN ret : ret[i].uuid = u
           data == ret[i].data
<1>1. i \in DOMAIN ret /\ ret[i].uuid = u
  BY DEF Listed
<1>2. u # NULL /\ type # NULL
  <2>1. u \in Uuids
    BY <1>1, RecordSamples DEF FullInv, IInv, LoadInv
  <2> QED
    BY <2>1, PerfDataAssumption DEF PerfDataAssumption, StoredInv
<1>3. api_handler(req) = query_perfdata(u, type)
  BY <1>2 DEF api_handler, get_perfdata
<1>4. <<u, type>> \in DOMAIN docs /\ docs[<<u, type>>] = Document(Record(u)) /\ Record(u) = ret[i]
  BY DEF StoredInv, Record
<1> HIDE DEF i
<1>5. Document(Record(u)) =
        [p \in DOMAIN data |->
           [j \in DOMAIN data[p] |->
              [last_update |-> data[p][j].timestamp, timestamp |-> data[p][j].timestamp,
               data |-> Number(p, data[p][j].data)]]]
  BY <1>4 DEF Document
<1>6. \A t, n : Item([last_update |-> t, timestamp |-> t, data |-> n]) = [data |-> AsInt(n)]
  <2> SUFFICES ASSUME NEW t, NEW n
               PROVE  Item([last_update |-> t, timestamp |-> t, data |-> n]) = [data |-> AsInt(n)]
    OBVIOUS
  <2> DEFINE d == [last_update |-> t, timestamp |-> t, data |-> n]
  <2>1. {"time", "data"} \intersect DOMAIN d = {"data"} /\ d["data"] = n
    OBVIOUS
  <2> QED
    BY <2>1 DEF Item
<1> DEFINE d == Document(Record(u))
<1>7. query_perfdata(u, type) =
        [status |-> "0", data |-> [p \in DOMAIN d |-> [j \in DOMAIN d[p] |-> Item(d[p][j])]]]
  BY <1>4 DEF query_perfdata
<1>8. DOMAIN d = DOMAIN data
  BY <1>5
<1>9. ASSUME NEW p \in DOMAIN data
      PROVE  [j \in DOMAIN d[p] |-> Item(d[p][j])] =
               [j \in DOMAIN data[p] |-> [data |-> AsInt(Number(p, data[p][j].data))]]
  <2>1. d[p] = [j \in DOMAIN data[p] |->
                  [last_update |-> data[p][j].timestamp, timestamp |-> data[p][j].timestamp,
                   data |-> Number(p, data[p][j].data)]]
    BY <1>5
  <2> QED
    BY <1>6, <2>1
<1> HIDE DEF d, data
<1>10. /\ DOMAIN query_perfdata(u, type).data = DOMAIN data
       /\ \A p \in DOMAIN data : query_perfdata(u, type).data[p] = [j \in DOMAIN d[p] |-> Item(d[p][j])]
       /\ query_perfdata(u, type).status = "0"
  BY <1>7, <1>8
<1> QED
  BY <1>1, <1>3, <1>9, <1>10 DEF i, data

(* What is answered for a reading. *)
LEMMA ReadingAnswered ==
  ASSUME FullInv, NEW c \in 1..col, NEW q \in 1..report.rows, NEW p
  PROVE  IsAnswerFor(AsInt(Number(p, <<c, q>>)), p, c, q)
<1> DEFINE v == Said(p, c, q)
           w == Number(p, <<c, q>>)
           d == Rounding(c, q)
<1> SUFFICES ASSUME Fits(v)
             PROVE  \E e \in IF d = 0 THEN {0} ELSE -1..1 : IsIntegerPart(AsInt(w) + e, v)
  BY DEF IsAnswerFor
<1>1. c \in 1..Len(report.legend) /\ report \in Reports /\ Len(report.legend) \in Nat
  <2>1. Len(report.legend) \in Nat
    <3>1. report.legend \in Legends
      BY ConverterAssumption DEF ConverterAssumption, FullInv, IInv, LoadInv
    <3> QED
      BY <3>1, LenProperties DEF Legends
  <2> QED
    BY <2>1 DEF FullInv, IInv, LoadInv
<1>2. /\ Reading(c, q) \in Int \union {NaN} /\ d \in Int
      /\ Reading(c, q) \in -(IntLimit * Unit)..IntLimit * Unit => d \in -(Unit - 1)..Unit - 1
      /\ NaN \notin Int /\ Unit \in Nat \ {0} /\ IntLimit \in Nat \ {0}
  BY <1>1, PerfDataAssumption DEF PerfDataAssumption
<1>3. Reading(c, q) \in Int /\ v \in {Reading(c, q), 100 * Reading(c, q)}
  BY <1>2 DEF Fits, Said
<1>4. w = v + d
  <2>1. <<c, q>>[1] = c /\ <<c, q>>[2] = q /\ <<c, q>> # Zero
    BY <1>1 DEF Zero
  <2> QED
    BY <1>2, <1>3, <2>1 DEF Number
<1> DEFINE lim == IntLimit * Unit
<1>5. lim \in Nat /\ (IntLimit - 1) * Unit = lim - Unit
  BY <1>2
<1> HIDE DEF v, w, d, lim
<1>6. v \in Int /\ v \in -(lim - Unit)..lim - Unit
  BY <1>3, <1>5 DEF Fits
<1>7. Reading(c, q) \in -lim..lim
  BY <1>2, <1>3, <1>5, <1>6
<1>8. d \in -(Unit - 1)..Unit - 1
  BY <1>2, <1>7 DEF lim
<1>9. w \in Int /\ w \in -lim..lim - 1 /\ v - w \in -(Unit - 1)..Unit - 1
  BY <1>2, <1>4, <1>5, <1>6, <1>8
<1>10. AsInt(w) \in Int /\ IsIntegerPart(AsInt(w), w)
  BY <1>9, IntegerPart DEF lim
<1>11. CASE d = 0
  <2>1. w = v /\ AsInt(w) + 0 = AsInt(w)
    BY <1>4, <1>6, <1>10, <1>11
  <2> QED
    BY <1>10, <1>11, <2>1
<1>12. CASE d # 0
  BY <1>6, <1>9, <1>10, <1>12, NextInteger
<1> QED
  BY <1>11, <1>12

(***************************************************************************)
(* A request about a VM of a report that is stored is answered with what   *)
(* the columns of this VM say, row by row, whatever was stored before: the *)
(* exact integer part, or the next integer where the value was rounded.    *)
(***************************************************************************)
THEOREM PerfAnswerIsReport == PerfSpec => []AnswerIsReport
<1>1. ASSUME FullInv, StoredInv PROVE AnswerIsReport
  <2> SUFFICES ASSUME stored, NEW u \in Listed
               PROVE  LET answer == api_handler([call |-> "equal", uuid |-> u, type |-> type])
                          columns == vmReports[u]
                      IN /\ answer.status = "0"
                         /\ DOMAIN answer.data = {report.legend[c].param : c \in ColumnsOf(u)}
                         /\ \A p \in DOMAIN columns \ {NoParam} :
                              /\ Len(answer.data[p]) = report.rows
                              /\ \A j \in 1..report.rows :
                                   IF RowTime(Newest(j)) = 0
                                   THEN answer.data[p][j].data = 0
                                   ELSE IsAnswerFor(answer.data[p][j].data, p, columns[p], Newest(j))
    BY DEF AnswerIsReport
  <2> DEFINE answer == api_handler([call |-> "equal", uuid |-> u, type |-> type])
             columns == vmReports[u]
             i == CHOOSE i \in DOMAIN ret : ret[i].uuid = u
             data == ret[i].data
  <2>1. /\ i \in DOMAIN ret /\ ret[i].uuid = u
        /\ answer.status = "0"
        /\ DOMAIN answer.data = DOMAIN data
        /\ \A p \in DOMAIN data :
             answer.data[p] = [j \in DOMAIN data[p] |-> [data |-> AsInt(Number(p, data[p][j].data))]]
    BY <1>1, StoredAnswer
  <2> HIDE DEF answer, i
  <2>2. u \in DOMAIN vmReports /\ DOMAIN data = DOMAIN columns
    BY <1>1, <2>1, RecordSamples
  <2>3. DOMAIN columns = {report.legend[c].param : c \in ColumnsOf(u)}
    <3>1. ASSUME NEW p \in DOMAIN columns
          PROVE  columns[p] \in ColumnsOf(u) /\ report.legend[columns[p]].param = p
      BY <1>1, <2>2 DEF FullInv, ColumnsInv, HasColumn, ColumnsOf
    <3>2. ASSUME NEW c \in ColumnsOf(u)
          PROVE  report.legend[c].param \in DOMAIN columns
      BY <1>1 DEF FullInv, ColumnsInv, ColumnsOf
    <3> QED
      BY <3>1, <3>2
  <2>4. ASSUME NEW p \in DOMAIN columns \ {NoParam}
        PROVE  /\ Len(answer.data[p]) = report.rows
               /\ \A j \in 1..report.rows :
                    IF RowTime(Newest(j)) = 0
                    THEN answer.data[p][j].data = 0
                    ELSE IsAnswerFor(answer.data[p][j].data, p, columns[p], Newest(j))
    <3>1. /\ DOMAIN data[p] = 1..report.rows
          /\ report.rows \in Nat
          /\ \A r \in 1..report.rows : NewestOf(data[p][r], Times, columns[p], r)
      BY <1>1, <2>1, <2>2, RecordSamples
    <3>2. answer.data[p] = [j \in 1..report.rows |-> [data |-> AsInt(Number(p, data[p][j].data))]]
      BY <2>1, <2>2, <3>1
    <3>3. Times \in [1..report.rows -> Nat]
      BY <1>1, <2>2, TimesTyped
    <3>4. columns[p] \in 1..col
      BY <1>1, <2>2 DEF FullInv, ColumnsInv, HasColumn
    <3>5. ASSUME NEW j \in 1..report.rows
          PROVE  IF RowTime(Newest(j)) = 0
                 THEN answer.data[p][j].data = 0
                 ELSE IsAnswerFor(answer.data[p][j].data, p, columns[p], Newest(j))
      <4> DEFINE v == data[p][j]
                 c == columns[p]
      <4>1. NewestOf(v, Times, c, j) /\ j \in Nat \ {0} /\ j <= report.rows
        BY <3>1
      <4>2. answer.data[p][j].data = AsInt(Number(p, v.data))
        BY <3>2
      <4> HIDE DEF v, c
      <4>3. /\ Newest(j) \in 1..j
            /\ IF RowTime(Newest(j)) = 0 THEN v = None ELSE v.data = <<c, Newest(j)>>
        BY <3>1, <3>3, <4>1, NewestRow
      <4>4. CASE RowTime(Newest(j)) = 0
        <5>1. Number(p, v.data) = 0
          BY <4>3, <4>4 DEF None, Number
        <5>2. AsInt(0) = 0
          BY PerfDataAssumption DEF PerfDataAssumption, AsInt
        <5> QED
          BY <4>2, <4>4, <5>1, <5>2
      <4>5. CASE RowTime(Newest(j)) # 0
        <5>1. v.data = <<c, Newest(j)>> /\ Newest(j) \in 1..report.rows
          BY <3>1, <4>1, <4>3, <4>5
        <5>2. IsAnswerFor(AsInt(Number(p, v.data)), p, c, Newest(j))
          BY <1>1, <3>4, <5>1, ReadingAnswered DEF c
        <5> QED
          BY <4>2, <4>5, <5>2 DEF c
      <4> QED
        BY <4>4, <4>5
    <3>6. Len(answer.data[p]) = report.rows
      BY <3>1, <3>2
    <3> QED
      BY <3>5, <3>6
  <2> QED
    BY <2>1, <2>2, <2>3, <2>4 DEF answer
<1> QED
  BY <1>1, PerfInvariant, PTL

(***************************************************************************)
(* The finding about query.c, for every report: an answer about a stored   *)
(* VM has, in each sample of each variable, a value and never a time.      *)
(***************************************************************************)
NeverATime ==
  stored =>
    \A u \in Listed :
      LET answer == query_perfdata(u, type).data
      IN \A p \in DOMAIN answer : \A j \in DOMAIN answer[p] : DOMAIN answer[p][j] = {"data"}

THEOREM PerfNeverATime == PerfSpec => []NeverATime
<1>1. ASSUME FullInv, StoredInv PROVE NeverATime
  <2> SUFFICES ASSUME stored, NEW u \in Listed
               PROVE  LET answer == query_perfdata(u, type).data
                      IN \A p \in DOMAIN answer : \A j \in DOMAIN answer[p] : DOMAIN answer[p][j] = {"data"}
    BY DEF NeverATime
  <2> DEFINE answer == api_handler([call |-> "equal", uuid |-> u, type |-> type])
             i == CHOOSE i \in DOMAIN ret : ret[i].uuid = u
             data == ret[i].data
  <2>1. /\ i \in DOMAIN ret /\ ret[i].uuid = u
        /\ DOMAIN answer.data = DOMAIN data
        /\ \A p \in DOMAIN data :
             answer.data[p] = [j \in DOMAIN data[p] |-> [data |-> AsInt(Number(p, data[p][j].data))]]
    BY <1>1, StoredAnswer
  <2>2. u # NULL /\ type # NULL
    <3>1. u \in Uuids
      BY <1>1, <2>1, RecordSamples DEF FullInv, IInv, LoadInv
    <3> QED
      BY <1>1, <3>1, PerfDataAssumption DEF PerfDataAssumption, StoredInv
  <2>3. answer = query_perfdata(u, type)
    BY <2>2 DEF api_handler, get_perfdata
  <2> HIDE DEF answer, i
  <2>4. ASSUME NEW p \in DOMAIN answer.data, NEW j \in DOMAIN answer.data[p]
        PROVE  DOMAIN answer.data[p][j] = {"data"}
    <3> DEFINE d == data[p]
               e == [k \in DOMAIN d |-> [data |-> AsInt(Number(p, d[k].data))]]
    <3>1. answer.data[p] = e
      BY <2>1, <2>4
    <3>2. j \in DOMAIN d
      BY <2>4, <3>1
    <3>3. answer.data[p][j] = [data |-> AsInt(Number(p, d[j].data))]
      BY <3>1, <3>2
    <3> QED
      BY <3>3
  <2> QED
    BY <2>3, <2>4
<1> QED
  BY <1>1, PerfInvariant, PTL
=============================================================================
