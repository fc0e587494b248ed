------------------------------ MODULE PerfData ------------------------------
(***************************************************************************)
(* From the report to the HTTP answer.  The list that module Converter     *)
(* returns is written to MongoDB, one document per VM and type             *)
(* (server_perf.c), and a request to /api is answered from there           *)
(* (server.c, query.c).                                                    *)
(*                                                                         *)
(* Writing the list is one step here.  It is one request per record, and a *)
(* request is answered from one document, so no answer can tell; that a    *)
(* key has one document, and what errors of mongod do, is in Collector.    *)
(***************************************************************************)
EXTENDS Converter, TLC

CONSTANTS Types,         \* of reports: 10m, 2h, 1w, 1y
          Cpu,           \* the variables with "cpu" in their name
          Reading(_, _), \* the value in a column and row, in 1/Unit, or NaN
          Rounding(_, _), \* by how much the stored double differs, in 1/Unit
          Unit,
          NaN,
          IntLimit,      \* 2^31
          Earlier        \* the collections that earlier jobs may have left

VARIABLES type,   \* of the job
          docs,   \* the data of the document of each VM and type that has one
          stored  \* the list has been written

pvars == <<vars, type, docs, stored>>

ASSUME PerfDataAssumption ==
  /\ Unit \in Nat \ {0}
  /\ IntLimit \in Nat \ {0}
  /\ NULL \notin Uuids \union Types
  /\ NaN \notin Int
  /\ \A rep \in Reports : \A c \in 1..Len(rep.legend), r \in 1..rep.rows :
       /\ Reading(c, r) \in Int \union {NaN}
       /\ Rounding(c, r) \in Int
       /\ Reading(c, r) \in -(IntLimit * Unit)..IntLimit * Unit => Rounding(c, r) \in -(Unit - 1)..Unit - 1
  /\ \A d \in Earlier : DOMAIN d \subseteq Uuids \X Types

-----------------------------------------------------------------------------
(* get_perf_from_xenserver: the document of a record *)

(* What the column says: the reading, times 100 for a cpu. *)
Said(p, c, r) == IF p \in Cpu /\ Reading(c, r) # NaN THEN 100 * Reading(c, r) ELSE Reading(c, r)

(***************************************************************************)
(* float(data), and the product with 100 for a cpu; 0 where there was no   *)
(* data.  data is str() of a float, 12 digits of it, and the product is    *)
(* rounded to a double: 0.29 becomes 28.999999999999996.  Of a value that  *)
(* fits an int the two take or add less than 1.                            *)
(***************************************************************************)
Number(p, cell) ==
  IF cell = Zero THEN 0
  ELSE IF Reading(cell[1], cell[2]) = NaN THEN NaN
  ELSE Said(p, cell[1], cell[2]) + Rounding(cell[1], cell[2])

Document(rec) ==
  [p \in DOMAIN rec.data |->
     [j \in DOMAIN rec.data[p] |->
        LET sample == rec.data[p][j]
        IN [last_update |-> sample.timestamp, timestamp |-> sample.timestamp,
            data |-> Number(p, sample.data)]]]

Record(u) == ret[CHOOSE i \in DOMAIN ret : ret[i].uuid = u]

(* Broken variants of Store: the document of the VM is looked up without its type, *)
StoreAnyType ==
  /\ pc = "return" /\ ~stored
  /\ ret # <<>>
  /\ docs' = [k \in DOMAIN docs \union Listed \X {type} |->
                IF k[1] \in Listed THEN Document(Record(k[1])) ELSE docs[k]]
  /\ stored' = TRUE
  /\ UNCHANGED <<vars, type>>

(* or the variables are set one by one, and those of an older report stay. *)
StoreMerges ==
  /\ pc = "return" /\ ~stored
  /\ ret # <<>>
  /\ docs' = [k \in DOMAIN docs \union Listed \X {type} |->
                IF k[1] \in Listed /\ k[2] = type
                THEN Document(Record(k[1])) @@ IF k \in DOMAIN docs THEN docs[k] ELSE <<>>
                ELSE docs[k]]
  /\ stored' = TRUE
  /\ UNCHANGED <<vars, type>>

(* [[], ""] and the empty list are not written. *)
Store ==
  /\ pc = "return" /\ ~stored
  /\ ret # <<>>
  /\ docs' = [k \in DOMAIN docs \union Listed \X {type} |->
                IF k[1] \in Listed /\ k[2] = type THEN Document(Record(k[1])) ELSE docs[k]]
  /\ stored' = TRUE
  /\ UNCHANGED <<vars, type>>

-----------------------------------------------------------------------------
(* The HTTP interface *)

(***************************************************************************)
(* How call= compares with "get_perfdata"; "none" if there is no call=,    *)
(* which sprintf prints as "(null)".  A uuid or type that is not given is  *)
(* NULL.                                                                   *)
(***************************************************************************)
Requests == [call : {"equal", "prefix", "longer", "other", "none"},
             uuid : Uuids \union {NULL}, type : Types \union {NULL}]

Failure(message) == [status |-> "1", message |-> message]

(* bson_iterator_int: cvttsd2si answers INT_MIN for what does not fit. *)
AsInt(v) ==
  IF v = NaN THEN -IntLimit
  ELSE LET n == IF v >= 0 THEN v \div Unit ELSE -((-v) \div Unit)
       IN IF n \in -IntLimit..IntLimit - 1 THEN n ELSE -IntLimit

(* bson_find: the fields that are looked for and are there. *)
Item(sample) ==
  [f \in {"time", "data"} \intersect DOMAIN sample |-> IF f = "data" THEN AsInt(sample[f]) ELSE sample[f]]

query_perfdata(u, t) ==
  [status |-> "0",
   data |-> IF <<u, t>> \notin DOMAIN docs THEN <<>>
            ELSE LET d == docs[<<u, t>>]
                 IN [p \in DOMAIN d |-> [j \in DOMAIN d[p] |-> Item(d[p][j])]]]

get_perfdata(req) ==
  IF req.uuid = NULL THEN Failure("Argument 'uuid' is missed!")
  ELSE IF req.type = NULL THEN Failure("Argument 'type' is missed!")
  ELSE query_perfdata(req.uuid, req.type)

(* memcmp looks at strlen(call) bytes: a prefix of the name will do. *)
api_handler(req) ==
  IF req.call \in {"equal", "prefix"} THEN get_perfdata(req) ELSE Failure("method not found")

-----------------------------------------------------------------------------
PerfInit ==
  /\ Init
  /\ type \in Types
  /\ docs \in Earlier
  /\ stored = FALSE

PerfNext ==
  \/ Next /\ UNCHANGED <<type, docs, stored>>
  \/ Store

PerfSpec == PerfInit /\ [][PerfNext]_pvars

-----------------------------------------------------------------------------
(* Properties *)

(* The newest of the first j rows, the first of them if there are several. *)
Newest(j) == CHOOSE q \in 1..j : \A r \in 1..j :
                         RowTime(r) < RowTime(q) \/ (RowTime(r) = RowTime(q) /\ q <= r)

(* v is a number that an int has room for, rounded or not. *)
Fits(v) == v # NaN /\ v \in -((IntLimit - 1) * Unit)..(IntLimit - 1) * Unit

(* n is the number v without its fraction. *)
IsIntegerPart(n, v) ==
  IF v >= 0 THEN n * Unit <= v /\ v < (n + 1) * Unit
            ELSE (n - 1) * Unit < v /\ v <= n * Unit

(* n is that, or next to it if the number has been rounded. *)
IsAnswerFor(n, p, c, r) ==
  Fits(Said(p, c, r)) =>
    \E e \in IF Rounding(c, r) = 0 THEN {0} ELSE -1..1 : IsIntegerPart(n + e, Said(p, c, r))

ColumnsOf(u) == {c \in 1..col : report.legend[c].kind = "vm" /\ report.legend[c].uuid = u}

(***************************************************************************)
(* Once a report is stored, a request for one of its VMs is answered with  *)
(* the columns the legend gives this VM, and no older ones: as many values *)
(* as the report has rows, in their order, each the integer part of what   *)
(* the column says in the newest row so far, up to the rounding.           *)
(***************************************************************************)
AnswerIsReport ==
  stored =>
    \A u \in Listed :
      LET answer == api_handler([call |-> "equal", uuid |-> u, type |-> type])
          columns == vmReports[u]
      IN /\ answer.status = "0"
         /\ DOMAIN answer.data = {report.legend[c].param : c \in ColumnsOf(u)}
         /\ \A p \in DOMAIN columns \ {NoParam} :
              /\ Len(answer.data[p]) = report.rows
              /\ \A j \in 1..report.rows :
                   IF RowTime(Newest(j)) = 0
                   THEN answer.data[p][j].data = 0
                   ELSE IsAnswerFor(answer.data[p][j].data, p, columns[p], Newest(j))

(***************************************************************************)
(* A job changes no answer but those about its type and the VMs of its     *)
(* report: not those of a VM that the report lost to an error, and none if *)
(* the converter failed.                                                   *)
(***************************************************************************)
OtherAnswersStay ==
  [][\A req \in Requests :
       api_handler(req)' # api_handler(req) => req.uuid \in Listed /\ req.type = type]_pvars

(***************************************************************************)
(* query.c on the document it reads and the answer it builds:              *)
(* {"data": "xxx", "time": "xxx"}.                                         *)
(***************************************************************************)
SampleHasTime ==
  \A u \in Uuids, t \in Types :
    LET answer == query_perfdata(u, t).data
    IN \A p \in DOMAIN answer : \A j \in DOMAIN answer[p] : DOMAIN answer[p][j] = {"data", "time"}
=============================================================================
