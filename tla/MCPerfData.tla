----------------------------- MODULE MCPerfData -----------------------------
EXTENDS PerfData, MCConverter

CONSTANTS t10m, t2h

MCTypes == {t10m, t2h}

(* In thousandths: fractions, a negative, an overflow after * 100, and no number. *)
MCReading(c, r) ==
  CASE c = 1 /\ r = 1 -> 290
    [] c = 1 /\ r = 2 -> -25
    [] c = 2 /\ r = 1 -> 1500
    [] c = 2 /\ r = 2 -> NaN
    [] OTHER -> 987

(* 100 * 0.29 is less than 29, and is answered as 28. *)
MCRounding(c, r) == IF c = 1 /\ r = 1 THEN -1 ELSE 0

(* Nothing; or a document for every VM and type with a variable that reports rarely have. *)
MCEarlier ==
  {<<>>,
   [k \in Uuids \X Types |-> (NoParam :> <<>>)]}
=============================================================================
