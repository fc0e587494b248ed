------------------------------ MODULE MCHashmap ------------------------------
EXTENDS Hashmap

CONSTANTS h1, h2, h3

(***************************************************************************)
(* Three hosts and one of them configured twice.  The four entries share   *)
(* three home slots at the end of the table, so the chains collide, merge  *)
(* and wrap around.                                                        *)
(***************************************************************************)
MCHosts == {h1, h2, h3}
MCConfig == <<h1, h2, h1, h3>>
MCCapacity == 6
MCHash == [h \in MCHosts |-> IF h = h3 THEN 5 ELSE 4]
=============================================================================
