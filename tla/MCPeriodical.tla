---------------------------- MODULE MCPeriodical ----------------------------
EXTENDS Periodical

CONSTANTS t10m, t2h, h1, h2

(* Two threads and three entries, two of the same host; the chains collide. *)
MCPeriods == <<t10m, t2h>>
MCHosts == {h1, h2}
MCConfig == <<h1, h2, h1>>
MCCapacity == 5
MCHash == [h \in MCHosts |-> 4]
=============================================================================
