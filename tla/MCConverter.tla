---------------------------- MODULE MCConverter ----------------------------
EXTENDS Converter

CONSTANTS MaxColumns, MaxRows, MaxTime   \* bounds of a report

Entries == [kind : {"vm"}, uuid : Uuids, param : Params \union {NoParam}]
           \union [kind : {"host"}, uuid : Hosts, param : Params]
           \union {[kind |-> "bad", uuid |-> NULL, param |-> NULL]}

MCLegends == UNION {[1..n -> Entries] : n \in 0..MaxColumns}
MCTimes == UNION {[1..n -> 0..MaxTime] : n \in 0..MaxRows}

MCReports ==
  [wellFormed : {TRUE}, legend : MCLegends, rows : 0..MaxRows, times : MCTimes, badRow : 0..1]
  \union [wellFormed : {FALSE}, legend : {<<>>}, rows : {0}, times : {<<>>}, badRow : {0}]
=============================================================================
