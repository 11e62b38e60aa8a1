------------------------------ MODULE MCMetrics ------------------------------
(* Two virtual users that create the same client, with a counter that goes up and
   down between its group and a graph, and a caller with a gauge of its own, like
   the system load collector. *)
EXTENDS Metrics

CONSTANTS vu1, vu2, sys

Callers == {vu1, vu2, sys}
Nodes == {"group", "conns", "graph", "system", "load"}
Titles2 == {"conns", "load"}
Gauges == {"load"}
Values == {1, -1}
Plans == [c \in Callers |-> IF c = sys THEN <<"system", "load">>
                                       ELSE <<"group", "conns", "graph">>]
=============================================================================
