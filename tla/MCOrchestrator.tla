---------------------------- MODULE MCOrchestrator ----------------------------
(***************************************************************************)
(* The instances of Orchestrator: two edges between the hosts h and s, one *)
(* in each direction; s may lose its channel, and open another one before  *)
(* or after that is noticed.                                               *)
(***************************************************************************)
EXTENDS OrchestratorInv

BothHosts == {"h", "s"}
OneHost == {"s"}
TwoEdges == {"t1", "t2"}
BothWays == [t1 |-> [client |-> "h", server |-> "s"],
             t2 |-> [client |-> "s", server |-> "h"]]
FirstEdge == {"t1"}
OneInContainer == [t1 |-> None, t2 |-> "c"]
OneReopens == [h |-> 1, s |-> 2]
===============================================================================
