---------------------------- MODULE MCFlowsPage ----------------------------
(* The instance of FlowsPage for TLC: two series, of which the second has
   the direction that the kind "inbound" asks for. *)
EXTENDS FlowsPage

MCSeriesOf == [n \in 1..MaxFlows |-> IF n = 1 THEN 1 ELSE 2]
MCKind == {"all", "inbound"}
MCSelected == [k \in MCKind |-> 1..MaxFlows]
MCDirected == [k \in MCKind |-> IF k = "inbound" THEN {2} ELSE Series]
=============================================================================
