-------------------------- MODULE MCPriorityArbiter --------------------------
(* Small instances of PriorityArbiter for TLC. *)
EXTENDS PriorityArbiter

CONSTANTS l2, l3, l4

\* l1 and f1 are narration, l2 and l4 autoplay, l3 an explicit line.
MCPrio == [i \in Items |-> IF i = l3 THEN 2 ELSE IF i \in {l2, l4} THEN 3 ELSE 4]
=============================================================================
