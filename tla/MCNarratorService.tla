-------------------------- MODULE MCNarratorService --------------------------
(* Small instances of NarratorService for TLC. *)
EXTENDS NarratorService

CONSTANTS explicit, narrated

MCPrio == [l \in Lines |-> IF l = explicit THEN 2 ELSE 4]

\* States that differ only in a flag that is written before it is read again
\* behave alike.
Reads(S) == step \in S
MCView == <<ledger, [l \in Lines |-> l \in InHand /\ step # "taken" /\ inPass[l]], missed, stopped,
            up, queue, req, shutdown, step, hand,
            interrupted /\ (hand # None => hand.tries > 0 \/ step # "taken")
                        /\ Reads({"idle", "taken", "await load", "check", "presynth", "synth", "ready"}),
            why, again, onHold, proc,
            holdAbort /\ Reads({"gated", "holding"}), aborted /\ Reads({"played"}),
            barging, heard, races, late, bounds>>
=============================================================================
