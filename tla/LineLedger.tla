----------------------------- MODULE LineLedger -----------------------------
(***************************************************************************)
(* The states of a line id in the narrator's ledger (line_ledger.py), and  *)
(* what each of the ledger's writes makes of a state.  Every write runs    *)
(* under the ledger's lock and saves the file before it returns, so each   *)
(* is one atomic function of the record.                                   *)
(***************************************************************************)

\* "unknown" stands for an id with no record.
States == {"unknown", "queued", "playing", "done", "dropped"}

\* (Mistakes to rule out: only what waits, or only what is heard, blocks.)
BlocksUnlessPlaying(s) == s \in {"queued", "done"}
BlocksUnlessDone(s) == s \in {"queued", "playing"}

\* _blocks: an id in one of these states is answered, not queued again.
\* (A done id is kept, and refused, for a day: longer than any behaviour
\* considered here.)
Blocks(s) == s \in {"queued", "playing", "done"}

\* playing: the sink starts the line.
Playing(s) == IF s \in {"queued", "playing"} THEN "playing" ELSE s

\* done: it played to its end.  Nothing is left out: a line recorded as
\* dropped while it sounded is done all the same.
Done(s) == IF s = "unknown" THEN s ELSE "done"

\* dropped: it will not play; a line that was heard stays heard.
Dropped(s) == IF s \in {"done", "unknown"} THEN s ELSE "dropped"

\* requeued: a timed-out line is back in the queue.
Requeued(s) == IF s \in {"done", "unknown"} THEN s ELSE "queued"

\* (Mistakes to rule out: settling nothing, or a retry back in the queue too.)
SettledNothing(s, inPass) == s
SettledInQueue(s, inPass) == IF s \in {"queued", "playing"} THEN "dropped" ELSE s

\* settle: the worker's pass ended; what it had in hand and neither played,
\* set aside nor queued again is dropped.
Settled(s, inPass) == IF inPass /\ s \in {"queued", "playing"} THEN "dropped" ELSE s

\* _load: what a dead daemon had queued or playing was lost with it.
Reloaded(s) == IF s \in {"queued", "playing"} THEN "dropped" ELSE s
=============================================================================
