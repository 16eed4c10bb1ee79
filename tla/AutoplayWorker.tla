--------------------------- MODULE AutoplayWorker ---------------------------
(***************************************************************************)
(* Autoplay: the Stop hook of each session starts one worker process per   *)
(* answer (autoplay_hook.sh), the worker resolves what was said, refuses a *)
(* duplicate, and hands the words to the narrator by the client, else by   *)
(* speak.py, else as bare text (autoplay_worker.py, speak.py).  The        *)
(* workers share the marker files, the guard's files and the narrator, and *)
(* no memory.                                                              *)
(***************************************************************************)
EXTENDS AutoplayGate, DedupGuard, DaemonClient

CONSTANTS Session,      \* the session whose answer each worker reads
          Message,      \* the hash of that answer
          RawAttempts,  \* send_speech_request's max_attempts
          Apart         \* bound: faults only where no marker was switched

ASSUME WorkerAssumption ==
    /\ Session \in [Callers -> Sessions] /\ Message \in [Callers -> Hashes]
    /\ RawAttempts \in Nat \ {0} /\ Apart \in BOOLEAN

VARIABLES pc,       \* where each worker is
          text,     \* it has words to send, not only a hash
          tries,    \* its attempts at sending bare text
          cached,   \* the hashes whose wav is in the cache
          reached   \* history: the narrator has taken its message

worker == <<pc, text, tries, cached, reached>>
vars == <<gate, guard, client, worker>>

Answers == {Message[w] : w \in Callers}

\* SPEAKING is three of them: by the client, by speak.py, as bare text.
\* "silent" is DONE though nothing reached the narrator, "ended" SPEAKING for
\* good: speak.py failed.
Speaking == {"speaking", "script", "scripted", "raw"}
Over == {"done", "silent", "ended", "bailed", "duplicate"}

TypeOK ==
    /\ GateTypeOK /\ GuardTypeOK /\ ClientTypeOK
    /\ pc \in [Callers -> {"idle", "spawned", "ready", "awaiting"} \cup Speaking \cup Over]
    /\ text \in [Callers -> BOOLEAN] /\ tries \in [Callers -> 0..RawAttempts]
    /\ cached \subseteq Answers /\ reached \in [Callers -> BOOLEAN]

Init ==
    /\ GateInit /\ GuardInit /\ ClientInit
    /\ pc = [w \in Callers |-> "idle"]
    /\ text = [w \in Callers |-> TRUE] /\ tries = [w \in Callers |-> 0]
    /\ cached \in SUBSET Answers /\ reached = [w \in Callers |-> FALSE]

\* What the instance keeps apart.
Bound == Apart => faults' = faults \/ switches = 0

Moves(w, from, to) == pc[w] = from /\ pc' = [pc EXCEPT ![w] = to]

----------------------------------------------------------------------------
\* The hook: a Stop event of the session.
Stop(w) ==
    /\ HookPlays(Session[w])
    /\ Moves(w, "idle", "spawned")
    /\ UNCHANGED <<gate, guard, client, text, tries, cached, reached>>

\* The worker asks the mute again, and lets the burst gather.
GatedOff(w) ==
    /\ WorkerGatedOff
    /\ Moves(w, "spawned", "bailed")
    /\ UNCHANGED <<gate, guard, client, text, tries, cached, reached>>

\* No qualifying message, too short a one, or no hash for it.
Bail(w) ==
    /\ ~WorkerGatedOff
    /\ Moves(w, "spawned", "bailed")
    /\ UNCHANGED <<gate, guard, client, text, tries, cached, reached>>

\* The message and its hash; words, rewritten or raw, if the cache has no
\* audio of it.
Resolve(w) ==
    /\ ~WorkerGatedOff
    /\ Moves(w, "spawned", "ready")
    /\ text' = [text EXCEPT ![w] = Message[w] \notin cached]
    /\ UNCHANGED <<gate, guard, client, tries, cached, reached>>

\* already_playing, before it waits.
CheckPlaying(w) ==
    /\ \E alive \in BOOLEAN :
         Moves(w, "ready", IF AlreadyPlaying(Message[w], alive) THEN "duplicate" ELSE "awaiting")
    /\ UNCHANGED <<gate, guard, client, text, tries, cached, reached>>

\* _wait_turn (InProcessFifo: at once), then try_claim.
Claim(w) ==
    /\ \E alive \in BOOLEAN :
         \/ /\ Claimed(Message[w], alive)
            /\ Moves(w, "awaiting", "speaking")
            /\ Begins(w, "client", IF text[w] THEN "speak" ELSE "cache")
         \/ /\ Refused(Message[w], alive)
            /\ Moves(w, "awaiting", "duplicate")
            /\ UNCHANGED call
    /\ UNCHANGED <<gate, daemon, ledger, copies, heard, faults, text, tries, cached, reached>>

ClaimWithoutLock(w) ==
    /\ Fault /\ Bound
    /\ ClaimedUnlocked(Message[w])
    /\ Moves(w, "awaiting", "speaking")
    /\ Begins(w, "client", IF text[w] THEN "speak" ELSE "cache")
    /\ UNCHANGED <<gate, daemon, ledger, copies, heard, text, tries, cached, reached>>

\* The worker of another answer claims in between.
OtherClaims ==
    /\ \E h \in Hashes \ Answers, alive \in BOOLEAN : Claimed(h, alive)
    /\ UNCHANGED <<gate, client, worker>>

\* The request goes on.
Asks(w) ==
    /\ ClientStep(w, Message[w] \in cached) /\ Bound
    /\ reached' = [reached EXCEPT ![w] = @ \/ copies' # copies \/ call'[w].result = "ok"]
    /\ UNCHANGED <<gate, guard, pc, text, tries, cached>>

Result(w) == call[w].result

\* _speak: queued, or acknowledged; anything else goes by speak.py.
ClientReturns(w) ==
    /\ Result(w) \in {"ok", "error", "failed"}
    /\ Moves(w, "speaking", IF Result(w) = "ok" THEN "done" ELSE "script")
    /\ call' = [call EXCEPT ![w] = Idle]
    /\ UNCHANGED <<gate, guard, daemon, ledger, copies, heard, faults, text, tries, cached, reached>>

\* speak.py with words: a speak with a new id.
ScriptSpeaks(w) ==
    /\ text[w]
    /\ Moves(w, "script", "scripted")
    /\ Begins(w, "script", "speak")
    /\ UNCHANGED <<gate, guard, daemon, ledger, copies, heard, faults, text, tries, cached, reached>>

\* speak.py without words: the cached audio, the narrator started first.
ScriptPlaysCache(w) ==
    /\ ~text[w] /\ Message[w] \in cached
    /\ Moves(w, "script", "scripted")
    /\ IF daemon = "up" THEN UNCHANGED daemon ELSE Started
    /\ Begins(w, "script", "cache")
    /\ UNCHANGED <<gate, guard, ledger, copies, heard, faults, text, tries, cached, reached>>

\* Without words and without the audio there is nothing to say, and it says so
\* with 0.
ScriptHasNothing(w) ==
    /\ ~text[w] /\ Message[w] \notin cached
    /\ Moves(w, "script", "silent")
    /\ UNCHANGED <<gate, guard, client, text, tries, cached, reached>>

\* Its request returned; words still go as bare text.
ScriptReturns(w) ==
    /\ Result(w) \in {"ok", "error", "failed"}
    /\ Moves(w, "scripted", IF Result(w) = "ok" THEN "done" ELSE IF text[w] THEN "raw" ELSE "ended")
    /\ IF Result(w) # "ok" /\ text[w] /\ daemon = "gone" THEN Started ELSE UNCHANGED daemon
    /\ call' = [call EXCEPT ![w] = Idle]
    /\ UNCHANGED <<gate, guard, ledger, copies, heard, faults, text, tries, cached, reached>>

\* Bare text has no reply: sent is done, though the narrator may die with it
\* unread.
SendRaw(w) ==
    /\ daemon = "up"
    /\ \/ Moves(w, "raw", "done") /\ reached' = [reached EXCEPT ![w] = TRUE] /\ UNCHANGED faults
       \/ Moves(w, "raw", "silent") /\ UNCHANGED reached /\ Fault /\ Bound
    /\ UNCHANGED <<gate, guard, daemon, ledger, copies, heard, call, text, tries, cached>>

\* Refused: again, a few times.  No socket file: at once too much.
RawRefused(w) ==
    /\ daemon # "up" /\ pc[w] = "raw"
    /\ IF daemon = "stale" /\ tries[w] + 1 < RawAttempts
       THEN tries' = [tries EXCEPT ![w] = @ + 1] /\ UNCHANGED pc
       ELSE Moves(w, "raw", "ended") /\ UNCHANGED tries
    /\ UNCHANGED <<gate, guard, client, text, cached, reached>>

WorkerStep(w) ==
    \/ GatedOff(w) \/ Bail(w) \/ Resolve(w) \/ CheckPlaying(w) \/ Claim(w) \/ ClaimWithoutLock(w)
    \/ Asks(w) \/ ClientReturns(w) \/ ScriptSpeaks(w) \/ ScriptPlaysCache(w) \/ ScriptHasNothing(w)
    \/ ScriptReturns(w) \/ SendRaw(w) \/ RawRefused(w)

\* The narrator promotes what it synthesised; an entry goes.
CacheFills == daemon = "up" /\ \E h \in Answers \ cached : cached' = cached \cup {h}
CacheLoses == \E h \in cached : cached' = cached \ {h}

Environment ==
    \/ OtherClaims
    \/ /\ \E w \in Callers : pc[w] \in {"idle", "spawned"}  \* bound: switches somebody reads
       /\ GateNext /\ faults = 0
       /\ UNCHANGED <<guard, client, worker>>
    \/ /\ TickBurst \/ TickCap
       /\ UNCHANGED <<gate, client, worker>>
    \/ /\ NarratorStep /\ Bound
       /\ UNCHANGED <<gate, guard, worker>>
    \/ /\ (CacheFills /\ UNCHANGED faults) \/ (CacheLoses /\ Fault /\ Bound)
       /\ UNCHANGED <<gate, guard, daemon, ledger, copies, heard, call, pc, text, tries, reached>>

Next == (\E w \in Callers : Stop(w) \/ WorkerStep(w)) \/ Environment

Spec == Init /\ [][Next]_vars

----------------------------------------------------------------------------
\* A worker that bails out as a duplicate has a sibling with the same words
\* that took them on: they reached the narrator, or are on their way to it, or
\* all three routes failed the sibling, or speak.py found nothing to play.
DuplicateWasTaken ==
    \A w \in Callers : pc[w] = "duplicate" =>
        \E v \in Callers \ {w} :
            /\ Message[v] = Message[w]
            /\ reached[v] \/ pc[v] \in Speaking \cup {"ended", "silent"}
=============================================================================
