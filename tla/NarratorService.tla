--------------------------- MODULE NarratorService ---------------------------
(***************************************************************************)
(* The narrator daemon's life of a line (narrator_service.py), composed    *)
(* with the ledger of line ids (line_ledger.py), the missed list           *)
(* (missed_speech.py) and the sound sink (native_audio_sink.py).           *)
(*                                                                         *)
(* Threads: a socket handler per request (speak, missed add), the one      *)
(* worker that takes lines from the queue and plays them, one thread that  *)
(* runs a barge-in or his stop, and the main thread that shuts the daemon  *)
(* down.  Every access of a thread to state another thread writes is a     *)
(* step of its own; the ledger and the missed list survive the process.    *)
(*                                                                         *)
(* A line is a request that carries a line id (ADR-025).  Its text, voice  *)
(* and audio are abstracted away; what is kept is whether its item is a    *)
(* replay from the missed list (which plays over other sound), how often   *)
(* it timed out, and whether its payload is finished audio.  The queue is  *)
(* a set: which of the waiting lines of the most urgent band is first is   *)
(* left open, because the control may move lines within a band at any time *)
(* (the order itself is module PriorityArbiter's subject).                 *)
(***************************************************************************)
EXTENDS Integers, LineLedger

CONSTANTS Lines,       \* line ids
          PrioOf,      \* Lines -> 2..4
          Handlers,    \* socket handler threads alive at once
          None,
          MaxSends,    \* bound: speak requests (first sends, resends, replays)
          MaxRetries,  \* timeout_retries
          MaxAdds,     \* bound: missed add requests
          MaxBarges,   \* bound: barge-ins and stops
          MaxDeaths    \* bound: times the process ends, by signal or crash

ASSUME ServiceAssumption ==
    /\ PrioOf \in [Lines -> 2..4]
    /\ MaxSends \in Nat /\ MaxRetries \in Nat
    /\ MaxAdds \in Nat /\ MaxBarges \in Nat /\ MaxDeaths \in Nat

\* A QueueItem: which request made it (`send`), whether it plays over other
\* sound (`replay`: hold is FALSE), whether it has a missed-list entry to
\* clear (`listed`: missed_id), its timeouts so far, and whether its payload
\* is finished audio (`wav`).
Item == [line : Lines, send : 0..MaxSends, replay : BOOLEAN, listed : BOOLEAN,
         tries : 0..MaxRetries, wav : BOOLEAN]

\* What a handler has read of its request and is about to do.
Request == [line : Lines, stage : {"look", "admit", "put", "heard?", "listed?", "miss"},
            send : 0..MaxSends, replay : BOOLEAN]

\* The status of a missed-list entry, with the one reason anything asks for:
\* an entry his stop left.
Statuses == {"held", "stopped", "missed"}

ASSUME NoneAssumption == None \notin Lines \cup Item \cup Request \cup Statuses

\* Where the worker is in its pass (_tts_worker and what it calls).
Steps == {"idle", "taken", "await load", "reset", "check", "presynth", "synth",
          "ready", "gatecheck", "gate", "gated", "holding", "start", "popen",
          "sounding", "played", "done", "forget", "aside", "aside ledger",
          "requeue", "requeue ledger", "settle", "finally", "ended"}

\* The interleavings the properties have to except, each noted in `races` by
\* the step where it bites.
Races == {"shed",          \* shed by narration that found the queue full
          "made room",     \* taken out to make room for the sentinel
          "purged unseen", \* queued between a barge-in's first look and its purge
          "purged retry",  \* a retry purged before the ledger called it queued
          "misjudged",     \* recorded as purged although it was not
          "late add",      \* recorded as heard while a caller was adding it
          "unrecorded",    \* heard as the process ended
          "put back"}      \* a retry interrupted before it was tried

VARIABLES
    \* kept on disk
    ledger,       \* LineRecord.state, "unknown" when there is no record
    inPass,       \* LineRecord.in_pass
    missed,       \* the missed list: [Lines -> Statuses \cup {None}]
    stopped,      \* _stopped_since is set (his stop)
    \* the process
    up,           \* the daemon runs
    queue,        \* what waits
    req,          \* what each handler is doing
    interrupted,  \* NarratorService._interrupted
    shutdown,     \* what has happened of it: "term" (_stop is set), "sentinel"
                  \* (the queue ends), "cut" (_shutdown_cut)
    \* the worker's pass
    step, hand,
    why,          \* the status the set-aside in progress gives the line
    again,        \* the item of the retry in progress
    onHold,       \* held["line"]: this pass put the line on the list as held
    \* the sink
    proc,         \* mpv runs
    holdAbort,    \* _hold_abort
    aborted,      \* last_hold.status = ABORTED
    \* the barge-in
    barge, before, gone,
    \* history and bounds
    heard,        \* the lines that have been heard
    races,        \* the <<race, line>> pairs this behaviour has met
    late,         \* what is in hand was past the last stop check when he stopped
    sends, adds, barges, deaths

worker == <<step, hand, why, again, onHold>>
sink == <<proc, holdAbort, aborted>>
barging == <<barge, before, gone>>
bounds == <<sends, adds, barges, deaths>>
vars == <<ledger, inPass, missed, stopped, up, queue, req, interrupted, shutdown, worker,
          sink, barging, heard, races, late, bounds>>

TypeOK ==
    /\ ledger \in [Lines -> States]
    /\ inPass \in [Lines -> BOOLEAN]
    /\ missed \in [Lines -> Statuses \cup {None}]
    /\ stopped \in BOOLEAN /\ up \in BOOLEAN
    /\ queue \in SUBSET Item
    /\ req \in [Handlers -> Request \cup {None}]
    /\ interrupted \in BOOLEAN
    /\ shutdown \subseteq {"term", "sentinel", "cut"}
    /\ step \in Steps
    /\ hand \in Item \cup {None}
    /\ why \in Statuses
    /\ again \in Item \cup {None}
    /\ onHold \in BOOLEAN
    /\ proc \in BOOLEAN /\ holdAbort \in BOOLEAN /\ aborted \in BOOLEAN
    /\ barge \in {"idle", "flag", "sink", "before", "purge", "after", "drop"}
    /\ before \subseteq Lines /\ gone \subseteq Lines
    /\ heard \subseteq Lines /\ races \subseteq (Races \X Lines) /\ late \in BOOLEAN
    /\ sends \in 0..MaxSends /\ adds \in 0..MaxAdds
    /\ barges \in 0..MaxBarges /\ deaths \in 0..MaxDeaths

Init ==
    /\ ledger = [l \in Lines |-> "unknown"]
    /\ inPass = [l \in Lines |-> FALSE]
    /\ missed = [l \in Lines |-> None]
    /\ stopped = FALSE /\ up = TRUE
    /\ queue = {} /\ req = [h \in Handlers |-> None]
    /\ interrupted = FALSE /\ shutdown = {}
    /\ step = "idle" /\ hand = None /\ why = "missed" /\ again = None /\ onHold = FALSE
    /\ proc = FALSE /\ holdAbort = FALSE /\ aborted = FALSE
    /\ barge = "idle" /\ before = {} /\ gone = {}
    /\ heard = {} /\ races = {} /\ late = FALSE
    /\ sends = 0 /\ adds = 0 /\ barges = 0 /\ deaths = 0

Queued == {it.line : it \in queue}
InHand == IF hand = None THEN {} ELSE {hand.line}
PutsLine(h, l) == req[h] # None /\ req[h].stage = "put" /\ req[h].line = l
AddsLine(h, l) == req[h] # None /\ req[h].stage \in {"listed?", "miss"} /\ req[h].line = l
AtPut == {l \in Lines : \E h \in Handlers : PutsLine(h, l)}

\* races' for the lines in S that meet race `kind` in this step.
Meets(kind, S) == races' = races \cup {<<kind, l>> : l \in S}
Except(kinds) == {l \in Lines : \E kind \in kinds : <<kind, l>> \in races}

-----------------------------------------------------------------------------
(* Socket handlers: speak (sent, sent again, or replayed from the missed   *)
(* list) and missed add.  A handler answers and is gone when req is None.  *)

HandlerFrame == UNCHANGED <<stopped, up, interrupted, shutdown, worker, sink, barging,
                            heard, late, barges, deaths>>

\* The listener accepts until the shutdown closes it.
Free(h) == up /\ "sentinel" \notin shutdown /\ req[h] = None
At(h, stage) == up /\ req[h] # None /\ req[h].stage = stage

Asks(h, r) == req' = [req EXCEPT ![h] = r]
Proceeds(h, stage) == req' = [req EXCEPT ![h] = [req[h] EXCEPT !.stage = stage]]
Answers(h) == req' = [req EXCEPT ![h] = None]

\* A caller sends line l: the first time, or again because it timed out.
Send(h, l) ==
    /\ Free(h) /\ sends < MaxSends
    /\ Asks(h, [line |-> l, stage |-> "look", send |-> sends + 1, replay |-> FALSE])
    /\ sends' = sends + 1
    /\ UNCHANGED <<ledger, inPass, missed, queue, races, adds>> /\ HandlerFrame

\* missed --play, or a play from the control: a missed (not held) line is
\* sent with its own id, to play over other sound.
Replay(h, l) ==
    /\ Free(h) /\ sends < MaxSends
    /\ missed[l] \in {"stopped", "missed"}
    /\ Asks(h, [line |-> l, stage |-> "admit", send |-> sends + 1, replay |-> TRUE])
    /\ sends' = sends + 1
    /\ UNCHANGED <<ledger, inPass, missed, queue, races, adds>> /\ HandlerFrame

\* _set_aside_by_stop: a resend of a line his stop left on the missed list
\* stays there and is not queued.
Look(h) ==
    /\ At(h, "look")
    /\ IF missed[req[h].line] = "stopped" THEN Answers(h) ELSE Proceeds(h, "admit")
    /\ UNCHANGED <<ledger, inPass, missed, queue, races, sends, adds>> /\ HandlerFrame

\* LineLedger.admit; an id heard already also leaves the missed list.
Admit(h) ==
    /\ At(h, "admit")
    /\ LET l == req[h].line
       IN  IF Blocks(ledger[l])
           THEN /\ Answers(h)
                /\ missed' = IF ledger[l] = "done" THEN [missed EXCEPT ![l] = None] ELSE missed
                /\ UNCHANGED <<ledger, inPass>>
           ELSE /\ Proceeds(h, "put")
                /\ ledger' = [ledger EXCEPT ![l] = "queued"]
                /\ inPass' = [inPass EXCEPT ![l] = FALSE]
                /\ UNCHANGED missed
    /\ UNCHANGED <<queue, races, sends, adds>> /\ HandlerFrame

\* Words, or the finished audio the cache has of them.
PutLine(h) ==
    /\ At(h, "put")
    /\ \E wav \in BOOLEAN :
           queue' = queue \cup {[line |-> req[h].line, send |-> req[h].send,
                                 replay |-> req[h].replay, listed |-> req[h].replay,
                                 tries |-> 0, wav |-> wav]}
    /\ Answers(h)
    /\ UNCHANGED <<ledger, inPass, missed, races, sends, adds>> /\ HandlerFrame

\* missed add: refused when the line was heard, the same entry when it is
\* on the list already, else an entry of its own.
Add(h, l) ==
    /\ Free(h) /\ adds < MaxAdds
    /\ Asks(h, [line |-> l, stage |-> "heard?", send |-> 0, replay |-> FALSE])
    /\ adds' = adds + 1
    /\ UNCHANGED <<ledger, inPass, missed, queue, races, sends>> /\ HandlerFrame

\* (A mistake to rule out: a caller's copy is added whatever was heard.)
AddWhateverHeard(h) ==
    /\ At(h, "heard?")
    /\ Proceeds(h, "listed?")
    /\ UNCHANGED <<ledger, inPass, missed, queue, races, sends, adds>> /\ HandlerFrame

AddUnlessHeard(h) ==
    /\ At(h, "heard?")
    /\ IF ledger[req[h].line] = "done" THEN Answers(h) ELSE Proceeds(h, "listed?")
    /\ UNCHANGED <<ledger, inPass, missed, queue, races, sends, adds>> /\ HandlerFrame

AddUnlessListed(h) ==
    /\ At(h, "listed?")
    /\ IF missed[req[h].line] # None THEN Answers(h) ELSE Proceeds(h, "miss")
    /\ UNCHANGED <<ledger, inPass, missed, queue, races, sends, adds>> /\ HandlerFrame

AddMiss(h) ==
    /\ At(h, "miss")
    /\ missed' = [missed EXCEPT ![req[h].line] = "missed"]
    /\ Answers(h)
    /\ UNCHANGED <<ledger, inPass, queue, races, sends, adds>> /\ HandlerFrame

-----------------------------------------------------------------------------
(* What he does to the list and his stop, and what other narration does    *)

\* A resume, or any play from the control, ends his stop.
Resume ==
    /\ up /\ stopped
    /\ stopped' = FALSE
    /\ UNCHANGED <<ledger, inPass, missed, up, queue, req, interrupted, shutdown, worker,
                   sink, barging, heard, races, late, bounds>>

\* missed --clear.
ClearMissed ==
    /\ \E l \in Lines : missed[l] # None
    /\ missed' = [l \in Lines |-> None]
    /\ UNCHANGED <<ledger, inPass, stopped, up, queue, req, interrupted, shutdown, worker,
                   sink, barging, heard, races, late, bounds>>

\* _enqueue_item: narration that finds the queue full sheds a waiting line;
\* the facade hands back only its payload, so the ledger is not told.
Shed(it) ==
    /\ up /\ PrioOf[it.line] >= 3
    /\ PrioOf[it.line] = 3 => \A other \in queue : PrioOf[other.line] # 4
    /\ queue' = queue \ {it}
    /\ Meets("shed", {it.line})
    /\ UNCHANGED <<ledger, inPass, missed, stopped, up, req, interrupted, shutdown, worker,
                   sink, barging, heard, late, bounds>>

-----------------------------------------------------------------------------
(* The worker's pass over a line                                           *)

Line == hand.line
MostUrgent(it) == \A other \in queue : PrioOf[it.line] <= PrioOf[other.line]

PassFrame == UNCHANGED <<stopped, up, req, shutdown, barging, bounds>>
Quiet == UNCHANGED <<heard, races, late>>
Goto(next) == up /\ step' = next
SetAside(status) == Goto("aside") /\ why' = status

\* _tts_queue.get
Take(it) ==
    /\ step = "idle" /\ MostUrgent(it)
    /\ Goto("taken") /\ hand' = it
    /\ queue' = queue \ {it}
    /\ UNCHANGED <<ledger, inPass, missed, interrupted, why, again, onHold, sink>>
    /\ Quiet /\ PassFrame

\* The sentinel waits in the narration band.
TakeSentinel ==
    /\ step = "idle" /\ "sentinel" \in shutdown
    /\ \A it \in queue : PrioOf[it.line] = 4
    /\ Goto("ended")
    /\ UNCHANGED <<ledger, inPass, missed, queue, interrupted, hand, why, again, onHold, sink>>
    /\ Quiet /\ PassFrame

\* Shutting down, what is taken is set aside; a retry waits for the load.
Taken ==
    /\ step = "taken"
    /\ inPass' = [inPass EXCEPT ![Line] = ledger[Line] # "unknown"]
    /\ IF shutdown # {}
       THEN SetAside("missed")
       ELSE Goto(IF hand.tries > 0 THEN "await load" ELSE "reset") /\ UNCHANGED why
    /\ UNCHANGED <<ledger, missed, queue, interrupted, hand, again, onHold, sink>>
    /\ Quiet /\ PassFrame

\* _await_load: an interrupt puts the retry back as it was, without ending
\* the pass: no settle, and _interrupted stays as it is.
PutBack ==
    /\ step = "await load" /\ interrupted
    /\ Goto("idle") /\ hand' = None
    /\ queue' = queue \cup {hand}
    /\ Meets("put back", {Line})
    /\ UNCHANGED <<ledger, inPass, missed, interrupted, why, again, onHold, sink, heard, late>>
    /\ PassFrame

GoAhead ==
    /\ step = "await load" /\ ~ interrupted
    /\ Goto("reset")
    /\ UNCHANGED <<ledger, inPass, missed, queue, interrupted, hand, why, again, onHold, sink>>
    /\ Quiet /\ PassFrame

\* The pass begins: an interrupt from before it no longer counts.  Finished
\* audio is played; words are checked and synthesized first.
ResetFlags ==
    /\ step = "reset"
    /\ interrupted' = FALSE
    /\ Goto(IF hand.wav THEN "ready" ELSE "check")
    /\ UNCHANGED <<ledger, inPass, missed, queue, hand, why, again, onHold, sink>>
    /\ Quiet /\ PassFrame

\* _speak before synthesis: stale backlog, his stop, a meeting.
Check ==
    /\ step = "check"
    /\ \/ SetAside("missed")
       \/ stopped /\ SetAside("stopped")
       \/ ~ stopped /\ Goto("presynth") /\ UNCHANGED why
    /\ UNCHANGED <<ledger, inPass, missed, queue, interrupted, hand, again, onHold, sink>>
    /\ Quiet /\ PassFrame

PreSynth ==
    /\ step = "presynth"
    /\ Goto(IF interrupted THEN "settle" ELSE "synth")
    /\ UNCHANGED <<ledger, inPass, missed, queue, interrupted, hand, why, again, onHold, sink>>
    /\ Quiet /\ PassFrame

\* (A mistake to rule out: one retry too many.)
RetriesOffByOne(wav) ==
    IF hand.tries <= MaxRetries
    THEN /\ Goto("requeue")
         /\ again' = [hand EXCEPT !.tries = @ + 1, !.wav = wav, !.listed = @ \/ onHold]
         /\ UNCHANGED why
    ELSE SetAside("missed") /\ UNCHANGED again

\* _retry: the whole line again, until its retries are spent.
RetryOrSetAside(wav) ==
    IF hand.tries < MaxRetries
    THEN /\ Goto("requeue")
         /\ again' = [hand EXCEPT !.tries = @ + 1, !.wav = wav, !.listed = @ \/ onHold]
         /\ UNCHANGED why
    ELSE SetAside("missed") /\ UNCHANGED again

\* The synthesis ends: audio (or a cache hit), none, or a timeout, which the
\* engine may have retried by itself.
Synth ==
    /\ step = "synth"
    /\ \/ Goto("ready") /\ UNCHANGED <<why, again>>
       \/ Goto("settle") /\ UNCHANGED <<why, again>>
       \/ SetAside("missed") /\ UNCHANGED again
       \/ RetryOrSetAside(FALSE)
    /\ UNCHANGED <<ledger, inPass, missed, queue, interrupted, hand, onHold, sink>>
    /\ Quiet /\ PassFrame

Ready ==
    /\ step = "ready"
    /\ Goto(IF interrupted THEN "settle" ELSE "gatecheck")
    /\ UNCHANGED <<ledger, inPass, missed, queue, interrupted, hand, why, again, onHold, sink>>
    /\ Quiet /\ PassFrame

\* (A mistake to rule out: the stop is not asked for again after synthesis.)
GateUnchecked ==
    /\ step = "gatecheck"
    /\ Goto("gate")
    /\ UNCHANGED <<ledger, inPass, missed, queue, interrupted, hand, why, again, onHold, sink>>
    /\ Quiet /\ PassFrame

\* _play_item: his stop, once more, just before the sink.
GateCheck ==
    /\ step = "gatecheck"
    /\ IF stopped THEN SetAside("stopped") ELSE Goto("gate") /\ UNCHANGED why
    /\ UNCHANGED <<ledger, inPass, missed, queue, interrupted, hand, again, onHold, sink>>
    /\ Quiet /\ PassFrame

\* sink.play: a replay skips the gate; at the gate an earlier abort is cleared.
EnterSink ==
    /\ step = "gate"
    /\ aborted' = FALSE
    /\ IF hand.replay
       THEN Goto("start") /\ UNCHANGED holdAbort
       ELSE Goto("gated") /\ holdAbort' = FALSE
    /\ UNCHANGED <<ledger, inPass, missed, queue, interrupted, hand, why, again, onHold, proc>>
    /\ Quiet /\ PassFrame

\* SoundYieldGate: clear, a meeting, or another app's sound to wait for.
Gate ==
    /\ step = "gated"
    /\ \/ Goto("start") /\ UNCHANGED <<missed, why, onHold>>
       \/ SetAside("missed") /\ UNCHANGED <<missed, onHold>>
       \/ /\ Goto("holding") /\ onHold' = TRUE
          /\ missed' = [missed EXCEPT ![Line] = "held"]
          /\ UNCHANGED why
    /\ UNCHANGED <<ledger, inPass, queue, interrupted, hand, again, sink>>
    /\ Quiet /\ PassFrame

\* (A mistake to rule out: a hold with no longest wait.)
HoldsForEver ==
    /\ step = "holding" /\ holdAbort
    /\ Goto("played") /\ aborted' = TRUE
    /\ UNCHANGED <<ledger, inPass, missed, queue, interrupted, hand, why, again, onHold, proc, holdAbort>>
    /\ Quiet /\ PassFrame

\* The hold ends: aborted, clear again, or past the longest wait (or in a
\* meeting meanwhile).
HoldEnds ==
    /\ step = "holding"
    /\ IF holdAbort
       THEN Goto("played") /\ aborted' = TRUE /\ UNCHANGED why
       ELSE /\ UNCHANGED aborted
            /\ \/ Goto("start") /\ UNCHANGED why
               \/ SetAside("missed")
    /\ UNCHANGED <<ledger, inPass, missed, queue, interrupted, hand, again, onHold, proc, holdAbort>>
    /\ Quiet /\ PassFrame

\* on_start, just before mpv.
Start ==
    /\ step = "start"
    /\ ledger' = [ledger EXCEPT ![Line] = Playing(@)]
    /\ Goto("popen")
    /\ UNCHANGED <<inPass, missed, queue, interrupted, hand, why, again, onHold, sink>>
    /\ Quiet /\ PassFrame

Popen ==
    /\ step = "popen"
    /\ proc' = TRUE
    /\ Goto("sounding")
    /\ UNCHANGED <<ledger, inPass, missed, queue, interrupted, hand, why, again, onHold,
                   holdAbort, aborted>>
    /\ Quiet /\ PassFrame

\* mpv is gone: it ended, or an interrupt ended it (the play returns
\* cleanly either way), or it stalled and was killed, or it failed.
SoundEnds ==
    /\ step = "sounding"
    /\ proc' = FALSE
    /\ \/ Goto("played") /\ UNCHANGED <<why, again>>
       \/ proc /\ RetryOrSetAside(TRUE)
       \/ proc /\ Goto("settle") /\ UNCHANGED <<why, again>>
    /\ UNCHANGED <<ledger, inPass, missed, queue, interrupted, hand, onHold, holdAbort, aborted>>
    /\ Quiet /\ PassFrame

\* _play_item_body after the play: cut by the shutdown, its hold aborted,
\* or heard; what was heard leaves the missed list.
Played ==
    /\ step = "played"
    /\ IF "cut" \in shutdown \/ (onHold /\ aborted)
       THEN SetAside("missed") /\ UNCHANGED <<missed, heard>>
       ELSE /\ Goto("done") /\ UNCHANGED why
            /\ heard' = heard \cup {Line}
            /\ missed' = IF onHold \/ hand.listed THEN [missed EXCEPT ![Line] = None] ELSE missed
    /\ UNCHANGED <<ledger, inPass, queue, interrupted, hand, again, onHold, sink, races, late>>
    /\ PassFrame

\* (A mistake to rule out: what was heard is not recorded.)
DoneUnrecorded ==
    /\ step = "done"
    /\ Goto("forget")
    /\ UNCHANGED <<ledger, inPass, missed, queue, interrupted, hand, why, again, onHold, sink>>
    /\ Quiet /\ PassFrame

RecordDone ==
    /\ step = "done"
    /\ ledger' = [ledger EXCEPT ![Line] = Done(@)]
    /\ inPass' = [inPass EXCEPT ![Line] = FALSE]
    /\ Meets("late add", {l \in {Line} : \E h \in Handlers : AddsLine(h, l)})
    /\ Goto("forget")
    /\ UNCHANGED <<missed, queue, interrupted, hand, why, again, onHold, sink, heard, late>>
    /\ PassFrame

\* (A mistake to rule out: only the entry the line was replayed from goes.)
ForgetsNothing ==
    /\ step = "forget"
    /\ Goto("settle")
    /\ UNCHANGED <<ledger, inPass, missed, queue, interrupted, hand, why, again, onHold, sink>>
    /\ Quiet /\ PassFrame

\* _forget_missed: any other copy of it on the list.
Forget ==
    /\ step = "forget"
    /\ missed' = [missed EXCEPT ![Line] = None]
    /\ Goto("settle")
    /\ UNCHANGED <<ledger, inPass, queue, interrupted, hand, why, again, onHold, sink>>
    /\ Quiet /\ PassFrame

\* _set_aside: on the missed list first, then dropped in the ledger.
AsideMiss ==
    /\ step = "aside"
    /\ missed' = [missed EXCEPT ![Line] = why]
    /\ Goto("aside ledger")
    /\ UNCHANGED <<ledger, inPass, queue, interrupted, hand, why, again, onHold, sink>>
    /\ Quiet /\ PassFrame

AsideLedger ==
    /\ step = "aside ledger"
    /\ ledger' = [ledger EXCEPT ![Line] = Dropped(@)]
    /\ inPass' = [inPass EXCEPT ![Line] = FALSE]
    /\ Goto("settle")
    /\ UNCHANGED <<missed, queue, interrupted, hand, why, again, onHold, sink>>
    /\ Quiet /\ PassFrame

\* _retry: in the queue first, then queued again in the ledger.
RequeuePut ==
    /\ step = "requeue"
    /\ queue' = queue \cup {again}
    /\ Goto("requeue ledger")
    /\ UNCHANGED <<ledger, inPass, missed, interrupted, hand, why, again, onHold, sink>>
    /\ Quiet /\ PassFrame

RequeueLedger ==
    /\ step = "requeue ledger"
    /\ ledger' = [ledger EXCEPT ![Line] = Requeued(@)]
    /\ inPass' = [inPass EXCEPT ![Line] = FALSE]
    /\ Meets("purged retry", {Line} \ Queued)
    /\ Goto("settle")
    /\ UNCHANGED <<missed, queue, interrupted, hand, why, again, onHold, sink, heard, late>>
    /\ PassFrame

Settle ==
    /\ step = "settle"
    /\ ledger' = [ledger EXCEPT ![Line] = Settled(@, inPass[Line])]
    /\ inPass' = [inPass EXCEPT ![Line] = FALSE]
    /\ Goto("finally")
    /\ UNCHANGED <<missed, queue, interrupted, hand, why, again, onHold, sink>>
    /\ Quiet /\ PassFrame

\* The end of the pass; its locals are gone with it.
Finally ==
    /\ step = "finally"
    /\ interrupted' = FALSE
    /\ Goto("idle")
    /\ hand' = None /\ why' = "missed" /\ again' = None /\ onHold' = FALSE /\ late' = FALSE
    /\ UNCHANGED <<ledger, inPass, missed, queue, sink, heard, races>>
    /\ PassFrame

Pass ==
    \/ Taken \/ PutBack \/ GoAhead \/ ResetFlags \/ Check \/ PreSynth \/ Synth \/ Ready
    \/ GateCheck \/ EnterSink \/ Gate \/ HoldEnds \/ Start \/ Popen \/ SoundEnds \/ Played
    \/ RecordDone \/ Forget \/ AsideMiss \/ AsideLedger \/ RequeuePut \/ RequeueLedger
    \/ Settle \/ Finally

-----------------------------------------------------------------------------
(* A barge-in (_handle_p1_interrupt), alone or as part of his stop, and    *)
(* his edits of the queue: one thread.                                     *)

BargeFrame == UNCHANGED <<missed, up, req, shutdown, worker, heard, sends, adds, deaths>>
PastStopCheck == {"gate", "gated", "holding", "start", "popen"}

BargeIn ==
    /\ up /\ barge = "idle" /\ barges < MaxBarges
    /\ barge' = "flag" /\ barges' = barges + 1
    /\ UNCHANGED <<ledger, inPass, stopped, queue, interrupted, sink, before, gone, races, late>>
    /\ BargeFrame

\* _stop_speech: the stop stands (and is on disk) before the barge-in.
Stop ==
    /\ up /\ barge = "idle" /\ barges < MaxBarges
    /\ stopped' = TRUE
    /\ late' = (step \in PastStopCheck)
    /\ barge' = "flag" /\ barges' = barges + 1
    /\ UNCHANGED <<ledger, inPass, queue, interrupted, sink, before, gone, races>>
    /\ BargeFrame

BargeFlag ==
    /\ barge = "flag"
    /\ interrupted' = TRUE
    /\ barge' = "sink"
    /\ UNCHANGED <<ledger, inPass, stopped, queue, sink, before, gone, races, late, barges>>
    /\ BargeFrame

\* NativeAudioSink.interrupt: a hold is told to abort, an mpv is ended;
\* between the two there may be neither.
SinkInterrupted == holdAbort' = TRUE /\ proc' = FALSE /\ UNCHANGED aborted

BargeSink ==
    /\ barge = "sink"
    /\ SinkInterrupted
    /\ barge' = "before"
    /\ UNCHANGED <<ledger, inPass, stopped, queue, interrupted, before, gone, races, late, barges>>
    /\ BargeFrame

BargeBefore ==
    /\ barge = "before"
    /\ before' = Queued
    /\ barge' = "purge"
    /\ UNCHANGED <<ledger, inPass, stopped, queue, interrupted, sink, gone, races, late, barges>>
    /\ BargeFrame

BargePurge ==
    /\ barge = "purge"
    /\ queue' = {it \in queue : PrioOf[it.line] < 3}
    /\ Meets("purged unseen", {l \in Queued \ before : PrioOf[l] >= 3})
    /\ barge' = "after"
    /\ UNCHANGED <<ledger, inPass, stopped, interrupted, sink, before, gone, late, barges>>
    /\ BargeFrame

\* (A mistake to rule out: the snapshots compared the wrong way round.)
BargeAfterReversed ==
    /\ barge = "after"
    /\ gone' = Queued \ before
    /\ before' = {}
    /\ barge' = "drop"
    /\ UNCHANGED <<ledger, inPass, stopped, queue, interrupted, sink, races, late, barges>>
    /\ BargeFrame

BargeAfter ==
    /\ barge = "after"
    /\ gone' = before \ Queued
    /\ before' = {}
    /\ barge' = "drop"
    /\ UNCHANGED <<ledger, inPass, stopped, queue, interrupted, sink, races, late, barges>>
    /\ BargeFrame

\* Every line that left the queue meanwhile is dropped in the ledger, one
\* the worker took (or a caller sent again) among them.
BargeDrop ==
    /\ barge = "drop"
    /\ ledger' = [l \in Lines |-> IF l \in gone THEN Dropped(ledger[l]) ELSE ledger[l]]
    /\ inPass' = [l \in Lines |-> l \notin gone /\ inPass[l]]
    /\ Meets("misjudged", gone \cap (InHand \cup Queued \cup AtPut))
    /\ gone' = {}
    /\ barge' = "idle"
    /\ UNCHANGED <<stopped, queue, interrupted, sink, before, late, barges>>
    /\ BargeFrame

\* _queue_remove: what he takes out is then dropped in the ledger.
QueueRemove(it) ==
    /\ up /\ barge = "idle"
    /\ queue' = queue \ {it}
    /\ gone' = {it.line}
    /\ barge' = "drop"
    /\ UNCHANGED <<ledger, inPass, stopped, interrupted, sink, before, races, late, barges>>
    /\ BargeFrame

Barging == BargeFlag \/ BargeSink \/ BargeBefore \/ BargePurge \/ BargeAfter \/ BargeDrop

-----------------------------------------------------------------------------
(* The end of the process and its restart                                  *)

\* SIGTERM: the line in hand may finish.
Terminate ==
    /\ up /\ shutdown = {} /\ deaths < MaxDeaths
    /\ shutdown' = {"term"} /\ deaths' = deaths + 1
    /\ UNCHANGED <<ledger, inPass, missed, stopped, up, queue, req, interrupted, worker, sink,
                   barging, heard, races, late, sends, adds, barges>>

\* The listener is closed and the queue ended; on a full queue, room for
\* the sentinel is made by taking out the next line to play.
PutSentinel ==
    /\ up /\ "term" \in shutdown /\ "sentinel" \notin shutdown
    /\ shutdown' = shutdown \cup {"sentinel"}
    /\ \/ UNCHANGED <<queue, races>>
       \/ \E it \in queue : /\ MostUrgent(it)
                            /\ queue' = queue \ {it} /\ Meets("made room", {it.line})
    /\ UNCHANGED <<ledger, inPass, missed, stopped, up, req, interrupted, worker, sink,
                   barging, heard, late, bounds>>

\* Its time is up, or a second signal came: the line in hand is cut.
Cut ==
    /\ up /\ "term" \in shutdown /\ "cut" \notin shutdown /\ step # "ended"
    /\ shutdown' = shutdown \cup {"cut"}
    /\ SinkInterrupted
    /\ UNCHANGED <<ledger, inPass, missed, stopped, up, queue, req, interrupted, worker,
                   barging, heard, races, late, bounds>>

Gone ==
    /\ up' = FALSE
    /\ queue' = {} /\ req' = [h \in Handlers |-> None]
    /\ step' = "idle" /\ hand' = None /\ why' = "missed" /\ again' = None /\ onHold' = FALSE
    /\ interrupted' = FALSE /\ shutdown' = {}
    /\ proc' = FALSE /\ holdAbort' = FALSE /\ aborted' = FALSE
    /\ barge' = "idle" /\ before' = {} /\ gone' = {} /\ late' = FALSE
    /\ Meets("unrecorded", IF step \in {"done", "forget"} THEN InHand ELSE {})
    /\ UNCHANGED heard

\* The worker is done, or did not end in three more seconds; what still
\* waits is set aside, and the process ends.
Exit ==
    /\ up /\ "sentinel" \in shutdown
    /\ step = "ended" \/ "cut" \in shutdown
    /\ missed' = [l \in Lines |-> IF l \in Queued THEN "missed" ELSE missed[l]]
    /\ ledger' = [l \in Lines |-> IF l \in Queued THEN Dropped(ledger[l]) ELSE ledger[l]]
    /\ inPass' = [l \in Lines |-> l \notin Queued /\ inPass[l]]
    /\ Gone
    /\ UNCHANGED <<stopped, bounds>>

\* Killed outright, anywhere.
Crash ==
    /\ up /\ deaths < MaxDeaths
    /\ deaths' = deaths + 1
    /\ Gone
    /\ UNCHANGED <<ledger, inPass, missed, stopped, sends, adds, barges>>

\* The next daemon: the ledger is read, held lines become missed, his stop
\* still stands.
Restart ==
    /\ ~ up
    /\ up' = TRUE
    /\ ledger' = [l \in Lines |-> Reloaded(ledger[l])]
    /\ inPass' = [l \in Lines |-> ledger[l] \notin {"queued", "playing"} /\ inPass[l]]
    /\ missed' = [l \in Lines |-> IF missed[l] = "held" THEN "missed" ELSE missed[l]]
    /\ UNCHANGED <<stopped, queue, req, interrupted, shutdown, worker, sink, barging, heard,
                   races, late, bounds>>

-----------------------------------------------------------------------------
Handler(h) == Look(h) \/ Admit(h) \/ PutLine(h) \/ AddUnlessHeard(h) \/ AddUnlessListed(h)
              \/ AddMiss(h)
Worker == TakeSentinel \/ Pass \/ \E it \in queue : Take(it)
Ends == Terminate \/ PutSentinel \/ Cut \/ Exit \/ Crash

Next ==
    \/ \E h \in Handlers, l \in Lines : Send(h, l) \/ Replay(h, l) \/ Add(h, l)
    \/ \E h \in Handlers : Handler(h)
    \/ Resume \/ ClearMissed \/ BargeIn \/ Stop \/ Barging
    \/ \E it \in queue : QueueRemove(it) \/ Shed(it)
    \/ Worker
    \/ Ends \/ Restart

Spec == Init /\ [][Next]_vars

\* The threads of a running daemon keep running, and every wait in a pass
\* has a budget (the hold's longest wait, the synthesis and play budgets).
\* What callers and he do, and when a process dies, is not assumed.
Fairness ==
    /\ \A h \in Handlers : WF_vars(Handler(h))
    /\ WF_vars(Worker) /\ WF_vars(Barging)
    /\ WF_vars(PutSentinel \/ Exit) /\ WF_vars(Restart)

FairSpec == Spec /\ Fairness

-----------------------------------------------------------------------------
(* Properties *)

\* The steps of a pass in which the line in hand may still play, be queued
\* again or be set aside.
Undecided == Steps \ {"idle", "ended", "forget", "requeue ledger", "settle", "finally"}
Held(l) == l \in InHand /\ (step \in Undecided \/ (step = "settle" /\ inPass[l]))

\* One line id is in one place at a time: in a handler about to queue it,
\* in the queue, or undecided in the worker's hand, never in two of them or
\* twice in one, and only while the ledger refuses a resend of it.  This is
\* what "one line id, one play" rests on, across resends, replays, retries,
\* put-backs and restarts.
Places(l) ==
    {<<"queue", it>> : it \in {i \in queue : i.line = l}}
    \cup {<<"handler", h>> : h \in {g \in Handlers : PutsLine(g, l)}}
    \cup {<<"hand", it>> : it \in {i \in {hand} : Held(l)}}

InOnePlace ==
    \A l \in Lines \ Except({"misjudged"}) :
        /\ \A p, q \in Places(l) : p = q
        /\ Places(l) # {} => ledger[l] \in {"queued", "playing"}

\* One line id, one play (ADR-025): a line that has been heard never sounds
\* again.  It does when a barge-in records as purged a line that the worker
\* took meanwhile, and when the daemon dies between the end of the sound and
\* the ledger's record of it.
SoundsOnce == step = "sounding" => Line \notin heard
OneIdOnePlay ==
    step = "sounding" /\ Line \notin Except({"misjudged", "unrecorded"}) => Line \notin heard

\* The ledger tells the truth (line_ledger.py): an id it calls queued or
\* playing, and so refuses, really waits or is in hand (or in a handler, or
\* just purged and about to be recorded), never stuck in that state with
\* nothing left to play.  The exceptions are the ways out of the queue that
\* no ledger write follows.
OnItsWay == Queued \cup InHand \cup AtPut \cup before \cup gone
LedgerTellsTheTruth ==
    up => \A l \in Lines \ Except({"shed", "made room", "purged unseen", "purged retry"}) :
              ledger[l] \in {"queued", "playing"} => l \in OnItsWay

\* His stop holds (ADR-024): once its barge-in has ended what sounded,
\* nothing sounds while it stands, with one exception: the line whose pass
\* had already asked, for the last time, whether he had stopped.
NothingPlaysWhileStopped == stopped /\ barge \notin {"flag", "sink"} => ~ proc
StopHolds == stopped /\ barge \notin {"flag", "sink"} /\ ~ late => ~ proc

\* What was heard leaves the missed list (ADR-026): no entry of it is left
\* once its pass has ended, whoever put one there and whenever, save the
\* caller that asked before it was heard and wrote after.
HeardLeavesList ==
    \A l \in heard \ Except({"misjudged", "late add", "unrecorded"}) :
        missed[l] # None => l \in InHand /\ step \in {"done", "forget"}

\* A line the narrator has accepted comes to an end: it is played, dropped
\* or on the missed list, and not for ever on its way; save the ways out of
\* the queue that no ledger write follows, and the put-back that the worker
\* takes again at once, for as long as the interrupt that caused it stands.
LinesSettle ==
    \A l \in Lines :
        ledger[l] \in {"queued", "playing"} ~>
            \/ ledger[l] \notin {"queued", "playing"}
            \/ l \in Except({"shed", "purged unseen", "purged retry", "made room", "put back"})
=============================================================================
