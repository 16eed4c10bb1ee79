-------------------------- MODULE NativeAudioSink --------------------------
(***************************************************************************)
(* The audio sink (native_audio_sink.py): a play waits for its turn, waits *)
(* at the sound-yield gate, runs mpv and reports how it ended, while other *)
(* threads interrupt it, skip it, pause it, and while the process itself   *)
(* may be killed outright and leave its mpv behind.                        *)
(*                                                                         *)
(* A play is one call of play() by a thread of its own, and names the mpv  *)
(* it runs; a sink is one NativeAudioSink, in a process of its own (the    *)
(* daemon's, and the command line's that plays by itself).  All of them    *)
(* share one pid file.                                                     *)
(***************************************************************************)
EXTENDS SoundYield

CONSTANTS Plays, Sinks, Callers,
          MaxAlready, \* bound: polls a line already spent in the queue
          None

ASSUME SinkAssumption ==
    /\ MaxAlready \in Nat
    /\ None \notin Plays \cup Sinks \cup {"heard", "cut", "aborted", "aside", "failed"}

VARIABLES args,         \* how each play is called: by whom, with a hold, after what wait
          pc,           \* where each call of play is
          waited,       \* polls this hold has lasted
          outcome,      \* how the call ended
          holder,       \* _playback_lock
          proc,         \* _proc
          interrupted,  \* _interrupted
          holdAbort,    \* _hold_abort
          mpv,          \* what the play's mpv does (mpv itself is external)
          orphans,      \* mpv whose process was killed
          process,      \* each process: up, down, or reaping as it starts
          pidFile,      \* what MPV_PID_PATH names
          call,         \* what each caller's thread is doing
          \* history
          free,         \* plays that met a moment without a meeting at the gate
          asked,        \* what was asked of the sink while each play was its business
          displaced     \* plays whose name someone else took out of the pid file

playing == <<args, pc, waited, outcome, holder, proc, interrupted, holdAbort, mpv>>
crashing == <<orphans, process>>
history == <<free, asked, displaced>>
vars == <<world, playing, crashing, pidFile, call, history>>

\* Mute: its socket does not answer yet; stuck: no progress for the stall's window.
Alive == {"mute", "plays", "stuck", "paused"}
Ended == {"exit", "fail", "killed"}
Steps == {"idle", "gate", "held", "start", "pid", "wait", "done", "lost"}
Running(p) == pc[p] \in {"gate", "held", "start", "pid", "wait"}

Args == [sink : Sinks, hold : BOOLEAN, already : 0..MaxAlready]

Idle == [at |-> "idle", on |-> None, target |-> None, how |-> None]
Calls == [at : {"idle", "look", "abort", "mark", "term", "pause", "unlink"},
          on : Sinks \cup {None}, target : Plays \cup {None},
          how : {"interrupt", "skip", "pause", "pid", None}]

TypeOK ==
    /\ WorldTypeOK
    /\ args \in [Plays -> Args]
    /\ pc \in [Plays -> Steps] /\ waited \in [Plays -> Nat]
    /\ outcome \in [Plays -> {None, "heard", "cut", "aborted", "aside", "failed"}]
    /\ holder \in [Sinks -> Plays \cup {None}] /\ proc \in [Sinks -> Plays \cup {None}]
    /\ interrupted \in [Sinks -> BOOLEAN] /\ holdAbort \in [Sinks -> BOOLEAN]
    /\ mpv \in [Plays -> Alive \cup Ended \cup {"none", "gone"}]
    /\ orphans \subseteq Plays /\ process \in [Sinks -> {"up", "down", "reaping"}]
    /\ pidFile \in Plays \cup {None}
    /\ call \in [Callers -> Calls]
    /\ free \subseteq Plays /\ displaced \subseteq Plays
    /\ asked \in [Plays -> SUBSET {"interrupt", "skip", "pid"}]

\* The settings, what is heard at first and how the plays are called are the
\* instance's (MCInit).
Init ==
    /\ events = 0
    /\ pc = [p \in Plays |-> "idle"] /\ waited = [p \in Plays |-> 0]
    /\ outcome = [p \in Plays |-> None]
    /\ holder = [s \in Sinks |-> None] /\ proc = [s \in Sinks |-> None]
    /\ interrupted = [s \in Sinks |-> FALSE] /\ holdAbort = [s \in Sinks |-> FALSE]
    /\ mpv = [p \in Plays |-> "none"]
    /\ orphans = {} /\ process = [s \in Sinks |-> "up"]
    /\ pidFile = None /\ call = [c \in Callers |-> Idle]
    /\ free = {} /\ asked = [p \in Plays |-> {}] /\ displaced = {}

----------------------------------------------------------------------------
\* play.

Sink(p) == args[p].sink

Holds == {p \in Plays : args[p].hold}

\* The pid file names an mpv that runs: the device fallback's own mpv.
OwnMpv == pidFile # None /\ mpv[pidFile] \in Alive

Verdicts == Verdict(OwnMpv)

\* What a meeting is, whatever the gate makes of it: his own mode, or a
\* meeting app's open microphone that he lets speech yield to.
MeetingNow ==
    \/ meeting > 0
    \/ settings.enabled /\ settings.meetingHold /\ probe = "list" /\ (mic \cap settings.meetingApps) \ OwnApps # {}

\* The plays that wait at the gate.
AtGate == {p \in Plays : pc[p] \in {"gate", "held"}}

\* What the calls in progress on a sink have asked of it.
Asking(s) == {call[c].how : c \in {d \in Callers : call[d].on = s /\ call[d].at # "idle"}} \ {"pause"}

\* Mutant: the flag is not cleared.
KeepsAbort(s) == holdAbort' = holdAbort

\* The hold's beginning: an abort asked before it is not this play's.
ClearsAbort(s) == holdAbort' = [holdAbort EXCEPT ![s] = FALSE]

\* Mutant: no lock.
NoLock(s) == TRUE

LockFree(s) == holder[s] = None

\* The playback lock is taken, and without a hold mpv starts at once.
TakeTurn(p) ==
    LET s == Sink(p) IN
    /\ pc[p] = "idle" /\ process[s] = "up" /\ LockFree(s)
    /\ holder' = [holder EXCEPT ![s] = p]
    /\ IF p \in Holds
       THEN /\ pc' = [pc EXCEPT ![p] = "gate"]
            /\ ClearsAbort(s)
            /\ interrupted' = [interrupted EXCEPT ![s] = FALSE]
       ELSE pc' = [pc EXCEPT ![p] = "start"] /\ UNCHANGED <<holdAbort, interrupted>>
    /\ asked' = [asked EXCEPT ![p] = Asking(s)]
    /\ free' = IF p \in Holds /\ ~MeetingNow THEN free \cup {p} ELSE free
    /\ UNCHANGED <<world, args, waited, outcome, proc, mpv, crashing, pidFile, call, displaced>>

\* Mutant: the time in the queue is not counted.
WholeBudget(p) == settings.maxWait

Budget(p) == IF settings.maxWait > args[p].already THEN settings.maxWait - args[p].already ELSE 0

Return(p, o) ==
    /\ pc' = [pc EXCEPT ![p] = "done"]
    /\ outcome' = [outcome EXCEPT ![p] = o]
    /\ holder' = [holder EXCEPT ![Sink(p)] = None]

\* wait_until_clear: the first look, and the one after every poll.
Look(p) ==
    LET s == Sink(p) IN
    /\ pc[p] = "gate"
    /\ \/ /\ MayPlay(Verdicts)
          /\ pc' = [pc EXCEPT ![p] = "start"]
          /\ UNCHANGED <<outcome, holder, interrupted>>
       \/ /\ Verdicts = "meeting"
          /\ Return(p, "aside") /\ UNCHANGED interrupted
       \/ /\ Verdicts = "sound" /\ holdAbort[s]
          /\ Return(p, "aborted")
          /\ interrupted' = [interrupted EXCEPT ![s] = TRUE]
       \/ /\ Verdicts = "sound" /\ ~holdAbort[s] /\ waited[p] >= Budget(p)
          /\ Return(p, "aside") /\ UNCHANGED interrupted
       \/ /\ Verdicts = "sound" /\ ~holdAbort[s] /\ waited[p] < Budget(p)
          /\ pc' = [pc EXCEPT ![p] = "held"]
          /\ UNCHANGED <<outcome, holder, interrupted>>
    /\ UNCHANGED <<world, args, waited, proc, holdAbort, mpv, crashing, pidFile, call, history>>

\* A poll goes by for every hold that sleeps; a look takes no time.
Poll ==
    /\ AtGate # {} \/ meeting > 0
    /\ \A p \in Plays : pc[p] # "gate"
    /\ TimePasses
    /\ pc' = [p \in Plays |-> IF pc[p] = "held" THEN "gate" ELSE pc[p]]
    /\ waited' = [p \in Plays |-> IF pc[p] = "held" THEN waited[p] + 1 ELSE waited[p]]
    /\ UNCHANGED <<args, outcome, holder, proc, interrupted, holdAbort, mpv, crashing, pidFile, call, asked, displaced>>
    /\ free' = IF ~MeetingNow' THEN free \cup AtGate ELSE free

\* Popen, under the state lock; the pid is written before the lock is let go.
Popen(p) ==
    LET s == Sink(p) IN
    /\ pc[p] = "start"
    /\ pc' = [pc EXCEPT ![p] = "pid"]
    /\ interrupted' = [interrupted EXCEPT ![s] = FALSE]
    /\ proc' = [proc EXCEPT ![s] = p]
    /\ mpv' = [mpv EXCEPT ![p] = "mute"]
    /\ UNCHANGED <<world, args, waited, outcome, holder, holdAbort, crashing, pidFile, call, history>>

WritePid(p) ==
    /\ pc[p] = "pid"
    /\ pc' = [pc EXCEPT ![p] = "wait"]
    /\ pidFile' = p
    /\ displaced' = IF pidFile # None /\ mpv[pidFile] \in Alive THEN displaced \cup {pidFile} ELSE displaced
    /\ UNCHANGED <<world, args, waited, outcome, holder, proc, interrupted, holdAbort, mpv, crashing, call, free, asked>>

\* Mutant: whoever it names.
ForgetsAnyone(p) == proc' = [proc EXCEPT ![Sink(p)] = None] /\ pidFile' = None

\* The sink forgets the mpv it ran: its name leaves the pid file only if the
\* file still names it.
Forget(p) ==
    /\ proc' = [proc EXCEPT ![Sink(p)] = None]
    /\ pidFile' = IF pidFile = p THEN None ELSE pidFile

HowItEnded(p) ==
    IF interrupted[Sink(p)] \/ mpv[p] = "killed" THEN "cut" ELSE IF mpv[p] = "fail" THEN "failed" ELSE "heard"

Finish(p) ==
    /\ pc[p] = "wait" /\ mpv[p] \in Ended
    /\ Return(p, HowItEnded(p)) /\ Forget(p)
    /\ mpv' = [mpv EXCEPT ![p] = "gone"]
    /\ UNCHANGED <<world, args, waited, interrupted, holdAbort, crashing, call, history>>

\* Mutant: only the wall clock is watched.
OnlyTheClock(p) == mpv[p] = "mute"

NoProgress(p) == mpv[p] \in {"stuck", "mute"}

\* _wait_for_exit gives up: no progress for the stall's window, or no
\* position ever read and the wall clock's budget gone.  It interrupts its
\* own play.
GiveUp(p) ==
    LET s == Sink(p) IN
    /\ pc[p] = "wait" /\ NoProgress(p)
    /\ holdAbort' = [holdAbort EXCEPT ![s] = TRUE]
    /\ interrupted' = [interrupted EXCEPT ![s] = TRUE]
    /\ mpv' = [mpv EXCEPT ![p] = "gone"]
    /\ Return(p, "failed") /\ Forget(p)
    /\ UNCHANGED <<world, args, waited, crashing, call, history>>

----------------------------------------------------------------------------
\* mpv, which the sink does not control.

MpvTo(p, from, to) ==
    /\ mpv[p] = from
    /\ mpv' = [mpv EXCEPT ![p] = to]
    /\ UNCHANGED <<world, args, pc, waited, outcome, holder, proc, interrupted, holdAbort, crashing, pidFile,
                   call, history>>

Answers(p) == MpvTo(p, "mute", "plays")
Exits(p) == MpvTo(p, "plays", "exit")
Breaks(p) == MpvTo(p, "plays", "fail") \/ MpvTo(p, "mute", "fail")
Sticks(p) == MpvTo(p, "plays", "stuck")
Resumes(p) == MpvTo(p, "paused", "plays")

----------------------------------------------------------------------------
\* The other threads.

\* A call begins: the play that is the sink's business has been asked it.
Begin(c, s, at, how) ==
    /\ call[c].at = "idle" /\ Event /\ process[s] = "up"
    /\ call' = [call EXCEPT ![c] = [at |-> at, on |-> s, target |-> None, how |-> how]]
    /\ asked' = [p \in Plays |-> IF Running(p) /\ Sink(p) = s /\ how # "pause"
                                 THEN asked[p] \cup {how} ELSE asked[p]]
    /\ UNCHANGED <<around, playing, crashing, pidFile, free, displaced>>

BeginCall(c, s) ==
    \/ Begin(c, s, "abort", "interrupt")
    \/ Begin(c, s, "look", "skip")
    \/ Begin(c, s, "pause", "pause")

Step(c, from, to) == call[c].at = from /\ call' = [call EXCEPT ![c].at = to]

Over(c, from) == call[c].at = from /\ call' = [call EXCEPT ![c] = Idle]

\* The state lock is not held by a play that is starting its mpv.
Unlocked(s) == \A p \in Plays : Sink(p) = s => pc[p] # "pid"

Sounds(s) == proc[s] # None /\ mpv[proc[s]] \in Alive

\* skip: nothing plays, nothing is skipped.
SkipLooks(c) ==
    /\ call[c].at = "look" /\ Unlocked(call[c].on)
    /\ IF Sounds(call[c].on) THEN Step(c, "look", "abort") ELSE Over(c, "look")
    /\ UNCHANGED <<world, playing, crashing, pidFile, history>>

SetAbort(c) ==
    /\ Step(c, "abort", "mark")
    /\ holdAbort' = [holdAbort EXCEPT ![call[c].on] = TRUE]
    /\ UNCHANGED <<world, args, pc, waited, outcome, holder, proc, interrupted, mpv, crashing, pidFile, history>>

\* Under the state lock: the mpv that runs is marked as interrupted ...
Mark(c) ==
    LET s == call[c].on IN
    /\ call[c].at = "mark" /\ Unlocked(s)
    /\ IF Sounds(s)
       THEN /\ interrupted' = [interrupted EXCEPT ![s] = TRUE]
            /\ call' = [call EXCEPT ![c].at = "term", ![c].target = proc[s]]
       ELSE Over(c, "mark") /\ UNCHANGED interrupted
    /\ UNCHANGED <<world, args, pc, waited, outcome, holder, proc, holdAbort, mpv, crashing, pidFile, history>>

Kill(p) == mpv' = IF mpv[p] \in Alive THEN [mpv EXCEPT ![p] = "killed"] ELSE mpv

\* ... and outside it the mpv is ended, by force if it must be.
Terminate(c) ==
    /\ Over(c, "term") /\ Kill(call[c].target)
    /\ UNCHANGED <<world, args, pc, waited, outcome, holder, proc, interrupted, holdAbort, crashing, pidFile, history>>

\* pause: the socket's path is read under the lock and the command sent after
\* it; an mpv that is gone, or does not answer yet, is not paused.
PauseLooks(c) ==
    LET s == call[c].on IN
    /\ call[c].at = "pause" /\ call[c].target = None /\ Unlocked(s)
    /\ call' = IF Sounds(s) THEN [call EXCEPT ![c].target = proc[s]] ELSE [call EXCEPT ![c] = Idle]
    /\ UNCHANGED <<world, playing, crashing, pidFile, history>>

PauseSent(c) ==
    LET p == call[c].target IN
    /\ call[c].at = "pause" /\ p # None
    /\ mpv' = IF mpv[p] = "plays" THEN [mpv EXCEPT ![p] = "paused"] ELSE mpv
    /\ Over(c, "pause")
    /\ UNCHANGED <<world, args, pc, waited, outcome, holder, proc, interrupted, holdAbort, crashing, pidFile, history>>

\* `control stop`, and a prompt of his: the mpv the pid file names is killed,
\* and then the file is removed, whoever it names by then.
StopByPid(c) ==
    /\ call[c].at = "idle" /\ Event /\ pidFile # None
    /\ call' = [call EXCEPT ![c] = [at |-> "unlink", on |-> None, target |-> None, how |-> "pid"]]
    /\ Kill(pidFile)
    /\ asked' = [asked EXCEPT ![pidFile] = @ \cup {"pid"}]
    /\ UNCHANGED <<around, args, pc, waited, outcome, holder, proc, interrupted, holdAbort, crashing, pidFile, free, displaced>>

\* Whoever the file names loses its name.
Unlink ==
    /\ pidFile' = None
    /\ displaced' = IF pidFile # None /\ mpv[pidFile] \in Alive THEN displaced \cup {pidFile} ELSE displaced

UnlinkPid(c) ==
    /\ Over(c, "unlink") /\ Unlink
    /\ UNCHANGED <<world, playing, crashing, free, asked>>

CallStep(c) ==
    \/ SkipLooks(c) \/ SetAbort(c) \/ Mark(c) \/ Terminate(c)
    \/ PauseLooks(c) \/ PauseSent(c) \/ UnlinkPid(c)

----------------------------------------------------------------------------
\* The process is killed outright, and starts again.

Crash(s) ==
    LET mine == {p \in Plays : Sink(p) = s /\ pc[p] \notin {"idle", "done"}} IN
    /\ process[s] = "up" /\ Event
    /\ process' = [process EXCEPT ![s] = "down"]
    /\ orphans' = orphans \cup {p \in mine : mpv[p] \in Alive}
    /\ displaced' = displaced \cup {p \in mine : pc[p] = "pid"}
    /\ pc' = [p \in Plays |-> IF p \in mine THEN "lost" ELSE pc[p]]
    /\ holder' = [holder EXCEPT ![s] = None] /\ proc' = [proc EXCEPT ![s] = None]
    /\ interrupted' = [interrupted EXCEPT ![s] = FALSE] /\ holdAbort' = [holdAbort EXCEPT ![s] = FALSE]
    /\ call' = [c \in Callers |-> IF call[c].on = s THEN Idle ELSE call[c]]
    /\ UNCHANGED <<around, args, waited, outcome, mpv, pidFile, free, asked>>

\* Mutants: any player it finds, or none.
ReapedAnyway(p) == TRUE
NotReaped(p) == FALSE

\* What reap_orphaned_player stops: auto-speech's own player, and only one
\* whose process is gone.
Reaped(p) == p \in orphans

\* As it starts it stops the player the pid file names, if that one is its
\* own and an orphan, and removes a name that is stale; a player another live
\* process runs is left alone, its name with it.
Reap(s) ==
    /\ process[s] = "down"
    /\ IF pidFile # None /\ (OwnMpv => Reaped(pidFile))
       THEN Kill(pidFile) /\ process' = [process EXCEPT ![s] = "reaping"]
       ELSE process' = [process EXCEPT ![s] = "up"] /\ UNCHANGED mpv
    /\ UNCHANGED <<world, args, pc, waited, outcome, holder, proc, interrupted, holdAbort, orphans, pidFile,
                   call, history>>

\* The file it read a moment ago is removed.
Started(s) ==
    /\ process[s] = "reaping"
    /\ process' = [process EXCEPT ![s] = "up"]
    /\ Unlink
    /\ UNCHANGED <<world, playing, orphans, call, free, asked>>

----------------------------------------------------------------------------
\* The world changes under the plays that wait.
Meanwhile ==
    /\ WorldChanges
    /\ UNCHANGED <<playing, crashing, pidFile, call, asked, displaced>>
    /\ free' = IF ~MeetingNow' THEN free \cup AtGate ELSE free

PlayStep(p) ==
    \/ Look(p) \/ Popen(p) \/ WritePid(p) \/ Finish(p) \/ GiveUp(p)

MpvStep(p) == Answers(p) \/ Exits(p) \/ Breaks(p) \/ Sticks(p) \/ Resumes(p)

Next ==
    \/ \E p \in Plays : TakeTurn(p) \/ PlayStep(p) \/ MpvStep(p)
    \/ Poll
    \/ \E c \in Callers : CallStep(c) \/ StopByPid(c) \/ \E s \in Sinks : BeginCall(c, s)
    \/ \E s \in Sinks : Crash(s) \/ Reap(s) \/ Started(s)
    \/ Meanwhile

\* The threads of a live process run, time passes, and a clip that is played
\* comes to its end.
Fairness ==
    /\ \A p \in Plays : WF_vars(PlayStep(p)) /\ WF_vars(Exits(p))
    /\ WF_vars(Poll)
    /\ \A c \in Callers : WF_vars(CallStep(c))

\* Every way an instance may begin: any settings, any sound, any calls.
AnyWorld == WorldTypeOK /\ args \in [Plays -> Args]

SafeSpec == AnyWorld /\ Init /\ [][Next]_vars

----------------------------------------------------------------------------
\* Properties.

\* One sink plays one file at a time, however many threads call it.
OneAtATime ==
    \A p, q \in Plays : p # q /\ Sink(p) = Sink(q) /\ {p, q} \cap orphans = {} =>
        ~(mpv[p] \in Alive /\ mpv[q] \in Alive)

\* An interrupt ends what it was asked to end and nothing later: a play that
\* was cut short, or whose hold was aborted, was the sink's business while an
\* interrupt, a skip or a stop by the pid file was in progress.  The abort
\* flag and the interrupt mark outlive the play they were set for.
OnlyAskedAreCut == \A p \in Plays : outcome[p] \in {"cut", "aborted"} => asked[p] # {}

\* A held play waits no longer than the longest wait, the time it spent in
\* the queue included, whatever he does to the settings meanwhile.
HoldIsBounded ==
    \A p \in Plays : pc[p] = "held" =>
        \E w \in Waits : waited[p] + args[p].already < w

\* Nothing that asks the gate starts in a meeting: a play that sounds met a
\* moment of its wait without one, whether the meeting was found by the
\* microphone or set by hand, with the yield on or off.
MeetingSetsAside == \A p \in Holds : mpv[p] # "none" => p \in free

\* While a play sounds, the shared pid file names it, unless another
\* process's play or removal took its name out.
PidFileNamesIt ==
    \A p \in Plays : pc[p] = "wait" /\ mpv[p] \in Alive => pidFile = p \/ p \in displaced

\* A process that has started again hears nothing of the one before it: the
\* player left behind was stopped, unless its name was not in the file.
NothingLeftBehind ==
    \A p \in orphans : mpv[p] \in Alive /\ process[Sink(p)] = "up" => p \in displaced

\* Starting never stops a player another live process runs.
ReapSparesTheLiving ==
    [][\A s \in Sinks, p \in Plays : process[s] = "down" /\ process'[s] # "down" /\ p \notin orphans
          => mpv'[p] = mpv[p]]_vars

\* Every play comes to an end, whatever mpv does, unless he has paused it or
\* its process was killed.
PlayReturns == \A p \in Plays : Running(p) ~> (pc[p] \in {"done", "lost"} \/ \E q \in Plays : mpv[q] = "paused")
=============================================================================
