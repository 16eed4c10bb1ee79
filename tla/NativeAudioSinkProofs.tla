----------------------- MODULE NativeAudioSinkProofs -----------------------
(***************************************************************************)
(* Theorems about NativeAudioSink, for any number of plays, sinks and      *)
(* callers, any apps and settings, and any bound on events: all the safety *)
(* properties of the sink's run.                                           *)
(*                                                                         *)
(* The argument has four strands, each a part of the inductive invariant.  *)
(* A play past its turn holds its sink's lock in a live process, and only  *)
(* such a play, or an orphan, sounds (OneAtATime).  A call that has begun  *)
(* has asked the play that runs, and a flag or a kill that a running play  *)
(* can still meet was asked of it (OnlyAskedAreCut).  A play at the gate   *)
(* met a moment without a meeting, or there is one now (MeetingSetsAside). *)
(* The pid file names the play that sounds, and an orphan until its        *)
(* process starts again (PidFileNamesIt, NothingLeftBehind).               *)
(***************************************************************************)
EXTENDS NativeAudioSink, TLAPS

\* A play past its turn has its sink's lock, in a process that lives.
HasTurn == \A p \in Plays : Running(p) => holder[Sink(p)] = p /\ process[Sink(p)] = "up"

\* What sounds is a play that waits for its mpv, or an orphan.
Sounding == \A p \in Plays : mpv[p] \in Alive => pc[p] \in {"pid", "wait"} \/ p \in orphans

\* An orphan's call of play is over with its process.
OrphansLost == \A p \in orphans : pc[p] = "lost"

\* A sink's mpv is that of a play of its own.
ProcIsMine == \A s \in Sinks : proc[s] # None => Sink(proc[s]) = s

Cutting == {"look", "abort", "mark", "term"}

\* A call that may cut something names its sink, and what it terminates is
\* that sink's.
CallNames ==
    \A c \in Callers : call[c].at \in Cutting =>
        /\ call[c].on # None /\ call[c].how \in {"interrupt", "skip"}
        /\ call[c].at = "term" => call[c].target # None /\ Sink(call[c].target) = call[c].on

\* A call to a sink is one of its three, and a pause has a sink.
CallKinds ==
    \A c \in Callers :
        /\ call[c].on # None => call[c].how \in {"interrupt", "skip", "pause"}
        /\ call[c].at = "pause" => call[c].on # None

\* Every play that runs was asked whatever its sink is being asked.
CallAsked ==
    \A c \in Callers, p \in Plays :
        call[c].at \in Cutting /\ Running(p) /\ call[c].on = Sink(p) => asked[p] # {}

\* A mark, a kill or an abort a running play can still meet was asked of it.
MarkAsked ==
    \A p \in Plays :
        /\ pc[p] \in {"pid", "wait"} /\ (interrupted[Sink(p)] \/ mpv[p] = "killed") => asked[p] # {}
        /\ pc[p] \in {"gate", "held"} /\ holdAbort[Sink(p)] => asked[p] # {}

\* A play that ended is done.
OutcomeDone == \A p \in Plays : outcome[p] # None => pc[p] = "done"

\* A play at the gate met a moment without a meeting, or there is one.
MetFree ==
    \A p \in Holds :
        /\ pc[p] \in {"gate", "held"} => p \in free \/ MeetingNow
        /\ pc[p] = "start" => p \in free

\* The orphan of a process that is down is the one the pid file names.
OrphanNamed ==
    \A p \in orphans : mpv[p] \in Alive /\ p \notin displaced => pidFile = p /\ process[Sink(p)] = "down"

\* The inductive invariant.
IInv ==
    /\ TypeOK
    /\ HasTurn /\ Sounding /\ OrphansLost /\ ProcIsMine
    /\ CallKinds /\ CallNames /\ CallAsked /\ MarkAsked /\ OutcomeDone /\ OnlyAskedAreCut
    /\ MetFree /\ MeetingSetsAside /\ HoldIsBounded
    /\ PidFileNamesIt /\ OrphanNamed

----------------------------------------------------------------------------
\* The types, a group of variables at a time.

PlaysTyped ==
    /\ args \in [Plays -> Args]
    /\ pc \in [Plays -> Steps] /\ waited \in [Plays -> Nat]
    /\ outcome \in [Plays -> {None, "heard", "cut", "aborted", "aside", "failed"}]
    /\ mpv \in [Plays -> Alive \cup Ended \cup {"none", "gone"}]

SinksTyped ==
    /\ holder \in [Sinks -> Plays \cup {None}] /\ proc \in [Sinks -> Plays \cup {None}]
    /\ interrupted \in [Sinks -> BOOLEAN] /\ holdAbort \in [Sinks -> BOOLEAN]
    /\ process \in [Sinks -> {"up", "down", "reaping"}]

RestTyped ==
    /\ orphans \subseteq Plays /\ pidFile \in Plays \cup {None}
    /\ free \subseteq Plays /\ displaced \subseteq Plays
    /\ asked \in [Plays -> SUBSET {"interrupt", "skip", "pid"}]

CallsTyped == call \in [Callers -> Calls]

\* The type invariant is the five groups.
LEMMA Groups == TypeOK <=> WorldTypeOK /\ PlaysTyped /\ SinksTyped /\ RestTyped /\ CallsTyped
BY DEF TypeOK, PlaysTyped, SinksTyped, RestTyped, CallsTyped

\* A play's sink is a sink.
LEMMA SinkOf ==
    ASSUME PlaysTyped, NEW p \in Plays
    PROVE  Sink(p) \in Sinks /\ args[p].already \in Nat
BY SinkAssumption DEF PlaysTyped, Args, Sink

\* What a call holds.
LEMMA CallFields ==
    ASSUME CallsTyped, NEW c \in Callers
    PROVE  /\ call[c].on \in Sinks \cup {None} /\ call[c].target \in Plays \cup {None}
           /\ call[c].how \in {"interrupt", "skip", "pause", "pid", None}
BY DEF CallsTyped, Calls

\* Each sink's lock, mpv and flags keep their types.
LEMMA SinksKept ==
    ASSUME SinksTyped, PlaysTyped, CallsTyped, Next
    PROVE  SinksTyped'
<1> USE DEF SinksTyped, world, around, playing, crashing, history
<1>1. ASSUME NEW p \in Plays, TakeTurn(p) PROVE SinksTyped'
  BY <1>1, SinkOf, CallFields DEF TakeTurn, ClearsAbort, Asking, LockFree
<1>2. ASSUME NEW p \in Plays, Look(p) PROVE SinksTyped'
  BY <1>2, SinkOf, CallFields DEF Look, Return
<1>3. ASSUME NEW p \in Plays, Popen(p) PROVE SinksTyped'
  BY <1>3, SinkOf, CallFields DEF Popen
<1>4. ASSUME NEW p \in Plays, Finish(p) PROVE SinksTyped'
  BY <1>4, SinkOf, CallFields DEF Finish, Return, Forget, HowItEnded
<1>5. ASSUME NEW p \in Plays, GiveUp(p) PROVE SinksTyped'
  BY <1>5, SinkOf, CallFields DEF GiveUp, Return, Forget
<1>6. ASSUME NEW c \in Callers, SetAbort(c) PROVE SinksTyped'
  BY <1>6, SinkOf, CallFields DEF SetAbort, Step
<1>7. ASSUME NEW c \in Callers, Mark(c) PROVE SinksTyped'
  BY <1>7, SinkOf, CallFields DEF Mark, Over, Sounds, Step
<1>8. ASSUME NEW s \in Sinks, Crash(s) PROVE SinksTyped'
  BY <1>8, SinkOf, CallFields DEF Crash, Event
<1>9. ASSUME NEW s \in Sinks, Reap(s) PROVE SinksTyped'
  BY <1>9, SinkOf, CallFields DEF Reap, Kill, Reaped, OwnMpv
<1>10. ASSUME NEW s \in Sinks, Started(s) PROVE SinksTyped'
  BY <1>10, SinkOf, CallFields DEF Started, Unlink
<1>11. CASE UNCHANGED <<holder, proc, interrupted, holdAbort, process>>
  BY <1>11
<1> QED BY <1>1, <1>2, <1>3, <1>4, <1>5, <1>6, <1>7, <1>8, <1>9, <1>10, <1>11
       DEF Next, PlayStep, CallStep, WritePid, MpvStep, MpvTo, Answers, Exits, Breaks, Sticks,
           Resumes, Poll, TimePasses, SkipLooks, Terminate, PauseLooks, PauseSent, UnlinkPid,
           StopByPid, BeginCall, Begin, Meanwhile

\* Each play's place, wait, outcome and mpv keep their types.
LEMMA PlaysKept ==
    ASSUME PlaysTyped, Next
    PROVE  PlaysTyped'
<1> USE DEF PlaysTyped, world, around, playing, crashing, history, Steps, Alive, Ended
<1>1. ASSUME NEW p \in Plays, TakeTurn(p) PROVE PlaysTyped'
  BY <1>1 DEF TakeTurn, ClearsAbort, Asking, LockFree
<1>2. ASSUME NEW p \in Plays, Look(p) PROVE PlaysTyped'
  BY <1>2 DEF Look, Return
<1>3. ASSUME NEW p \in Plays, Popen(p) PROVE PlaysTyped'
  BY <1>3 DEF Popen
<1>4. ASSUME NEW p \in Plays, WritePid(p) PROVE PlaysTyped'
  BY <1>4 DEF WritePid
<1>5. ASSUME NEW p \in Plays, Finish(p) PROVE PlaysTyped'
  BY <1>5 DEF Finish, Return, Forget, HowItEnded
<1>6. ASSUME NEW p \in Plays, GiveUp(p) PROVE PlaysTyped'
  BY <1>6 DEF GiveUp, Return, Forget
<1>7. ASSUME NEW p \in Plays, MpvStep(p) PROVE PlaysTyped'
  BY <1>7 DEF MpvStep, MpvTo, Answers, Exits, Breaks, Sticks, Resumes
<1>8. CASE Poll
  BY <1>8 DEF Poll, TimePasses
<1>9. ASSUME NEW c \in Callers, Terminate(c) PROVE PlaysTyped'
  BY <1>9 DEF Terminate, Over, Kill
<1>10. ASSUME NEW c \in Callers, PauseSent(c) PROVE PlaysTyped'
  BY <1>10 DEF PauseSent, Over
<1>11. ASSUME NEW c \in Callers, StopByPid(c) PROVE PlaysTyped'
  BY <1>11 DEF StopByPid, Kill, Event
<1>12. ASSUME NEW s \in Sinks, Crash(s) PROVE PlaysTyped'
  BY <1>12 DEF Crash, Event
<1>13. ASSUME NEW s \in Sinks, Reap(s) PROVE PlaysTyped'
  BY <1>13 DEF Reap, Kill, Reaped, OwnMpv
<1>14. CASE UNCHANGED <<args, pc, waited, outcome, mpv>>
  BY <1>14
<1> QED BY <1>1, <1>2, <1>3, <1>4, <1>5, <1>6, <1>7, <1>8, <1>9, <1>10, <1>11, <1>12, <1>13,
           <1>14
       DEF Next, PlayStep, CallStep, SkipLooks, SetAbort, Mark, PauseLooks, UnlinkPid,
           BeginCall, Begin, Started, Meanwhile

\* The pid file and the histories keep their types: what is asked has a name.
LEMMA RestKept ==
    ASSUME RestTyped, PlaysTyped, CallsTyped, SinksTyped, CallKinds, Next
    PROVE  RestTyped'
<1> USE DEF RestTyped, world, around, playing, crashing, history
<1>1. ASSUME NEW p \in Plays, TakeTurn(p) PROVE RestTyped'
  BY <1>1, SinkOf, CallFields, SinkAssumption DEF TakeTurn, ClearsAbort, Asking, LockFree, CallKinds
<1>2. ASSUME NEW p \in Plays, WritePid(p) PROVE RestTyped'
  BY <1>2, SinkOf, CallFields DEF WritePid
<1>3. ASSUME NEW p \in Plays, Finish(p) PROVE RestTyped'
  BY <1>3, SinkOf, CallFields DEF Finish, Return, Forget, HowItEnded
<1>4. ASSUME NEW p \in Plays, GiveUp(p) PROVE RestTyped'
  BY <1>4, SinkOf, CallFields DEF GiveUp, Return, Forget
<1>5. CASE Poll
  BY <1>5, SinkOf, CallFields DEF Poll, TimePasses, AtGate
<1>6. ASSUME NEW c \in Callers, UnlinkPid(c) PROVE RestTyped'
  BY <1>6, SinkOf, CallFields DEF UnlinkPid, Over, Unlink
<1>7. ASSUME NEW c \in Callers, StopByPid(c) PROVE RestTyped'
  BY <1>7, SinkOf, CallFields, SinkAssumption DEF StopByPid, Kill, Event
<1>8. ASSUME NEW c \in Callers, NEW s \in Sinks, BeginCall(c, s) PROVE RestTyped'
  BY <1>8, SinkOf, CallFields DEF BeginCall, Begin, Event
<1>9. ASSUME NEW s \in Sinks, Crash(s) PROVE RestTyped'
  BY <1>9, SinkOf, CallFields DEF Crash, Event
<1>10. ASSUME NEW s \in Sinks, Started(s) PROVE RestTyped'
  BY <1>10, SinkOf, CallFields DEF Started, Unlink
<1>11. CASE Meanwhile
  BY <1>11, SinkOf, CallFields DEF Meanwhile, AtGate
<1>12. CASE UNCHANGED <<orphans, pidFile, free, displaced, asked>>
  BY <1>12
<1> QED BY <1>1, <1>2, <1>3, <1>4, <1>5, <1>6, <1>7, <1>8, <1>9, <1>10, <1>11, <1>12
       DEF Next, PlayStep, CallStep, Look, Popen, MpvStep, MpvTo, Answers, Exits, Breaks,
           Sticks, Resumes, SkipLooks, SetAbort, Mark, Terminate, PauseLooks, PauseSent, Reap

\* A call's record stays one: what it terminates is what its sink runs.
LEMMA CallsKept ==
    ASSUME CallsTyped, SinksTyped, PlaysTyped, CallKinds, CallNames, Next
    PROVE  CallsTyped'
<1> USE DEF CallsTyped, Calls, Idle, world, around, playing, crashing, history
<1>1. ASSUME NEW c \in Callers, SkipLooks(c) PROVE CallsTyped'
  BY <1>1, CallFields DEF SkipLooks, Step, Over
<1>2. ASSUME NEW c \in Callers, SetAbort(c) PROVE CallsTyped'
  BY <1>2, CallFields DEF SetAbort, Step
<1>3. ASSUME NEW c \in Callers, Mark(c) PROVE CallsTyped'
  BY <1>3, CallFields DEF Mark, Over, Sounds, Step, SinksTyped, CallKinds, CallNames, Cutting
<1>4. ASSUME NEW c \in Callers, Terminate(c) PROVE CallsTyped'
  BY <1>4, CallFields DEF Terminate, Over, Kill
<1>5. ASSUME NEW c \in Callers, PauseLooks(c) PROVE CallsTyped'
  BY <1>5, CallFields DEF PauseLooks, Sounds, SinksTyped, CallKinds, CallNames, Cutting
<1>6. ASSUME NEW c \in Callers, PauseSent(c) PROVE CallsTyped'
  BY <1>6, CallFields DEF PauseSent, Over
<1>7. ASSUME NEW c \in Callers, UnlinkPid(c) PROVE CallsTyped'
  BY <1>7, CallFields DEF UnlinkPid, Over, Unlink
<1>8. ASSUME NEW c \in Callers, StopByPid(c) PROVE CallsTyped'
  BY <1>8, CallFields DEF StopByPid, Kill, Event
<1>9. ASSUME NEW c \in Callers, NEW s \in Sinks, BeginCall(c, s) PROVE CallsTyped'
  BY <1>9, CallFields DEF BeginCall, Begin, Event
<1>10. ASSUME NEW s \in Sinks, Crash(s) PROVE CallsTyped'
  BY <1>10, CallFields DEF Crash, Event
<1>11. CASE UNCHANGED <<call>>
  BY <1>11
<1> QED BY <1>1, <1>2, <1>3, <1>4, <1>5, <1>6, <1>7, <1>8, <1>9, <1>10, <1>11
       DEF Next, PlayStep, CallStep, TakeTurn, Look, Popen, WritePid, Finish, GiveUp, MpvStep,
           MpvTo, Answers, Exits, Breaks, Sticks, Resumes, Poll, TimePasses, Reap, Started,
           Meanwhile


\* A setting changed by him is still well formed.
LEMMA SettingsKept ==
    ASSUME WorldTypeOK, NEW a \in Apps, RunAction(a)
    PROVE  settings' \in Settings
<1>1. Verb(a) \subseteq Settings
  <2>1. /\ [settings EXCEPT !.enabled = ~@] \in Settings
        /\ [settings EXCEPT !.holdFor = "any"] \in Settings
        /\ [settings EXCEPT !.holdFor = "players"] \in Settings
    BY DEF WorldTypeOK, Settings
  <2>2. ASSUME NEW x \in SUBSET Apps
        PROVE  [settings EXCEPT !.exceptions = x] \in Settings
    BY DEF WorldTypeOK, Settings
  <2>3. ASSUME NEW x \in SUBSET Apps
        PROVE  [settings EXCEPT !.players = x] \in Settings
    BY DEF WorldTypeOK, Settings
  <2>4. settings.exceptions \subseteq Apps /\ settings.players \subseteq Apps
    BY DEF WorldTypeOK, Settings
  <2>5. /\ [settings EXCEPT !.exceptions = Merge(@, {a})] \in Settings
        /\ [settings EXCEPT !.exceptions = Drop(@, {a})] \in Settings
        /\ [settings EXCEPT !.exceptions = {}] \in Settings
    BY <2>2, <2>4 DEF Merge, Drop
  <2>6. /\ [settings EXCEPT !.players = DefaultPlayers] \in Settings
        /\ [settings EXCEPT !.players = Merge(@, {a})] \in Settings
        /\ [settings EXCEPT !.players = Drop(@, {a})] \in Settings
    BY <2>3, <2>4, YieldAssumption DEF Merge, Drop
  <2> QED BY <2>1, <2>5, <2>6 DEF Verb
<1>2. Edited \subseteq Settings
  <2>1. ASSUME NEW w \in Waits
        PROVE  [settings EXCEPT !.maxWait = w] \in Settings
    BY DEF WorldTypeOK, Settings
  <2>2. [settings EXCEPT !.meetingHold = ~@] \in Settings
    BY DEF WorldTypeOK, Settings
  <2> QED BY <2>1, <2>2 DEF Edited
<1> QED BY <1>1, <1>2 DEF RunAction

\* Events are bounded.
LEMMA EventCounts == WorldTypeOK /\ Event => events' \in 0..MaxEvents
BY YieldAssumption DEF WorldTypeOK, Event

\* Whatever changes around the sinks is well typed.
LEMMA ChangesKeepWorld == WorldTypeOK /\ WorldChanges => WorldTypeOK'
<1> SUFFICES ASSUME WorldTypeOK, WorldChanges PROVE WorldTypeOK'
  OBVIOUS
<1>1. ASSUME NEW a \in Apps, AppChanges(a) PROVE WorldTypeOK'
  BY <1>1, EventCounts DEF AppChanges, WorldTypeOK
<1>2. ASSUME NEW a \in Apps, RunAction(a) PROVE WorldTypeOK'
  BY <1>2, EventCounts, SettingsKept DEF RunAction, WorldTypeOK
<1>3. CASE ProbeChanges
  BY <1>3, EventCounts DEF ProbeChanges, WorldTypeOK
<1>4. ASSUME NEW n \in 1..MaxMeeting, MeetingOn(n) PROVE WorldTypeOK'
  BY <1>4, EventCounts, YieldAssumption DEF MeetingOn, WorldTypeOK
<1>5. CASE MeetingOff
  BY <1>5, EventCounts, YieldAssumption DEF MeetingOff, WorldTypeOK
<1> QED BY <1>1, <1>2, <1>3, <1>4, <1>5 DEF WorldChanges

\* The world around the sinks keeps its types.
LEMMA WorldKept ==
    ASSUME WorldTypeOK, Next
    PROVE  WorldTypeOK'
<1> USE DEF world, around, playing, crashing, history
<1>1. CASE Poll
  BY <1>1, YieldAssumption DEF Poll, TimePasses, WorldTypeOK
<1>2. ASSUME NEW c \in Callers, StopByPid(c) PROVE WorldTypeOK'
  BY <1>2, EventCounts DEF StopByPid, WorldTypeOK
<1>3. ASSUME NEW c \in Callers, NEW s \in Sinks, BeginCall(c, s) PROVE WorldTypeOK'
  BY <1>3, EventCounts DEF BeginCall, Begin, WorldTypeOK
<1>4. ASSUME NEW s \in Sinks, Crash(s) PROVE WorldTypeOK'
  BY <1>4, EventCounts DEF Crash, WorldTypeOK
<1>5. CASE Meanwhile
  BY <1>5, ChangesKeepWorld DEF Meanwhile
<1>6. CASE UNCHANGED <<settings, out, mic, probe, meeting, events>>
  BY <1>6 DEF WorldTypeOK
<1> QED BY <1>1, <1>2, <1>3, <1>4, <1>5, <1>6
       DEF Next, PlayStep, CallStep, TakeTurn, Look, Popen, WritePid, Finish, GiveUp, MpvStep,
           MpvTo, Answers, Exits, Breaks, Sticks, Resumes, SkipLooks, SetAbort, Mark,
           Terminate, PauseLooks, PauseSent, UnlinkPid, Reap, Started

\* A turn is taken when the lock is free, and the lock is let go with the turn.
LEMMA HasTurnKept ==
    ASSUME PlaysTyped, SinksTyped, RestTyped, CallsTyped, HasTurn, Next
    PROVE  HasTurn'
<1> USE DEF HasTurn, world, around, playing, crashing, history, PlaysTyped, SinksTyped,
        Running, Sink
<1>1. ASSUME NEW p \in Plays, TakeTurn(p) PROVE HasTurn'
  BY <1>1, SinkOf, SinkAssumption DEF TakeTurn, ClearsAbort, Asking, LockFree
<1>2. ASSUME NEW p \in Plays, Look(p) PROVE HasTurn'
  BY <1>2, SinkOf, SinkAssumption DEF Look, Return
<1>3. ASSUME NEW p \in Plays, Popen(p) PROVE HasTurn'
  BY <1>3, SinkOf, SinkAssumption DEF Popen
<1>4. ASSUME NEW p \in Plays, WritePid(p) PROVE HasTurn'
  BY <1>4, SinkOf, SinkAssumption DEF WritePid
<1>5. ASSUME NEW p \in Plays, Finish(p) PROVE HasTurn'
  BY <1>5, SinkOf, SinkAssumption DEF Finish, Return, Forget, HowItEnded
<1>6. ASSUME NEW p \in Plays, GiveUp(p) PROVE HasTurn'
  BY <1>6, SinkOf, SinkAssumption DEF GiveUp, Return, Forget
<1>7. CASE Poll
  BY <1>7, SinkOf, SinkAssumption DEF Poll, TimePasses
<1>8. ASSUME NEW s \in Sinks, Crash(s) PROVE HasTurn'
  BY <1>8, SinkOf, SinkAssumption DEF Crash, Event
<1>9. ASSUME NEW s \in Sinks, Reap(s) PROVE HasTurn'
  BY <1>9, SinkOf, SinkAssumption DEF Reap, Kill, Reaped, OwnMpv
<1>10. ASSUME NEW s \in Sinks, Started(s) PROVE HasTurn'
  BY <1>10, SinkOf, SinkAssumption DEF Started, Unlink
<1>11. CASE UNCHANGED <<args, pc, holder, process>>
  BY <1>11
<1> QED BY <1>1, <1>2, <1>3, <1>4, <1>5, <1>6, <1>7, <1>8, <1>9, <1>10, <1>11
       DEF Next, PlayStep, CallStep, MpvStep, MpvTo, Answers, Exits, Breaks, Sticks, Resumes,
           SkipLooks, SetAbort, Mark, Terminate, PauseLooks, PauseSent, UnlinkPid, StopByPid,
           BeginCall, Begin, Meanwhile

\* Only a play that has its turn starts an mpv, and a crash makes it an orphan.
LEMMA SoundingKept ==
    ASSUME PlaysTyped, SinksTyped, RestTyped, CallsTyped, Sounding, Next
    PROVE  Sounding'
<1> USE DEF Sounding, world, around, playing, crashing, history, PlaysTyped, SinksTyped, Sink,
        Running, Alive, Ended
<1>1. ASSUME NEW p \in Plays, TakeTurn(p) PROVE Sounding'
  BY <1>1, SinkOf DEF TakeTurn, ClearsAbort, Asking, LockFree
<1>2. ASSUME NEW p \in Plays, Look(p) PROVE Sounding'
  BY <1>2, SinkOf DEF Look, Return
<1>3. ASSUME NEW p \in Plays, Popen(p) PROVE Sounding'
  BY <1>3, SinkOf DEF Popen
<1>4. ASSUME NEW p \in Plays, WritePid(p) PROVE Sounding'
  BY <1>4, SinkOf DEF WritePid
<1>5. ASSUME NEW p \in Plays, Finish(p) PROVE Sounding'
  BY <1>5, SinkOf DEF Finish, Return, Forget, HowItEnded
<1>6. ASSUME NEW p \in Plays, GiveUp(p) PROVE Sounding'
  BY <1>6, SinkOf DEF GiveUp, Return, Forget, NoProgress
<1>7. ASSUME NEW p \in Plays, MpvStep(p) PROVE Sounding'
  BY <1>7, SinkOf DEF MpvStep, MpvTo, Answers, Exits, Breaks, Sticks, Resumes
<1>8. CASE Poll
  BY <1>8, SinkOf DEF Poll, TimePasses
<1>9. ASSUME NEW c \in Callers, Terminate(c) PROVE Sounding'
  BY <1>9, SinkOf DEF Terminate, Over, Kill
<1>10. ASSUME NEW c \in Callers, PauseSent(c) PROVE Sounding'
  BY <1>10, SinkOf DEF PauseSent, Over
<1>11. ASSUME NEW c \in Callers, StopByPid(c) PROVE Sounding'
  BY <1>11, SinkOf DEF StopByPid, Kill, Event
<1>12. ASSUME NEW s \in Sinks, Crash(s) PROVE Sounding'
  BY <1>12, SinkOf DEF Crash, Event
<1>13. ASSUME NEW s \in Sinks, Reap(s) PROVE Sounding'
  BY <1>13, SinkOf DEF Reap, Kill, Reaped, OwnMpv
<1>14. CASE UNCHANGED <<mpv, pc, orphans>>
  BY <1>14
<1> QED BY <1>1, <1>2, <1>3, <1>4, <1>5, <1>6, <1>7, <1>8, <1>9, <1>10, <1>11, <1>12, <1>13,
           <1>14
       DEF Next, PlayStep, CallStep, SkipLooks, SetAbort, Mark, PauseLooks, UnlinkPid,
           BeginCall, Begin, Started, Meanwhile

\* A lost call takes no further step.
LEMMA OrphansLostKept ==
    ASSUME PlaysTyped, SinksTyped, RestTyped, CallsTyped, OrphansLost, Sounding, Next
    PROVE  OrphansLost'
<1> USE DEF OrphansLost, world, around, playing, crashing, history, PlaysTyped, SinksTyped,
        RestTyped, Running
<1>1. ASSUME NEW p \in Plays, TakeTurn(p) PROVE OrphansLost'
  BY <1>1, SinkOf DEF TakeTurn, ClearsAbort, Asking, LockFree
<1>2. ASSUME NEW p \in Plays, Look(p) PROVE OrphansLost'
  BY <1>2, SinkOf DEF Look, Return
<1>3. ASSUME NEW p \in Plays, Popen(p) PROVE OrphansLost'
  BY <1>3, SinkOf DEF Popen
<1>4. ASSUME NEW p \in Plays, WritePid(p) PROVE OrphansLost'
  BY <1>4, SinkOf DEF WritePid
<1>5. ASSUME NEW p \in Plays, Finish(p) PROVE OrphansLost'
  BY <1>5, SinkOf DEF Finish, Return, Forget, HowItEnded, Alive
<1>6. ASSUME NEW p \in Plays, GiveUp(p) PROVE OrphansLost'
  BY <1>6, SinkOf DEF GiveUp, Return, Forget
<1>7. CASE Poll
  BY <1>7, SinkOf DEF Poll, TimePasses
<1>8. ASSUME NEW s \in Sinks, Crash(s) PROVE OrphansLost'
  BY <1>8, SinkOf DEF Crash, Event, Sounding
<1>9. CASE UNCHANGED <<orphans, pc>>
  BY <1>9
<1> QED BY <1>1, <1>2, <1>3, <1>4, <1>5, <1>6, <1>7, <1>8, <1>9
       DEF Next, PlayStep, CallStep, MpvStep, MpvTo, Answers, Exits, Breaks, Sticks, Resumes,
           SkipLooks, SetAbort, Mark, Terminate, PauseLooks, PauseSent, UnlinkPid, StopByPid,
           BeginCall, Begin, Reap, Started, Meanwhile

\* A sink's mpv is set by a play of its own.
LEMMA ProcIsMineKept ==
    ASSUME PlaysTyped, SinksTyped, RestTyped, CallsTyped, ProcIsMine, HasTurn, Next
    PROVE  ProcIsMine'
<1> USE DEF ProcIsMine, world, around, playing, crashing, history, SinksTyped, PlaysTyped, Sink
<1>1. ASSUME NEW p \in Plays, Popen(p) PROVE ProcIsMine'
  BY <1>1, SinkOf DEF Popen
<1>2. ASSUME NEW p \in Plays, Finish(p) PROVE ProcIsMine'
  BY <1>2, SinkOf DEF Finish, Return, Forget, HowItEnded
<1>3. ASSUME NEW p \in Plays, GiveUp(p) PROVE ProcIsMine'
  BY <1>3, SinkOf DEF GiveUp, Return, Forget
<1>4. ASSUME NEW s \in Sinks, Crash(s) PROVE ProcIsMine'
  BY <1>4, SinkOf DEF Crash, Event
<1>5. CASE UNCHANGED <<proc, args>>
  BY <1>5
<1> QED BY <1>1, <1>2, <1>3, <1>4, <1>5
       DEF Next, PlayStep, CallStep, TakeTurn, Look, WritePid, MpvStep, MpvTo, Answers, Exits,
           Breaks, Sticks, Resumes, Poll, TimePasses, SkipLooks, SetAbort, Mark, Terminate,
           PauseLooks, PauseSent, UnlinkPid, StopByPid, BeginCall, Begin, Reap, Started,
           Meanwhile

\* Calls begin in three ways.
LEMMA CallKindsKept ==
    ASSUME PlaysTyped, SinksTyped, RestTyped, CallsTyped, CallKinds, Next
    PROVE  CallKinds'
<1> USE DEF CallKinds, world, around, playing, crashing, history, Idle, CallsTyped
<1>1. ASSUME NEW c \in Callers, SkipLooks(c) PROVE CallKinds'
  <2>1. CASE Step(c, "look", "abort")
    BY <2>1 DEF Step
  <2>2. CASE Over(c, "look")
    BY <2>2 DEF Over
  <2> QED BY <1>1, <2>1, <2>2 DEF SkipLooks
<1>2. ASSUME NEW c \in Callers, SetAbort(c) PROVE CallKinds'
  BY <1>2, CallFields, SinkAssumption DEF SetAbort, Step
<1>3. ASSUME NEW c \in Callers, Mark(c) PROVE CallKinds'
  <2>1. CASE call' = [call EXCEPT ![c].at = "term", ![c].target = proc[call[c].on]]
    BY <2>1, <1>3 DEF Mark
  <2>2. CASE Over(c, "mark")
    BY <2>2 DEF Over
  <2> QED BY <1>3, <2>1, <2>2 DEF Mark
<1>4. ASSUME NEW c \in Callers, Terminate(c) PROVE CallKinds'
  BY <1>4, CallFields, SinkAssumption DEF Terminate, Over, Kill
<1>5. ASSUME NEW c \in Callers, PauseLooks(c) PROVE CallKinds'
  BY <1>5, CallFields, SinkAssumption DEF PauseLooks, Sounds
<1>6. ASSUME NEW c \in Callers, PauseSent(c) PROVE CallKinds'
  BY <1>6, CallFields, SinkAssumption DEF PauseSent, Over
<1>7. ASSUME NEW c \in Callers, UnlinkPid(c) PROVE CallKinds'
  BY <1>7, CallFields, SinkAssumption DEF UnlinkPid, Over, Unlink
<1>8. ASSUME NEW c \in Callers, StopByPid(c) PROVE CallKinds'
  BY <1>8, CallFields, SinkAssumption DEF StopByPid, Kill, Event
<1>9. ASSUME NEW c \in Callers, NEW s \in Sinks, BeginCall(c, s) PROVE CallKinds'
  BY <1>9, CallFields, SinkAssumption DEF BeginCall, Begin, Event
<1>10. ASSUME NEW s \in Sinks, Crash(s) PROVE CallKinds'
  BY <1>10, CallFields, SinkAssumption DEF Crash, Event
<1>11. CASE UNCHANGED <<call>>
  BY <1>11
<1> QED BY <1>1, <1>2, <1>3, <1>4, <1>5, <1>6, <1>7, <1>8, <1>9, <1>10, <1>11
       DEF Next, PlayStep, CallStep, TakeTurn, Look, Popen, WritePid, Finish, GiveUp, MpvStep,
           MpvTo, Answers, Exits, Breaks, Sticks, Resumes, Poll, TimePasses, Reap, Started,
           Meanwhile

\* A call that marks an mpv has read it off its own sink.
LEMMA CallNamesKept ==
    ASSUME PlaysTyped, SinksTyped, RestTyped, CallsTyped, CallNames, CallKinds, ProcIsMine, Next
    PROVE  CallNames'
<1> USE DEF CallNames, world, around, playing, crashing, history, Idle, CallsTyped, Calls,
        Cutting, SinksTyped, Sink
<1>1. ASSUME NEW c \in Callers, SkipLooks(c) PROVE CallNames'
  BY <1>1, CallFields, SinkAssumption, SinkOf DEF SkipLooks, Step, Over, CallKinds
<1>2. ASSUME NEW c \in Callers, SetAbort(c) PROVE CallNames'
  BY <1>2, CallFields, SinkAssumption, SinkOf DEF SetAbort, Step
<1>3. ASSUME NEW c \in Callers, Mark(c) PROVE CallNames'
  BY <1>3, CallFields, SinkAssumption, SinkOf DEF Mark, Over, Sounds, Step, ProcIsMine
<1>4. ASSUME NEW c \in Callers, Terminate(c) PROVE CallNames'
  BY <1>4, CallFields, SinkAssumption, SinkOf DEF Terminate, Over, Kill
<1>5. ASSUME NEW c \in Callers, PauseLooks(c) PROVE CallNames'
  BY <1>5, CallFields, SinkAssumption, SinkOf DEF PauseLooks, Sounds
<1>6. ASSUME NEW c \in Callers, PauseSent(c) PROVE CallNames'
  BY <1>6, CallFields, SinkAssumption, SinkOf DEF PauseSent, Over
<1>7. ASSUME NEW c \in Callers, UnlinkPid(c) PROVE CallNames'
  BY <1>7, CallFields, SinkAssumption, SinkOf DEF UnlinkPid, Over, Unlink
<1>8. ASSUME NEW c \in Callers, StopByPid(c) PROVE CallNames'
  BY <1>8, CallFields, SinkAssumption, SinkOf DEF StopByPid, Kill, Event
<1>9. ASSUME NEW c \in Callers, NEW s \in Sinks, BeginCall(c, s) PROVE CallNames'
  BY <1>9, CallFields, SinkAssumption, SinkOf DEF BeginCall, Begin, Event
<1>10. ASSUME NEW s \in Sinks, Crash(s) PROVE CallNames'
  BY <1>10, CallFields, SinkAssumption, SinkOf DEF Crash, Event
<1>11. CASE UNCHANGED <<call, args>>
  BY <1>11
<1> QED BY <1>1, <1>2, <1>3, <1>4, <1>5, <1>6, <1>7, <1>8, <1>9, <1>10, <1>11
       DEF Next, PlayStep, CallStep, TakeTurn, Look, Popen, WritePid, Finish, GiveUp, MpvStep,
           MpvTo, Answers, Exits, Breaks, Sticks, Resumes, Poll, TimePasses, Reap, Started,
           Meanwhile

\* A call asks what runs as it begins, and a play asks what is going on as it takes its turn.
LEMMA CallAskedKept ==
    ASSUME PlaysTyped, SinksTyped, RestTyped, CallsTyped, CallAsked, CallNames, CallKinds, Next
    PROVE  CallAsked'
<1> USE DEF CallAsked, world, around, playing, crashing, history, PlaysTyped, SinksTyped,
        RestTyped, CallsTyped, Calls, Idle, Cutting, Sink, Running
<1>1. ASSUME NEW p \in Plays, TakeTurn(p) PROVE CallAsked'
  <2> SUFFICES ASSUME NEW d \in Callers, NEW q \in Plays, call[d].at \in Cutting,
                      (Running(q))', call[d].on = Sink(q)
               PROVE  asked'[q] # {}
    BY <1>1 DEF TakeTurn
  <2>1. CASE q = p
    <3>1. call[d].how \in Asking(Sink(p))
      BY <2>1 DEF Asking, CallNames
    <3> QED BY <1>1, <2>1, <3>1 DEF TakeTurn
  <2>2. CASE q # p
    BY <1>1, <2>2 DEF TakeTurn
  <2> QED BY <2>1, <2>2
<1>2. ASSUME NEW p \in Plays, Look(p) PROVE CallAsked'
  BY <1>2, CallFields, SinkOf, SinkAssumption DEF Look, Return
<1>3. ASSUME NEW p \in Plays, Popen(p) PROVE CallAsked'
  BY <1>3, CallFields, SinkOf, SinkAssumption DEF Popen
<1>4. ASSUME NEW p \in Plays, WritePid(p) PROVE CallAsked'
  BY <1>4, CallFields, SinkOf, SinkAssumption DEF WritePid
<1>5. ASSUME NEW p \in Plays, Finish(p) PROVE CallAsked'
  BY <1>5, CallFields, SinkOf, SinkAssumption DEF Finish, Return, Forget, HowItEnded
<1>6. ASSUME NEW p \in Plays, GiveUp(p) PROVE CallAsked'
  BY <1>6, CallFields, SinkOf, SinkAssumption DEF GiveUp, Return, Forget
<1>7. CASE Poll
  BY <1>7, CallFields, SinkOf, SinkAssumption DEF Poll, TimePasses
<1>8. ASSUME NEW c \in Callers, SkipLooks(c) PROVE CallAsked'
  <2>1. CASE Step(c, "look", "abort")
    BY <1>8, <2>1 DEF Step, SkipLooks
  <2>2. CASE Over(c, "look")
    BY <1>8, <2>2 DEF Over, SkipLooks
  <2> QED BY <1>8, <2>1, <2>2 DEF SkipLooks
<1>9. ASSUME NEW c \in Callers, SetAbort(c) PROVE CallAsked'
  BY <1>9, CallFields, SinkOf, SinkAssumption DEF SetAbort, Step
<1>10. ASSUME NEW c \in Callers, Mark(c) PROVE CallAsked'
  <2>1. CASE call' = [call EXCEPT ![c].at = "term", ![c].target = proc[call[c].on]]
    BY <2>1, <1>10, CallFields DEF Mark
  <2>2. CASE Over(c, "mark")
    BY <2>2, <1>10 DEF Over, Mark
  <2> QED BY <1>10, <2>1, <2>2 DEF Mark
<1>11. ASSUME NEW c \in Callers, Terminate(c) PROVE CallAsked'
  BY <1>11, CallFields, SinkOf, SinkAssumption DEF Terminate, Over, Kill
<1>12. ASSUME NEW c \in Callers, PauseLooks(c) PROVE CallAsked'
  BY <1>12, CallFields, SinkOf, SinkAssumption DEF PauseLooks, Sounds
<1>13. ASSUME NEW c \in Callers, PauseSent(c) PROVE CallAsked'
  BY <1>13, CallFields, SinkOf, SinkAssumption DEF PauseSent, Over
<1>14. ASSUME NEW c \in Callers, UnlinkPid(c) PROVE CallAsked'
  BY <1>14, CallFields, SinkOf, SinkAssumption DEF UnlinkPid, Over, Unlink
<1>15. ASSUME NEW c \in Callers, StopByPid(c) PROVE CallAsked'
  BY <1>15, CallFields, SinkOf, SinkAssumption DEF StopByPid, Kill, Event
<1>16. ASSUME NEW c \in Callers, NEW s \in Sinks, BeginCall(c, s) PROVE CallAsked'
  <2>1. CASE Begin(c, s, "abort", "interrupt")
    BY <2>1, CallFields, SinkOf DEF Begin
  <2>2. CASE Begin(c, s, "look", "skip")
    BY <2>2, CallFields, SinkOf DEF Begin
  <2>3. CASE Begin(c, s, "pause", "pause")
    BY <2>3, CallFields, SinkOf DEF Begin
  <2> QED BY <1>16, <2>1, <2>2, <2>3 DEF BeginCall
<1>17. ASSUME NEW s \in Sinks, Crash(s) PROVE CallAsked'
  BY <1>17, CallFields, SinkOf, SinkAssumption DEF Crash, Event
<1>18. CASE UNCHANGED <<call, pc, args, asked>>
  BY <1>18
<1> QED BY <1>1, <1>2, <1>3, <1>4, <1>5, <1>6, <1>7, <1>8, <1>9, <1>10, <1>11, <1>12, <1>13,
           <1>14, <1>15, <1>16, <1>17, <1>18
       DEF Next, PlayStep, CallStep, MpvStep, MpvTo, Answers, Exits, Breaks, Sticks, Resumes,
           Reap, Started, Meanwhile

\* A play ends once.
LEMMA OutcomeDoneKept ==
    ASSUME PlaysTyped, SinksTyped, RestTyped, CallsTyped, OutcomeDone, Next
    PROVE  OutcomeDone'
<1> USE DEF OutcomeDone, world, around, playing, crashing, history, PlaysTyped, Running
<1>1. ASSUME NEW p \in Plays, TakeTurn(p) PROVE OutcomeDone'
  BY <1>1 DEF TakeTurn, ClearsAbort, Asking, LockFree
<1>2. ASSUME NEW p \in Plays, Look(p) PROVE OutcomeDone'
  BY <1>2 DEF Look, Return
<1>3. ASSUME NEW p \in Plays, Popen(p) PROVE OutcomeDone'
  BY <1>3 DEF Popen
<1>4. ASSUME NEW p \in Plays, WritePid(p) PROVE OutcomeDone'
  BY <1>4 DEF WritePid
<1>5. ASSUME NEW p \in Plays, Finish(p) PROVE OutcomeDone'
  BY <1>5 DEF Finish, Return, Forget, HowItEnded
<1>6. ASSUME NEW p \in Plays, GiveUp(p) PROVE OutcomeDone'
  BY <1>6 DEF GiveUp, Return, Forget
<1>7. CASE Poll
  BY <1>7 DEF Poll, TimePasses
<1>8. ASSUME NEW s \in Sinks, Crash(s) PROVE OutcomeDone'
  BY <1>8 DEF Crash, Event
<1>9. CASE UNCHANGED <<outcome, pc>>
  BY <1>9
<1> QED BY <1>1, <1>2, <1>3, <1>4, <1>5, <1>6, <1>7, <1>8, <1>9
       DEF Next, PlayStep, CallStep, MpvStep, MpvTo, Answers, Exits, Breaks, Sticks, Resumes,
           SkipLooks, SetAbort, Mark, Terminate, PauseLooks, PauseSent, UnlinkPid, StopByPid,
           BeginCall, Begin, Reap, Started, Meanwhile


\* A play a call has just terminated was asked.
LEMMA KilledAsked ==
    ASSUME PlaysTyped, SinksTyped, RestTyped, CallsTyped, CallNames, CallAsked,
           NEW c \in Callers, Terminate(c), NEW p \in Plays,
           Running(p), mpv'[p] = "killed", mpv[p] # "killed"
    PROVE  asked[p] # {}
BY CallFields DEF PlaysTyped, RestTyped, CallNames, CallAsked, Cutting, Terminate, Over, Kill

\* A mark or a kill reaches a running play through a call alone, and what was set before is cleared.
LEMMA MarkAskedKept ==
    ASSUME PlaysTyped, SinksTyped, RestTyped, CallsTyped, MarkAsked, HasTurn, CallNames, CallAsked, OrphansLost, Next
    PROVE  MarkAsked'
<1> USE DEF MarkAsked, world, around, playing, crashing, history, PlaysTyped, SinksTyped,
        RestTyped, Sink, Running, Alive
<1>1. ASSUME NEW p \in Plays, TakeTurn(p) PROVE MarkAsked'
  BY <1>1, SinkOf, SinkAssumption, CallFields DEF TakeTurn, ClearsAbort, Asking, LockFree, HasTurn
<1>2. ASSUME NEW p \in Plays, Look(p) PROVE MarkAsked'
  <2>1. ASSUME NEW q \in Plays, q # p, Running(q) PROVE Sink(q) # Sink(p)
    BY <1>2, <2>1 DEF Look, HasTurn
  <2>2. \A q \in Plays : q # p => pc'[q] = pc[q]
    BY <1>2 DEF Look, Return
  <2>3. \A q \in Plays : Sink(q) # Sink(p) => interrupted'[Sink(q)] = interrupted[Sink(q)]
    BY <1>2, SinkOf DEF Look
  <2>4. pc'[p] \notin {"pid", "wait", "gate"} /\ (pc'[p] = "held" => ~holdAbort[Sink(p)])
    BY <1>2 DEF Look, Return
  <2> QED BY <1>2, <2>1, <2>2, <2>3, <2>4 DEF Look
<1>3. ASSUME NEW p \in Plays, Popen(p) PROVE MarkAsked'
  BY <1>3, SinkOf, SinkAssumption, CallFields DEF Popen, HasTurn
<1>4. ASSUME NEW p \in Plays, WritePid(p) PROVE MarkAsked'
  BY <1>4, SinkOf, SinkAssumption, CallFields DEF WritePid
<1>5. ASSUME NEW p \in Plays, Finish(p) PROVE MarkAsked'
  BY <1>5, SinkOf, SinkAssumption, CallFields DEF Finish, Return, Forget, HowItEnded, HasTurn
<1>6. ASSUME NEW p \in Plays, GiveUp(p) PROVE MarkAsked'
  BY <1>6, SinkOf, SinkAssumption, CallFields DEF GiveUp, Return, Forget, HasTurn
<1>7. ASSUME NEW p \in Plays, MpvStep(p) PROVE MarkAsked'
  BY <1>7, SinkOf, SinkAssumption, CallFields DEF MpvStep, MpvTo, Answers, Exits, Breaks, Sticks, Resumes
<1>8. CASE Poll
  BY <1>8, SinkOf, SinkAssumption, CallFields DEF Poll, TimePasses
<1>9. ASSUME NEW c \in Callers, SetAbort(c) PROVE MarkAsked'
  BY <1>9, SinkOf, SinkAssumption, CallFields DEF SetAbort, Step, CallNames, CallAsked, Cutting
<1>10. ASSUME NEW c \in Callers, Mark(c) PROVE MarkAsked'
  BY <1>10, SinkOf, SinkAssumption, CallFields DEF Mark, Over, Sounds, Step, CallNames, CallAsked, Cutting
<1>11. ASSUME NEW c \in Callers, Terminate(c) PROVE MarkAsked'
  BY <1>11, SinkOf, SinkAssumption, CallFields, KilledAsked DEF Terminate, Over, Kill
<1>12. ASSUME NEW c \in Callers, PauseSent(c) PROVE MarkAsked'
  BY <1>12, SinkOf, SinkAssumption, CallFields DEF PauseSent, Over
<1>13. ASSUME NEW c \in Callers, StopByPid(c) PROVE MarkAsked'
  BY <1>13, SinkOf, SinkAssumption, CallFields DEF StopByPid, Kill, Event
<1>14. ASSUME NEW c \in Callers, NEW s \in Sinks, BeginCall(c, s) PROVE MarkAsked'
  BY <1>14, SinkOf, SinkAssumption, CallFields DEF BeginCall, Begin, Event
<1>15. ASSUME NEW s \in Sinks, Crash(s) PROVE MarkAsked'
  BY <1>15, SinkOf, SinkAssumption, CallFields DEF Crash, Event
<1>16. ASSUME NEW s \in Sinks, Reap(s) PROVE MarkAsked'
  BY <1>16, SinkOf, SinkAssumption, CallFields DEF Reap, Kill, Reaped, OwnMpv, OrphansLost
<1>17. CASE UNCHANGED <<pc, interrupted, mpv, holdAbort, asked, args>>
  BY <1>17
<1> QED BY <1>1, <1>2, <1>3, <1>4, <1>5, <1>6, <1>7, <1>8, <1>9, <1>10, <1>11, <1>12, <1>13,
           <1>14, <1>15, <1>16, <1>17
       DEF Next, PlayStep, CallStep, SkipLooks, PauseLooks, UnlinkPid, Started, Meanwhile

\* A play is cut by a mark, a kill or an abort it could still meet.
LEMMA OnlyAskedAreCutKept ==
    ASSUME PlaysTyped, SinksTyped, RestTyped, CallsTyped, OnlyAskedAreCut, MarkAsked, OutcomeDone, Next
    PROVE  OnlyAskedAreCut'
<1> USE DEF OnlyAskedAreCut, world, around, playing, crashing, history, PlaysTyped, RestTyped,
        Running
<1>1. ASSUME NEW p \in Plays, TakeTurn(p) PROVE OnlyAskedAreCut'
  BY <1>1, SinkAssumption DEF TakeTurn, ClearsAbort, Asking, LockFree, OutcomeDone
<1>2. ASSUME NEW p \in Plays, Look(p) PROVE OnlyAskedAreCut'
  BY <1>2 DEF Look, Return, MarkAsked, Sink
<1>3. ASSUME NEW p \in Plays, Finish(p) PROVE OnlyAskedAreCut'
  BY <1>3 DEF Finish, Return, Forget, HowItEnded, MarkAsked, Sink
<1>4. ASSUME NEW p \in Plays, GiveUp(p) PROVE OnlyAskedAreCut'
  BY <1>4 DEF GiveUp, Return, Forget
<1>5. ASSUME NEW c \in Callers, StopByPid(c) PROVE OnlyAskedAreCut'
  BY <1>5 DEF StopByPid, Kill, Event
<1>6. ASSUME NEW c \in Callers, NEW s \in Sinks, BeginCall(c, s) PROVE OnlyAskedAreCut'
  BY <1>6 DEF BeginCall, Begin, Event
<1>7. CASE UNCHANGED <<outcome, asked>>
  BY <1>7
<1> QED BY <1>1, <1>2, <1>3, <1>4, <1>5, <1>6, <1>7
       DEF Next, PlayStep, CallStep, Popen, WritePid, MpvStep, MpvTo, Answers, Exits, Breaks,
           Sticks, Resumes, Poll, TimePasses, SkipLooks, SetAbort, Mark, Terminate, PauseLooks,
           PauseSent, UnlinkPid, Crash, Reap, Started, Meanwhile


\* Whether there is a meeting is a fact of the world.
LEMMA MeetingStays == UNCHANGED around => MeetingNow' = MeetingNow
BY DEF around, MeetingNow

\* In a meeting the gate lets nothing pass.
LEMMA MeetingBars == WorldTypeOK /\ MeetingNow => ~MayPlay(Verdicts)
<1> SUFFICES ASSUME WorldTypeOK, MeetingNow PROVE ~MayPlay(Verdicts)
  OBVIOUS
<1>1. CASE meeting > 0
  BY <1>1 DEF Verdicts, Verdict, MayPlay
<1>2. CASE ~(meeting > 0)
  <2>1. /\ settings.enabled /\ settings.meetingHold /\ probe = "list"
        /\ (mic \cap settings.meetingApps) \ OwnApps # {}
    BY <1>2 DEF MeetingNow
  <2>2. InMeeting # {}
    BY <2>1 DEF InMeeting, Others
  <2>3. Verdicts = "meeting"
    BY <1>2, <2>1, <2>2 DEF Verdicts, Verdict, Listed
  <2> QED BY <2>3 DEF MayPlay
<1> QED BY <1>1, <1>2

\* A play leaves the gate by a look that finds no meeting.
LEMMA MetFreeKept ==
    ASSUME PlaysTyped, SinksTyped, RestTyped, CallsTyped, WorldTypeOK, MetFree, Next
    PROVE  MetFree'
<1> USE DEF MetFree, world, around, playing, crashing, history, PlaysTyped, RestTyped, Holds
<1>1. ASSUME NEW p \in Plays, TakeTurn(p) PROVE MetFree'
  BY <1>1, MeetingStays DEF TakeTurn, ClearsAbort, Asking, LockFree
<1>2. ASSUME NEW p \in Plays, Look(p) PROVE MetFree'
  BY <1>2, MeetingStays, MeetingBars DEF Look, Return
<1>3. ASSUME NEW p \in Plays, Popen(p) PROVE MetFree'
  BY <1>3, MeetingStays DEF Popen
<1>4. ASSUME NEW p \in Plays, WritePid(p) PROVE MetFree'
  BY <1>4, MeetingStays DEF WritePid
<1>5. ASSUME NEW p \in Plays, Finish(p) PROVE MetFree'
  BY <1>5, MeetingStays DEF Finish, Return, Forget, HowItEnded
<1>6. ASSUME NEW p \in Plays, GiveUp(p) PROVE MetFree'
  BY <1>6, MeetingStays DEF GiveUp, Return, Forget
<1>7. CASE Poll
  BY <1>7, MeetingStays DEF Poll, TimePasses, AtGate
<1>8. ASSUME NEW s \in Sinks, Crash(s) PROVE MetFree'
  BY <1>8, MeetingStays DEF Crash, Event
<1>9. CASE Meanwhile
  BY <1>9, MeetingStays DEF Meanwhile, AtGate
<1>10. CASE UNCHANGED <<args, pc, free, around>>
  BY <1>10, MeetingStays
<1> QED BY <1>1, <1>2, <1>3, <1>4, <1>5, <1>6, <1>7, <1>8, <1>9, <1>10
       DEF Next, PlayStep, CallStep, MpvStep, MpvTo, Answers, Exits, Breaks, Sticks, Resumes,
           SkipLooks, SetAbort, Mark, Terminate, PauseLooks, PauseSent, UnlinkPid, StopByPid,
           BeginCall, Begin, Reap, Started

\* A held play's mpv starts from past the gate.
LEMMA MeetingSetsAsideKept ==
    ASSUME PlaysTyped, SinksTyped, RestTyped, CallsTyped, MeetingSetsAside, MetFree, Next
    PROVE  MeetingSetsAside'
<1> USE DEF MeetingSetsAside, world, around, playing, crashing, history, PlaysTyped, RestTyped,
        Holds, Alive
<1>1. ASSUME NEW p \in Plays, TakeTurn(p) PROVE MeetingSetsAside'
  BY <1>1 DEF TakeTurn, ClearsAbort, Asking, LockFree
<1>2. ASSUME NEW p \in Plays, Popen(p) PROVE MeetingSetsAside'
  BY <1>2 DEF Popen, MetFree
<1>3. ASSUME NEW p \in Plays, Finish(p) PROVE MeetingSetsAside'
  BY <1>3 DEF Finish, Return, Forget, HowItEnded, Ended
<1>4. ASSUME NEW p \in Plays, GiveUp(p) PROVE MeetingSetsAside'
  BY <1>4 DEF GiveUp, Return, Forget, NoProgress
<1>5. ASSUME NEW p \in Plays, MpvStep(p) PROVE MeetingSetsAside'
  BY <1>5 DEF MpvStep, MpvTo, Answers, Exits, Breaks, Sticks, Resumes
<1>6. CASE Poll
  BY <1>6 DEF Poll, TimePasses
<1>7. ASSUME NEW c \in Callers, Terminate(c) PROVE MeetingSetsAside'
  BY <1>7 DEF Terminate, Over, Kill
<1>8. ASSUME NEW c \in Callers, PauseSent(c) PROVE MeetingSetsAside'
  BY <1>8 DEF PauseSent, Over
<1>9. ASSUME NEW c \in Callers, StopByPid(c) PROVE MeetingSetsAside'
  BY <1>9 DEF StopByPid, Kill, Event
<1>10. ASSUME NEW s \in Sinks, Reap(s) PROVE MeetingSetsAside'
  BY <1>10 DEF Reap, Kill, Reaped, OwnMpv
<1>11. CASE Meanwhile
  BY <1>11 DEF Meanwhile
<1>12. CASE UNCHANGED <<mpv, free, args>>
  BY <1>12
<1> QED BY <1>1, <1>2, <1>3, <1>4, <1>5, <1>6, <1>7, <1>8, <1>9, <1>10, <1>11, <1>12
       DEF Next, PlayStep, CallStep, Look, WritePid, SkipLooks, SetAbort, Mark, PauseLooks,
           UnlinkPid, BeginCall, Begin, Crash, Started

\* A hold sleeps only while its budget lasts.
LEMMA HoldIsBoundedKept ==
    ASSUME PlaysTyped, SinksTyped, RestTyped, CallsTyped, WorldTypeOK, HoldIsBounded, Next
    PROVE  HoldIsBounded'
<1> USE DEF HoldIsBounded, world, around, playing, crashing, history, PlaysTyped
<1>1. ASSUME NEW p \in Plays, TakeTurn(p) PROVE HoldIsBounded'
  BY <1>1 DEF TakeTurn, ClearsAbort, Asking, LockFree
<1>2. ASSUME NEW p \in Plays, Look(p) PROVE HoldIsBounded'
  <2>1. settings.maxWait \in Waits /\ settings.maxWait \in Nat
    BY YieldAssumption DEF WorldTypeOK, Settings
  <2>2. ASSUME pc'[p] = "held" PROVE waited[p] + args[p].already < settings.maxWait
    BY <1>2, <2>1, <2>2, SinkOf DEF Look, Return, Budget
  <2>3. \A q \in Plays : q # p => pc'[q] = pc[q]
    BY <1>2 DEF Look, Return
  <2> QED BY <1>2, <2>1, <2>2, <2>3 DEF Look
<1>3. ASSUME NEW p \in Plays, Popen(p) PROVE HoldIsBounded'
  BY <1>3 DEF Popen
<1>4. ASSUME NEW p \in Plays, WritePid(p) PROVE HoldIsBounded'
  BY <1>4 DEF WritePid
<1>5. ASSUME NEW p \in Plays, Finish(p) PROVE HoldIsBounded'
  BY <1>5 DEF Finish, Return, Forget, HowItEnded
<1>6. ASSUME NEW p \in Plays, GiveUp(p) PROVE HoldIsBounded'
  BY <1>6 DEF GiveUp, Return, Forget
<1>7. CASE Poll
  BY <1>7 DEF Poll, TimePasses
<1>8. ASSUME NEW s \in Sinks, Crash(s) PROVE HoldIsBounded'
  BY <1>8 DEF Crash, Event
<1>9. CASE UNCHANGED <<pc, waited, args>>
  BY <1>9
<1> QED BY <1>1, <1>2, <1>3, <1>4, <1>5, <1>6, <1>7, <1>8, <1>9
       DEF Next, PlayStep, CallStep, MpvStep, MpvTo, Answers, Exits, Breaks, Sticks, Resumes,
           SkipLooks, SetAbort, Mark, Terminate, PauseLooks, PauseSent, UnlinkPid, StopByPid,
           BeginCall, Begin, Reap, Started, Meanwhile

\* Whoever takes a sounding play's name out is recorded.
LEMMA PidFileNamesItKept ==
    ASSUME PlaysTyped, SinksTyped, RestTyped, CallsTyped, PidFileNamesIt, Sounding, OrphansLost, Next
    PROVE  PidFileNamesIt'
<1> USE DEF PidFileNamesIt, world, around, playing, crashing, history, PlaysTyped, RestTyped,
        Alive, Ended
<1>1. ASSUME NEW p \in Plays, TakeTurn(p) PROVE PidFileNamesIt'
  BY <1>1, SinkAssumption DEF TakeTurn, ClearsAbort, Asking, LockFree
<1>2. ASSUME NEW p \in Plays, Look(p) PROVE PidFileNamesIt'
  BY <1>2, SinkAssumption DEF Look, Return
<1>3. ASSUME NEW p \in Plays, Popen(p) PROVE PidFileNamesIt'
  BY <1>3, SinkAssumption DEF Popen
<1>4. ASSUME NEW p \in Plays, WritePid(p) PROVE PidFileNamesIt'
  BY <1>4, SinkAssumption DEF WritePid
<1>5. ASSUME NEW p \in Plays, Finish(p) PROVE PidFileNamesIt'
  BY <1>5, SinkAssumption DEF Finish, Return, Forget, HowItEnded
<1>6. ASSUME NEW p \in Plays, GiveUp(p) PROVE PidFileNamesIt'
  BY <1>6, SinkAssumption, SinkAssumption DEF GiveUp, Return, Forget
<1>7. ASSUME NEW p \in Plays, MpvStep(p) PROVE PidFileNamesIt'
  BY <1>7, SinkAssumption DEF MpvStep, MpvTo, Answers, Exits, Breaks, Sticks, Resumes
<1>8. CASE Poll
  BY <1>8, SinkAssumption DEF Poll, TimePasses
<1>9. ASSUME NEW c \in Callers, Terminate(c) PROVE PidFileNamesIt'
  BY <1>9, SinkAssumption DEF Terminate, Over, Kill
<1>10. ASSUME NEW c \in Callers, PauseSent(c) PROVE PidFileNamesIt'
  BY <1>10, SinkAssumption DEF PauseSent, Over
<1>11. ASSUME NEW c \in Callers, UnlinkPid(c) PROVE PidFileNamesIt'
  BY <1>11, SinkAssumption DEF UnlinkPid, Over, Unlink
<1>12. ASSUME NEW c \in Callers, StopByPid(c) PROVE PidFileNamesIt'
  BY <1>12, SinkAssumption DEF StopByPid, Kill, Event
<1>13. ASSUME NEW s \in Sinks, Crash(s) PROVE PidFileNamesIt'
  BY <1>13, SinkAssumption DEF Crash, Event
<1>14. ASSUME NEW s \in Sinks, Reap(s) PROVE PidFileNamesIt'
  BY <1>14, SinkAssumption DEF Reap, Kill, Reaped, OwnMpv, OrphansLost
<1>15. ASSUME NEW s \in Sinks, Started(s) PROVE PidFileNamesIt'
  BY <1>15, SinkAssumption DEF Started, Unlink
<1>16. CASE UNCHANGED <<pc, mpv, pidFile, displaced>>
  BY <1>16
<1> QED BY <1>1, <1>2, <1>3, <1>4, <1>5, <1>6, <1>7, <1>8, <1>9, <1>10, <1>11, <1>12, <1>13,
           <1>14, <1>15, <1>16
       DEF Next, PlayStep, CallStep, SkipLooks, SetAbort, Mark, PauseLooks, BeginCall, Begin,
           Meanwhile

\* The start of a process kills the orphan the file names.
LEMMA OrphanNamedKept ==
    ASSUME PlaysTyped, SinksTyped, RestTyped, CallsTyped, OrphanNamed, PidFileNamesIt, Sounding, OrphansLost, HasTurn, Next
    PROVE  OrphanNamed'
<1> USE DEF OrphanNamed, world, around, playing, crashing, history, PlaysTyped, SinksTyped,
        RestTyped, Alive, Ended, Sink, Running
<1>1. ASSUME NEW p \in Plays, Popen(p) PROVE OrphanNamed'
  BY <1>1, SinkOf, SinkAssumption DEF Popen, OrphansLost
<1>2. ASSUME NEW p \in Plays, WritePid(p) PROVE OrphanNamed'
  BY <1>2, SinkOf, SinkAssumption DEF WritePid
<1>3. ASSUME NEW p \in Plays, Finish(p) PROVE OrphanNamed'
  BY <1>3, SinkOf, SinkAssumption DEF Finish, Return, Forget, HowItEnded, OrphansLost
<1>4. ASSUME NEW p \in Plays, GiveUp(p) PROVE OrphanNamed'
  BY <1>4, SinkOf, SinkAssumption DEF GiveUp, Return, Forget, OrphansLost
<1>5. ASSUME NEW p \in Plays, MpvStep(p) PROVE OrphanNamed'
  BY <1>5, SinkOf, SinkAssumption DEF MpvStep, MpvTo, Answers, Exits, Breaks, Sticks, Resumes
<1>6. ASSUME NEW c \in Callers, Terminate(c) PROVE OrphanNamed'
  BY <1>6, SinkOf, SinkAssumption DEF Terminate, Over, Kill
<1>7. ASSUME NEW c \in Callers, PauseSent(c) PROVE OrphanNamed'
  BY <1>7, SinkOf, SinkAssumption DEF PauseSent, Over
<1>8. ASSUME NEW c \in Callers, UnlinkPid(c) PROVE OrphanNamed'
  BY <1>8, SinkOf, SinkAssumption DEF UnlinkPid, Over, Unlink
<1>9. ASSUME NEW c \in Callers, StopByPid(c) PROVE OrphanNamed'
  BY <1>9, SinkOf, SinkAssumption DEF StopByPid, Kill, Event
<1>10. ASSUME NEW s \in Sinks, Crash(s) PROVE OrphanNamed'
  BY <1>10, SinkOf, SinkAssumption DEF Crash, Event, PidFileNamesIt, Sounding
<1>11. ASSUME NEW s \in Sinks, Reap(s) PROVE OrphanNamed'
  BY <1>11, SinkOf, SinkAssumption, SinkAssumption DEF Reap, Kill, Reaped, OwnMpv
<1>12. ASSUME NEW s \in Sinks, Started(s) PROVE OrphanNamed'
  BY <1>12, SinkOf, SinkAssumption DEF Started, Unlink
<1>13. CASE UNCHANGED <<orphans, mpv, displaced, pidFile, process, args>>
  BY <1>13
<1> QED BY <1>1, <1>2, <1>3, <1>4, <1>5, <1>6, <1>7, <1>8, <1>9, <1>10, <1>11, <1>12, <1>13
       DEF Next, PlayStep, CallStep, TakeTurn, Look, Poll, TimePasses, SkipLooks, SetAbort,
           Mark, PauseLooks, BeginCall, Begin, Meanwhile


\* Only the start of a process ends its being down, and it kills none but an
\* orphan.
LEMMA StartSpares ==
    ASSUME SinksTyped, PlaysTyped, Next, NEW s \in Sinks, process[s] = "down", process'[s] # "down",
           NEW p \in Plays, p \notin orphans
    PROVE  mpv'[p] = mpv[p]
<1>1. Reap(s)
  BY DEF SinksTyped, Next, TakeTurn, PlayStep, Look, Popen, WritePid, Finish, GiveUp, MpvStep, MpvTo,
         Answers, Exits, Breaks, Sticks, Resumes, Poll, CallStep, SkipLooks, SetAbort, Mark, Terminate,
         PauseLooks, PauseSent, UnlinkPid, StopByPid, BeginCall, Begin, Crash, Reap, Started, Meanwhile,
         crashing, playing
<1> QED BY <1>1 DEF PlaysTyped, Reap, OwnMpv, Reaped, Kill


----------------------------------------------------------------------------
\* The invariant holds at first, and every step keeps it.

\* The states an instance starts from satisfy the invariant.
LEMMA InitInv == AnyWorld /\ Init => IInv
<1> SUFFICES ASSUME AnyWorld, Init PROVE IInv
  OBVIOUS
<1>1. TypeOK
  <2>1. PlaysTyped
    BY DEF AnyWorld, Init, PlaysTyped, Steps, Alive, Ended
  <2>2. SinksTyped /\ RestTyped
    BY DEF Init, SinksTyped, RestTyped
  <2>3. CallsTyped
    BY DEF Init, CallsTyped, Calls, Idle
  <2> QED BY <2>1, <2>2, <2>3, Groups DEF AnyWorld
<1>2. HasTurn /\ Sounding /\ OrphansLost /\ OutcomeDone
  BY DEF Init, HasTurn, Sounding, OrphansLost, OutcomeDone, Running, Alive
<1>3. ProcIsMine
  BY DEF Init, ProcIsMine
<1>4. CallKinds /\ CallNames /\ CallAsked
  BY DEF Init, CallKinds, CallNames, CallAsked, Idle, Cutting
<1>5. MarkAsked /\ OnlyAskedAreCut
  BY SinkAssumption DEF Init, MarkAsked, OnlyAskedAreCut
<1>6. MetFree /\ MeetingSetsAside /\ HoldIsBounded
  BY DEF Init, MetFree, MeetingSetsAside, HoldIsBounded, Holds
<1>7. PidFileNamesIt /\ OrphanNamed
  BY DEF Init, PidFileNamesIt, OrphanNamed
<1> QED BY <1>1, <1>2, <1>3, <1>4, <1>5, <1>6, <1>7 DEF IInv

\* Every step keeps it.
LEMMA StepInv == IInv /\ [Next]_vars => IInv'
<1>1. ASSUME IInv, Next PROVE IInv'
  <2>1. WorldTypeOK /\ PlaysTyped /\ SinksTyped /\ RestTyped /\ CallsTyped
    BY <1>1, Groups DEF IInv
  <2>2. TypeOK'
    <3>1. WorldTypeOK' /\ PlaysTyped' /\ SinksTyped' /\ RestTyped' /\ CallsTyped'
      BY <1>1, <2>1, WorldKept, PlaysKept, SinksKept, RestKept, CallsKept DEF IInv
    <3> QED BY <3>1 DEF TypeOK, PlaysTyped, SinksTyped, RestTyped, CallsTyped
  <2>3. HasTurn' /\ Sounding' /\ OrphansLost' /\ ProcIsMine'
    BY <1>1, <2>1, HasTurnKept, SoundingKept, OrphansLostKept, ProcIsMineKept DEF IInv
  <2>4. CallKinds' /\ CallNames' /\ CallAsked' /\ MarkAsked'
    BY <1>1, <2>1, CallKindsKept, CallNamesKept, CallAskedKept, MarkAskedKept DEF IInv
  <2>5. OutcomeDone' /\ OnlyAskedAreCut'
    BY <1>1, <2>1, OutcomeDoneKept, OnlyAskedAreCutKept DEF IInv
  <2>6. MetFree' /\ MeetingSetsAside' /\ HoldIsBounded'
    BY <1>1, <2>1, MetFreeKept, MeetingSetsAsideKept, HoldIsBoundedKept DEF IInv
  <2>7. PidFileNamesIt' /\ OrphanNamed'
    BY <1>1, <2>1, PidFileNamesItKept, OrphanNamedKept DEF IInv
  <2> QED BY <2>2, <2>3, <2>4, <2>5, <2>6, <2>7 DEF IInv
<1>2. ASSUME IInv, UNCHANGED vars PROVE IInv'
  <2> USE <1>2 DEF IInv, vars, world, around, playing, crashing, history, Sink, Holds
  <2>1. TypeOK'
    BY DEF TypeOK, WorldTypeOK
  <2>2. HasTurn' /\ Sounding' /\ OrphansLost' /\ ProcIsMine' /\ OutcomeDone'
    BY DEF HasTurn, Sounding, OrphansLost, ProcIsMine, OutcomeDone, Running
  <2>3. CallKinds' /\ CallNames' /\ CallAsked' /\ MarkAsked' /\ OnlyAskedAreCut'
    BY DEF CallKinds, CallNames, CallAsked, MarkAsked, OnlyAskedAreCut, Running
  <2>4. MetFree' /\ MeetingSetsAside' /\ HoldIsBounded'
    BY DEF MetFree, MeetingNow, MeetingSetsAside, HoldIsBounded
  <2>5. PidFileNamesIt' /\ OrphanNamed'
    BY DEF PidFileNamesIt, OrphanNamed
  <2> QED BY <2>1, <2>2, <2>3, <2>4, <2>5
<1> QED BY <1>1, <1>2

----------------------------------------------------------------------------
\* The inductive invariant is one, whatever the settings and the sounds are
\* at first and however the plays are called.
THEOREM SinkInvariant == SafeSpec => []IInv
BY InitInv, StepInv, PTL DEF SafeSpec

\* Every variable keeps its type.
THEOREM SinkTyped == SafeSpec => []TypeOK
<1>1. IInv => TypeOK
  BY DEF IInv
<1> QED BY <1>1, SinkInvariant, PTL

\* One sink plays one file at a time: two plays that sound both hold the
\* playback lock of their sink, unless one is an orphan.
THEOREM OneAtATimeHolds == SafeSpec => []OneAtATime
<1>1. IInv => OneAtATime
  BY DEF IInv, OneAtATime, HasTurn, Sounding, Running
<1> QED BY <1>1, SinkInvariant, PTL

\* An interrupt ends what it was asked to end and nothing later.
THEOREM OnlyAskedHolds == SafeSpec => []OnlyAskedAreCut
<1>1. IInv => OnlyAskedAreCut
  BY DEF IInv
<1> QED BY <1>1, SinkInvariant, PTL

\* A hold never sleeps past the longest wait the settings have had.
THEOREM HoldBoundedHolds == SafeSpec => []HoldIsBounded
<1>1. IInv => HoldIsBounded
  BY DEF IInv
<1> QED BY <1>1, SinkInvariant, PTL

\* Nothing that asks the gate starts without a moment free of a meeting.
THEOREM MeetingHolds == SafeSpec => []MeetingSetsAside
<1>1. IInv => MeetingSetsAside
  BY DEF IInv
<1> QED BY <1>1, SinkInvariant, PTL

\* The shared pid file names the play that sounds, unless another took its
\* name out.
THEOREM PidFileHolds == SafeSpec => []PidFileNamesIt
<1>1. IInv => PidFileNamesIt
  BY DEF IInv
<1> QED BY <1>1, SinkInvariant, PTL

\* A process that has started again hears nothing of the one before it.
THEOREM NothingLeftHolds == SafeSpec => []NothingLeftBehind
<1>1. IInv => NothingLeftBehind
  BY DEF IInv, OrphanNamed, NothingLeftBehind
<1> QED BY <1>1, SinkInvariant, PTL

\* Starting never stops a player another live process runs.
THEOREM ReapSparesHolds == SafeSpec => ReapSparesTheLiving
<1> DEFINE Spares == \A s \in Sinks, p \in Plays :
                        process[s] = "down" /\ process'[s] # "down" /\ p \notin orphans => mpv'[p] = mpv[p]
<1>1. IInv /\ [Next]_vars => [Spares]_vars
  BY Groups, StartSpares DEF IInv, vars, playing, crashing
<1> QED BY <1>1, SinkInvariant, PTL DEF SafeSpec, ReapSparesTheLiving

=============================================================================
