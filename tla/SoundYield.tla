----------------------------- MODULE SoundYield -----------------------------
(***************************************************************************)
(* Who else is heard, his settings, and what the sound-yield gate makes of *)
(* it (sound_yield.py): the world a playback waits in.                     *)
(*                                                                         *)
(* An app stands for a process Core Audio lists; that a process is         *)
(* auto-speech's own (its pid, its mpv, an ancestor) is a fact about the   *)
(* app, and so are the names a settings entry matches: a list of names is  *)
(* the set of apps it covers.  Time passes in polls of the hold; his       *)
(* meeting mode is the number of polls it has left.                        *)
(***************************************************************************)
EXTENDS Integers, FiniteSets

CONSTANTS Apps,         \* processes that may output sound or hold the microphone
          OwnApps,      \* auto-speech's own among them (_is_own)
          AlwaysHold,   \* ALWAYS_HOLD_APPS
          DefaultPlayers,
          MaxMeeting,   \* the longest meeting mode, in polls
          Waits,        \* the values max_wait_seconds takes, in polls
          MaxEvents     \* bound: changes of the world, calls and crashes, in all

ASSUME YieldAssumption ==
    /\ OwnApps \subseteq Apps /\ AlwaysHold \subseteq Apps /\ DefaultPlayers \subseteq Apps
    /\ MaxMeeting \in Nat /\ MaxEvents \in Nat /\ Waits \subseteq Nat

VARIABLES settings,  \* the settings file
          out,       \* the apps running output
          mic,       \* the apps holding the microphone
          probe,     \* what Core Audio answers: the process list, the device alone, nothing
          meeting,   \* polls left of his own meeting mode (MeetingFlag), 0 when off
          events     \* how many of them there were

around == <<settings, out, mic, probe, meeting>>
world == <<around, events>>

Settings == [enabled : BOOLEAN, holdFor : {"players", "any"}, players : SUBSET Apps,
             exceptions : SUBSET Apps, meetingHold : BOOLEAN, meetingApps : SUBSET Apps,
             maxWait : Waits]

WorldTypeOK ==
    /\ settings \in Settings
    /\ out \subseteq Apps /\ mic \subseteq Apps
    /\ probe \in {"list", "device", "none"}
    /\ meeting \in 0..MaxMeeting
    /\ events \in 0..MaxEvents

\* The settings he has when there is no file, over the apps of an instance.
Defaults(meetingApps, wait) ==
    [enabled |-> TRUE, holdFor |-> "players", players |-> DefaultPlayers, exceptions |-> {},
     meetingHold |-> TRUE, meetingApps |-> meetingApps, maxWait |-> wait]

----------------------------------------------------------------------------
\* The assessment.

\* The processes the list names, other than auto-speech's own.
Others == (out \cup mic) \ OwnApps

\* An open microphone in a meeting app, before any exception.
InMeeting == {a \in Others : a \in mic /\ settings.meetingHold /\ a \in settings.meetingApps}

\* Those whose sound holds speech: one that only holds the microphone does
\* not, one that always holds does whatever the lists say.
Blockers ==
    {a \in (Others \cap out) \ InMeeting :
        \/ a \in AlwaysHold
        \/ /\ a \notin settings.exceptions
           /\ settings.holdFor = "any" \/ a \in settings.players}

\* The process list: a meeting wins over sound.
Listed == IF InMeeting # {} THEN "meeting" ELSE IF Blockers # {} THEN "sound" ELSE "clear"

\* Only the default output device can be asked: it runs for someone, and for
\* our own mpv that is not a hold.
Fallback(ownMpv) == IF out # {} /\ ~ownMpv THEN "sound" ELSE "clear"

\* Mutant: a yield that is off ignores his meeting.
DisabledFirst(ownMpv) ==
    IF ~settings.enabled THEN "disabled"
    ELSE IF meeting > 0 THEN "meeting"
    ELSE [list |-> Listed, device |-> Fallback(ownMpv), none |-> "unavailable"][probe]

\* assess: what the gate finds now.  A meeting he set by hand holds in every
\* mode, even when the yield is off or nothing can be probed.
Verdict(ownMpv) ==
    IF meeting > 0 THEN "meeting"
    ELSE IF ~settings.enabled THEN "disabled"
    ELSE [list |-> Listed, device |-> Fallback(ownMpv), none |-> "unavailable"][probe]

MayPlay(v) == v \in {"disabled", "unavailable", "clear"}

----------------------------------------------------------------------------
\* What others do.  Each is one atomic write: a file replaced, a stream
\* opened or closed.

Event == events < MaxEvents /\ events' = events + 1

\* Another app starts or stops its sound, or takes or frees the microphone.
AppChanges(a) ==
    /\ Event
    /\ \/ out' = (out \ {a}) \cup ({a} \ out) /\ mic' = mic
       \/ mic' = (mic \ {a}) \cup ({a} \ mic) /\ out' = out
    /\ UNCHANGED <<settings, probe, meeting>>

\* The process list, or Core Audio itself, fails or comes back.
ProbeChanges ==
    /\ Event
    /\ probe' \in {"list", "device", "none"} \ {probe}
    /\ UNCHANGED <<settings, out, mic, meeting>>

Merge(have, names) == have \cup names

Drop(have, names) == have \ names

\* `yield on`, `off`, `add`, `remove`, `clear`, `hold-for`, `player-add`,
\* `player-remove`, `player-reset`: the file is read, one setting changed, and replaced whole.
Verb(a) ==
    {[settings EXCEPT !.enabled = ~@],
     [settings EXCEPT !.exceptions = Merge(@, {a})],
     [settings EXCEPT !.exceptions = Drop(@, {a})],
     [settings EXCEPT !.exceptions = {}],
     [settings EXCEPT !.holdFor = "any"], [settings EXCEPT !.holdFor = "players"],
     [settings EXCEPT !.players = DefaultPlayers],
     [settings EXCEPT !.players = Merge(@, {a})],
     [settings EXCEPT !.players = Drop(@, {a})]}

\* He may also edit the file himself.
Edited == {[settings EXCEPT !.maxWait = w] : w \in Waits} \cup {[settings EXCEPT !.meetingHold = ~@]}

RunAction(a) ==
    /\ Event
    /\ settings' \in (Verb(a) \cup Edited) \ {settings}
    /\ UNCHANGED <<out, mic, probe, meeting>>

\* `yield meeting on`, `for`: what is under one or past the cap is refused.
MeetingOn(n) ==
    /\ Event
    /\ meeting' = n
    /\ UNCHANGED <<settings, out, mic, probe>>

MeetingOff ==
    /\ Event /\ meeting > 0
    /\ meeting' = 0
    /\ UNCHANGED <<settings, out, mic, probe>>

WorldChanges ==
    \/ \E a \in Apps : AppChanges(a) \/ RunAction(a)
    \/ ProbeChanges
    \/ \E n \in 1..MaxMeeting : MeetingOn(n)
    \/ MeetingOff

\* A poll's time passes: his meeting mode runs out by itself.
TimePasses ==
    /\ meeting' = IF meeting > 0 THEN meeting - 1 ELSE 0
    /\ UNCHANGED <<settings, out, mic, probe, events>>
=============================================================================
