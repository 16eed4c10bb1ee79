---------------------------- MODULE AutoplayGate ----------------------------
(***************************************************************************)
(* The markers that say which sessions' answers are read aloud: the global *)
(* mute (autoplay_gate.py), the spotlight (autoplay_scope.py) and the      *)
(* enrolment of each session (autoplay_enrollment.py).  They are files:    *)
(* the command line and the MCP server write them, the Stop hook reads     *)
(* them once per answer, and the worker only reads the mute again.         *)
(***************************************************************************)
EXTENDS Naturals

CONSTANTS Sessions, MaxSwitches, None

ASSUME GateAssumption == None \notin Sessions /\ MaxSwitches \in Nat

VARIABLES disabled,  \* ~/.claude/auto-speech.disabled
          solo,      \* the session in the spotlight, or None
          enrolled,  \* the sessions with a marker
          switches

gate == <<disabled, solo, enrolled, switches>>

GateTypeOK ==
    /\ disabled \in BOOLEAN /\ solo \in Sessions \cup {None} /\ enrolled \subseteq Sessions
    /\ switches \in 0..MaxSwitches

GateInit == disabled = FALSE /\ solo = None /\ enrolled = Sessions /\ switches = 0

\* session_allowed: without a spotlight every session may play.
SessionAllowed(s) == solo \in {None, s}

\* is_enrolled.  (A hook that fires is a live session's: its marker counts.)
IsEnrolled(s) == s \in enrolled

\* The hook's guards, in its order.  A session it cannot name is not enrolled.
HookPlays(s) == ~disabled /\ SessionAllowed(s) /\ IsEnrolled(s)

\* The only one the worker asks again.
WorkerGatedOff == disabled

Enroll(s) == enrolled' = enrolled \cup {s}
Withdraw(s) == enrolled' = enrolled \ {s}
SetSolo(s) == solo' = s

Switch == switches < MaxSwitches /\ switches' = switches + 1

\* `autoplay on`: it lifts the mute of every session.
AutoplayOn(s) ==
    /\ Switch
    /\ disabled' = FALSE /\ Enroll(s)
    /\ UNCHANGED solo

\* `autoplay off`, with a session and without one.
AutoplayOff(s) ==
    /\ Switch
    /\ Withdraw(s)
    /\ UNCHANGED <<disabled, solo>>

MuteAll ==
    /\ Switch
    /\ disabled' = TRUE
    /\ UNCHANGED <<solo, enrolled>>

\* `scope solo` enrols the session too; `scope all`.
ScopeSolo(s) ==
    /\ Switch
    /\ SetSolo(s) /\ Enroll(s)
    /\ UNCHANGED disabled

ScopeAll ==
    /\ Switch
    /\ solo' = None
    /\ UNCHANGED <<disabled, enrolled>>

\* A narrator that starts sweeps the markers older than a month, those of
\* sessions that still live among them.
SweepMarkers ==
    /\ Switch
    /\ enrolled' \in SUBSET enrolled /\ enrolled' # enrolled
    /\ UNCHANGED <<disabled, solo>>

GateNext ==
    \/ \E s \in Sessions : AutoplayOn(s) \/ AutoplayOff(s) \/ ScopeSolo(s)
    \/ MuteAll \/ ScopeAll \/ SweepMarkers
=============================================================================
