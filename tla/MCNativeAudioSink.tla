------------------------- MODULE MCNativeAudioSink -------------------------
(* A small instance of NativeAudioSink for TLC. *)
EXTENDS NativeAudioSink, TLC

CONSTANTS daemon, cli, p1, p2, music, zoom

\* Two plays of the daemon, or one of the daemon and one of the command line;
\* the daemon's ask the gate, the command line's does not.  Music is a player
\* and already heard; Zoom is a meeting app.
MCInit ==
    /\ \E s \in Sinks :
         args = (p1 :> [sink |-> daemon, hold |-> TRUE, already |-> 0])
             @@ (p2 :> [sink |-> s, hold |-> s = daemon, already |-> MaxAlready])
    /\ settings = Defaults({zoom}, 2)
    /\ probe = "list"
    /\ out = {music} /\ mic = {} /\ meeting = 0
    /\ Init

Spec == MCInit /\ [][Next]_vars /\ Fairness
=============================================================================
