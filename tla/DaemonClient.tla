---------------------------- MODULE DaemonClient ----------------------------
(***************************************************************************)
(* How a process hands a line to the narrator (daemon_client.py): one      *)
(* request over a socket of its own, tried again when anything goes wrong, *)
(* the narrator started once if it is not there.  A reply can be lost      *)
(* after the line was queued; a speak carries a line id that the ledger    *)
(* knows, the other requests do not.  The narrator is reduced to its       *)
(* ledger, the copies that wait, and its death.                            *)
(***************************************************************************)
EXTENDS Naturals, LineLedger

CONSTANTS Callers,
          MaxRetries,  \* DaemonClient(max_retries)
          MaxFaults    \* bound: replies lost, errors and deaths of the narrator

ASSUME ClientAssumption == MaxRetries \in Nat /\ MaxFaults \in Nat

VARIABLES daemon,  \* up, stale (a socket file nobody serves), gone (no file)
          ledger,  \* the state of each line id
          copies,  \* copies of the line that wait in the narrator's queue
          heard,   \* copies that played to their end
          call,    \* each caller's request
          faults

client == <<daemon, ledger, copies, heard, call, faults>>

\* The calls of a caller, each with a line id of its own: the client's own
\* and the one of the speak.py it falls back to.
Routes == {"client", "script"}
Ids == Callers \X Routes

Idle == [route |-> "client", op |-> "none", attempt |-> 0, ensured |-> FALSE, result |-> "none"]

Calls == [route : Routes, op : {"none", "speak", "cache"}, attempt : 0..MaxRetries, ensured : BOOLEAN,
          result : {"none", "pending", "ok", "error", "failed"}]

ClientTypeOK ==
    /\ daemon \in {"up", "stale", "gone"} /\ ledger \in [Ids -> States]
    /\ copies \in [Ids -> Nat] /\ heard \in [Ids -> Nat]
    /\ call \in [Callers -> Calls] /\ faults \in 0..MaxFaults

ClientInit ==
    /\ daemon \in {"up", "gone"}
    /\ ledger = [i \in Ids |-> "unknown"]
    /\ copies = [i \in Ids |-> 0] /\ heard = [i \in Ids |-> 0]
    /\ call = [w \in Callers |-> Idle] /\ faults = 0

Fault == faults < MaxFaults /\ faults' = faults + 1

----------------------------------------------------------------------------
\* The caller's side.

\* speak, play_cache: the request is built, a speak with an id made for it.
Begins(w, route, op) ==
    call' = [call EXCEPT ![w] = [route |-> route, op |-> op, attempt |-> 0, ensured |-> FALSE,
                                 result |-> "pending"]]

Ends(w, result) == call' = [call EXCEPT ![w].result = result]

\* The next attempt sends the same payload; after the last one the call fails.
TriesAgain(w, ensured) ==
    IF call[w].attempt < MaxRetries
    THEN call' = [call EXCEPT ![w].attempt = @ + 1, ![w].ensured = ensured]
    ELSE Ends(w, "failed")

Pending(w) == call[w].result = "pending"

\* ensure_daemon_running: the start script, and a second of waiting.
Started == daemon' \in {daemon, "up"}

\* No socket file on the first attempt: the narrator is started before it.
Ensures(w) ==
    /\ Pending(w) /\ call[w].attempt = 0 /\ ~call[w].ensured /\ daemon = "gone"
    /\ Started
    /\ call' = [call EXCEPT ![w].ensured = TRUE]
    /\ UNCHANGED <<ledger, copies, heard, faults>>

\* Nobody answers: on the first attempt the narrator is started then.
IsRefused(w) ==
    /\ Pending(w) /\ daemon # "up"
    /\ daemon = "gone" => call[w].attempt > 0 \/ call[w].ensured
    /\ IF call[w].attempt = 0 /\ ~call[w].ensured
       THEN Started /\ TriesAgain(w, TRUE)
       ELSE UNCHANGED daemon /\ TriesAgain(w, call[w].ensured)
    /\ UNCHANGED <<ledger, copies, heard, faults>>

\* (Mistake to rule out: each attempt has an id of its own.)
QueuedAnew(w) ==
    LET i == <<w, call[w].route>> IN
    copies' = [copies EXCEPT ![i] = @ + 1] /\ ledger' = [ledger EXCEPT ![i] = "queued"]

\* A speak is queued unless the ledger knows its id.
Queued(w) ==
    LET i == <<w, call[w].route>> IN
    IF Blocks(ledger[i])
    THEN UNCHANGED <<copies, ledger>>
    ELSE copies' = [copies EXCEPT ![i] = @ + 1] /\ ledger' = [ledger EXCEPT ![i] = "queued"]

\* Other requests have no id to remember: the copies of a cached line are not
\* counted here.
IsHandled(w) ==
    IF call[w].op = "speak" THEN Queued(w) ELSE UNCHANGED <<copies, ledger>>

\* The reply arrives.
IsAnswered(w, cached) ==
    /\ Pending(w) /\ daemon = "up"
    /\ IsHandled(w)
    /\ Ends(w, IF call[w].op = "speak" \/ cached THEN "ok" ELSE "error")
    /\ UNCHANGED <<daemon, heard, faults>>

\* It was handled, but no reply arrives: too late, or the connection broke.
LosesReply(w) ==
    /\ Pending(w) /\ daemon = "up" /\ Fault
    /\ IsHandled(w)
    /\ TriesAgain(w, call[w].ensured)
    /\ UNCHANGED <<daemon, heard>>

\* The connection breaks before, or the narrator answers with an error.
FailsUnhandled(w) ==
    /\ Pending(w) /\ daemon = "up" /\ Fault
    /\ TriesAgain(w, call[w].ensured) \/ Ends(w, "error")
    /\ UNCHANGED <<daemon, ledger, copies, heard>>

----------------------------------------------------------------------------
\* The narrator.

Plays(i) ==
    /\ daemon = "up" /\ copies[i] > 0
    /\ copies' = [copies EXCEPT ![i] = @ - 1] /\ heard' = [heard EXCEPT ![i] = @ + 1]
    /\ ledger' = [ledger EXCEPT ![i] = Done(@)]
    /\ UNCHANGED <<daemon, call, faults>>

\* It ends without being heard.
Drops(i) ==
    /\ daemon = "up" /\ copies[i] > 0
    /\ copies' = [copies EXCEPT ![i] = @ - 1]
    /\ ledger' = [ledger EXCEPT ![i] = Dropped(@)]
    /\ UNCHANGED <<daemon, heard, call, faults>>

\* It dies: what waited is lost, the ledger's file is not.
Dies ==
    /\ daemon = "up" /\ Fault
    /\ daemon' \in {"stale", "gone"}
    /\ copies' = [i \in Ids |-> 0]
    /\ ledger' = [i \in Ids |-> Reloaded(ledger[i])]
    /\ UNCHANGED <<heard, call>>

\* Another process starts it.
Starts ==
    /\ daemon # "up" /\ daemon' = "up"
    /\ UNCHANGED <<ledger, copies, heard, call, faults>>

ClientStep(w, cached) ==
    \/ Ensures(w) \/ IsRefused(w) \/ IsAnswered(w, cached) \/ LosesReply(w) \/ FailsUnhandled(w)

NarratorStep == (\E i \in Ids : Plays(i) \/ Drops(i)) \/ Dies \/ Starts

\* "Without one, this call makes its own, so the retries below never queue a
\* line twice": whatever replies are lost, and whenever the narrator dies and
\* starts again, no call's line waits or was heard more than once in all.
RetriesQueueOnce == \A i \in Ids : copies[i] + heard[i] <= 1
=============================================================================
