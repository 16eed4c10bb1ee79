--------------------------- MODULE SpeechControl ---------------------------
(***************************************************************************)
(* The speech control (speech_control.py over ui_utility_client.py): the   *)
(* narrator's threads change a model, one worker brings the panel of the   *)
(* UI Utility up to it, and the client's reader thread takes what he       *)
(* presses.  The panel is another program's: it stays when the connection  *)
(* goes, and he may close it at any moment.                                *)
(*                                                                         *)
(* What a row says is abstracted to whether the panel shows the present    *)
(* one: a kind of the model is stale from its change, or the panel's end,  *)
(* until a request that was built after it reaches the panel.              *)
(***************************************************************************)
EXTENDS Naturals, Sequences, FiniteSets

CONSTANTS Runs,        \* play-from, play-all and play-item events he may send
          Lines,       \* how many lines each of them names
          Installed,   \* the UI Utility is installed
          TabOffered,  \* its contract has the queue tab (1.6)
          MaxInputs,   \* bound: presses, closes and settings of his
          MaxFaults,   \* bound: the utility quits, a reply is late, the daemon restarts
          None

ASSUME ControlAssumption ==
    /\ Lines \in Nat /\ Installed \in BOOLEAN /\ TabOffered \in BOOLEAN
    /\ MaxInputs \in Nat /\ MaxFaults \in Nat /\ None \notin Runs \cup {"open", "update"}

VARIABLES player,    \* `[history] player` in the settings file
          mark,      \* the "closed it" mark in its file
          holding,   \* another app's sound, or a meeting
          pending,   \* _model.pending
          wake,      \* _wake
          events,    \* _events
          wantOpen,  \* _want_open
          open,      \* _open
          due,       \* the queue's debounce is over
          link,      \* the connection: none, live, dead (the other end has gone)
          reader,    \* the reader thread: idle, or the stop it acts on
          inflight,  \* what the utility sent and the reader has not read
          at,        \* where the worker is
          batch,     \* the events it took
          todo,      \* the kinds this sync took
          run,       \* the run being queued
          left,      \* its lines not yet queued
          stopped,   \* his stops are not those this run began with
          request,   \* the request under way: its command
          carries,   \* the kinds it carries as they are now
          narrator,  \* what playing() read of the mark, None outside it
          utility,   \* the UI Utility runs
          panel,     \* its control is open
          stale,     \* kinds the panel shows as they were
          inputs, faults,
          \* history
          shut,      \* his close was told, and he has not reopened since
          void,      \* runs he sent before a stop of his
          dropped,   \* those that waited to be handled at that moment
          cut,       \* those that were being queued
          late       \* lines of each void run queued after it, of a cut one after its cut

driver == <<pending, wake, events, wantOpen, open, due, link, reader, inflight>>
worker == <<at, batch, todo, run, left, stopped, request, carries>>
outside == <<utility, panel>>
files == <<player, mark, holding>>
bounds == <<inputs, faults>>
history == <<shut, void, dropped, cut, late>>
vars == <<files, driver, worker, narrator, outside, stale, bounds, history>>

\* _SOURCE, _ITEMS and _NOW, what the list and its head say, are one kind.
Kinds == {"rows", "state", "queue"}
Events == [kind : {"closed", "rate", "player-on", "player-off", "keep", "stop", "press", "edit"}, run : {None}]
              \cup [kind : {"play"}, run : Runs]
Event(k) == [kind |-> k, run |-> None]

TypeOK ==
    /\ player \in BOOLEAN /\ mark \in BOOLEAN /\ holding \in BOOLEAN
    /\ pending \subseteq Kinds /\ wake \in BOOLEAN /\ wantOpen \in BOOLEAN /\ open \in BOOLEAN
    /\ due \in BOOLEAN /\ link \in {"none", "live", "dead"} /\ reader \in {"idle", "stop"}
    /\ events \in Seq(Events) /\ inflight \in Seq(Events) /\ batch \in Seq(Events)
    /\ at \in {"rest", "handle", "run", "queueing", "sync", "connect", "send", "tab", "update", "closing"}
    /\ todo \subseteq Kinds /\ carries \subseteq Kinds /\ stale \subseteq Kinds
    /\ run \in Runs \cup {None} /\ left \in 0..Lines /\ stopped \in BOOLEAN
    /\ request \in {"open", "update", None} /\ narrator \in {None, TRUE, FALSE}
    /\ utility \in BOOLEAN /\ panel \in BOOLEAN /\ inputs \in 0..MaxInputs /\ faults \in 0..MaxFaults
    /\ shut \in BOOLEAN /\ void \subseteq Runs /\ cut \subseteq void /\ dropped \subseteq void /\ late \in [Runs -> 0..Lines]

\* A driver just made: it reads nothing of an earlier one but the files.
Fresh ==
    /\ pending' = {} /\ wake' = FALSE /\ events' = <<>> /\ wantOpen' = FALSE /\ open' = FALSE
    /\ due' = TRUE /\ link' = "none" /\ reader' = "idle" /\ inflight' = <<>>
    /\ at' = "rest" /\ batch' = <<>> /\ todo' = {} /\ run' = None /\ left' = 0 /\ stopped' = FALSE
    /\ request' = None /\ carries' = {} /\ narrator' = None

Init ==
    /\ player = TRUE /\ mark = FALSE /\ holding = FALSE
    /\ pending = {} /\ wake = FALSE /\ events = <<>> /\ wantOpen = FALSE /\ open = FALSE
    /\ due = TRUE /\ link = "none" /\ reader = "idle" /\ inflight = <<>>
    /\ at = "rest" /\ batch = <<>> /\ todo = {} /\ run = None /\ left = 0 /\ stopped = FALSE
    /\ request = None /\ carries = {} /\ narrator = None
    /\ utility = FALSE /\ panel = FALSE /\ stale = Kinds
    /\ inputs = 0 /\ faults = 0
    /\ shut = FALSE /\ void = {} /\ dropped = {} /\ cut = {} /\ late = [r \in Runs |-> 0]

----------------------------------------------------------------------------
\* The narrator's side: the model changes and the worker is woken.

Changes(kinds) ==
    /\ pending' = pending \cup kinds
    /\ stale' = stale \cup kinds
    /\ carries' = carries \ kinds
    /\ wake' = TRUE

Narrates(kinds) ==
    /\ Changes(kinds)
    /\ UNCHANGED <<files, events, open, due, link, reader, inflight, at, batch, todo, run, left, stopped,
                   request, outside, bounds, history>>

\* playing: the mark is read, and then the control is asked to open.
PlayingReads ==
    /\ narrator = None
    /\ narrator' = mark
    /\ UNCHANGED <<files, driver, worker, outside, stale, bounds, history>>

Playing ==
    /\ narrator # None
    /\ Narrates({"rows", "state"})
    /\ wantOpen' = (wantOpen \/ ~narrator)
    /\ narrator' = None

\* held, list_changed, queue_changed.
Noted ==
    /\ \E k \in Kinds : Narrates({k})
    /\ UNCHANGED <<wantOpen, narrator>>

LineEnded ==
    /\ narrator = None
    /\ Narrates({"rows", "state"})
    /\ wantOpen' = FALSE
    /\ UNCHANGED narrator

----------------------------------------------------------------------------
\* The reader thread.

\* Takes the next message off the connection.
Read(e) ==
    /\ reader = "idle" /\ inflight # <<>> /\ e = Head(inflight)
    /\ inflight' = Tail(inflight)

IsPlay(e) == e.kind = "play"

RunsIn(s) == {s[i].run : i \in DOMAIN s} \ {None}

\* A stop drops the plays that still wait to be handled.
PlaysDropped(s) ==
    LET kept[n \in 0..Len(s)] == IF n = 0 THEN <<>>
                                 ELSE IF IsPlay(s[n]) THEN kept[n - 1]
                                 ELSE Append(kept[n - 1], s[n])
    IN  kept[Len(s)]

\* Mutant: the run being queued goes on.
GoesOn == UNCHANGED stopped

\* It cancels a run being queued.
Cancels == stopped' = TRUE

\* His stop, first part: under the condition.
ReadStop ==
    /\ \E e \in Events : Read(e) /\ e.kind = "stop"
    /\ reader' = "stop"
    /\ events' = PlaysDropped(events)
    /\ Cancels
    /\ void' = void \cup RunsIn(events) \cup RunsIn(batch) \cup ({run} \ {None})
    /\ cut' = cut \cup ({run} \ {None})
    /\ dropped' = dropped \cup RunsIn(events)
    /\ late' = [r \in Runs |-> IF r = run /\ r \notin cut THEN 0 ELSE late[r]]
    /\ UNCHANGED <<files, pending, wake, wantOpen, open, due, link, at, batch, todo, run, left, request,
                   carries, narrator, outside, stale, bounds, shut>>

\* Second part: the narrator is stopped, the model is idle.
ActsOnStop ==
    /\ reader = "stop"
    /\ reader' = "idle"
    /\ Changes({"rows", "state"})
    /\ UNCHANGED <<files, events, wantOpen, open, due, link, inflight, at, batch, todo, run, left, stopped,
                   request, narrator, outside, bounds, history>>

\* Another press, done at once, and an edit of the queue tab.
ReadPress ==
    /\ \E e \in Events :
         /\ Read(e)
         /\ \/ e.kind = "press" /\ Changes({"state"})
            \/ e.kind = "edit" /\ Changes({"queue"})
    /\ UNCHANGED <<files, events, wantOpen, open, due, link, reader, at, batch, todo, run, left, stopped,
                   request, narrator, outside, bounds, history>>

\* The rest is the worker's.
ReadEvent ==
    /\ \E e \in Events :
         /\ Read(e) /\ e.kind \notin {"stop", "press", "edit"}
         /\ events' = Append(events, e)
    /\ wake' = TRUE
    /\ UNCHANGED <<files, pending, wantOpen, open, due, link, reader, worker, narrator, outside, stale,
                   bounds, history>>

\* The other end has gone: the reader drops the connection, once it has read
\* what came before.
ReaderEnds ==
    /\ link = "dead" /\ inflight = <<>> /\ reader = "idle"
    /\ link' = "none"
    /\ UNCHANGED <<files, pending, wake, events, wantOpen, open, due, reader, inflight, worker, narrator,
                   outside, stale, bounds, history>>

----------------------------------------------------------------------------
\* The worker: the events it took, then a sync.

\* Woken, or the queue's debounce is over.
Wakes ==
    /\ at = "rest" /\ (wake \/ ("queue" \in pending /\ due))
    /\ wake' = FALSE
    /\ batch' = events /\ events' = <<>>
    /\ at' = "handle"
    /\ UNCHANGED <<files, pending, wantOpen, open, due, link, reader, inflight, todo, run, left, stopped,
                   request, carries, narrator, outside, stale, bounds, history>>

Handles(kind) == at = "handle" /\ batch # <<>> /\ Head(batch).kind = kind /\ batch' = Tail(batch)

\* He closed it: the mark is kept on disk.
HandleClosed ==
    /\ Handles("closed")
    /\ open' = FALSE /\ wantOpen' = FALSE /\ mark' = TRUE
    /\ shut' = TRUE
    /\ UNCHANGED <<player, holding, pending, wake, events, due, link, reader, inflight, at, todo, run, left,
                   stopped, request, carries, narrator, outside, stale, bounds, void, dropped, cut, late>>

\* A rate at the control, or the lines kept in the settings window.
HandleSetting ==
    /\ \/ Handles("rate") /\ Changes({"state"})
       \/ Handles("keep") /\ Changes({"rows"})
    /\ UNCHANGED <<files, events, wantOpen, open, due, link, reader, inflight, at, todo, run, left, stopped,
                   request, narrator, outside, bounds, history>>

\* The settings window's switch: on is his own reopening.
HandlePlayer ==
    /\ \/ /\ Handles("player-on")
          /\ player' = TRUE /\ mark' = FALSE /\ wantOpen' = TRUE /\ shut' = FALSE
       \/ /\ Handles("player-off")
          /\ player' = FALSE /\ UNCHANGED <<mark, wantOpen, shut>>
    /\ Changes({})
    /\ UNCHANGED <<holding, events, open, due, link, reader, inflight, at, todo, run, left, stopped, request,
                   narrator, outside, bounds, void, dropped, cut, late>>

\* A run begins: his stops so far are noted, each line asks for them again.
BeginRun ==
    /\ Handles("play")
    /\ run' = Head(batch).run /\ left' = Lines /\ stopped' = FALSE
    /\ at' = "run"
    /\ UNCHANGED <<files, driver, todo, request, carries, narrator, outside, stale, bounds, history>>

NextLine ==
    /\ at = "run"
    /\ IF left > 0 /\ ~stopped
       THEN at' = "queueing" /\ UNCHANGED run
       ELSE at' = "handle" /\ run' = None
    /\ UNCHANGED <<files, driver, batch, todo, left, stopped, request, carries, narrator, outside, stale,
                   bounds, history>>

QueueLine ==
    /\ at = "queueing"
    /\ at' = "run"
    /\ left' = left - 1
    /\ late' = IF run \in void THEN [late EXCEPT ![run] = @ + 1] ELSE late
    /\ UNCHANGED <<files, driver, batch, todo, run, stopped, request, carries, narrator, outside, stale,
                   bounds, shut, void, dropped, cut>>

HandledAll ==
    /\ at = "handle" /\ batch = <<>>
    /\ at' = "sync"
    /\ UNCHANGED <<files, driver, batch, todo, run, left, stopped, request, carries, narrator, outside,
                   stale, bounds, history>>

\* What this sync takes: everything, the queue only when its debounce is over.
Taken == IF due THEN pending ELSE pending \ {"queue"}

\* Mutant: a line that wants it open is enough.
OpensForLine == wantOpen /\ Installed

\* The control opens for a line, unless he closed it.
MayOpen == ~mark /\ wantOpen /\ Installed

IsOpen == open /\ link # "none"

SyncTakes ==
    /\ at = "sync"
    /\ open' = IsOpen
    /\ IF ~player
       THEN /\ at' = IF IsOpen THEN "closing" ELSE "rest"
            /\ pending' = pending \ Taken
            /\ UNCHANGED <<todo, request, carries>>
       ELSE IF IsOpen
       THEN /\ at' = "update" /\ todo' = Taken
            /\ pending' = pending \ Taken
            /\ UNCHANGED <<request, carries>>
       ELSE IF MayOpen /\ ~holding
       THEN /\ at' = "connect" /\ request' = "open" /\ carries' = Kinds \ {"queue"}
            /\ pending' = pending \ Taken
            /\ UNCHANGED todo
       ELSE /\ at' = "rest"
            /\ pending' = IF MayOpen THEN pending ELSE pending \ Taken
            /\ UNCHANGED <<todo, request, carries>>
    /\ UNCHANGED <<files, wake, events, wantOpen, due, link, reader, inflight, batch, run, left, stopped,
                   narrator, outside, stale, bounds, history>>

\* _greeted_client: a connection that lives is used, else one is made, the
\* utility launched for it if it must be.
Connect ==
    /\ at = "connect"
    /\ at' = "send"
    /\ IF link = "none"
       THEN link' = "live" /\ utility' = TRUE /\ inflight' = <<>>
       ELSE UNCHANGED <<link, utility, inflight>>
    /\ UNCHANGED <<files, pending, wake, events, wantOpen, open, due, reader, batch, todo, run, left,
                   stopped, request, carries, narrator, panel, stale, bounds, history>>

\* A request that cannot be made ends the sync; what it took is not kept.
GivesUp ==
    /\ at' = "rest" /\ open' = FALSE /\ link' = "none" /\ todo' = {}
    /\ request' = None /\ carries' = {}

Fails ==
    \/ /\ at = "connect" /\ link = "none" /\ faults < MaxFaults /\ faults' = faults + 1
       /\ UNCHANGED <<panel, stale, inflight>>
    \/ /\ at \in {"send", "tab", "closing"} /\ link # "live" /\ inflight' = <<>>
       /\ UNCHANGED <<panel, stale, faults>>
    \* The panel has it, but the reply comes too late.
    \/ /\ at = "send" /\ link = "live" /\ faults < MaxFaults /\ faults' = faults + 1
       /\ panel' = (panel \/ request = "open")
       /\ stale' = IF panel' THEN stale \ carries ELSE stale
       /\ inflight' = <<>>

\* What the reader had not read is lost with the connection.
RequestFails ==
    /\ Fails /\ GivesUp
    /\ UNCHANGED <<files, pending, wake, events, wantOpen, due, reader, batch, run, left, stopped, narrator,
                   utility, inputs, history>>

OpenSent ==
    /\ at = "send" /\ request = "open" /\ link = "live"
    /\ panel' = TRUE /\ stale' = stale \ carries
    /\ open' = TRUE /\ wantOpen' = FALSE
    /\ at' = "tab" /\ request' = None /\ carries' = {}
    /\ UNCHANGED <<files, pending, wake, events, due, link, reader, inflight, batch, todo, run, left,
                   stopped, narrator, utility, bounds, history>>

\* An update: the panel takes it, or refuses it because it is not open.
UpdateSent ==
    /\ at = "send" /\ request = "update" /\ link = "live"
    /\ stale' = IF panel THEN stale \ carries ELSE stale
    /\ open' = panel
    /\ at' = IF panel THEN "update" ELSE "rest"
    /\ todo' = IF panel THEN todo ELSE {}
    /\ request' = None /\ carries' = {}
    /\ UNCHANGED <<files, pending, wake, events, wantOpen, due, link, reader, inflight, batch, run, left,
                   stopped, narrator, outside, bounds, history>>

\* _send_queue: what waits, read and sent; the debounce begins again.
TabSent ==
    /\ \/ at = "tab" /\ at' = "rest"
       \/ at = "update" /\ todo = {"queue"} /\ at' = "rest"
    /\ link = "live"
    /\ todo' = {} /\ due' = FALSE
    /\ stale' = IF panel /\ TabOffered THEN stale \ {"queue"} ELSE stale
    /\ UNCHANGED <<files, pending, wake, events, wantOpen, open, link, reader, inflight, batch, run, left,
                   stopped, request, carries, narrator, outside, bounds, history>>

\* The next kind, in the order they are sent, built from the model.
Build ==
    /\ at = "update"
    /\ \E k \in todo \ {"queue"} :
         /\ "rows" \in todo => k = "rows"
         /\ todo' = todo \ {k} /\ carries' = {k}
    /\ request' = "update" /\ at' = "send"
    /\ UNCHANGED <<files, driver, batch, run, left, stopped, narrator, outside, stale, bounds, history>>

\* Mutant: what is pending is forgotten when it was sent.
ForgetsPending == pending' = {}

\* What has become pending meanwhile stays so.
KeepsPending == UNCHANGED pending

Updated ==
    /\ at = "update" /\ (todo = {} \/ (todo = {"queue"} /\ link # "live"))
    /\ at' = "rest" /\ todo' = {}
    /\ open' = (open /\ todo = {})
    /\ KeepsPending
    /\ UNCHANGED <<files, wake, events, wantOpen, due, link, reader, inflight, batch, run, left,
                   stopped, request, carries, narrator, outside, stale, bounds, history>>

\* The setting is off: the control is closed.
CloseSent ==
    /\ at = "closing" /\ link = "live"
    /\ panel' = FALSE /\ stale' = Kinds /\ open' = FALSE
    /\ at' = "rest"
    /\ UNCHANGED <<files, pending, wake, events, wantOpen, due, link, reader, inflight, batch, todo, run,
                   left, stopped, request, carries, narrator, utility, bounds, history>>

\* QUEUE_DEBOUNCE_SECONDS have gone by.
DebounceOver ==
    /\ ~due /\ due' = TRUE
    /\ UNCHANGED <<files, pending, wake, events, wantOpen, open, link, reader, inflight, worker, narrator,
                   outside, stale, bounds, history>>

----------------------------------------------------------------------------
\* He, and the UI Utility.

Input == inputs < MaxInputs /\ inputs' = inputs + 1

Sent(e) == inflight' = IF link = "live" THEN Append(inflight, e) ELSE inflight

\* He closes the control; who listens is told.
HeCloses ==
    /\ Input /\ panel
    /\ panel' = FALSE /\ stale' = Kinds /\ Sent(Event("closed"))
    /\ UNCHANGED <<files, pending, wake, events, wantOpen, open, due, link, reader, worker, narrator,
                   utility, faults, history>>

\* He presses something on it, or changes a setting of its window.
HePresses ==
    /\ Input /\ link = "live"
    /\ \/ \E k \in {"rate", "keep", "player-on", "player-off", "stop", "press", "edit"} : Sent(Event(k))
       \/ \E r \in Runs :
            /\ \A s \in {inflight, events, batch} : r \notin RunsIn(s)
            /\ r \notin void \cup {run}
            /\ Sent([kind |-> "play", run |-> r])
    /\ UNCHANGED <<files, pending, wake, events, wantOpen, open, due, link, reader, worker, narrator,
                   outside, stale, faults, history>>

\* `history player-on`, `player-off` of another process.
PlayerOn ==
    /\ Input
    /\ player' = TRUE /\ mark' = FALSE /\ shut' = FALSE
    /\ UNCHANGED <<holding, driver, worker, narrator, outside, stale, faults, void, dropped, cut, late>>

PlayerOff ==
    /\ Input /\ player
    /\ player' = FALSE
    /\ UNCHANGED <<mark, holding, driver, worker, narrator, outside, stale, faults, history>>

HoldChanges ==
    /\ Input
    /\ holding' = ~holding
    /\ UNCHANGED <<player, mark, driver, worker, narrator, outside, stale, faults, history>>

Fault == faults < MaxFaults /\ faults' = faults + 1

\* The utility quits, and its panel with it.
Quits ==
    /\ Fault /\ utility
    /\ utility' = FALSE /\ panel' = FALSE /\ stale' = Kinds
    /\ link' = IF link = "live" THEN "dead" ELSE link
    /\ UNCHANGED <<files, pending, wake, events, wantOpen, open, due, reader, inflight, worker, narrator,
                   inputs, history>>

\* The daemon ends and starts again; the panel stays as it is.
Restart ==
    /\ Fault /\ Fresh
    /\ UNCHANGED <<files, outside, stale, inputs, history>>

ReaderStep == ReadStop \/ ActsOnStop \/ ReadPress \/ ReadEvent \/ ReaderEnds

WorkerStep ==
    \/ Wakes \/ HandleClosed \/ HandleSetting \/ HandlePlayer \/ BeginRun \/ NextLine \/ QueueLine
    \/ HandledAll \/ SyncTakes \/ Connect \/ RequestFails \/ OpenSent \/ UpdateSent \/ TabSent \/ Build
    \/ Updated \/ CloseSent

Next ==
    \/ PlayingReads \/ Playing \/ Noted \/ LineEnded
    \/ ReaderStep \/ WorkerStep \/ DebounceOver
    \/ HeCloses \/ HePresses \/ PlayerOn \/ PlayerOff \/ HoldChanges
    \/ Quits \/ Restart

Spec == Init /\ [][Next]_vars

----------------------------------------------------------------------------
\* Properties.

\* When the worker rests and nothing wakes it, the panel it holds open shows
\* every line and state as it is, the queue tab's next send apart: no change
\* of the model made while a request was built or sent is lost.
ShowsTheModel ==
    at = "rest" /\ ~wake /\ open /\ panel /\ link = "live" =>
        stale \subseteq (pending \cap {"queue"}) \cup (IF TabOffered THEN {} ELSE {"queue"})

\* "A control he closed stays closed, across restarts, until he reopens it":
\* once the driver was told of his close, no line, hold, lost connection or
\* restart opens the control before he does.
StaysClosed == [][shut /\ ~panel => ~panel' \/ ~shut']_vars

\* A stop of his cancels the run being queued, so that at most the line whose
\* turn had come is queued after it, and drops the runs that wait.
StopCutsTheRun == (\A r \in cut : late[r] <= 1) /\ (\A r \in dropped : late[r] = 0)

\* "A stop also drops the plays still waiting to be handled and cancels a run
\* being queued": of what he sent before a stop, at most the line whose turn
\* had come is queued after it.
StopDropsWhatWaits == \A r \in void : late[r] <= 1
=============================================================================
