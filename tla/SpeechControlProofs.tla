------------------------ MODULE SpeechControlProofs ------------------------
(***************************************************************************)
(* Theorems about SpeechControl, for any runs, lines, inputs and faults: a *)
(* control he closed stays closed, a panel the worker holds open shows the *)
(* model when the worker rests, and a stop cuts the run it is told of.     *)
(*                                                                         *)
(* For the first: his close marks the file, and no opening is under way    *)
(* while the mark stands (ClosedIsMarked).  For the second: whatever the   *)
(* panel shows as it was is pending, taken by the sync, or carried by the  *)
(* request under way (StaleIsDue), and whatever is pending wakes the       *)
(* worker (PendingWakes).                                                  *)
(* For the third: a run he sent is in one place (RunOnce), a run that was  *)
(* dropped is nowhere (DroppedIsGone), and one that was cut is being       *)
(* queued and stopped, or nowhere (CutIsEnding).                           *)
(***************************************************************************)
EXTENDS SpeechControl, SequenceTheorems, WellFoundedInduction, TLAPS

\* A request is under way between its building and its reply alone.
RequestUnderWay == request # None => at \in {"connect", "send"}

\* His close stands in the file, and no opening is under way.
ClosedIsMarked == shut => mark /\ request # "open"

\* The worker has taken what was pending.
AfterTaking == {"connect", "send", "tab", "update", "closing", "rest"}

\* Outside a sync nothing is taken or carried.
TakenIsSent ==
    /\ at \notin {"update", "send"} => todo = {}
    /\ at \notin {"connect", "send"} => carries = {}
    /\ at = "send" /\ request # "update" => todo = {}

\* An opening is asked for a control that is not held open, an update for one
\* that is.
OpensTheClosed ==
    /\ at = "connect" \/ request = "open" => ~open
    /\ at = "update" \/ request = "update" => open

\* An opening carries all but the queue, and what has changed since is pending.
OpeningIsWhole ==
    /\ stale \subseteq Kinds
    /\ at = "connect" \/ request = "open" => Kinds \ {"queue"} \subseteq carries \cup pending

QueueTab == {"queue"}

\* What the panel shows as it was is on its way.
StaleIsDue ==
    open /\ panel /\ link = "live" /\ at # "closing" =>
        stale \subseteq pending \cup todo \cup carries \cup (IF at = "tab" \/ ~TabOffered THEN QueueTab ELSE {})

\* What is pending past the taking wakes the worker, the queue's debounce and
\* a control that may not open yet apart.
PendingWakes ==
    at \in AfterTaking /\ ~wake => pending \subseteq QueueTab \/ (at = "rest" /\ ~open)

\* The flags are Booleans.
Flags ==
    /\ wake \in BOOLEAN /\ open \in BOOLEAN /\ panel \in BOOLEAN
    /\ mark \in BOOLEAN /\ shut \in BOOLEAN

\* The inductive invariant.
IInv ==
    /\ Flags
    /\ RequestUnderWay /\ ClosedIsMarked
    /\ TakenIsSent /\ OpensTheClosed /\ OpeningIsWhole /\ StaleIsDue /\ PendingWakes

----------------------------------------------------------------------------
\* What each step keeps, a part of the invariant at a time.

\* The flags stay Booleans.
LEMMA FlagsKept ==
    ASSUME Flags, Next
    PROVE  Flags'
<1> USE DEF driver, worker, outside, files, bounds, history, Flags
<1>1. CASE Playing
  BY <1>1 DEF Playing, Narrates, Changes
<1>2. CASE Noted
  BY <1>2 DEF Noted, Narrates, Changes
<1>3. CASE LineEnded
  BY <1>3 DEF LineEnded, Narrates, Changes
<1>4. CASE ActsOnStop
  BY <1>4 DEF ActsOnStop, Changes
<1>5. CASE ReadPress
  BY <1>5 DEF ReadPress, Changes, Read
<1>6. CASE ReadEvent
  BY <1>6 DEF ReadEvent, Read
<1>7. CASE Wakes
  BY <1>7 DEF Wakes
<1>8. CASE HandleClosed
  BY <1>8 DEF HandleClosed, Handles
<1>9. CASE HandleSetting
  BY <1>9 DEF HandleSetting, Changes, Handles
<1>10. CASE HandlePlayer
  BY <1>10 DEF HandlePlayer, Changes, Handles
<1>11. CASE SyncTakes
  BY <1>11 DEF SyncTakes, IsOpen, MayOpen, Taken
<1>12. CASE RequestFails
  BY <1>12 DEF RequestFails, Fails, GivesUp
<1>13. CASE OpenSent
  BY <1>13 DEF OpenSent
<1>14. CASE UpdateSent
  BY <1>14 DEF UpdateSent
<1>15. CASE Updated
  BY <1>15 DEF Updated, KeepsPending
<1>16. CASE CloseSent
  BY <1>16 DEF CloseSent
<1>17. CASE HeCloses
  BY <1>17 DEF HeCloses, Sent
<1>18. CASE PlayerOn
  BY <1>18 DEF PlayerOn
<1>19. CASE Quits
  BY <1>19 DEF Quits
<1>20. CASE Restart
  BY <1>20 DEF Restart, Fresh
<1>21. CASE UNCHANGED <<wake, open, panel, mark, shut>>
  BY <1>21
<1> QED BY <1>1, <1>2, <1>3, <1>4, <1>5, <1>6, <1>7, <1>8, <1>9, <1>10, <1>11, <1>12, <1>13,
           <1>14, <1>15, <1>16, <1>17, <1>18, <1>19, <1>20, <1>21
       DEF Next, ReaderStep, WorkerStep, PlayingReads, ReadStop, Cancels, Read, ReaderEnds,
           BeginRun, Handles, NextLine, QueueLine, HandledAll, Connect, TabSent, Build,
           DebounceOver, HePresses, Sent, PlayerOff, HoldChanges

\* A request begins with the connection, or with an update built, and ends with its reply.
LEMMA RequestUnderWayKept ==
    ASSUME Flags, RequestUnderWay, Next
    PROVE  RequestUnderWay'
<1> USE DEF driver, worker, outside, files, bounds, history, Flags, RequestUnderWay
<1>1. CASE Wakes
  BY <1>1 DEF Wakes
<1>2. CASE BeginRun
  BY <1>2 DEF BeginRun, Handles
<1>3. CASE NextLine
  BY <1>3 DEF NextLine
<1>4. CASE QueueLine
  BY <1>4 DEF QueueLine
<1>5. CASE HandledAll
  BY <1>5 DEF HandledAll
<1>6. CASE SyncTakes
  BY <1>6, ControlAssumption DEF SyncTakes, IsOpen, MayOpen, Taken
<1>7. CASE Connect
  BY <1>7 DEF Connect
<1>8. CASE RequestFails
  BY <1>8, ControlAssumption DEF RequestFails, Fails, GivesUp
<1>9. CASE OpenSent
  BY <1>9, ControlAssumption DEF OpenSent
<1>10. CASE UpdateSent
  BY <1>10, ControlAssumption DEF UpdateSent
<1>11. CASE TabSent
  BY <1>11 DEF TabSent
<1>12. CASE Build
  BY <1>12 DEF Build
<1>13. CASE Updated
  BY <1>13, ControlAssumption DEF Updated, KeepsPending
<1>14. CASE CloseSent
  BY <1>14, ControlAssumption DEF CloseSent
<1>15. CASE Restart
  BY <1>15, ControlAssumption DEF Restart, Fresh
<1>16. CASE UNCHANGED <<request, at>>
  BY <1>16
<1> QED BY <1>1, <1>2, <1>3, <1>4, <1>5, <1>6, <1>7, <1>8, <1>9, <1>10, <1>11, <1>12, <1>13,
           <1>14, <1>15, <1>16
       DEF Next, ReaderStep, WorkerStep, PlayingReads, Playing, Narrates, Changes, Noted,
           Narrates, Changes, LineEnded, Narrates, Changes, ReadStop, Cancels, Read,
           ActsOnStop, Changes, ReadPress, Changes, Read, ReadEvent, Read, ReaderEnds,
           HandleClosed, Handles, HandleSetting, Changes, Handles, HandlePlayer, Changes,
           Handles, DebounceOver, HeCloses, Sent, HePresses, Sent, PlayerOn, PlayerOff,
           HoldChanges, Quits

\* The mark is set with his close, and only he removes it.
LEMMA ClosedIsMarkedKept ==
    ASSUME Flags, ClosedIsMarked, RequestUnderWay, Next
    PROVE  ClosedIsMarked'
<1> USE DEF driver, worker, outside, files, bounds, history, Flags, ClosedIsMarked,
        RequestUnderWay
<1>1. CASE HandleClosed
  BY <1>1, ControlAssumption DEF HandleClosed, Handles
<1>2. CASE HandlePlayer
  BY <1>2 DEF HandlePlayer, Changes, Handles
<1>3. CASE SyncTakes
  BY <1>3, ControlAssumption DEF SyncTakes, IsOpen, MayOpen, Taken
<1>4. CASE RequestFails
  BY <1>4, ControlAssumption DEF RequestFails, Fails, GivesUp
<1>5. CASE OpenSent
  BY <1>5, ControlAssumption DEF OpenSent
<1>6. CASE UpdateSent
  BY <1>6, ControlAssumption DEF UpdateSent
<1>7. CASE Build
  BY <1>7 DEF Build
<1>8. CASE PlayerOn
  BY <1>8 DEF PlayerOn
<1>9. CASE Restart
  BY <1>9, ControlAssumption DEF Restart, Fresh
<1>10. CASE UNCHANGED <<shut, mark, request>>
  BY <1>10
<1> QED BY <1>1, <1>2, <1>3, <1>4, <1>5, <1>6, <1>7, <1>8, <1>9, <1>10
       DEF Next, ReaderStep, WorkerStep, PlayingReads, Playing, Narrates, Changes, Noted,
           Narrates, Changes, LineEnded, Narrates, Changes, ReadStop, Cancels, Read,
           ActsOnStop, Changes, ReadPress, Changes, Read, ReadEvent, Read, ReaderEnds, Wakes,
           HandleSetting, Changes, Handles, BeginRun, Handles, NextLine, QueueLine, HandledAll,
           Connect, TabSent, Updated, KeepsPending, CloseSent, DebounceOver, HeCloses, Sent,
           HePresses, Sent, PlayerOff, HoldChanges, Quits

\* A sync ends with nothing taken and nothing carried.
LEMMA TakenIsSentKept ==
    ASSUME Flags, TakenIsSent, Next
    PROVE  TakenIsSent'
<1> USE DEF driver, worker, outside, files, bounds, history, Flags, TakenIsSent
<1>1. CASE Playing
  BY <1>1 DEF Playing, Narrates, Changes
<1>2. CASE Noted
  BY <1>2 DEF Noted, Narrates, Changes
<1>3. CASE LineEnded
  BY <1>3 DEF LineEnded, Narrates, Changes
<1>4. CASE ActsOnStop
  BY <1>4 DEF ActsOnStop, Changes
<1>5. CASE ReadPress
  BY <1>5 DEF ReadPress, Changes, Read
<1>6. CASE Wakes
  BY <1>6 DEF Wakes
<1>7. CASE HandleSetting
  BY <1>7 DEF HandleSetting, Changes, Handles
<1>8. CASE HandlePlayer
  BY <1>8 DEF HandlePlayer, Changes, Handles
<1>9. CASE BeginRun
  BY <1>9 DEF BeginRun, Handles
<1>10. CASE NextLine
  BY <1>10 DEF NextLine
<1>11. CASE QueueLine
  BY <1>11 DEF QueueLine
<1>12. CASE HandledAll
  BY <1>12 DEF HandledAll
<1>13. CASE SyncTakes
  BY <1>13 DEF SyncTakes, IsOpen, MayOpen, Taken
<1>14. CASE Connect
  BY <1>14 DEF Connect
<1>15. CASE RequestFails
  BY <1>15 DEF RequestFails, Fails, GivesUp
<1>16. CASE OpenSent
  BY <1>16 DEF OpenSent
<1>17. CASE UpdateSent
  BY <1>17 DEF UpdateSent
<1>18. CASE TabSent
  BY <1>18 DEF TabSent
<1>19. CASE Build
  BY <1>19 DEF Build
<1>20. CASE Updated
  BY <1>20 DEF Updated, KeepsPending
<1>21. CASE CloseSent
  BY <1>21 DEF CloseSent
<1>22. CASE Restart
  BY <1>22 DEF Restart, Fresh
<1>23. CASE UNCHANGED <<at, todo, carries, request>>
  BY <1>23
<1> QED BY <1>1, <1>2, <1>3, <1>4, <1>5, <1>6, <1>7, <1>8, <1>9, <1>10, <1>11, <1>12, <1>13,
           <1>14, <1>15, <1>16, <1>17, <1>18, <1>19, <1>20, <1>21, <1>22, <1>23
       DEF Next, ReaderStep, WorkerStep, PlayingReads, ReadStop, Cancels, Read, ReadEvent,
           Read, ReaderEnds, HandleClosed, Handles, DebounceOver, HeCloses, Sent, HePresses,
           Sent, PlayerOn, PlayerOff, HoldChanges, Quits

\* The sync that opens found the control not open.
LEMMA OpensTheClosedKept ==
    ASSUME Flags, OpensTheClosed, RequestUnderWay, Next
    PROVE  OpensTheClosed'
<1> USE DEF driver, worker, outside, files, bounds, history, Flags, OpensTheClosed,
        RequestUnderWay
<1>1. CASE Wakes
  BY <1>1 DEF Wakes
<1>2. CASE HandleClosed
  BY <1>2, ControlAssumption DEF HandleClosed, Handles
<1>3. CASE BeginRun
  BY <1>3 DEF BeginRun, Handles
<1>4. CASE NextLine
  BY <1>4 DEF NextLine
<1>5. CASE QueueLine
  BY <1>5 DEF QueueLine
<1>6. CASE HandledAll
  BY <1>6 DEF HandledAll
<1>7. CASE SyncTakes
  BY <1>7, ControlAssumption DEF SyncTakes, IsOpen, MayOpen, Taken
<1>8. CASE Connect
  BY <1>8 DEF Connect
<1>9. CASE RequestFails
  BY <1>9, ControlAssumption DEF RequestFails, Fails, GivesUp
<1>10. CASE OpenSent
  BY <1>10, ControlAssumption DEF OpenSent
<1>11. CASE UpdateSent
  BY <1>11, ControlAssumption DEF UpdateSent
<1>12. CASE TabSent
  BY <1>12 DEF TabSent
<1>13. CASE Build
  BY <1>13 DEF Build
<1>14. CASE Updated
  BY <1>14, ControlAssumption DEF Updated, KeepsPending
<1>15. CASE CloseSent
  BY <1>15, ControlAssumption DEF CloseSent
<1>16. CASE Restart
  BY <1>16, ControlAssumption DEF Restart, Fresh
<1>17. CASE UNCHANGED <<at, request, open>>
  BY <1>17
<1> QED BY <1>1, <1>2, <1>3, <1>4, <1>5, <1>6, <1>7, <1>8, <1>9, <1>10, <1>11, <1>12, <1>13,
           <1>14, <1>15, <1>16, <1>17
       DEF Next, ReaderStep, WorkerStep, PlayingReads, Playing, Narrates, Changes, Noted,
           Narrates, Changes, LineEnded, Narrates, Changes, ReadStop, Cancels, Read,
           ActsOnStop, Changes, ReadPress, Changes, Read, ReadEvent, Read, ReaderEnds,
           HandleSetting, Changes, Handles, HandlePlayer, Changes, Handles, DebounceOver,
           HeCloses, Sent, HePresses, Sent, PlayerOn, PlayerOff, HoldChanges, Quits

\* An opening is built whole, and a change takes its kind out of it into what is pending.
LEMMA OpeningIsWholeKept ==
    ASSUME Flags, OpeningIsWhole, RequestUnderWay, TakenIsSent, Next
    PROVE  OpeningIsWhole'
<1> USE DEF driver, worker, outside, files, bounds, history, Kinds, Flags, OpeningIsWhole,
        RequestUnderWay, TakenIsSent
<1>1. CASE Playing
  BY <1>1 DEF Playing, Narrates, Changes
<1>2. CASE Noted
  BY <1>2 DEF Noted, Narrates, Changes
<1>3. CASE LineEnded
  BY <1>3 DEF LineEnded, Narrates, Changes
<1>4. CASE ActsOnStop
  BY <1>4 DEF ActsOnStop, Changes
<1>5. CASE ReadPress
  BY <1>5 DEF ReadPress, Changes, Read
<1>6. CASE Wakes
  BY <1>6 DEF Wakes
<1>7. CASE HandleSetting
  BY <1>7 DEF HandleSetting, Changes, Handles
<1>8. CASE HandlePlayer
  BY <1>8 DEF HandlePlayer, Changes, Handles
<1>9. CASE BeginRun
  BY <1>9 DEF BeginRun, Handles
<1>10. CASE NextLine
  BY <1>10 DEF NextLine
<1>11. CASE QueueLine
  BY <1>11 DEF QueueLine
<1>12. CASE HandledAll
  BY <1>12 DEF HandledAll
<1>13. CASE SyncTakes
  BY <1>13, ControlAssumption DEF SyncTakes, IsOpen, MayOpen, Taken
<1>14. CASE Connect
  BY <1>14 DEF Connect
<1>15. CASE RequestFails
  BY <1>15, ControlAssumption DEF RequestFails, Fails, GivesUp
<1>16. CASE OpenSent
  BY <1>16, ControlAssumption DEF OpenSent
<1>17. CASE UpdateSent
  BY <1>17, ControlAssumption DEF UpdateSent
<1>18. CASE TabSent
  BY <1>18 DEF TabSent
<1>19. CASE Build
  BY <1>19 DEF Build
<1>20. CASE Updated
  BY <1>20, ControlAssumption DEF Updated, KeepsPending
<1>21. CASE CloseSent
  BY <1>21, ControlAssumption DEF CloseSent
<1>22. CASE HeCloses
  BY <1>22 DEF HeCloses, Sent
<1>23. CASE Quits
  BY <1>23 DEF Quits
<1>24. CASE Restart
  BY <1>24, ControlAssumption DEF Restart, Fresh
<1>25. CASE UNCHANGED <<at, request, carries, pending, stale>>
  BY <1>25
<1> QED BY <1>1, <1>2, <1>3, <1>4, <1>5, <1>6, <1>7, <1>8, <1>9, <1>10, <1>11, <1>12, <1>13,
           <1>14, <1>15, <1>16, <1>17, <1>18, <1>19, <1>20, <1>21, <1>22, <1>23, <1>24, <1>25
       DEF Next, ReaderStep, WorkerStep, PlayingReads, ReadStop, Cancels, Read, ReadEvent,
           Read, ReaderEnds, HandleClosed, Handles, DebounceOver, HePresses, Sent, PlayerOn,
           PlayerOff, HoldChanges

\* A change makes stale what it makes pending, and only what was carried is shown.
LEMMA StaleIsDueKept ==
    ASSUME Flags, StaleIsDue, TakenIsSent, OpensTheClosed, RequestUnderWay, OpeningIsWhole, Next
    PROVE  StaleIsDue'
<1> USE DEF driver, worker, outside, files, bounds, history, Kinds, QueueTab, Flags,
        StaleIsDue, TakenIsSent, OpensTheClosed, RequestUnderWay, OpeningIsWhole
<1>1. CASE Playing
  BY <1>1 DEF Playing, Narrates, Changes
<1>2. CASE Noted
  BY <1>2 DEF Noted, Narrates, Changes
<1>3. CASE LineEnded
  BY <1>3 DEF LineEnded, Narrates, Changes
<1>4. CASE ActsOnStop
  BY <1>4 DEF ActsOnStop, Changes
<1>5. CASE ReadPress
  BY <1>5 DEF ReadPress, Changes, Read
<1>6. CASE ReaderEnds
  BY <1>6 DEF ReaderEnds
<1>7. CASE Wakes
  BY <1>7 DEF Wakes
<1>8. CASE HandleClosed
  BY <1>8, ControlAssumption DEF HandleClosed, Handles
<1>9. CASE HandleSetting
  BY <1>9 DEF HandleSetting, Changes, Handles
<1>10. CASE HandlePlayer
  BY <1>10 DEF HandlePlayer, Changes, Handles
<1>11. CASE BeginRun
  BY <1>11 DEF BeginRun, Handles
<1>12. CASE NextLine
  BY <1>12 DEF NextLine
<1>13. CASE QueueLine
  BY <1>13 DEF QueueLine
<1>14. CASE HandledAll
  BY <1>14 DEF HandledAll
<1>15. CASE SyncTakes
  BY <1>15, ControlAssumption DEF SyncTakes, IsOpen, MayOpen, Taken
<1>16. CASE Connect
  BY <1>16 DEF Connect
<1>17. CASE RequestFails
  BY <1>17, ControlAssumption DEF RequestFails, Fails, GivesUp
<1>18. CASE OpenSent
  BY <1>18, ControlAssumption DEF OpenSent
<1>19. CASE UpdateSent
  BY <1>19, ControlAssumption DEF UpdateSent
<1>20. CASE TabSent
  BY <1>20 DEF TabSent
<1>21. CASE Build
  BY <1>21 DEF Build
<1>22. CASE Updated
  BY <1>22, ControlAssumption DEF Updated, KeepsPending
<1>23. CASE CloseSent
  BY <1>23, ControlAssumption DEF CloseSent
<1>24. CASE HeCloses
  BY <1>24 DEF HeCloses, Sent
<1>25. CASE Quits
  BY <1>25 DEF Quits
<1>26. CASE Restart
  BY <1>26, ControlAssumption DEF Restart, Fresh
<1>27. CASE UNCHANGED <<open, panel, link, at, stale, pending, todo, carries>>
  BY <1>27
<1> QED BY <1>1, <1>2, <1>3, <1>4, <1>5, <1>6, <1>7, <1>8, <1>9, <1>10, <1>11, <1>12, <1>13,
           <1>14, <1>15, <1>16, <1>17, <1>18, <1>19, <1>20, <1>21, <1>22, <1>23, <1>24, <1>25,
           <1>26, <1>27
       DEF Next, ReaderStep, WorkerStep, PlayingReads, ReadStop, Cancels, Read, ReadEvent,
           Read, DebounceOver, HePresses, Sent, PlayerOn, PlayerOff, HoldChanges

\* A change wakes the worker, and the taking leaves the queue's alone.
LEMMA PendingWakesKept ==
    ASSUME Flags, PendingWakes, OpensTheClosed, RequestUnderWay, Next
    PROVE  PendingWakes'
<1> USE DEF driver, worker, outside, files, bounds, history, AfterTaking, QueueTab, Flags,
        PendingWakes, OpensTheClosed, RequestUnderWay
<1>1. CASE Playing
  BY <1>1 DEF Playing, Narrates, Changes
<1>2. CASE Noted
  BY <1>2 DEF Noted, Narrates, Changes
<1>3. CASE LineEnded
  BY <1>3 DEF LineEnded, Narrates, Changes
<1>4. CASE ActsOnStop
  BY <1>4 DEF ActsOnStop, Changes
<1>5. CASE ReadPress
  BY <1>5 DEF ReadPress, Changes, Read
<1>6. CASE ReadEvent
  BY <1>6 DEF ReadEvent, Read
<1>7. CASE Wakes
  BY <1>7 DEF Wakes
<1>8. CASE HandleClosed
  BY <1>8, ControlAssumption DEF HandleClosed, Handles
<1>9. CASE HandleSetting
  BY <1>9 DEF HandleSetting, Changes, Handles
<1>10. CASE HandlePlayer
  BY <1>10 DEF HandlePlayer, Changes, Handles
<1>11. CASE BeginRun
  BY <1>11 DEF BeginRun, Handles
<1>12. CASE NextLine
  BY <1>12 DEF NextLine
<1>13. CASE QueueLine
  BY <1>13 DEF QueueLine
<1>14. CASE HandledAll
  BY <1>14 DEF HandledAll
<1>15. CASE SyncTakes
  BY <1>15, ControlAssumption DEF SyncTakes, IsOpen, MayOpen, Taken
<1>16. CASE Connect
  BY <1>16 DEF Connect
<1>17. CASE RequestFails
  BY <1>17, ControlAssumption DEF RequestFails, Fails, GivesUp
<1>18. CASE OpenSent
  BY <1>18, ControlAssumption DEF OpenSent
<1>19. CASE UpdateSent
  BY <1>19, ControlAssumption DEF UpdateSent
<1>20. CASE TabSent
  BY <1>20 DEF TabSent
<1>21. CASE Build
  BY <1>21 DEF Build
<1>22. CASE Updated
  BY <1>22, ControlAssumption DEF Updated, KeepsPending
<1>23. CASE CloseSent
  BY <1>23, ControlAssumption DEF CloseSent
<1>24. CASE Restart
  BY <1>24, ControlAssumption DEF Restart, Fresh
<1>25. CASE UNCHANGED <<at, wake, pending, open>>
  BY <1>25
<1> QED BY <1>1, <1>2, <1>3, <1>4, <1>5, <1>6, <1>7, <1>8, <1>9, <1>10, <1>11, <1>12, <1>13,
           <1>14, <1>15, <1>16, <1>17, <1>18, <1>19, <1>20, <1>21, <1>22, <1>23, <1>24, <1>25
       DEF Next, ReaderStep, WorkerStep, PlayingReads, ReadStop, Cancels, Read, ReaderEnds,
           DebounceOver, HeCloses, Sent, HePresses, Sent, PlayerOn, PlayerOff, HoldChanges,
           Quits

----------------------------------------------------------------------------
\* The states TLC starts from satisfy the invariant.
LEMMA InitInv == Init => IInv
BY ControlAssumption DEF Init, IInv, Flags, RequestUnderWay, ClosedIsMarked, TakenIsSent, OpensTheClosed,
   OpeningIsWhole, StaleIsDue, PendingWakes

\* Every step keeps it.
LEMMA StepInv == IInv /\ [Next]_vars => IInv'
<1>1. IInv /\ Next => IInv'
  BY FlagsKept, RequestUnderWayKept, ClosedIsMarkedKept, TakenIsSentKept, OpensTheClosedKept, OpeningIsWholeKept,
     StaleIsDueKept, PendingWakesKept DEF IInv
<1>2. IInv /\ UNCHANGED vars => IInv'
  <2> USE DEF vars, driver, worker, outside, files, bounds, history
  <2>1. Flags /\ UNCHANGED vars => Flags'
    BY DEF Flags
  <2>2. RequestUnderWay /\ ClosedIsMarked /\ UNCHANGED vars => RequestUnderWay' /\ ClosedIsMarked'
    BY DEF RequestUnderWay, ClosedIsMarked
  <2>3. TakenIsSent /\ OpensTheClosed /\ OpeningIsWhole /\ UNCHANGED vars
           => TakenIsSent' /\ OpensTheClosed' /\ OpeningIsWhole'
    BY DEF TakenIsSent, OpensTheClosed, OpeningIsWhole
  <2>4. StaleIsDue /\ PendingWakes /\ UNCHANGED vars => StaleIsDue' /\ PendingWakes'
    BY DEF StaleIsDue, PendingWakes
  <2> QED BY <2>1, <2>2, <2>3, <2>4 DEF IInv
<1> QED BY <1>1, <1>2

\* The panel is put up by the reply to an opening alone, or by its lost reply.
LEMMA OpensByOpening ==
    ASSUME IInv, Next, shut, shut', ~panel
    PROVE  ~panel'
<1>1. request # "open"
  BY DEF IInv, ClosedIsMarked
<1>2. CASE OpenSent
  BY <1>1, <1>2 DEF OpenSent
<1>3. CASE RequestFails
  BY <1>1, <1>3 DEF RequestFails, Fails, IInv, Flags
<1>4. CASE CloseSent \/ HeCloses \/ Quits
  BY <1>4 DEF CloseSent, HeCloses, Quits
<1>5. CASE UNCHANGED panel
  BY <1>5
<1> QED BY <1>2, <1>3, <1>4, <1>5
       DEF Next, ReaderStep, WorkerStep, outside, PlayingReads, Playing, Narrates, Changes,
           Noted, Narrates, Changes, LineEnded, Narrates, Changes, ReadStop, Cancels, Read,
           ActsOnStop, Changes, ReadPress, Changes, Read, ReadEvent, Read, ReaderEnds, Wakes,
           HandleClosed, Handles, HandleSetting, Changes, Handles, HandlePlayer, Changes,
           Handles, BeginRun, Handles, NextLine, QueueLine, HandledAll, SyncTakes, IsOpen,
           MayOpen, Taken, Connect, UpdateSent, TabSent, Build, Updated, KeepsPending,
           DebounceOver, HePresses, Sent, PlayerOn, PlayerOff, HoldChanges, Restart, Fresh

----------------------------------------------------------------------------
\* The inductive invariant is one.
THEOREM ControlInvariant == Spec => []IInv
BY InitInv, StepInv, PTL DEF Spec

\* "A control he closed stays closed, across restarts, until he reopens it":
\* the file's mark outlives the driver, and no opening begins while it stands.
THEOREM StaysClosedHolds == Spec => StaysClosed
<1> DEFINE Stays == shut /\ ~panel => ~panel' \/ ~shut'
<1>1. IInv /\ [Next]_vars => [Stays]_vars
  BY OpensByOpening
<1> QED BY <1>1, ControlInvariant, PTL DEF Spec, StaysClosed

\* No change of the model made while a request was built or sent is lost: when
\* the worker rests, the panel it holds open shows the model.
THEOREM ShowsTheModelHolds == Spec => []ShowsTheModel
<1>1. IInv => ShowsTheModel
  BY DEF IInv, ShowsTheModel, StaleIsDue, TakenIsSent, PendingWakes, AfterTaking, QueueTab
<1> QED BY <1>1, ControlInvariant, PTL

----------------------------------------------------------------------------
(* A stop cuts the run. *)

\* A run is in a list of events, and no more than once.
In(s, r) == \E i \in DOMAIN s : s[i].run = r
Once(s) == \A i, j \in DOMAIN s : s[i].run \in Runs /\ s[i].run = s[j].run => i = j

\* A set of numbers that is not empty has its least.
LEMMA LeastOf ==
  ASSUME NEW S \in SUBSET Nat, S # {}
  PROVE  \E x \in S : \A y \in S : x <= y
  <1>1. PICK x \in S : \A y \in S : ~(<<y, x>> \in OpToRel(<, Nat))
    BY NatLessThanWellFounded, WFMin
  <1>2. \A y \in S : ~(y < x)
    BY <1>1 DEF OpToRel
  <1> QED BY <1>2

\* What holds at 0 and passes from each number to the next holds up to m.
LEMMA UpTo ==
  ASSUME NEW m \in Nat, NEW S, 0 \in S, \A n \in 1..m : n - 1 \in S => n \in S
  PROVE  0..m \subseteq S
  <1> DEFINE Missed == {n \in 0..m : n \notin S}
  <1>1. SUFFICES ASSUME Missed # {} PROVE FALSE
    OBVIOUS
  <1>2. PICK x \in Missed : \A y \in Missed : x <= y
    <2>1. Missed \in SUBSET Nat
      OBVIOUS
    <2> HIDE DEF Missed
    <2> QED BY <1>1, <2>1, LeastOf
  <1>3. x \in Nat /\ \A y \in Missed : ~(y < x)
    <2>1. x \in Nat /\ Missed \subseteq Nat
      OBVIOUS
    <2> QED BY <1>2, <2>1
  <1>4. x \in 1..m /\ x - 1 \in 0..m /\ x - 1 < x
    OBVIOUS
  <1>5. x - 1 \in S
    BY <1>3, <1>4
  <1> QED BY <1>4, <1>5

LEMMA NoneIsNoRun == None \notin Runs
  BY ControlAssumption

LEMMA EventsHaveRuns ==
  ASSUME NEW e \in Events
  PROVE  /\ e.run \in Runs \cup {None}
         /\ IsPlay(e) <=> e.run \in Runs
  BY NoneIsNoRun DEF Events, IsPlay

LEMMA RunsAreIn ==
  ASSUME NEW s, NEW r
  PROVE  r \in RunsIn(s) <=> In(s, r) /\ r # None
  BY DEF RunsIn, In

LEMMA NothingIn ==
  /\ <<>> \in Seq(Events) /\ Once(<<>>)
  /\ \A r : ~ In(<<>>, r)
  BY DEF Once, In

LEMMA AppendIn ==
  ASSUME NEW s \in Seq(Events), NEW e \in Events, Once(s), e.run \in Runs => ~ In(s, e.run)
  PROVE  /\ Append(s, e) \in Seq(Events) /\ Once(Append(s, e))
         /\ \A r \in Runs : In(Append(s, e), r) <=> In(s, r) \/ e.run = r
  <1> DEFINE t == Append(s, e)
             n == Len(s)
  <1>1. n \in Nat /\ DOMAIN s = 1..n
    BY LenProperties
  <1>2. /\ t \in Seq(Events) /\ DOMAIN t = 1..(n + 1) /\ t[n + 1] = e
        /\ \A i \in 1..n : t[i] = s[i]
    BY <1>1, AppendProperties, LenProperties
  <1> HIDE DEF t, n
  <1>3. Once(t)
    <2> SUFFICES ASSUME NEW i \in 1..(n + 1), NEW j \in 1..(n + 1), t[i].run \in Runs, t[i].run = t[j].run
                 PROVE  i = j
      BY <1>2 DEF Once
    <2>1. CASE i \in 1..n /\ j \in 1..n
      BY <1>1, <1>2, <2>1 DEF Once
    <2>2. CASE i = n + 1 /\ j \in 1..n
      BY <1>1, <1>2, <2>2 DEF In
    <2>3. CASE i \in 1..n /\ j = n + 1
      BY <1>1, <1>2, <2>3 DEF In
    <2>4. CASE i = n + 1 /\ j = n + 1
      BY <2>4
    <2> QED BY <1>1, <2>1, <2>2, <2>3, <2>4
  <1>4. \A r \in Runs : In(t, r) <=> In(s, r) \/ e.run = r
    <2> TAKE r \in Runs
    <2>1. ASSUME NEW i \in 1..(n + 1), t[i].run = r PROVE In(s, r) \/ e.run = r
      BY <1>1, <1>2, <2>1 DEF In
    <2>2. ASSUME NEW i \in 1..n, s[i].run = r PROVE In(t, r)
      <3>1. i \in 1..(n + 1) /\ t[i].run = r
        BY <1>1, <1>2, <2>2
      <3> QED BY <1>2, <3>1 DEF In
    <2>3. e.run = r => In(t, r)
      <3>1. n + 1 \in 1..(n + 1)
        BY <1>1
      <3> QED BY <1>2, <3>1 DEF In
    <2> QED BY <1>1, <1>2, <2>1, <2>2, <2>3 DEF In
  <1> QED BY <1>2, <1>3, <1>4 DEF t

LEMMA TailIn ==
  ASSUME NEW s \in Seq(Events), s # <<>>, Once(s)
  PROVE  /\ Tail(s) \in Seq(Events) /\ Once(Tail(s)) /\ Head(s) \in Events
         /\ In(s, Head(s).run)
         /\ \A r \in Runs : In(s, r) <=> In(Tail(s), r) \/ Head(s).run = r
         /\ Head(s).run \in Runs => ~ In(Tail(s), Head(s).run)
  <1> DEFINE t == Tail(s)
             e == Head(s)
             n == Len(s)
  <1>1. n \in Nat \ {0} /\ DOMAIN s = 1..n /\ \A i \in 1..n : s[i] \in Events
    BY LenProperties, EmptySeq
  <1>2. /\ t \in Seq(Events) /\ DOMAIN t = 1..(n - 1) /\ \A i \in 1..(n - 1) : t[i] = s[i + 1]
    BY <1>1, HeadTailProperties, LenProperties
  <1>3. e = s[1] /\ 1 \in 1..n
    BY <1>1
  <1> HIDE DEF t, e, n
  <1>4. e \in Events /\ In(s, e.run)
    BY <1>1, <1>3 DEF In
  <1>5. Once(t)
    <2> SUFFICES ASSUME NEW i \in 1..(n - 1), NEW j \in 1..(n - 1), t[i].run \in Runs, t[i].run = t[j].run
                 PROVE  i = j
      BY <1>2 DEF Once
    <2>1. i + 1 \in 1..n /\ j + 1 \in 1..n
      BY <1>1
    <2>2. i + 1 = j + 1
      BY <1>1, <1>2, <2>1 DEF Once
    <2> QED BY <1>1, <2>2
  <1>6. \A r \in Runs : In(s, r) <=> In(t, r) \/ e.run = r
    <2> TAKE r \in Runs
    <2>1. ASSUME NEW i \in 1..n, s[i].run = r PROVE In(t, r) \/ e.run = r
      <3>1. CASE i = 1
        BY <1>3, <2>1, <3>1
      <3>2. CASE i # 1
        <4>1. i - 1 \in 1..(n - 1) /\ (i - 1) + 1 = i
          BY <1>1, <3>2
        <4>2. t[i - 1].run = r
          BY <1>2, <2>1, <4>1
        <4> QED BY <1>2, <4>1, <4>2 DEF In
      <3> QED BY <3>1, <3>2
    <2>2. ASSUME NEW i \in 1..(n - 1), t[i].run = r PROVE In(s, r)
      <3>1. i + 1 \in 1..n /\ s[i + 1].run = r
        BY <1>1, <1>2, <2>2
      <3> QED BY <1>1, <3>1 DEF In
    <2> QED BY <1>1, <1>2, <1>4, <2>1, <2>2 DEF In
  <1>7. e.run \in Runs => ~ In(t, e.run)
    <2> SUFFICES ASSUME e.run \in Runs, NEW i \in 1..(n - 1), t[i].run = e.run PROVE FALSE
      BY <1>2 DEF In
    <2>1. i + 1 \in 1..n /\ i + 1 # 1 /\ s[i + 1].run = s[1].run
      BY <1>1, <1>2, <1>3
    <2> QED BY <1>1, <1>3, <2>1 DEF Once
  <1> QED BY <1>2, <1>4, <1>5, <1>6, <1>7 DEF t, e

\* One step of PlaysDropped, and what it computes: what is kept of the first n.
Kept(s, n, before) == IF IsPlay(s[n]) THEN before ELSE Append(before, s[n])
KeepsOf(s, kept) ==
  kept = [n \in 0..Len(s) |-> IF n = 0 THEN <<>>
                              ELSE IF IsPlay(s[n]) THEN kept[n - 1]
                              ELSE Append(kept[n - 1], s[n])]

LEMMA DroppedIsKept ==
  ASSUME NEW T, NEW s \in Seq(T)
  PROVE  \E kept : KeepsOf(s, kept) /\ PlaysDropped(s) = kept[Len(s)]
  <1>0. Len(s) \in Nat
    BY LenProperties
  <1> DEFINE UpToIs(n, f) == /\ f = [k \in 0..n |-> f[k]]
                             /\ f[0] = <<>>
                             /\ \A k \in 1..n : f[k] = Kept(s, k, f[k - 1])
             Reached == {n \in 0..Len(s) : \E f : UpToIs(n, f)}
  <1>1. 0 \in Reached
    <2> DEFINE f == [k \in 0..0 |-> <<>>]
    <2>1. UpToIs(0, f)
      BY <1>0
    <2> HIDE DEF UpToIs, f
    <2>2. \E h : UpToIs(0, h)
      BY <2>1
    <2> QED BY <1>0, <2>2
  <1>2. ASSUME NEW n \in 1..Len(s), n - 1 \in Reached
        PROVE  n \in Reached
    <2>1. PICK f : UpToIs(n - 1, f)
      BY <1>2
    <2> DEFINE g == [k \in 0..n |-> IF k = n THEN Kept(s, n, f[n - 1]) ELSE f[k]]
    <2>2. g = [k \in 0..n |-> g[k]] /\ g[0] = <<>>
      BY <1>0, <2>1
    <2>3. \A k \in 1..n : g[k] = Kept(s, k, g[k - 1])
      <3> TAKE k \in 1..n
      <3>1. k - 1 \in 0..n /\ k - 1 # n /\ g[k - 1] = f[k - 1]
        BY <1>0
      <3>2. CASE k = n
        BY <1>0, <3>1, <3>2
      <3>3. CASE k # n
        <4>1. k \in 1..(n - 1) /\ k \in 0..n
          BY <1>0, <3>3
        <4>2. g[k] = f[k]
          BY <3>3, <4>1
        <4>3. f[k] = Kept(s, k, f[k - 1])
          BY <2>1, <4>1
        <4> QED BY <3>1, <4>2, <4>3
      <3> QED BY <3>2, <3>3
    <2> HIDE DEF g
    <2>4. UpToIs(n, g)
      BY <2>2, <2>3
    <2> HIDE DEF UpToIs
    <2>5. \E h : UpToIs(n, h)
      BY <2>4
    <2> QED BY <1>0, <2>5
  <1> HIDE DEF Reached
  <1>3. 0..Len(s) \subseteq Reached
    BY <1>0, <1>1, <1>2, UpTo
  <1>4. Len(s) \in Reached
    BY <1>0, <1>3
  <1>5. PICK f : UpToIs(Len(s), f)
    BY <1>4 DEF Reached
  <1>6. KeepsOf(s, f)
    <2> DEFINE g == [n \in 0..Len(s) |-> IF n = 0 THEN <<>>
                              ELSE IF IsPlay(s[n]) THEN f[n - 1]
                              ELSE Append(f[n - 1], s[n])]
    <2>1. \A n \in 0..Len(s) : f[n] = g[n]
      <3>1. f[0] = g[0]
        BY <1>0, <1>5
      <3>2. ASSUME NEW n \in 1..Len(s) PROVE f[n] = g[n]
        <4>1. n \in 0..Len(s) /\ n # 0
          BY <1>0
        <4>2. f[n] = Kept(s, n, f[n - 1])
          BY <1>5
        <4>3. g[n] = IF IsPlay(s[n]) THEN f[n - 1] ELSE Append(f[n - 1], s[n])
          BY <4>1
        <4> QED BY <4>2, <4>3, Zenon DEF Kept
      <3> HIDE DEF g
      <3> QED BY <1>0, <3>1, <3>2
    <2>2. f = g
      BY <1>5, <2>1
    <2> QED BY <2>2 DEF KeepsOf
  <1> QED BY <1>6 DEF KeepsOf, PlaysDropped

\* Nothing that is kept is a play.
LEMMA DroppedHasNoRun ==
  ASSUME NEW s \in Seq(Events)
  PROVE  /\ PlaysDropped(s) \in Seq(Events) /\ Once(PlaysDropped(s))
         /\ \A r \in Runs : ~ In(PlaysDropped(s), r)
  <1> DEFINE Others == {e \in Events : ~ IsPlay(e)}
  <1>0. Len(s) \in Nat /\ \A n \in 1..Len(s) : s[n] \in Events
    BY LenProperties
  <1>1. PICK kept : KeepsOf(s, kept) /\ PlaysDropped(s) = kept[Len(s)]
    BY DroppedIsKept
  <1>2. /\ kept[0] = <<>>
        /\ \A n \in 1..Len(s) : kept[n] = Kept(s, n, kept[n - 1])
    <2>1. kept[0] = <<>>
      BY <1>0, <1>1 DEF KeepsOf
    <2>2. ASSUME NEW n \in 1..Len(s) PROVE kept[n] = Kept(s, n, kept[n - 1])
      <3>1. n \in 0..Len(s) /\ n # 0
        BY <1>0
      <3>2. kept[n] = IF IsPlay(s[n]) THEN kept[n - 1] ELSE Append(kept[n - 1], s[n])
        BY <1>1, <3>1 DEF KeepsOf
      <3> QED BY <3>2, Zenon DEF Kept
    <2> QED BY <2>1, <2>2
  <1> DEFINE Reached == {n \in 0..Len(s) : kept[n] \in Seq(Others)}
  <1>3. 0 \in Reached
    <2>1. <<>> \in Seq(Others)
      BY EmptySeq
    <2>2. kept[0] = <<>>
      BY <1>2
    <2>3. kept[0] \in Seq(Others)
      BY <2>1, <2>2, Zenon
    <2>4. 0 \in 0..Len(s)
      BY <1>0
    <2> QED BY <2>3, <2>4, Zenon
  <1>4. ASSUME NEW n \in 1..Len(s), n - 1 \in Reached PROVE n \in Reached
    <2>1. kept[n - 1] \in Seq(Others) /\ s[n] \in Events
      BY <1>0, <1>4
    <2>2. Kept(s, n, kept[n - 1]) \in Seq(Others)
      <3>1. CASE IsPlay(s[n])
        BY <2>1, <3>1 DEF Kept
      <3>2. CASE ~ IsPlay(s[n])
        <4>1. s[n] \in Others
          BY <2>1, <3>2
        <4> HIDE DEF Others
        <4> QED BY <2>1, <3>2, <4>1, AppendProperties DEF Kept
      <3> QED BY <3>1, <3>2
    <2> QED BY <1>0, <1>2, <2>2
  <1> HIDE DEF Reached
  <1>5. Len(s) \in Reached
    <2>1. 0..Len(s) \subseteq Reached
      BY <1>0, <1>3, <1>4, UpTo
    <2> QED BY <1>0, <2>1
  <1> DEFINE t == PlaysDropped(s)
  <1>6. t \in Seq(Others)
    BY <1>1, <1>5 DEF Reached
  <1> HIDE DEF t
  <1>7. t \in Seq(Events) /\ \A i \in DOMAIN t : t[i] \in Events /\ ~ IsPlay(t[i])
    <2>1. Len(t) \in Nat /\ DOMAIN t = 1..Len(t) /\ \A i \in 1..Len(t) : t[i] \in Others
      BY <1>6, LenProperties
    <2>2. t = [i \in 1..Len(t) |-> t[i]]
      <3> HIDE DEF Others
      <3> QED BY <1>6, LenProperties
    <2> QED BY <2>1, <2>2, IsASeq
  <1>8. \A i \in DOMAIN t : t[i].run \notin Runs
    BY <1>7, EventsHaveRuns
  <1>9. Once(t) /\ \A r \in Runs : ~ In(t, r)
    BY <1>8 DEF Once, In
  <1> QED BY <1>7, <1>9 DEF t

----------------------------------------------------------------------------
\* Where the runs are, and what a stop has made of them.
RunTyped ==
    /\ inflight \in Seq(Events) /\ events \in Seq(Events) /\ batch \in Seq(Events)
    /\ run \in Runs \cup {None} /\ late \in [Runs -> Nat]
    /\ void \subseteq Runs /\ cut \subseteq void /\ dropped \subseteq void
    /\ run # None <=> at \in {"run", "queueing"}

\* A run he sent is on its way once, in one of the lists or being queued.
RunOnce ==
    /\ Once(inflight) /\ Once(events) /\ Once(batch)
    /\ \A r \in Runs : /\ In(inflight, r) => ~ In(events, r) /\ ~ In(batch, r) /\ run # r
                       /\ In(events, r) => ~ In(batch, r) /\ run # r
                       /\ In(batch, r) => run # r

Gone(r) == ~ In(inflight, r) /\ ~ In(events, r) /\ ~ In(batch, r)

\* A run sent before a stop does not wait for a stop to come; another's lines
\* are none of them late.
VoidIsPast ==
    \A r \in Runs : /\ r \in void => ~ In(inflight, r) /\ ~ In(events, r)
                    /\ r \notin void => late[r] = 0

\* A run dropped is nowhere, and a run cut has a line to come at most.
DroppedIsGone == \A r \in dropped : Gone(r) /\ run # r /\ late[r] = 0
CutIsEnding ==
    \A r \in cut : /\ Gone(r) /\ late[r] <= 1
                   /\ run = r => stopped /\ (at = "queueing" => late[r] = 0)

RunInv == RunTyped /\ RunOnce /\ VoidIsPast /\ DroppedIsGone /\ CutIsEnding

----------------------------------------------------------------------------
\* A step in which no run comes to a list, begins or ends.
LEMMA NoRunMoves ==
  ASSUME RunInv, UNCHANGED <<run, void, dropped, cut, late, stopped>>,
         at' = at \/ (at \notin {"run", "queueing"} /\ at' \notin {"run", "queueing"}),
         inflight' \in Seq(Events), events' \in Seq(Events), batch' \in Seq(Events),
         Once(inflight'), Once(events'), Once(batch'),
         \A r \in Runs : /\ In(inflight', r) => In(inflight, r)
                         /\ In(events', r) => In(events, r)
                         /\ In(batch', r) => In(batch, r)
  PROVE  RunInv'
  <1>1. RunTyped'
    BY DEF RunInv, RunTyped
  <1>2. RunOnce'
    BY DEF RunInv, RunOnce
  <1>3. VoidIsPast'
    BY DEF RunInv, VoidIsPast
  <1>4. dropped \subseteq Runs /\ cut \subseteq Runs
    BY DEF RunInv, RunTyped
  <1>5. DroppedIsGone'
    <2>1. ASSUME NEW r \in dropped
          PROVE  Gone(r)' /\ run' # r /\ late'[r] = 0
      <3>1. r \in Runs /\ Gone(r) /\ run # r /\ late[r] = 0
        BY <1>4 DEF RunInv, DroppedIsGone
      <3> QED BY <3>1 DEF Gone
    <2> QED BY <2>1 DEF DroppedIsGone
  <1>6. CutIsEnding'
    <2>1. ASSUME NEW r \in cut
          PROVE  /\ Gone(r)' /\ late'[r] <= 1
                 /\ run' = r => stopped' /\ (at' = "queueing" => late'[r] = 0)
      <3>1. /\ r \in Runs /\ Gone(r) /\ late[r] <= 1
            /\ run = r => stopped /\ (at = "queueing" => late[r] = 0)
        BY <1>4 DEF RunInv, CutIsEnding
      <3> QED BY <3>1 DEF Gone
    <2> QED BY <2>1 DEF CutIsEnding
  <1> QED BY <1>1, <1>2, <1>3, <1>5, <1>6 DEF RunInv

\* The same with the lists as they were.
LEMMA ListsStay ==
  ASSUME RunInv, UNCHANGED <<inflight, events, batch, run, void, dropped, cut, late, stopped>>,
         at' = at \/ (at \notin {"run", "queueing"} /\ at' \notin {"run", "queueing"})
  PROVE  RunInv'
  <1>1. /\ inflight \in Seq(Events) /\ events \in Seq(Events) /\ batch \in Seq(Events)
        /\ Once(inflight) /\ Once(events) /\ Once(batch)
    BY DEF RunInv, RunTyped, RunOnce
  <1> QED BY <1>1, NoRunMoves

LEMMA ReadTakesHead ==
  ASSUME RunInv, NEW e \in Events, Read(e)
  PROVE  /\ inflight' \in Seq(Events) /\ Once(inflight') /\ In(inflight, e.run)
         /\ \A r \in Runs : In(inflight, r) <=> In(inflight', r) \/ e.run = r
         /\ e.run \in Runs => ~ In(inflight', e.run)
  <1>1. inflight \in Seq(Events) /\ inflight # <<>> /\ Once(inflight)
    BY DEF RunInv, RunTyped, RunOnce, Read
  <1>2. inflight' = Tail(inflight) /\ e = Head(inflight)
    BY DEF Read
  <1> QED BY <1>1, <1>2, TailIn

LEMMA HandlesHead ==
  ASSUME RunInv, NEW k, Handles(k)
  PROVE  /\ at = "handle" /\ batch' \in Seq(Events) /\ Once(batch')
         /\ Head(batch) \in Events /\ Head(batch).kind = k /\ In(batch, Head(batch).run)
         /\ \A r \in Runs : In(batch, r) <=> In(batch', r) \/ Head(batch).run = r
         /\ Head(batch).run \in Runs => ~ In(batch', Head(batch).run)
  <1>1. batch \in Seq(Events) /\ batch # <<>> /\ Once(batch)
    BY DEF RunInv, RunTyped, RunOnce, Handles
  <1>2. batch' = Tail(batch) /\ at = "handle" /\ Head(batch).kind = k
    BY DEF Handles
  <1> QED BY <1>1, <1>2, TailIn

\* The lists, typed and each with its runs once.
Lists == /\ inflight \in Seq(Events) /\ events \in Seq(Events) /\ batch \in Seq(Events)
         /\ Once(inflight) /\ Once(events) /\ Once(batch)

LEMMA ListsAre == RunInv => Lists
  BY DEF RunInv, RunTyped, RunOnce, Lists

\* His stop.
LEMMA StopCuts ==
  ASSUME RunInv, ReadStop PROVE RunInv'
  <1>1. PICK e \in Events : Read(e) /\ e.kind = "stop"
    BY DEF ReadStop
  <1>2. /\ inflight' \in Seq(Events) /\ Once(inflight')
        /\ \A r \in Runs : In(inflight', r) => In(inflight, r)
    BY <1>1, ReadTakesHead
  <1>3. /\ events' \in Seq(Events) /\ Once(events') /\ \A r \in Runs : ~ In(events', r)
    BY ListsAre, DroppedHasNoRun DEF ReadStop, Lists
  <1>4. /\ UNCHANGED <<batch, run, at>> /\ stopped' = TRUE
        /\ void' = void \cup RunsIn(events) \cup RunsIn(batch) \cup ({run} \ {None})
        /\ cut' = cut \cup ({run} \ {None})
        /\ dropped' = dropped \cup RunsIn(events)
        /\ late' = [r \in Runs |-> IF r = run /\ r \notin cut THEN 0 ELSE late[r]]
    BY DEF ReadStop, Cancels
  <1>5. /\ void \subseteq Runs /\ cut \subseteq void /\ dropped \subseteq void /\ run \in Runs \cup {None}
        /\ late \in [Runs -> Nat] /\ (run # None <=> at \in {"run", "queueing"})
    BY DEF RunInv, RunTyped
  <1>6. ASSUME NEW s \in Seq(Events) PROVE RunsIn(s) \subseteq Runs
    <2>1. Len(s) \in Nat /\ DOMAIN s = 1..Len(s) /\ \A i \in 1..Len(s) : s[i] \in Events
      BY LenProperties
    <2> QED BY <2>1, EventsHaveRuns DEF RunsIn
  <1>7. RunsIn(events) \subseteq Runs /\ RunsIn(batch) \subseteq Runs
    BY <1>6, ListsAre DEF Lists
  <1>8. /\ \A r \in Runs : r \in RunsIn(events) <=> In(events, r)
        /\ \A r \in Runs : r \in RunsIn(batch) <=> In(batch, r)
    BY NoneIsNoRun, RunsAreIn
  <1>9. \A r \in Runs : late'[r] = IF r = run /\ r \notin cut THEN 0 ELSE late[r]
    BY <1>4
  <1>10. RunTyped'
    BY <1>2, <1>3, <1>4, <1>5, <1>7, ListsAre DEF RunTyped, Lists
  <1>11. RunOnce'
    <2>1. Once(batch') /\ \A r \in Runs : In(batch', r) <=> In(batch, r)
      BY <1>4, ListsAre DEF Lists
    <2>2. RunOnce
      BY DEF RunInv
    <2> QED BY <1>2, <1>3, <1>4, <2>1, <2>2 DEF RunOnce
  <1>12. VoidIsPast'
    <2> SUFFICES ASSUME NEW r \in Runs
                 PROVE  /\ r \in void' => ~ In(inflight', r) /\ ~ In(events', r)
                        /\ r \notin void' => late'[r] = 0
      BY DEF VoidIsPast
    <2>1. /\ r \in void => ~ In(inflight, r)
          /\ r \notin void => late[r] = 0
      BY DEF RunInv, VoidIsPast
    <2>2. In(events, r) \/ In(batch, r) \/ run = r => ~ In(inflight, r)
      BY DEF RunInv, RunOnce
    <2>3. r \in void' => r \in void \/ In(events, r) \/ In(batch, r) \/ run = r
      BY <1>4, <1>8
    <2>4. r \in void' => ~ In(inflight', r) /\ ~ In(events', r)
      BY <1>2, <1>3, <2>1, <2>2, <2>3
    <2>5. r \notin void' => late'[r] = 0
      BY <1>4, <1>9, <2>1
    <2> QED BY <2>4, <2>5
  <1>13. DroppedIsGone'
    <2> SUFFICES ASSUME NEW r \in dropped'
                 PROVE  Gone(r)' /\ run' # r /\ late'[r] = 0
      BY DEF DroppedIsGone
    <2>1. r \in Runs
      BY <1>4, <1>5, <1>7
    <2>2. CASE r \in dropped
      <3>1. Gone(r) /\ run # r /\ late[r] = 0
        BY <2>2 DEF RunInv, DroppedIsGone
      <3> QED BY <1>2, <1>3, <1>4, <1>9, <2>1, <3>1 DEF Gone
    <2>3. CASE r \in RunsIn(events)
      <3>1. In(events, r)
        BY <1>8, <2>1, <2>3
      <3>2. ~ In(inflight, r) /\ ~ In(batch, r) /\ run # r
        BY <2>1, <3>1 DEF RunInv, RunOnce
      <3>3. late[r] = 0
        BY <2>1, <3>1 DEF RunInv, VoidIsPast
      <3> QED BY <1>2, <1>3, <1>4, <1>9, <2>1, <3>2, <3>3 DEF Gone
    <2> QED BY <1>4, <2>2, <2>3
  <1>14. CutIsEnding'
    <2> SUFFICES ASSUME NEW r \in cut'
                 PROVE  /\ Gone(r)' /\ late'[r] <= 1
                        /\ run' = r => stopped' /\ (at' = "queueing" => late'[r] = 0)
      BY DEF CutIsEnding
    <2>1. r \in Runs
      BY <1>4, <1>5
    <2>2. CASE r \in cut
      <3>1. /\ Gone(r) /\ late[r] <= 1
            /\ run = r => stopped /\ (at = "queueing" => late[r] = 0)
        BY <2>2 DEF RunInv, CutIsEnding
      <3> QED BY <1>2, <1>3, <1>4, <1>9, <2>1, <2>2, <3>1 DEF Gone
    <2>3. CASE r \notin cut /\ r = run
      <3>1. ~ In(inflight, r) /\ ~ In(batch, r)
        BY <2>1, <2>3 DEF RunInv, RunOnce
      <3>2. late'[r] = 0
        BY <1>9, <2>1, <2>3
      <3> QED BY <1>2, <1>3, <1>4, <2>1, <3>1, <3>2 DEF Gone
    <2> QED BY <1>4, <2>2, <2>3
  <1> QED BY <1>10, <1>11, <1>12, <1>13, <1>14 DEF RunInv

\* What is read goes to the worker, once.
LEMMA ReadEventKeepsRuns ==
  ASSUME RunInv, ReadEvent PROVE RunInv'
  <1>1. PICK e \in Events : Read(e) /\ events' = Append(events, e)
    BY DEF ReadEvent
  <1>2. /\ inflight' \in Seq(Events) /\ Once(inflight') /\ In(inflight, e.run)
        /\ \A r \in Runs : In(inflight, r) <=> In(inflight', r) \/ e.run = r
        /\ e.run \in Runs => ~ In(inflight', e.run)
    BY <1>1, ReadTakesHead
  <1>3. e.run \in Runs => ~ In(events, e.run)
    BY <1>2 DEF RunInv, RunOnce
  <1>4. /\ events' \in Seq(Events) /\ Once(events')
        /\ \A r \in Runs : In(events', r) <=> In(events, r) \/ e.run = r
    BY <1>1, <1>3, ListsAre, AppendIn DEF Lists
  <1>5. UNCHANGED <<batch, run, at, stopped, void, cut, dropped, late>>
    BY DEF ReadEvent, worker, history
  <1>6. dropped \subseteq Runs /\ cut \subseteq Runs
    BY DEF RunInv, RunTyped
  <1>7. RunTyped'
    BY <1>2, <1>4, <1>5 DEF RunInv, RunTyped
  <1>8. RunOnce'
    <2>1. Once(batch') /\ \A r \in Runs : In(batch', r) <=> In(batch, r)
      BY <1>5, ListsAre DEF Lists
    <2>2. RunOnce
      BY DEF RunInv
    <2> QED BY <1>2, <1>4, <1>5, <2>1, <2>2 DEF RunOnce
  <1>9. VoidIsPast'
    BY <1>2, <1>4, <1>5 DEF RunInv, VoidIsPast
  <1>10. \A r \in Runs : Gone(r) => Gone(r)'
    BY <1>2, <1>4, <1>5 DEF Gone
  <1>11. DroppedIsGone'
    BY <1>5, <1>6, <1>10 DEF RunInv, DroppedIsGone
  <1>12. CutIsEnding'
    BY <1>5, <1>6, <1>10 DEF RunInv, CutIsEnding
  <1> QED BY <1>7, <1>8, <1>9, <1>11, <1>12 DEF RunInv

\* The worker takes the list.
LEMMA WakesKeepsRuns ==
  ASSUME RunInv, Wakes PROVE RunInv'
  <1>1. /\ batch' = events /\ events' = <<>> /\ at = "rest" /\ at' = "handle"
        /\ UNCHANGED <<inflight, run, stopped, void, cut, dropped, late>>
    BY DEF Wakes, history
  <1>2. /\ events' \in Seq(Events) /\ Once(events') /\ \A r : ~ In(events', r)
    BY <1>1, NothingIn
  <1>3. dropped \subseteq Runs /\ cut \subseteq Runs
    BY DEF RunInv, RunTyped
  <1>4. RunTyped'
    BY <1>1, <1>2 DEF RunInv, RunTyped
  <1>5. RunOnce'
    BY <1>1, <1>2 DEF RunInv, RunOnce
  <1>6. VoidIsPast'
    BY <1>1, <1>2 DEF RunInv, VoidIsPast
  <1>7. \A r \in Runs : Gone(r) => Gone(r)'
    BY <1>1, <1>2 DEF Gone
  <1>8. DroppedIsGone'
    BY <1>1, <1>3, <1>7 DEF RunInv, DroppedIsGone
  <1>9. CutIsEnding'
    BY <1>1, <1>3, <1>7 DEF RunInv, CutIsEnding, RunTyped
  <1> QED BY <1>4, <1>5, <1>6, <1>8, <1>9 DEF RunInv

\* A run begins: none that was dropped or cut.
LEMMA BeginKeepsRuns ==
  ASSUME RunInv, BeginRun PROVE RunInv'
  <1> DEFINE e == Head(batch)
  <1>1. /\ at = "handle" /\ batch' \in Seq(Events) /\ Once(batch')
        /\ e \in Events /\ e.kind = "play" /\ In(batch, e.run)
        /\ \A r \in Runs : In(batch, r) <=> In(batch', r) \/ e.run = r
        /\ e.run \in Runs => ~ In(batch', e.run)
    BY HandlesHead DEF BeginRun
  <1>2. /\ run' = e.run /\ at' = "run"
        /\ UNCHANGED <<inflight, events, void, cut, dropped, late>>
    BY DEF BeginRun, driver, history
  <1> HIDE DEF e
  <1>3. e.run \in Runs
    BY <1>1, EventsHaveRuns DEF IsPlay
  <1>4. dropped \subseteq Runs /\ cut \subseteq Runs
    BY DEF RunInv, RunTyped
  <1>5. RunTyped'
    BY <1>1, <1>2, <1>3, NoneIsNoRun DEF RunInv, RunTyped
  <1>6. RunOnce'
    <2>1. RunOnce /\ Once(inflight') /\ Once(events')
      BY <1>2, ListsAre DEF RunInv, Lists
    <2> QED BY <1>1, <1>2, <1>3, <2>1 DEF RunOnce
  <1>7. VoidIsPast'
    BY <1>2 DEF RunInv, VoidIsPast
  <1>8. \A r \in Runs : Gone(r) => Gone(r)' /\ e.run # r
    BY <1>1, <1>2 DEF Gone
  <1>9. DroppedIsGone'
    BY <1>2, <1>4, <1>8 DEF RunInv, DroppedIsGone
  <1>10. CutIsEnding'
    BY <1>2, <1>4, <1>8 DEF RunInv, CutIsEnding
  <1> QED BY <1>5, <1>6, <1>7, <1>9, <1>10 DEF RunInv

\* The next line of a run that was not stopped, or its end.
LEMMA NextKeepsRuns ==
  ASSUME RunInv, NextLine PROVE RunInv'
  <1>1. /\ UNCHANGED <<inflight, events, batch, stopped, void, cut, dropped, late>> /\ at = "run"
        /\ \/ at' = "queueing" /\ run' = run /\ ~ stopped
           \/ at' = "handle" /\ run' = None
    BY DEF NextLine, driver, history
  <1>2. dropped \subseteq Runs /\ cut \subseteq Runs
    BY DEF RunInv, RunTyped
  <1>3. RunTyped'
    BY <1>1 DEF RunInv, RunTyped
  <1>4. RunOnce' /\ VoidIsPast'
    BY <1>1, NoneIsNoRun DEF RunInv, RunOnce, VoidIsPast
  <1>5. \A r \in Runs : Gone(r) => Gone(r)'
    BY <1>1 DEF Gone
  <1>6. DroppedIsGone'
    BY <1>1, <1>2, <1>5, NoneIsNoRun DEF RunInv, DroppedIsGone
  <1>7. CutIsEnding'
    BY <1>1, <1>2, <1>5, NoneIsNoRun DEF RunInv, CutIsEnding
  <1> QED BY <1>3, <1>4, <1>6, <1>7 DEF RunInv

\* A line is queued: the last, if the run was cut.
LEMMA QueueKeepsRuns ==
  ASSUME RunInv, QueueLine PROVE RunInv'
  <1>1. /\ UNCHANGED <<inflight, events, batch, run, stopped, void, cut, dropped>>
        /\ at = "queueing" /\ at' = "run"
        /\ late' = IF run \in void THEN [late EXCEPT ![run] = @ + 1] ELSE late
    BY DEF QueueLine, driver
  <1>2. /\ void \subseteq Runs /\ dropped \subseteq Runs /\ cut \subseteq Runs /\ cut \subseteq void
        /\ run \in Runs /\ late \in [Runs -> Nat]
    BY <1>1 DEF RunInv, RunTyped
  <1>3. late' \in [Runs -> Nat] /\ \A r \in Runs : late'[r] = IF r = run /\ run \in void THEN late[r] + 1 ELSE late[r]
    BY <1>1, <1>2
  <1>4. RunTyped'
    BY <1>1, <1>3 DEF RunInv, RunTyped
  <1>5. RunOnce'
    BY <1>1 DEF RunInv, RunOnce
  <1>6. VoidIsPast'
    BY <1>1, <1>2, <1>3 DEF RunInv, VoidIsPast
  <1>7. \A r \in Runs : Gone(r) => Gone(r)'
    BY <1>1 DEF Gone
  <1>8. DroppedIsGone'
    BY <1>1, <1>2, <1>3, <1>7 DEF RunInv, DroppedIsGone
  <1>9. CutIsEnding'
    BY <1>1, <1>2, <1>3, <1>7 DEF RunInv, CutIsEnding
  <1> QED BY <1>4, <1>5, <1>6, <1>8, <1>9 DEF RunInv

\* He sends a run that is not on its way and was not stopped, or anything else.
LEMMA PressKeepsRuns ==
  ASSUME RunInv, HePresses PROVE RunInv'
  <1>1. /\ UNCHANGED <<events, batch, run, at, stopped, void, cut, dropped, late>>
        /\ \E e \in Events : /\ inflight' = Append(inflight, e)
                             /\ e.run \in Runs => Gone(e.run) /\ e.run \notin void /\ run # e.run
    <2>1. UNCHANGED <<events, batch, run, at, stopped, void, cut, dropped, late>> /\ link = "live"
      BY DEF HePresses, worker, history
    <2>2. CASE \E k \in {"rate", "keep", "player-on", "player-off", "stop", "press", "edit"} : Sent(Event(k))
      <3>1. PICK k \in {"rate", "keep", "player-on", "player-off", "stop", "press", "edit"} : Sent(Event(k))
        BY <2>2
      <3>2. Event(k) \in Events /\ Event(k).run \notin Runs
        BY NoneIsNoRun DEF Events, Event
      <3>3. inflight' = Append(inflight, Event(k))
        BY <2>1, <3>1 DEF Sent
      <3> QED BY <2>1, <3>2, <3>3
    <2>3. CASE \E r \in Runs : /\ \A s \in {inflight, events, batch} : r \notin RunsIn(s)
                               /\ r \notin void \cup {run}
                               /\ Sent([kind |-> "play", run |-> r])
      <3>1. PICK r \in Runs : /\ \A s \in {inflight, events, batch} : r \notin RunsIn(s)
                              /\ r \notin void \cup {run}
                              /\ Sent([kind |-> "play", run |-> r])
        BY <2>3
      <3> DEFINE e == [kind |-> "play", run |-> r]
      <3>2. e \in Events /\ e.run = r
        BY DEF Events
      <3>3. inflight' = Append(inflight, e)
        BY <2>1, <3>1 DEF Sent
      <3> HIDE DEF e
      <3>4. r \notin RunsIn(inflight) /\ r \notin RunsIn(events) /\ r \notin RunsIn(batch)
        BY <3>1
      <3>5. Gone(r)
        BY <3>4, NoneIsNoRun, RunsAreIn DEF Gone
      <3>6. r \notin void /\ run # r
        BY <3>1
      <3> QED BY <2>1, <3>2, <3>3, <3>5, <3>6
    <2> QED BY <2>1, <2>2, <2>3 DEF HePresses
  <1>2. PICK e \in Events : /\ inflight' = Append(inflight, e)
                            /\ e.run \in Runs => Gone(e.run) /\ e.run \notin void /\ run # e.run
    BY <1>1
  <1>3. /\ inflight' \in Seq(Events) /\ Once(inflight')
        /\ \A r \in Runs : In(inflight', r) <=> In(inflight, r) \/ e.run = r
    BY <1>2, ListsAre, AppendIn DEF Lists, Gone
  <1>4. void \subseteq Runs /\ dropped \subseteq void /\ cut \subseteq void
    BY DEF RunInv, RunTyped
  <1>5. RunTyped'
    BY <1>1, <1>3 DEF RunInv, RunTyped
  <1>6. RunOnce'
    <2>1. RunOnce /\ Once(events') /\ Once(batch')
      BY <1>1, ListsAre DEF RunInv, Lists
    <2> QED BY <1>1, <1>2, <1>3, <2>1 DEF RunOnce, Gone
  <1>7. VoidIsPast'
    BY <1>1, <1>2, <1>3 DEF RunInv, VoidIsPast
  <1>8. \A r \in void : Gone(r) => Gone(r)'
    BY <1>1, <1>2, <1>3, <1>4 DEF Gone
  <1>9. DroppedIsGone'
    BY <1>1, <1>4, <1>8 DEF RunInv, DroppedIsGone
  <1>10. CutIsEnding'
    BY <1>1, <1>4, <1>8 DEF RunInv, CutIsEnding
  <1> QED BY <1>5, <1>6, <1>7, <1>9, <1>10 DEF RunInv

\* The driver begins anew, and no run is on its way.
LEMMA RestartKeepsRuns ==
  ASSUME RunInv, Restart PROVE RunInv'
  <1>1. /\ inflight' = <<>> /\ events' = <<>> /\ batch' = <<>> /\ run' = None /\ at' = "rest"
        /\ UNCHANGED <<void, cut, dropped, late>>
    BY DEF Restart, Fresh, history
  <1>2. /\ inflight' \in Seq(Events) /\ Once(inflight') /\ events' \in Seq(Events) /\ Once(events')
        /\ batch' \in Seq(Events) /\ Once(batch')
        /\ \A r : ~ In(inflight', r) /\ ~ In(events', r) /\ ~ In(batch', r)
    BY <1>1, NothingIn
  <1>3. dropped \subseteq Runs /\ cut \subseteq Runs
    BY DEF RunInv, RunTyped
  <1>4. RunTyped'
    BY <1>1, <1>2 DEF RunInv, RunTyped
  <1>5. RunOnce' /\ VoidIsPast'
    BY <1>1, <1>2 DEF RunInv, RunOnce, VoidIsPast
  <1>6. DroppedIsGone'
    BY <1>1, <1>2, <1>3, NoneIsNoRun DEF RunInv, DroppedIsGone, Gone
  <1>7. CutIsEnding'
    BY <1>1, <1>2, <1>3, NoneIsNoRun DEF RunInv, CutIsEnding, Gone
  <1> QED BY <1>4, <1>5, <1>6, <1>7 DEF RunInv

\* Steps that only lose what is in a list, or add what is no run.
LEMMA OthersKeepRuns ==
  ASSUME RunInv, ReadPress \/ HandleClosed \/ HandleSetting \/ HandlePlayer \/ Connect
                 \/ RequestFails \/ HeCloses
  PROVE  RunInv'
  <1> DEFINE Rest == UNCHANGED <<run, stopped, void, dropped, cut, late>>
             Stays(s) == Once(s) /\ s \in Seq(Events)
  <1>0. Lists
    BY ListsAre
  <1>1. CASE ReadPress
    <2>1. PICK e \in Events : Read(e)
      BY <1>1 DEF ReadPress
    <2>2. Rest /\ UNCHANGED <<events, batch, at>>
      BY <1>1 DEF ReadPress, history
    <2> QED BY <1>0, <2>1, <2>2, ReadTakesHead, NoRunMoves DEF Lists
  <1>2. CASE HandleClosed \/ HandleSetting \/ HandlePlayer
    <2>1. PICK k : Handles(k)
      BY <1>2 DEF HandleClosed, HandleSetting, HandlePlayer
    <2>2. Rest /\ UNCHANGED <<inflight, at>> /\ (events' = events)
      BY <1>2 DEF HandleClosed, HandleSetting, HandlePlayer, history
    <2> QED BY <1>0, <2>1, <2>2, HandlesHead, NoRunMoves DEF Lists
  <1>3. CASE Connect \/ RequestFails
    <2>1. /\ Rest /\ UNCHANGED <<events, batch>> /\ (inflight' = inflight \/ inflight' = <<>>)
          /\ at \in {"connect", "send", "tab", "closing"} /\ at' \in {"send", "rest"}
      BY <1>3 DEF Connect, RequestFails, Fails, GivesUp, history
    <2>2. /\ inflight' \in Seq(Events) /\ Once(inflight')
          /\ \A r \in Runs : In(inflight', r) => In(inflight, r)
      BY <1>0, <2>1, NothingIn DEF Lists
    <2> QED BY <1>0, <2>1, <2>2, NoRunMoves DEF Lists
  <1>4. CASE HeCloses
    <2>1. Rest /\ UNCHANGED <<events, batch, at>> /\ Sent(Event("closed"))
      BY <1>4 DEF HeCloses, worker, history
    <2>2. Event("closed") \in Events /\ Event("closed").run \notin Runs
      BY NoneIsNoRun DEF Events, Event
    <2>3. inflight' = Append(inflight, Event("closed")) \/ inflight' = inflight
      BY <2>1 DEF Sent
    <2>4. /\ inflight' \in Seq(Events) /\ Once(inflight')
          /\ \A r \in Runs : In(inflight', r) => In(inflight, r)
      <3>1. CASE inflight' = inflight
        BY <1>0, <3>1 DEF Lists
      <3>2. CASE inflight' = Append(inflight, Event("closed"))
        <4> DEFINE e == Event("closed")
        <4>1. e \in Events /\ e.run \notin Runs /\ inflight' = Append(inflight, e)
          BY <2>2, <3>2
        <4> HIDE DEF e
        <4> QED BY <1>0, <4>1, AppendIn DEF Lists
      <3> QED BY <2>3, <3>1, <3>2
    <2> QED BY <1>0, <2>1, <2>4, NoRunMoves DEF Lists
  <1> QED BY <1>1, <1>2, <1>3, <1>4

LEMMA RunStep == RunInv /\ [Next]_vars => RunInv'
  <1> SUFFICES ASSUME RunInv, [Next]_vars PROVE RunInv'
    OBVIOUS
  <1>1. CASE UNCHANGED vars
    BY <1>1, ListsStay DEF vars, driver, worker, history
  <1>2. CASE PlayingReads \/ Playing \/ Noted \/ LineEnded \/ ActsOnStop \/ ReaderEnds \/ DebounceOver
             \/ PlayerOn \/ PlayerOff \/ HoldChanges \/ Quits
    BY <1>2, ListsStay DEF PlayingReads, Playing, Noted, LineEnded, Narrates, Changes, ActsOnStop,
       ReaderEnds, DebounceOver, PlayerOn, PlayerOff, HoldChanges, Quits, driver, worker, history
  <1>3. CASE HandledAll \/ SyncTakes \/ OpenSent \/ UpdateSent \/ TabSent \/ Build \/ Updated \/ CloseSent
    <2>1. /\ UNCHANGED <<inflight, events, batch, run, void, dropped, cut, late, stopped>>
          /\ at \notin {"run", "queueing"} /\ at' \notin {"run", "queueing"}
      BY <1>3 DEF HandledAll, SyncTakes, OpenSent, UpdateSent, TabSent, Build, Updated, CloseSent,
         driver, history
    <2> QED BY <2>1, ListsStay
  <1>4. CASE ReadPress \/ HandleClosed \/ HandleSetting \/ HandlePlayer \/ Connect \/ RequestFails \/ HeCloses
    BY <1>4, OthersKeepRuns
  <1>5. CASE ReadStop \/ ReadEvent \/ Wakes
    BY <1>5, StopCuts, ReadEventKeepsRuns, WakesKeepsRuns
  <1>6. CASE BeginRun \/ NextLine \/ QueueLine
    BY <1>6, BeginKeepsRuns, NextKeepsRuns, QueueKeepsRuns
  <1>7. CASE HePresses \/ Restart
    BY <1>7, PressKeepsRuns, RestartKeepsRuns
  <1> QED BY <1>1, <1>2, <1>3, <1>4, <1>5, <1>6, <1>7 DEF Next, ReaderStep, WorkerStep

\* "A stop also drops the plays still waiting to be handled and cancels a run
\* being queued": of a run dropped nothing is queued after the stop, and of
\* one that was being queued the line whose turn had come at most, however
\* many stops, lost connections and restarts there are.
THEOREM StopCutsHolds == Spec => []StopCutsTheRun
  <1>1. Init => RunInv
    <2>1. SUFFICES ASSUME Init PROVE RunInv
      OBVIOUS
    <2>2. /\ inflight = <<>> /\ events = <<>> /\ batch = <<>> /\ run = None /\ at = "rest"
          /\ void = {} /\ cut = {} /\ dropped = {} /\ late = [r \in Runs |-> 0]
      BY <2>1 DEF Init
    <2>3. RunTyped
      BY <2>2, NothingIn DEF RunTyped
    <2>4. RunOnce /\ VoidIsPast /\ DroppedIsGone /\ CutIsEnding
      BY <2>2, NothingIn DEF RunOnce, VoidIsPast, DroppedIsGone, CutIsEnding
    <2> QED BY <2>3, <2>4 DEF RunInv
  <1>2. RunInv => StopCutsTheRun
    BY DEF RunInv, DroppedIsGone, CutIsEnding, StopCutsTheRun
  <1> QED BY <1>1, <1>2, RunStep, PTL DEF Spec
=============================================================================
