------------------------ MODULE NarratorServiceProofs ------------------------
(***************************************************************************)
(* NarratorService keeps its promises for every set of lines and handlers  *)
(* and every bound: to its types (TypeOK), a line id is in one place and   *)
(* plays once (InOnePlace, OneIdOnePlay), his stop holds (StopHolds), what *)
(* was heard leaves the missed list (HeardLeavesList) and the ledger tells *)
(* the truth (LedgerTellsTheTruth).                                        *)
(*                                                                         *)
(* TypeOK is not inductive by itself, since what the worker has in hand    *)
(* depends on where it is in its pass: Carried adds that.  Its proof has a *)
(* lemma per action, with a step per variable the action changes and one   *)
(* for all it leaves alone.                                                *)
(*                                                                         *)
(* Beyond that the invariant says of each line that no barge-in misjudged    *)
(* that it has at most one copy among the queue, the handlers about to     *)
(* queue and the worker's hand, that the ledger refuses resends as long as *)
(* there is one (OneCopy), and that a line that was heard is done in the   *)
(* ledger, or about to be recorded so (Recorded).  Almost every action     *)
(* makes no copy and takes nothing back from the ledger (lemma Keeps);     *)
(* those that do have a lemma each.  The three later sections add a part   *)
(* each to it: StopStands, Unlisted and Tracked.                           *)
(***************************************************************************)
EXTENDS NarratorService, TLAPS

\* The worker has a line in hand exactly while it is in a pass, and while it
\* queues a retry the retry is of that line.
Carried ==
    /\ hand = None <=> step \in {"idle", "ended"}
    /\ step \in {"requeue", "requeue ledger"} => again \in Item /\ again.line = hand.line

LEMMA HandIsItem ==
  ASSUME TypeOK, Carried, step \notin {"idle", "ended"} PROVE hand \in Item
  BY DEF TypeOK, Carried

LEMMA MeetsTyped ==
  ASSUME races \subseteq (Races \X Lines), NEW kind \in Races, NEW S \in SUBSET Lines,
         Meets(kind, S)
  PROVE  races' \subseteq (Races \X Lines)
  BY DEF Meets

\* A retry of an item is an item, while it has retries left.
LEMMA RetryTyped ==
  ASSUME NEW it \in Item, NEW w \in BOOLEAN, NEW held \in BOOLEAN, it.tries < MaxRetries
  PROVE  [it EXCEPT !.tries = @ + 1, !.wav = w, !.listed = @ \/ held] \in Item
  <1>1. it.tries + 1 \in 0..MaxRetries
    BY ServiceAssumption DEF Item, ServiceAssumption
  <1>2. (it.listed \/ held) \in BOOLEAN
    OBVIOUS
  <1> QED BY <1>1, <1>2 DEF Item

LEMMA TypeInit == Init => TypeOK /\ Carried
  <1> SUFFICES ASSUME Init PROVE TypeOK /\ Carried
    OBVIOUS
  <1>1. /\ ledger \in [Lines -> States] /\ inPass \in [Lines -> BOOLEAN]
        /\ missed \in [Lines -> Statuses \cup {None}]
    BY DEF Init, States
  <1>2. /\ sends \in 0..MaxSends /\ adds \in 0..MaxAdds
        /\ barges \in 0..MaxBarges /\ deaths \in 0..MaxDeaths
    BY ServiceAssumption DEF Init, ServiceAssumption
  <1> QED BY <1>1, <1>2 DEF Init, TypeOK, Carried, Statuses, Steps

LEMMA TypeSend ==
  ASSUME TypeOK, NEW h \in Handlers, NEW l \in Lines, Send(h, l) PROVE TypeOK'
  <1>1. req' \in [Handlers -> Request \cup {None}]
    BY ServiceAssumption DEF TypeOK, Send, Asks, Free, Request, ServiceAssumption
  <1>2. sends' \in 0..MaxSends
    BY ServiceAssumption DEF TypeOK, Send, Asks, Free, ServiceAssumption
  <1>3. UNCHANGED <<ledger, inPass, missed, stopped, up, queue, interrupted, shutdown, worker,
                    sink, barging, heard, races, late, adds, barges, deaths>>
    BY DEF Send, HandlerFrame, bounds
  <1> QED BY <1>1, <1>2, <1>3 DEF TypeOK, worker, sink, barging, bounds

LEMMA TypeReplay ==
  ASSUME TypeOK, NEW h \in Handlers, NEW l \in Lines, Replay(h, l) PROVE TypeOK'
  <1>1. req' \in [Handlers -> Request \cup {None}]
    BY ServiceAssumption DEF TypeOK, Replay, Asks, Free, Request, ServiceAssumption
  <1>2. sends' \in 0..MaxSends
    BY ServiceAssumption DEF TypeOK, Replay, Asks, Free, ServiceAssumption
  <1>3. UNCHANGED <<ledger, inPass, missed, stopped, up, queue, interrupted, shutdown, worker,
                    sink, barging, heard, races, late, adds, barges, deaths>>
    BY DEF Replay, HandlerFrame, bounds
  <1> QED BY <1>1, <1>2, <1>3 DEF TypeOK, worker, sink, barging, bounds

LEMMA TypeAdd ==
  ASSUME TypeOK, NEW h \in Handlers, NEW l \in Lines, Add(h, l) PROVE TypeOK'
  <1>1. req' \in [Handlers -> Request \cup {None}]
    BY ServiceAssumption DEF TypeOK, Add, Asks, Free, Request, ServiceAssumption
  <1>2. adds' \in 0..MaxAdds
    BY ServiceAssumption DEF TypeOK, Add, Asks, Free, ServiceAssumption
  <1>3. UNCHANGED <<ledger, inPass, missed, stopped, up, queue, interrupted, shutdown, worker,
                    sink, barging, heard, races, late, sends, barges, deaths>>
    BY DEF Add, HandlerFrame, bounds
  <1> QED BY <1>1, <1>2, <1>3 DEF TypeOK, worker, sink, barging, bounds

LEMMA TypeLook ==
  ASSUME TypeOK, NEW h \in Handlers, Look(h) PROVE TypeOK'
  <1>1. req' \in [Handlers -> Request \cup {None}]
    BY ServiceAssumption, NoneAssumption DEF TypeOK, Look, Answers, Proceeds, At, Request,
       ServiceAssumption, NoneAssumption
  <1>2. UNCHANGED <<ledger, inPass, missed, stopped, up, queue, interrupted, shutdown, worker,
                    sink, barging, heard, races, late, bounds>>
    BY DEF Look, HandlerFrame, bounds
  <1> QED BY <1>1, <1>2 DEF TypeOK, worker, sink, barging, bounds

LEMMA TypeAddUnlessHeard ==
  ASSUME TypeOK, NEW h \in Handlers, AddUnlessHeard(h) PROVE TypeOK'
  <1>1. req' \in [Handlers -> Request \cup {None}]
    BY ServiceAssumption, NoneAssumption DEF TypeOK, AddUnlessHeard, Answers, Proceeds, At,
       Request, ServiceAssumption, NoneAssumption
  <1>2. UNCHANGED <<ledger, inPass, missed, stopped, up, queue, interrupted, shutdown, worker,
                    sink, barging, heard, races, late, bounds>>
    BY DEF AddUnlessHeard, HandlerFrame, bounds
  <1> QED BY <1>1, <1>2 DEF TypeOK, worker, sink, barging, bounds

LEMMA TypeAddUnlessListed ==
  ASSUME TypeOK, NEW h \in Handlers, AddUnlessListed(h) PROVE TypeOK'
  <1>1. req' \in [Handlers -> Request \cup {None}]
    BY ServiceAssumption, NoneAssumption DEF TypeOK, AddUnlessListed, Answers, Proceeds, At,
       Request, ServiceAssumption, NoneAssumption
  <1>2. UNCHANGED <<ledger, inPass, missed, stopped, up, queue, interrupted, shutdown, worker,
                    sink, barging, heard, races, late, bounds>>
    BY DEF AddUnlessListed, HandlerFrame, bounds
  <1> QED BY <1>1, <1>2 DEF TypeOK, worker, sink, barging, bounds

LEMMA TypeAddMiss ==
  ASSUME TypeOK, NEW h \in Handlers, AddMiss(h) PROVE TypeOK'
  <1>1. missed' \in [Lines -> Statuses \cup {None}]
    BY NoneAssumption DEF TypeOK, AddMiss, Answers, At, Statuses, Request, NoneAssumption
  <1>2. req' \in [Handlers -> Request \cup {None}]
    BY ServiceAssumption, NoneAssumption DEF TypeOK, AddMiss, Answers, At, Request,
       ServiceAssumption, NoneAssumption
  <1>3. UNCHANGED <<ledger, inPass, stopped, up, queue, interrupted, shutdown, worker, sink,
                    barging, heard, races, late, bounds>>
    BY DEF AddMiss, HandlerFrame, bounds
  <1> QED BY <1>1, <1>2, <1>3 DEF TypeOK, worker, sink, barging, bounds

LEMMA TypePutLine ==
  ASSUME TypeOK, NEW h \in Handlers, PutLine(h) PROVE TypeOK'
  <1>1. queue' \in SUBSET Item
    <2>1. req[h] \in Request
      BY DEF PutLine, At, TypeOK
    <2>2. \A wav \in BOOLEAN : [line |-> req[h].line, send |-> req[h].send,
                              replay |-> req[h].replay, listed |-> req[h].replay,
                              tries |-> 0, wav |-> wav] \in Item
      BY <2>1, ServiceAssumption DEF Item, Request, ServiceAssumption, PutLine, At
    <2> QED BY <2>2 DEF PutLine, TypeOK
  <1>2. req' \in [Handlers -> Request \cup {None}]
    BY ServiceAssumption, NoneAssumption DEF TypeOK, PutLine, Answers, At, Request,
       ServiceAssumption, NoneAssumption
  <1>3. UNCHANGED <<ledger, inPass, missed, stopped, up, interrupted, shutdown, worker, sink,
                    barging, heard, races, late, bounds>>
    BY DEF PutLine, HandlerFrame, bounds
  <1> QED BY <1>1, <1>2, <1>3 DEF TypeOK, worker, sink, barging, bounds

LEMMA TypeAdmit ==
  ASSUME TypeOK, NEW h \in Handlers, Admit(h) PROVE TypeOK'
  <1>1. ledger' \in [Lines -> States]
    BY NoneAssumption DEF TypeOK, Admit, At, Blocks, States, Request, NoneAssumption
  <1>2. inPass' \in [Lines -> BOOLEAN]
    BY NoneAssumption DEF TypeOK, Admit, Answers, Proceeds, At, Blocks, Request, NoneAssumption
  <1>3. missed' \in [Lines -> Statuses \cup {None}]
    BY NoneAssumption DEF TypeOK, Admit, Answers, Proceeds, At, Blocks, Statuses, Request,
       NoneAssumption
  <1>4. req' \in [Handlers -> Request \cup {None}]
    BY ServiceAssumption, NoneAssumption DEF TypeOK, Admit, Answers, Proceeds, At, Blocks,
       Request, ServiceAssumption, NoneAssumption
  <1>5. UNCHANGED <<stopped, up, queue, interrupted, shutdown, worker, sink, barging, heard,
                    races, late, bounds>>
    BY DEF Admit, HandlerFrame, bounds
  <1> QED BY <1>1, <1>2, <1>3, <1>4, <1>5 DEF TypeOK, worker, sink, barging, bounds

LEMMA TypeResume ==
  ASSUME TypeOK, Resume PROVE TypeOK'
  <1>1. stopped' \in BOOLEAN
    BY DEF TypeOK, Resume
  <1>2. UNCHANGED <<ledger, inPass, missed, up, queue, req, interrupted, shutdown, worker,
                    sink, barging, heard, races, late, bounds>>
    BY DEF Resume
  <1> QED BY <1>1, <1>2 DEF TypeOK, worker, sink, barging, bounds

LEMMA TypeClearMissed ==
  ASSUME TypeOK, ClearMissed PROVE TypeOK'
  <1>1. missed' \in [Lines -> Statuses \cup {None}]
    BY DEF TypeOK, ClearMissed, Statuses
  <1>2. UNCHANGED <<ledger, inPass, stopped, up, queue, req, interrupted, shutdown, worker,
                    sink, barging, heard, races, late, bounds>>
    BY DEF ClearMissed
  <1> QED BY <1>1, <1>2 DEF TypeOK, worker, sink, barging, bounds

LEMMA TypeShed ==
  ASSUME TypeOK, NEW it \in queue, Shed(it) PROVE TypeOK'
  <1>1. queue' \in SUBSET Item
    BY DEF TypeOK, Shed, Meets, Item
  <1>2. races' \subseteq (Races \X Lines)
    <2>1. {it.line} \subseteq Lines
      BY DEF TypeOK, Item
    <2> QED BY <2>1, MeetsTyped DEF Shed, TypeOK, Races
  <1>3. UNCHANGED <<ledger, inPass, missed, stopped, up, req, interrupted, shutdown, worker,
                    sink, barging, heard, late, bounds>>
    BY DEF Shed
  <1> QED BY <1>1, <1>2, <1>3 DEF TypeOK, worker, sink, barging, bounds

LEMMA TypeTake ==
  ASSUME TypeOK, NEW it \in queue, Take(it) PROVE TypeOK'
  <1>1. queue' \in SUBSET Item
    BY DEF TypeOK, Take, Goto, Item
  <1>2. step' \in Steps
    BY DEF TypeOK, Take, Goto, Steps
  <1>3. hand' \in Item \cup {None}
    BY DEF TypeOK, Take, Goto
  <1>4. UNCHANGED <<ledger, inPass, missed, stopped, up, req, interrupted, shutdown, why,
                    again, onHold, sink, barging, heard, races, late, bounds>>
    BY DEF Take, PassFrame, Quiet, Goto, worker
  <1> QED BY <1>1, <1>2, <1>3, <1>4 DEF TypeOK, worker, sink, barging, bounds

LEMMA TypeTakeSentinel ==
  ASSUME TypeOK, TakeSentinel PROVE TypeOK'
  <1>1. step' \in Steps
    BY DEF TypeOK, TakeSentinel, Goto, Steps
  <1>2. UNCHANGED <<ledger, inPass, missed, stopped, up, queue, req, interrupted, shutdown,
                    hand, why, again, onHold, sink, barging, heard, races, late, bounds>>
    BY DEF TakeSentinel, PassFrame, Quiet, Goto, worker
  <1> QED BY <1>1, <1>2 DEF TypeOK, worker, sink, barging, bounds

LEMMA TypeTaken ==
  ASSUME TypeOK, Taken PROVE TypeOK'
  <1>1. inPass' \in [Lines -> BOOLEAN]
    BY DEF TypeOK, Taken, Goto, SetAside, Line, Item
  <1>2. step' \in Steps
    BY DEF TypeOK, Taken, Goto, SetAside, Line, Steps
  <1>3. why' \in Statuses
    BY DEF TypeOK, Taken, Goto, SetAside, Line, Statuses
  <1>4. UNCHANGED <<ledger, missed, stopped, up, queue, req, interrupted, shutdown, hand,
                    again, onHold, sink, barging, heard, races, late, bounds>>
    BY DEF Taken, PassFrame, Quiet, Goto, SetAside, worker
  <1> QED BY <1>1, <1>2, <1>3, <1>4 DEF TypeOK, worker, sink, barging, bounds

LEMMA TypePutBack ==
  ASSUME TypeOK, Carried, PutBack PROVE TypeOK'
  <1>1. queue' \in SUBSET Item
    BY HandIsItem DEF PutBack, TypeOK
  <1>2. step' \in Steps
    BY DEF TypeOK, PutBack, Meets, Goto, Line, Steps
  <1>3. hand' \in Item \cup {None}
    BY DEF TypeOK, PutBack, Meets, Goto, Line
  <1>4. races' \subseteq (Races \X Lines)
    <2>1. {Line} \subseteq Lines
      BY HandIsItem DEF PutBack, Line, Item
    <2> QED BY <2>1, MeetsTyped DEF PutBack, TypeOK, Races
  <1>5. UNCHANGED <<ledger, inPass, missed, stopped, up, req, interrupted, shutdown, why,
                    again, onHold, sink, barging, heard, late, bounds>>
    BY DEF PutBack, PassFrame, Quiet, Goto, worker
  <1> QED BY <1>1, <1>2, <1>3, <1>4, <1>5 DEF TypeOK, worker, sink, barging, bounds

LEMMA TypeGoAhead ==
  ASSUME TypeOK, GoAhead PROVE TypeOK'
  <1>1. step' \in Steps
    BY DEF TypeOK, GoAhead, Goto, Steps
  <1>2. UNCHANGED <<ledger, inPass, missed, stopped, up, queue, req, interrupted, shutdown,
                    hand, why, again, onHold, sink, barging, heard, races, late, bounds>>
    BY DEF GoAhead, PassFrame, Quiet, Goto, worker
  <1> QED BY <1>1, <1>2 DEF TypeOK, worker, sink, barging, bounds

LEMMA TypeResetFlags ==
  ASSUME TypeOK, ResetFlags PROVE TypeOK'
  <1>1. interrupted' \in BOOLEAN
    BY DEF TypeOK, ResetFlags, Goto
  <1>2. step' \in Steps
    BY DEF TypeOK, ResetFlags, Goto, Steps
  <1>3. UNCHANGED <<ledger, inPass, missed, stopped, up, queue, req, shutdown, hand, why,
                    again, onHold, sink, barging, heard, races, late, bounds>>
    BY DEF ResetFlags, PassFrame, Quiet, Goto, worker
  <1> QED BY <1>1, <1>2, <1>3 DEF TypeOK, worker, sink, barging, bounds

LEMMA TypeCheck ==
  ASSUME TypeOK, Check PROVE TypeOK'
  <1>1. step' \in Steps
    BY DEF TypeOK, Check, Goto, SetAside, Steps
  <1>2. why' \in Statuses
    BY DEF TypeOK, Check, Goto, SetAside, Statuses
  <1>3. UNCHANGED <<ledger, inPass, missed, stopped, up, queue, req, interrupted, shutdown,
                    hand, again, onHold, sink, barging, heard, races, late, bounds>>
    BY DEF Check, PassFrame, Quiet, Goto, SetAside, worker
  <1> QED BY <1>1, <1>2, <1>3 DEF TypeOK, worker, sink, barging, bounds

LEMMA TypePreSynth ==
  ASSUME TypeOK, PreSynth PROVE TypeOK'
  <1>1. step' \in Steps
    BY DEF TypeOK, PreSynth, Goto, Steps
  <1>2. UNCHANGED <<ledger, inPass, missed, stopped, up, queue, req, interrupted, shutdown,
                    hand, why, again, onHold, sink, barging, heard, races, late, bounds>>
    BY DEF PreSynth, PassFrame, Quiet, Goto, worker
  <1> QED BY <1>1, <1>2 DEF TypeOK, worker, sink, barging, bounds

LEMMA TypeSynth ==
  ASSUME TypeOK, Carried, Synth PROVE TypeOK'
  <1>1. step' \in Steps
    BY DEF TypeOK, Synth, Goto, SetAside, RetryOrSetAside, Steps
  <1>2. why' \in Statuses
    BY DEF TypeOK, Synth, Goto, SetAside, RetryOrSetAside, Statuses
  <1>3. again' \in Item \cup {None}
    <2>1. CASE UNCHANGED again
      BY <2>1 DEF TypeOK
    <2>2. CASE hand.tries < MaxRetries
               /\ again' = [hand EXCEPT !.tries = @ + 1, !.wav = FALSE, !.listed = @ \/ onHold]
      BY <2>2, HandIsItem, RetryTyped DEF Synth, TypeOK
    <2> QED BY <2>1, <2>2 DEF Synth, RetryOrSetAside
  <1>4. UNCHANGED <<ledger, inPass, missed, stopped, up, queue, req, interrupted, shutdown,
                    hand, onHold, sink, barging, heard, races, late, bounds>>
    BY DEF Synth, PassFrame, Quiet, Goto, SetAside, RetryOrSetAside, worker
  <1> QED BY <1>1, <1>2, <1>3, <1>4 DEF TypeOK, worker, sink, barging, bounds

LEMMA TypeReady ==
  ASSUME TypeOK, Ready PROVE TypeOK'
  <1>1. step' \in Steps
    BY DEF TypeOK, Ready, Goto, Steps
  <1>2. UNCHANGED <<ledger, inPass, missed, stopped, up, queue, req, interrupted, shutdown,
                    hand, why, again, onHold, sink, barging, heard, races, late, bounds>>
    BY DEF Ready, PassFrame, Quiet, Goto, worker
  <1> QED BY <1>1, <1>2 DEF TypeOK, worker, sink, barging, bounds

LEMMA TypeGateCheck ==
  ASSUME TypeOK, GateCheck PROVE TypeOK'
  <1>1. step' \in Steps
    BY DEF TypeOK, GateCheck, Goto, SetAside, Steps
  <1>2. why' \in Statuses
    BY DEF TypeOK, GateCheck, Goto, SetAside, Statuses
  <1>3. UNCHANGED <<ledger, inPass, missed, stopped, up, queue, req, interrupted, shutdown,
                    hand, again, onHold, sink, barging, heard, races, late, bounds>>
    BY DEF GateCheck, PassFrame, Quiet, Goto, SetAside, worker
  <1> QED BY <1>1, <1>2, <1>3 DEF TypeOK, worker, sink, barging, bounds

LEMMA TypeEnterSink ==
  ASSUME TypeOK, EnterSink PROVE TypeOK'
  <1>1. step' \in Steps
    BY DEF TypeOK, EnterSink, Goto, Steps
  <1>2. holdAbort' \in BOOLEAN
    BY DEF TypeOK, EnterSink, Goto
  <1>3. aborted' \in BOOLEAN
    BY DEF TypeOK, EnterSink, Goto
  <1>4. UNCHANGED <<ledger, inPass, missed, stopped, up, queue, req, interrupted, shutdown,
                    hand, why, again, onHold, proc, barging, heard, races, late, bounds>>
    BY DEF EnterSink, PassFrame, Quiet, Goto, worker, sink
  <1> QED BY <1>1, <1>2, <1>3, <1>4 DEF TypeOK, worker, sink, barging, bounds

LEMMA TypeGate ==
  ASSUME TypeOK, Gate PROVE TypeOK'
  <1>1. missed' \in [Lines -> Statuses \cup {None}]
    BY DEF TypeOK, Gate, Goto, SetAside, Line, Statuses, Item
  <1>2. step' \in Steps
    BY DEF TypeOK, Gate, Goto, SetAside, Line, Steps
  <1>3. why' \in Statuses
    BY DEF TypeOK, Gate, Goto, SetAside, Line, Statuses
  <1>4. onHold' \in BOOLEAN
    BY DEF TypeOK, Gate, Goto, SetAside, Line
  <1>5. UNCHANGED <<ledger, inPass, stopped, up, queue, req, interrupted, shutdown, hand,
                    again, sink, barging, heard, races, late, bounds>>
    BY DEF Gate, PassFrame, Quiet, Goto, SetAside, worker
  <1> QED BY <1>1, <1>2, <1>3, <1>4, <1>5 DEF TypeOK, worker, sink, barging, bounds

LEMMA TypeHoldEnds ==
  ASSUME TypeOK, HoldEnds PROVE TypeOK'
  <1>1. step' \in Steps
    BY DEF TypeOK, HoldEnds, Goto, SetAside, Steps
  <1>2. why' \in Statuses
    BY DEF TypeOK, HoldEnds, Goto, SetAside, Statuses
  <1>3. aborted' \in BOOLEAN
    BY DEF TypeOK, HoldEnds, Goto, SetAside
  <1>4. UNCHANGED <<ledger, inPass, missed, stopped, up, queue, req, interrupted, shutdown,
                    hand, again, onHold, proc, holdAbort, barging, heard, races, late, bounds>>
    BY DEF HoldEnds, PassFrame, Quiet, Goto, SetAside, worker, sink
  <1> QED BY <1>1, <1>2, <1>3, <1>4 DEF TypeOK, worker, sink, barging, bounds

LEMMA TypeStart ==
  ASSUME TypeOK, Start PROVE TypeOK'
  <1>1. ledger' \in [Lines -> States]
    BY DEF TypeOK, Start, Goto, Line, Playing, States, Item
  <1>2. step' \in Steps
    BY DEF TypeOK, Start, Goto, Line, Steps
  <1>3. UNCHANGED <<inPass, missed, stopped, up, queue, req, interrupted, shutdown, hand, why,
                    again, onHold, sink, barging, heard, races, late, bounds>>
    BY DEF Start, PassFrame, Quiet, Goto, worker
  <1> QED BY <1>1, <1>2, <1>3 DEF TypeOK, worker, sink, barging, bounds

LEMMA TypePopen ==
  ASSUME TypeOK, Popen PROVE TypeOK'
  <1>1. step' \in Steps
    BY DEF TypeOK, Popen, Goto, Steps
  <1>2. proc' \in BOOLEAN
    BY DEF TypeOK, Popen, Goto
  <1>3. UNCHANGED <<ledger, inPass, missed, stopped, up, queue, req, interrupted, shutdown,
                    hand, why, again, onHold, holdAbort, aborted, barging, heard, races, late,
                       bounds>>
    BY DEF Popen, PassFrame, Quiet, Goto, worker, sink
  <1> QED BY <1>1, <1>2, <1>3 DEF TypeOK, worker, sink, barging, bounds

LEMMA TypeSoundEnds ==
  ASSUME TypeOK, Carried, SoundEnds PROVE TypeOK'
  <1>1. step' \in Steps
    BY DEF TypeOK, SoundEnds, Goto, SetAside, RetryOrSetAside, Steps
  <1>2. why' \in Statuses
    BY DEF TypeOK, SoundEnds, Goto, SetAside, RetryOrSetAside, Statuses
  <1>3. again' \in Item \cup {None}
    <2>1. CASE UNCHANGED again
      BY <2>1 DEF TypeOK
    <2>2. CASE hand.tries < MaxRetries
               /\ again' = [hand EXCEPT !.tries = @ + 1, !.wav = TRUE, !.listed = @ \/ onHold]
      BY <2>2, HandIsItem, RetryTyped DEF SoundEnds, TypeOK
    <2> QED BY <2>1, <2>2 DEF SoundEnds, RetryOrSetAside
  <1>4. proc' \in BOOLEAN
    BY DEF TypeOK, SoundEnds, Goto, SetAside, RetryOrSetAside
  <1>5. UNCHANGED <<ledger, inPass, missed, stopped, up, queue, req, interrupted, shutdown,
                    hand, onHold, holdAbort, aborted, barging, heard, races, late, bounds>>
    BY DEF SoundEnds, PassFrame, Quiet, Goto, SetAside, RetryOrSetAside, worker, sink
  <1> QED BY <1>1, <1>2, <1>3, <1>4, <1>5 DEF TypeOK, worker, sink, barging, bounds

LEMMA TypePlayed ==
  ASSUME TypeOK, Carried, Played PROVE TypeOK'
  <1>1. missed' \in [Lines -> Statuses \cup {None}]
    BY DEF TypeOK, Played, Goto, SetAside, Line, Statuses, Item
  <1>2. step' \in Steps
    BY DEF TypeOK, Played, Goto, SetAside, Line, Steps
  <1>3. why' \in Statuses
    BY DEF TypeOK, Played, Goto, SetAside, Line, Statuses
  <1>4. heard' \subseteq Lines
    BY HandIsItem DEF Played, TypeOK, Line, Item
  <1>5. UNCHANGED <<ledger, inPass, stopped, up, queue, req, interrupted, shutdown, hand,
                    again, onHold, sink, barging, races, late, bounds>>
    BY DEF Played, PassFrame, Quiet, Goto, SetAside, worker
  <1> QED BY <1>1, <1>2, <1>3, <1>4, <1>5 DEF TypeOK, worker, sink, barging, bounds

LEMMA TypeRecordDone ==
  ASSUME TypeOK, Carried, RecordDone PROVE TypeOK'
  <1>1. ledger' \in [Lines -> States]
    BY DEF TypeOK, RecordDone, Goto, Line, Done, States, Item
  <1>2. inPass' \in [Lines -> BOOLEAN]
    BY DEF TypeOK, RecordDone, Goto, Line, Item
  <1>3. step' \in Steps
    BY DEF TypeOK, RecordDone, Goto, Line, Steps
  <1>4. races' \subseteq (Races \X Lines)
    <2>1. {l \in {Line} : \E h \in Handlers : AddsLine(h, l)} \subseteq Lines
      BY HandIsItem DEF RecordDone, Line, Item
    <2> QED BY <2>1, MeetsTyped DEF RecordDone, TypeOK, Races
  <1>5. UNCHANGED <<missed, stopped, up, queue, req, interrupted, shutdown, hand, why, again,
                    onHold, sink, barging, heard, late, bounds>>
    BY DEF RecordDone, PassFrame, Goto, worker
  <1> QED BY <1>1, <1>2, <1>3, <1>4, <1>5 DEF TypeOK, worker, sink, barging, bounds

LEMMA TypeForget ==
  ASSUME TypeOK, Forget PROVE TypeOK'
  <1>1. missed' \in [Lines -> Statuses \cup {None}]
    BY DEF TypeOK, Forget, Goto, Line, Statuses, Item
  <1>2. step' \in Steps
    BY DEF TypeOK, Forget, Goto, Line, Steps
  <1>3. UNCHANGED <<ledger, inPass, stopped, up, queue, req, interrupted, shutdown, hand, why,
                    again, onHold, sink, barging, heard, races, late, bounds>>
    BY DEF Forget, PassFrame, Quiet, Goto, worker
  <1> QED BY <1>1, <1>2, <1>3 DEF TypeOK, worker, sink, barging, bounds

LEMMA TypeAsideMiss ==
  ASSUME TypeOK, AsideMiss PROVE TypeOK'
  <1>1. missed' \in [Lines -> Statuses \cup {None}]
    BY DEF TypeOK, AsideMiss, Goto, Line, Statuses, Item
  <1>2. step' \in Steps
    BY DEF TypeOK, AsideMiss, Goto, Line, Steps
  <1>3. UNCHANGED <<ledger, inPass, stopped, up, queue, req, interrupted, shutdown, hand, why,
                    again, onHold, sink, barging, heard, races, late, bounds>>
    BY DEF AsideMiss, PassFrame, Quiet, Goto, worker
  <1> QED BY <1>1, <1>2, <1>3 DEF TypeOK, worker, sink, barging, bounds

LEMMA TypeAsideLedger ==
  ASSUME TypeOK, AsideLedger PROVE TypeOK'
  <1>1. ledger' \in [Lines -> States]
    BY DEF TypeOK, AsideLedger, Goto, Line, Dropped, States, Item
  <1>2. inPass' \in [Lines -> BOOLEAN]
    BY DEF TypeOK, AsideLedger, Goto, Line, Item
  <1>3. step' \in Steps
    BY DEF TypeOK, AsideLedger, Goto, Line, Steps
  <1>4. UNCHANGED <<missed, stopped, up, queue, req, interrupted, shutdown, hand, why, again,
                    onHold, sink, barging, heard, races, late, bounds>>
    BY DEF AsideLedger, PassFrame, Quiet, Goto, worker
  <1> QED BY <1>1, <1>2, <1>3, <1>4 DEF TypeOK, worker, sink, barging, bounds

LEMMA TypeRequeuePut ==
  ASSUME TypeOK, Carried, RequeuePut PROVE TypeOK'
  <1>1. queue' \in SUBSET Item
    BY DEF RequeuePut, TypeOK, Carried
  <1>2. step' \in Steps
    BY DEF TypeOK, RequeuePut, Goto, Steps
  <1>3. UNCHANGED <<ledger, inPass, missed, stopped, up, req, interrupted, shutdown, hand,
                    why, again, onHold, sink, barging, heard, races, late, bounds>>
    BY DEF RequeuePut, PassFrame, Quiet, Goto, worker
  <1> QED BY <1>1, <1>2, <1>3 DEF TypeOK, worker, sink, barging, bounds

LEMMA TypeRequeueLedger ==
  ASSUME TypeOK, Carried, RequeueLedger PROVE TypeOK'
  <1>1. ledger' \in [Lines -> States]
    BY DEF TypeOK, RequeueLedger, Goto, Line, Queued, Requeued, States, Item
  <1>2. inPass' \in [Lines -> BOOLEAN]
    BY DEF TypeOK, RequeueLedger, Meets, Goto, Line, Queued, Item
  <1>3. step' \in Steps
    BY DEF TypeOK, RequeueLedger, Meets, Goto, Line, Queued, Steps
  <1>4. races' \subseteq (Races \X Lines)
    <2>1. {Line} \ Queued \subseteq Lines
      BY HandIsItem DEF RequeueLedger, Line, Item
    <2> QED BY <2>1, MeetsTyped DEF RequeueLedger, TypeOK, Races
  <1>5. UNCHANGED <<missed, stopped, up, queue, req, interrupted, shutdown, hand, why, again,
                    onHold, sink, barging, heard, late, bounds>>
    BY DEF RequeueLedger, PassFrame, Quiet, Goto, worker
  <1> QED BY <1>1, <1>2, <1>3, <1>4, <1>5 DEF TypeOK, worker, sink, barging, bounds

LEMMA TypeSettle ==
  ASSUME TypeOK, Settle PROVE TypeOK'
  <1>1. ledger' \in [Lines -> States]
    BY DEF TypeOK, Settle, Goto, Line, Settled, States, Item
  <1>2. inPass' \in [Lines -> BOOLEAN]
    BY DEF TypeOK, Settle, Goto, Line, Item
  <1>3. step' \in Steps
    BY DEF TypeOK, Settle, Goto, Line, Steps
  <1>4. UNCHANGED <<missed, stopped, up, queue, req, interrupted, shutdown, hand, why, again,
                    onHold, sink, barging, heard, races, late, bounds>>
    BY DEF Settle, PassFrame, Quiet, Goto, worker
  <1> QED BY <1>1, <1>2, <1>3, <1>4 DEF TypeOK, worker, sink, barging, bounds

LEMMA TypeFinally ==
  ASSUME TypeOK, Finally PROVE TypeOK'
  <1>1. interrupted' \in BOOLEAN
    BY DEF TypeOK, Finally, Goto
  <1>2. step' \in Steps
    BY DEF TypeOK, Finally, Goto, Steps
  <1>3. hand' \in Item \cup {None}
    BY DEF TypeOK, Finally, Goto
  <1>4. why' \in Statuses
    BY DEF TypeOK, Finally, Goto, Statuses
  <1>5. again' \in Item \cup {None}
    BY ServiceAssumption DEF TypeOK, Finally, Goto, Item, ServiceAssumption
  <1>6. onHold' \in BOOLEAN
    BY DEF TypeOK, Finally, Goto
  <1>7. late' \in BOOLEAN
    BY DEF TypeOK, Finally, Goto
  <1>8. UNCHANGED <<ledger, inPass, missed, stopped, up, queue, req, shutdown, sink, barging,
                    heard, races, bounds>>
    BY DEF Finally, PassFrame, Quiet, Goto, worker
  <1> QED BY <1>1, <1>2, <1>3, <1>4, <1>5, <1>6, <1>7, <1>8 DEF TypeOK, worker, sink, barging,
     bounds

LEMMA TypeBargeIn ==
  ASSUME TypeOK, BargeIn PROVE TypeOK'
  <1>1. barge' \in {"idle", "flag", "sink", "before", "purge", "after", "drop"}
    BY DEF TypeOK, BargeIn
  <1>2. barges' \in 0..MaxBarges
    BY ServiceAssumption DEF TypeOK, BargeIn, ServiceAssumption
  <1>3. UNCHANGED <<ledger, inPass, missed, stopped, up, queue, req, interrupted, shutdown,
                    worker, sink, before, gone, heard, races, late, sends, adds, deaths>>
    BY DEF BargeIn, BargeFrame, barging, bounds
  <1> QED BY <1>1, <1>2, <1>3 DEF TypeOK, worker, sink, barging, bounds

LEMMA TypeStop ==
  ASSUME TypeOK, Stop PROVE TypeOK'
  <1>1. stopped' \in BOOLEAN
    BY DEF TypeOK, Stop
  <1>2. barge' \in {"idle", "flag", "sink", "before", "purge", "after", "drop"}
    BY DEF TypeOK, Stop
  <1>3. late' \in BOOLEAN
    BY DEF TypeOK, Stop
  <1>4. barges' \in 0..MaxBarges
    BY ServiceAssumption DEF TypeOK, Stop, ServiceAssumption
  <1>5. UNCHANGED <<ledger, inPass, missed, up, queue, req, interrupted, shutdown, worker,
                    sink, before, gone, heard, races, sends, adds, deaths>>
    BY DEF Stop, BargeFrame, barging, bounds
  <1> QED BY <1>1, <1>2, <1>3, <1>4, <1>5 DEF TypeOK, worker, sink, barging, bounds

LEMMA TypeBargeFlag ==
  ASSUME TypeOK, BargeFlag PROVE TypeOK'
  <1>1. interrupted' \in BOOLEAN
    BY DEF TypeOK, BargeFlag
  <1>2. barge' \in {"idle", "flag", "sink", "before", "purge", "after", "drop"}
    BY DEF TypeOK, BargeFlag
  <1>3. UNCHANGED <<ledger, inPass, missed, stopped, up, queue, req, shutdown, worker, sink,
                    before, gone, heard, races, late, bounds>>
    BY DEF BargeFlag, BargeFrame, barging, bounds
  <1> QED BY <1>1, <1>2, <1>3 DEF TypeOK, worker, sink, barging, bounds

LEMMA TypeBargeSink ==
  ASSUME TypeOK, BargeSink PROVE TypeOK'
  <1>1. proc' \in BOOLEAN
    BY DEF TypeOK, BargeSink, SinkInterrupted
  <1>2. holdAbort' \in BOOLEAN
    BY DEF TypeOK, BargeSink, SinkInterrupted
  <1>3. barge' \in {"idle", "flag", "sink", "before", "purge", "after", "drop"}
    BY DEF TypeOK, BargeSink, SinkInterrupted
  <1>4. UNCHANGED <<ledger, inPass, missed, stopped, up, queue, req, interrupted, shutdown,
                    worker, aborted, before, gone, heard, races, late, bounds>>
    BY DEF BargeSink, BargeFrame, SinkInterrupted, sink, barging, bounds
  <1> QED BY <1>1, <1>2, <1>3, <1>4 DEF TypeOK, worker, sink, barging, bounds

LEMMA TypeBargeBefore ==
  ASSUME TypeOK, BargeBefore PROVE TypeOK'
  <1>1. barge' \in {"idle", "flag", "sink", "before", "purge", "after", "drop"}
    BY DEF TypeOK, BargeBefore, Queued
  <1>2. before' \subseteq Lines
    BY DEF TypeOK, BargeBefore, Queued, Item
  <1>3. UNCHANGED <<ledger, inPass, missed, stopped, up, queue, req, interrupted, shutdown,
                    worker, sink, gone, heard, races, late, bounds>>
    BY DEF BargeBefore, BargeFrame, barging, bounds
  <1> QED BY <1>1, <1>2, <1>3 DEF TypeOK, worker, sink, barging, bounds

LEMMA TypeBargePurge ==
  ASSUME TypeOK, BargePurge PROVE TypeOK'
  <1>1. queue' \in SUBSET Item
    BY DEF TypeOK, BargePurge, Meets, Queued, Item
  <1>2. barge' \in {"idle", "flag", "sink", "before", "purge", "after", "drop"}
    BY DEF TypeOK, BargePurge, Meets, Queued
  <1>3. races' \subseteq (Races \X Lines)
    <2>1. {l \in Queued \ before : PrioOf[l] >= 3} \subseteq Lines
      BY DEF TypeOK, Queued, Item
    <2> QED BY <2>1, MeetsTyped DEF BargePurge, TypeOK, Races
  <1>4. UNCHANGED <<ledger, inPass, missed, stopped, up, req, interrupted, shutdown, worker,
                    sink, before, gone, heard, late, bounds>>
    BY DEF BargePurge, BargeFrame, barging, bounds
  <1> QED BY <1>1, <1>2, <1>3, <1>4 DEF TypeOK, worker, sink, barging, bounds

LEMMA TypeBargeAfter ==
  ASSUME TypeOK, BargeAfter PROVE TypeOK'
  <1>1. barge' \in {"idle", "flag", "sink", "before", "purge", "after", "drop"}
    BY DEF TypeOK, BargeAfter, Queued
  <1>2. before' \subseteq Lines
    BY DEF TypeOK, BargeAfter, Queued, Item
  <1>3. gone' \subseteq Lines
    BY DEF TypeOK, BargeAfter, Queued, Item
  <1>4. UNCHANGED <<ledger, inPass, missed, stopped, up, queue, req, interrupted, shutdown,
                    worker, sink, heard, races, late, bounds>>
    BY DEF BargeAfter, BargeFrame, barging, bounds
  <1> QED BY <1>1, <1>2, <1>3, <1>4 DEF TypeOK, worker, sink, barging, bounds

LEMMA TypeBargeDrop ==
  ASSUME TypeOK, BargeDrop PROVE TypeOK'
  <1>1. ledger' \in [Lines -> States]
    BY DEF TypeOK, BargeDrop, Queued, Dropped, States
  <1>2. inPass' \in [Lines -> BOOLEAN]
    BY DEF TypeOK, BargeDrop, Meets, InHand, Queued, AtPut, PutsLine
  <1>3. barge' \in {"idle", "flag", "sink", "before", "purge", "after", "drop"}
    BY DEF TypeOK, BargeDrop, Meets, InHand, Queued, AtPut, PutsLine
  <1>4. gone' \subseteq Lines
    BY DEF TypeOK, BargeDrop, Meets, InHand, Queued, AtPut, PutsLine, Item
  <1>5. races' \subseteq (Races \X Lines)
    <2>1. gone \cap (InHand \cup Queued \cup AtPut) \subseteq Lines
      BY DEF TypeOK
    <2> QED BY <2>1, MeetsTyped DEF BargeDrop, TypeOK, Races
  <1>6. UNCHANGED <<missed, stopped, up, queue, req, interrupted, shutdown, worker, sink,
                    before, heard, late, bounds>>
    BY DEF BargeDrop, BargeFrame, barging, bounds
  <1> QED BY <1>1, <1>2, <1>3, <1>4, <1>5, <1>6 DEF TypeOK, worker, sink, barging, bounds

LEMMA TypeQueueRemove ==
  ASSUME TypeOK, NEW it \in queue, QueueRemove(it) PROVE TypeOK'
  <1>1. queue' \in SUBSET Item
    BY DEF TypeOK, QueueRemove, Item
  <1>2. barge' \in {"idle", "flag", "sink", "before", "purge", "after", "drop"}
    BY DEF TypeOK, QueueRemove
  <1>3. gone' \subseteq Lines
    BY DEF TypeOK, QueueRemove, Item
  <1>4. UNCHANGED <<ledger, inPass, missed, stopped, up, req, interrupted, shutdown, worker,
                    sink, before, heard, races, late, bounds>>
    BY DEF QueueRemove, BargeFrame, barging, bounds
  <1> QED BY <1>1, <1>2, <1>3, <1>4 DEF TypeOK, worker, sink, barging, bounds

LEMMA TypeTerminate ==
  ASSUME TypeOK, Terminate PROVE TypeOK'
  <1>1. shutdown' \subseteq {"term", "sentinel", "cut"}
    BY DEF TypeOK, Terminate
  <1>2. deaths' \in 0..MaxDeaths
    BY ServiceAssumption DEF TypeOK, Terminate, ServiceAssumption
  <1>3. UNCHANGED <<ledger, inPass, missed, stopped, up, queue, req, interrupted, worker,
                    sink, barging, heard, races, late, sends, adds, barges>>
    BY DEF Terminate, bounds
  <1> QED BY <1>1, <1>2, <1>3 DEF TypeOK, worker, sink, barging, bounds

LEMMA TypePutSentinel ==
  ASSUME TypeOK, PutSentinel PROVE TypeOK'
  <1>1. queue' \in SUBSET Item
    BY DEF TypeOK, PutSentinel, Meets, Item
  <1>2. shutdown' \subseteq {"term", "sentinel", "cut"}
    BY DEF TypeOK, PutSentinel, Meets
  <1>3. races' \subseteq (Races \X Lines)
    <2>1. CASE UNCHANGED races
      BY <2>1 DEF TypeOK
    <2>2. CASE \E it \in queue : Meets("made room", {it.line})
      BY <2>2, MeetsTyped DEF TypeOK, Item, Races
    <2> QED BY <2>1, <2>2 DEF PutSentinel
  <1>4. UNCHANGED <<ledger, inPass, missed, stopped, up, req, interrupted, worker, sink,
                    barging, heard, late, bounds>>
    BY DEF PutSentinel
  <1> QED BY <1>1, <1>2, <1>3, <1>4 DEF TypeOK, worker, sink, barging, bounds

LEMMA TypeCut ==
  ASSUME TypeOK, Cut PROVE TypeOK'
  <1>1. shutdown' \subseteq {"term", "sentinel", "cut"}
    BY DEF TypeOK, Cut, SinkInterrupted
  <1>2. proc' \in BOOLEAN
    BY DEF TypeOK, Cut, SinkInterrupted
  <1>3. holdAbort' \in BOOLEAN
    BY DEF TypeOK, Cut, SinkInterrupted
  <1>4. UNCHANGED <<ledger, inPass, missed, stopped, up, queue, req, interrupted, worker,
                    aborted, barging, heard, races, late, bounds>>
    BY DEF Cut, SinkInterrupted, sink
  <1> QED BY <1>1, <1>2, <1>3, <1>4 DEF TypeOK, worker, sink, barging, bounds

LEMMA TypeRestart ==
  ASSUME TypeOK, Restart PROVE TypeOK'
  <1>1. ledger' \in [Lines -> States]
    BY DEF TypeOK, Restart, Reloaded, States
  <1>2. inPass' \in [Lines -> BOOLEAN]
    BY DEF TypeOK, Restart
  <1>3. missed' \in [Lines -> Statuses \cup {None}]
    BY DEF TypeOK, Restart, Statuses
  <1>4. up' \in BOOLEAN
    BY DEF TypeOK, Restart
  <1>5. UNCHANGED <<stopped, queue, req, interrupted, shutdown, worker, sink, barging, heard,
                    races, late, bounds>>
    BY DEF Restart
  <1> QED BY <1>1, <1>2, <1>3, <1>4, <1>5 DEF TypeOK, worker, sink, barging, bounds

\* The end of the process: what it had in memory is reset.
LEMMA TypeGone ==
  ASSUME TypeOK, Carried, Gone,
         ledger' \in [Lines -> States], inPass' \in [Lines -> BOOLEAN],
         missed' \in [Lines -> Statuses \cup {None}], UNCHANGED stopped,
         UNCHANGED <<sends, adds, barges>>, deaths' \in 0..MaxDeaths
  PROVE  TypeOK'
  <1>1. (IF step \in {"done", "forget"} THEN InHand ELSE {}) \subseteq Lines
    BY HandIsItem DEF InHand, Item
  <1>2. races' \subseteq (Races \X Lines)
    BY <1>1, MeetsTyped DEF Gone, TypeOK, Races
  <1>3. /\ queue' \in SUBSET Item /\ req' \in [Handlers -> Request \cup {None}]
        /\ why' \in Statuses /\ step' \in Steps
    BY DEF Gone, Statuses, Steps
  <1> QED BY <1>2, <1>3 DEF Gone, TypeOK

LEMMA TypeExit ==
  ASSUME TypeOK, Carried, Exit PROVE TypeOK'
  <1>1. ledger' \in [Lines -> States]
    BY DEF TypeOK, Exit, Dropped, States
  <1>2. inPass' \in [Lines -> BOOLEAN]
    BY DEF TypeOK, Exit
  <1>3. missed' \in [Lines -> Statuses \cup {None}]
    BY DEF TypeOK, Exit, Statuses
  <1> QED BY <1>1, <1>2, <1>3, TypeGone DEF Exit, TypeOK, bounds

LEMMA TypeCrash ==
  ASSUME TypeOK, Carried, Crash PROVE TypeOK'
  <1>1. deaths' \in 0..MaxDeaths
    BY ServiceAssumption DEF TypeOK, Crash, ServiceAssumption
  <1> QED BY <1>1, TypeGone DEF Crash, TypeOK

-----------------------------------------------------------------------------
\* Every step of the worker but the ends of its pass stays in the pass.
LEMMA CarriedPass ==
  ASSUME TypeOK, Carried, Pass PROVE Carried'
  <1> USE DEF Carried, Goto, SetAside
  <1>1. CASE Taken \/ GoAhead \/ ResetFlags \/ Check \/ PreSynth \/ Ready \/ GateCheck
    BY <1>1 DEF Taken, GoAhead, ResetFlags, Check, PreSynth, Ready, GateCheck
  <1>2. CASE EnterSink \/ Gate \/ HoldEnds \/ Start \/ Popen \/ Played \/ RecordDone \/ Forget
    BY <1>2 DEF EnterSink, Gate, HoldEnds, Start, Popen, Played, RecordDone, Forget
  <1>3. CASE AsideMiss \/ AsideLedger \/ RequeuePut \/ RequeueLedger \/ Settle
    BY <1>3 DEF AsideMiss, AsideLedger, RequeuePut, RequeueLedger, Settle
  <1>4. CASE Synth
    <2>1. hand \in Item
      BY <1>4, HandIsItem DEF Synth
    <2>2. hand' = hand /\ step' \notin {"idle", "ended"}
      BY <1>4 DEF Synth, RetryOrSetAside
    <2>3. ASSUME step' = "requeue" PROVE again' \in Item /\ again'.line = hand.line
      <3>1. /\ hand.tries < MaxRetries
            /\ again' = [hand EXCEPT !.tries = @ + 1, !.wav = FALSE, !.listed = @ \/ onHold]
        BY <1>4, <2>3 DEF Synth, RetryOrSetAside
      <3>2. again' \in Item
        BY <2>1, <3>1, RetryTyped DEF TypeOK
      <3>3. again'.line = hand.line
        BY <2>1, <3>1 DEF Item
      <3> QED BY <3>2, <3>3
    <2>4. step' # "requeue ledger" /\ step = "synth"
      BY <1>4 DEF Synth, RetryOrSetAside
    <2> QED BY <2>2, <2>3, <2>4
  <1>5. CASE SoundEnds
    <2>1. hand \in Item
      BY <1>5, HandIsItem DEF SoundEnds
    <2>2. hand' = hand /\ step' \notin {"idle", "ended"}
      BY <1>5 DEF SoundEnds, RetryOrSetAside
    <2>3. ASSUME step' = "requeue" PROVE again' \in Item /\ again'.line = hand.line
      <3>1. /\ hand.tries < MaxRetries
            /\ again' = [hand EXCEPT !.tries = @ + 1, !.wav = TRUE, !.listed = @ \/ onHold]
        BY <1>5, <2>3 DEF SoundEnds, RetryOrSetAside
      <3>2. again' \in Item
        BY <2>1, <3>1, RetryTyped DEF TypeOK
      <3>3. again'.line = hand.line
        BY <2>1, <3>1 DEF Item
      <3> QED BY <3>2, <3>3
    <2>4. step' # "requeue ledger" /\ step = "sounding"
      BY <1>5 DEF SoundEnds, RetryOrSetAside
    <2> QED BY <2>2, <2>3, <2>4
  <1>6. CASE PutBack \/ Finally
    BY <1>6 DEF PutBack, Finally
  <1> QED BY <1>1, <1>2, <1>3, <1>4, <1>5, <1>6 DEF Pass

LEMMA CarriedStep ==
  ASSUME TypeOK, Carried, [Next]_vars PROVE Carried'
  <1>1. CASE UNCHANGED worker
    BY <1>1 DEF worker, Carried
  <1>2. CASE Pass
    BY <1>2, CarriedPass
  <1>3. CASE TakeSentinel \/ \E it \in queue : Take(it)
    BY <1>3, NoneAssumption DEF TakeSentinel, Take, Goto, Carried, TypeOK, NoneAssumption
  <1>4. CASE Exit \/ Crash
    BY <1>4 DEF Exit, Crash, Gone, Carried
  <1>5. CASE \E h \in Handlers, l \in Lines : Send(h, l) \/ Replay(h, l) \/ Add(h, l)
    BY <1>1, <1>5 DEF Send, Replay, Add, HandlerFrame
  <1>6. CASE \E h \in Handlers : Handler(h)
    BY <1>1, <1>6 DEF Handler, Look, Admit, PutLine, AddUnlessHeard, AddUnlessListed, AddMiss,
                      HandlerFrame
  <1>7. CASE Resume \/ ClearMissed \/ \E it \in queue : Shed(it)
    BY <1>1, <1>7 DEF Resume, ClearMissed, Shed
  <1>8. CASE BargeIn \/ Stop \/ Barging \/ \E it \in queue : QueueRemove(it)
    BY <1>1, <1>8 DEF BargeIn, Stop, Barging, BargeFlag, BargeSink, BargeBefore, BargePurge,
                      BargeAfter, BargeDrop, QueueRemove, BargeFrame
  <1>9. CASE Terminate \/ PutSentinel \/ Cut \/ Restart
    BY <1>1, <1>9 DEF Terminate, PutSentinel, Cut, Restart
  <1> QED BY <1>1, <1>2, <1>3, <1>4, <1>5, <1>6, <1>7, <1>8, <1>9 DEF Next, Worker, Ends, vars

LEMMA TypeStep ==
  ASSUME TypeOK, Carried, [Next]_vars PROVE TypeOK'
  <1>1. CASE \E h \in Handlers, l \in Lines : Send(h, l) \/ Replay(h, l) \/ Add(h, l)
    BY <1>1, TypeSend, TypeReplay, TypeAdd
  <1>2. CASE \E h \in Handlers : Handler(h)
    BY <1>2, TypeLook, TypeAdmit, TypePutLine, TypeAddUnlessHeard, TypeAddUnlessListed, TypeAddMiss
       DEF Handler
  <1>3. CASE Resume \/ ClearMissed \/ BargeIn \/ Stop
    BY <1>3, TypeResume, TypeClearMissed, TypeBargeIn, TypeStop
  <1>4. CASE Barging
    BY <1>4, TypeBargeFlag, TypeBargeSink, TypeBargeBefore, TypeBargePurge, TypeBargeAfter,
       TypeBargeDrop DEF Barging
  <1>5. CASE \E it \in queue : QueueRemove(it) \/ Shed(it)
    BY <1>5, TypeQueueRemove, TypeShed
  <1>6. CASE TakeSentinel \/ \E it \in queue : Take(it)
    BY <1>6, TypeTakeSentinel, TypeTake
  <1>7. CASE Pass
    BY <1>7, TypeTaken, TypePutBack, TypeGoAhead, TypeResetFlags, TypeCheck, TypePreSynth,
       TypeSynth, TypeReady, TypeGateCheck, TypeEnterSink, TypeGate, TypeHoldEnds, TypeStart,
       TypePopen, TypeSoundEnds, TypePlayed, TypeRecordDone, TypeForget, TypeAsideMiss,
       TypeAsideLedger, TypeRequeuePut, TypeRequeueLedger, TypeSettle, TypeFinally DEF Pass
  <1>8. CASE Ends
    BY <1>8, TypeTerminate, TypePutSentinel, TypeCut, TypeExit, TypeCrash DEF Ends
  <1>9. CASE Restart
    BY <1>9, TypeRestart
  <1>10. CASE UNCHANGED vars
    BY <1>10 DEF vars, TypeOK, worker, sink, barging, bounds
  <1> QED BY <1>1, <1>2, <1>3, <1>4, <1>5, <1>6, <1>7, <1>8, <1>9, <1>10 DEF Next, Worker

\* TypeOK always holds: whatever the callers, he and the threads do and in
\* whatever order, through any number of deaths and restarts, every variable
\* keeps to its type; in particular a retry never exceeds timeout_retries,
\* and the worker has a line in hand exactly while it is in a pass.
THEOREM TypeCorrect == Spec => [](TypeOK /\ Carried)
  <1>1. Init => TypeOK /\ Carried
    BY TypeInit
  <1>2. TypeOK /\ Carried /\ [Next]_vars => (TypeOK /\ Carried)'
    BY TypeStep, CarriedStep
  <1> QED BY <1>1, <1>2, PTL DEF Spec

----------------------------------------------------------------------------
(* A line id is in one place, and plays once. *)


Misjudged(l) == <<"misjudged", l>> \in races

OneCopy(l) ==
    /\ \A i, j \in queue : i.line = l /\ j.line = l => i = j
    /\ \A g, h \in Handlers : PutsLine(g, l) /\ PutsLine(h, l) => g = h
    /\ l \in Queued => l \notin AtPut /\ ~ Held(l)
    /\ l \in AtPut => ~ Held(l)
    /\ l \in Queued \/ l \in AtPut \/ Held(l) => ledger[l] \in {"queued", "playing"}

Recording(l) == l \in InHand /\ step = "done"
Recorded(l) ==
    l \in heard /\ <<"unrecorded", l>> \notin races => ledger[l] = "done" \/ Recording(l)

\* A daemon that is down holds nothing.
Down == ~ up => queue = {} /\ hand = None /\ \A h \in Handlers : req[h] = None

\* A line recorded as heard is not settled as cut, and one that is settled
\* is settled for good.
Spent == step \in {"forget", "finally"} => ~ inPass[hand.line]

Copies == \A l \in Lines : ~ Misjudged(l) => OneCopy(l) /\ Recorded(l)

IInv == TypeOK /\ Carried /\ Down /\ Spent /\ Copies

-----------------------------------------------------------------------------
\* An action that makes no copy of a line and takes no ledger state back.
LEMMA Keeps ==
  ASSUME NEW l \in Lines, OneCopy(l), Recorded(l),
         l \in Queued' => l \in Queued, queue' \subseteq queue,
         \A h \in Handlers : PutsLine(h, l)' => PutsLine(h, l),
         Held(l)' => Held(l), Recording(l) => Recording(l)',
         ledger[l] \in {"queued", "playing"} /\ (l \in Queued' \/ l \in AtPut' \/ Held(l)')
             => ledger'[l] \in {"queued", "playing"},
         ledger[l] = "done" => ledger'[l] = "done",
         heard' \subseteq heard, races \subseteq races'
  PROVE  OneCopy(l)' /\ Recorded(l)'
  <1>1. l \in AtPut' => l \in AtPut
    BY DEF AtPut
  <1>2. OneCopy(l)'
    BY <1>1 DEF OneCopy
  <1>3. Recorded(l)'
    BY DEF Recorded
  <1> QED BY <1>2, <1>3

\* The same for an action that leaves ledger and worker alone.
LEMMA KeepsOutside ==
  ASSUME NEW l \in Lines, OneCopy(l), Recorded(l), queue' \subseteq queue,
         \A h \in Handlers : PutsLine(h, l)' => PutsLine(h, l),
         UNCHANGED <<hand, step, ledger, inPass, heard>>, races \subseteq races'
  PROVE  OneCopy(l)' /\ Recorded(l)'
  <1>1. l \in Queued' => l \in Queued
    BY DEF Queued
  <1>2. (Held(l)' <=> Held(l)) /\ (Recording(l)' <=> Recording(l))
    BY DEF Held, Recording, InHand
  <1> QED BY <1>1, <1>2, Keeps

\* The same for a step of a pass that leaves queue, handlers and ledger
\* alone and has not yet decided what becomes of the line.
LEMMA KeepsInPass ==
  ASSUME NEW l \in Lines, OneCopy(l), Recorded(l), UNCHANGED <<queue, req, hand, heard>>,
         step # "done", step \in Undecided, races \subseteq races',
         ledger[l] \in {"queued", "playing"} => ledger'[l] \in {"queued", "playing"},
         ledger[l] = "done" => ledger'[l] = "done"
  PROVE  OneCopy(l)' /\ Recorded(l)'
  <1>1. l \in Queued' => l \in Queued
    BY DEF Queued
  <1>2. \A h \in Handlers : PutsLine(h, l)' => PutsLine(h, l)
    BY DEF PutsLine
  <1>3. (Held(l)' => Held(l)) /\ ~ Recording(l)
    BY DEF Held, Recording, InHand
  <1> QED BY <1>1, <1>2, <1>3, Keeps

-----------------------------------------------------------------------------
(* The actions that make a copy, use one up or write the ledger            *)

LEMMA AdmitKeeps ==
  ASSUME IInv, NEW h \in Handlers, Admit(h), NEW l \in Lines, OneCopy(l), Recorded(l)
  PROVE  OneCopy(l)' /\ Recorded(l)'
  <1> DEFINE m == req[h].line
  <1>1. req[h] \in Request /\ m \in Lines
    BY DEF IInv, TypeOK, Admit, At, Request
  <1>2. UNCHANGED <<queue, hand, step, heard, races>>
    BY DEF Admit, HandlerFrame, worker
  <1>3. CASE Blocks(ledger[m])
    <2>1. UNCHANGED <<ledger, inPass>> /\ req' = [req EXCEPT ![h] = None]
      BY <1>3 DEF Admit, Answers
    <2>2. \A g \in Handlers : PutsLine(g, l)' => PutsLine(g, l)
      BY <2>1 DEF PutsLine, IInv, TypeOK
    <2> QED BY <1>2, <2>1, <2>2, KeepsOutside
  <1>4. CASE ~ Blocks(ledger[m])
    <2>1. /\ req' = [req EXCEPT ![h] = [req[h] EXCEPT !.stage = "put"]]
          /\ ledger' = [ledger EXCEPT ![m] = "queued"]
          /\ inPass' = [inPass EXCEPT ![m] = FALSE]
      BY <1>4 DEF Admit, Proceeds
    <2>2. \A g \in Handlers : g # h => (PutsLine(g, l)' <=> PutsLine(g, l))
      BY <2>1 DEF PutsLine, IInv, TypeOK
    <2>3. PutsLine(h, l)' => l = m
      BY <1>1, <2>1 DEF PutsLine, IInv, TypeOK, Request
    <2>4. Held(l)' => Held(l)
      BY <1>1, <1>2, <2>1 DEF Held, InHand, IInv, TypeOK
    <2>5. CASE l # m
      <3>1. ledger'[l] = ledger[l]
        BY <1>1, <2>1, <2>5 DEF IInv, TypeOK
      <3>2. \A g \in Handlers : PutsLine(g, l)' => PutsLine(g, l)
        BY <2>2, <2>3, <2>5
      <3>3. (l \in Queued' => l \in Queued) /\ (Recording(l) => Recording(l)')
        BY <1>2 DEF Queued, Recording, InHand
      <3> QED BY <1>2, <2>4, <3>1, <3>2, <3>3, Keeps
    <2>6. CASE l = m
      <3>1. ledger[l] \notin {"queued", "playing", "done"} /\ ledger'[l] = "queued"
        BY <1>1, <1>4, <2>1, <2>6 DEF Blocks, IInv, TypeOK
      <3>2. l \notin Queued /\ l \notin AtPut /\ ~ Held(l)
        BY <3>1 DEF OneCopy
      <3>3. l \notin Queued' /\ ~ Held(l)' /\ ~ Recording(l)
        BY <1>2, <2>4, <3>2 DEF Queued, Held, Recording, Undecided, Steps
      <3>4. \A g \in Handlers : PutsLine(g, l)' => g = h
        BY <2>2, <3>2 DEF AtPut
      <3>5. OneCopy(l)'
        BY <1>2, <3>1, <3>3, <3>4 DEF OneCopy, Queued
      <3>6. Recorded(l)'
        BY <1>2, <3>1, <3>3 DEF Recorded
      <3> QED BY <3>5, <3>6
    <2> QED BY <2>5, <2>6
  <1> QED BY <1>3, <1>4

LEMMA PutKeeps ==
  ASSUME IInv, NEW h \in Handlers, PutLine(h), NEW l \in Lines, OneCopy(l), Recorded(l)
  PROVE  OneCopy(l)' /\ Recorded(l)'
  <1> DEFINE m == req[h].line
  <1>1. UNCHANGED <<hand, step, inPass, ledger, heard, races>>
    BY DEF PutLine, HandlerFrame, worker
  <1>2. PICK it : queue' = queue \cup {it} /\ it.line = m
    <2>1. PICK wav \in BOOLEAN :
              queue' = queue \cup {[line |-> m, send |-> req[h].send, replay |-> req[h].replay,
                                    listed |-> req[h].replay, tries |-> 0, wav |-> wav]}
      BY DEF PutLine
    <2> DEFINE new == [line |-> m, send |-> req[h].send, replay |-> req[h].replay,
                       listed |-> req[h].replay, tries |-> 0, wav |-> wav]
    <2>2. queue' = queue \cup {new} /\ new.line = m
      BY <2>1
    <2> HIDE DEF new
    <2> QED BY <2>2
  <1>3. req' = [req EXCEPT ![h] = None] /\ PutsLine(h, m)
    BY DEF PutLine, Answers, At, PutsLine
  <1>4. \A g \in Handlers : PutsLine(g, l)' => PutsLine(g, l) /\ g # h
    BY <1>3 DEF PutsLine, IInv, TypeOK
  <1>5. (Held(l)' <=> Held(l)) /\ (Recording(l)' <=> Recording(l))
    BY <1>1 DEF Held, Recording, InHand
  <1>6. CASE l # m
    <2>1. l \in Queued' => l \in Queued
      BY <1>2, <1>6 DEF Queued
    <2>2. l \in AtPut' => l \in AtPut
      BY <1>4 DEF AtPut
    <2>3. OneCopy(l)'
      BY <1>1, <1>2, <1>4, <1>5, <1>6, <2>1, <2>2 DEF OneCopy
    <2> QED BY <1>1, <1>5, <2>3 DEF Recorded
  <1>7. CASE l = m
    <2>1. l \in AtPut /\ l \notin Queued /\ ~ Held(l) /\ ledger[l] \in {"queued", "playing"}
      BY <1>3, <1>7 DEF OneCopy, AtPut
    <2>2. l \notin AtPut'
      BY <1>3, <1>4, <1>7 DEF OneCopy, AtPut
    <2>3. \A i \in queue' : i.line = l => i = it
      BY <1>2, <2>1 DEF Queued
    <2>4. OneCopy(l)'
      BY <1>1, <1>3, <1>4, <1>5, <1>7, <2>1, <2>2, <2>3 DEF OneCopy
    <2> QED BY <1>1, <1>5, <2>4 DEF Recorded
  <1> QED BY <1>6, <1>7

LEMMA TakeKeeps ==
  ASSUME IInv, NEW it \in queue, Take(it), NEW l \in Lines, OneCopy(l), Recorded(l)
  PROVE  OneCopy(l)' /\ Recorded(l)'
  <1>1. /\ queue' = queue \ {it} /\ hand = None /\ hand' = it /\ step = "idle" /\ step' = "taken"
        /\ UNCHANGED <<req, ledger, heard, races>>
    BY DEF Take, Goto, PassFrame, Quiet, IInv, Carried
  <1>2. \A g \in Handlers : PutsLine(g, l)' <=> PutsLine(g, l)
    BY <1>1 DEF PutsLine
  <1>3. ~ Held(l) /\ ~ Recording(l) /\ (Held(l)' => l = it.line)
    BY <1>1 DEF Held, InHand, Recording
  <1>4. l \in Queued' => l \in Queued /\ (l = it.line => FALSE)
    BY <1>1 DEF OneCopy, Queued
  <1>5. l = it.line => l \in Queued
    BY DEF Queued
  <1>6. l \in AtPut' <=> l \in AtPut
    BY <1>2 DEF AtPut
  <1>7. OneCopy(l)'
    BY <1>1, <1>2, <1>3, <1>4, <1>5, <1>6 DEF OneCopy
  <1> QED BY <1>1, <1>3, <1>7 DEF Recorded

LEMMA PutBackKeeps ==
  ASSUME IInv, PutBack, NEW l \in Lines, OneCopy(l), Recorded(l)
  PROVE  OneCopy(l)' /\ Recorded(l)'
  <1>1. /\ queue' = queue \cup {hand} /\ hand \in Item /\ hand' = None
        /\ step = "await load" /\ step' = "idle"
        /\ UNCHANGED <<req, ledger, heard>> /\ races \subseteq races'
    BY HandIsItem DEF PutBack, Goto, PassFrame, Meets, IInv
  <1>2. (\A g \in Handlers : PutsLine(g, l)' <=> PutsLine(g, l)) /\ (l \in AtPut' <=> l \in AtPut)
    BY <1>1 DEF PutsLine, AtPut
  <1>3. ~ Held(l)' /\ ~ Recording(l)
    BY <1>1 DEF Held, InHand, Recording
  <1>4. l = hand.line <=> Held(l)
    BY <1>1, NoneAssumption DEF Held, InHand, Undecided, Steps, NoneAssumption
  <1>5. \A i \in queue' : i.line = l => IF l = hand.line THEN i = hand ELSE i \in queue
    BY <1>1, <1>4 DEF OneCopy, Queued
  <1>6. OneCopy(l)'
    BY <1>1, <1>2, <1>3, <1>4, <1>5 DEF OneCopy, Queued
  <1> QED BY <1>1, <1>3, <1>6 DEF Recorded

LEMMA RequeuePutKeeps ==
  ASSUME IInv, RequeuePut, NEW l \in Lines, OneCopy(l), Recorded(l)
  PROVE  OneCopy(l)' /\ Recorded(l)'
  <1>1. /\ queue' = queue \cup {again} /\ hand \in Item /\ again.line = hand.line /\ hand' = hand
        /\ step = "requeue" /\ step' = "requeue ledger"
        /\ UNCHANGED <<req, ledger, heard, races>>
    BY HandIsItem DEF RequeuePut, Goto, PassFrame, Quiet, IInv, Carried
  <1>2. (\A g \in Handlers : PutsLine(g, l)' <=> PutsLine(g, l)) /\ (l \in AtPut' <=> l \in AtPut)
    BY <1>1 DEF PutsLine, AtPut
  <1>3. ~ Held(l)' /\ ~ Recording(l)
    BY <1>1 DEF Held, Undecided, Recording
  <1>4. l = hand.line <=> Held(l)
    BY <1>1, NoneAssumption DEF Held, InHand, Undecided, Steps, NoneAssumption
  <1>5. \A i \in queue' : i.line = l => IF l = hand.line THEN i = again ELSE i \in queue
    BY <1>1, <1>4 DEF OneCopy, Queued
  <1>6. OneCopy(l)'
    BY <1>1, <1>2, <1>3, <1>4, <1>5 DEF OneCopy, Queued
  <1> QED BY <1>1, <1>3, <1>6 DEF Recorded

LEMMA PlayedKeeps ==
  ASSUME IInv, Played, NEW l \in Lines, OneCopy(l), Recorded(l)
  PROVE  OneCopy(l)' /\ Recorded(l)'
  <1>1. UNCHANGED <<queue, req, hand, ledger, races>> /\ step = "played"
    BY DEF Played, PassFrame
  <1>2. l \in Queued' => l \in Queued
    BY <1>1 DEF Queued
  <1>3. \A h \in Handlers : PutsLine(h, l)' => PutsLine(h, l)
    BY <1>1 DEF PutsLine
  <1>4. (Held(l)' => Held(l)) /\ ~ Recording(l)
    BY <1>1 DEF Held, Undecided, Steps, Recording, InHand
  <1>5. CASE heard' = heard
    BY <1>1, <1>2, <1>3, <1>4, <1>5, Keeps
  <1>6. CASE step' = "done" /\ heard' = heard \cup {Line}
    <2>1. OneCopy(l)'
      BY <1>1, <1>2, <1>3, <1>4 DEF OneCopy, AtPut
    <2>2. hand # None
      BY <1>1 DEF IInv, Carried
    <2>3. l = Line => Recording(l)'
      BY <1>1, <1>6, <2>2 DEF Recording, InHand, Line
    <2>4. Recorded(l)'
      BY <1>1, <1>4, <1>6, <2>3 DEF Recorded
    <2> QED BY <2>1, <2>4
  <1> QED BY <1>5, <1>6 DEF Played, SetAside, Goto

\* Once heard it is done, and not undecided any more.
LEMMA RecordDoneKeeps ==
  ASSUME IInv, RecordDone, NEW l \in Lines, OneCopy(l), Recorded(l)
  PROVE  OneCopy(l)' /\ Recorded(l)'
  <1>1. /\ UNCHANGED <<queue, req, hand, heard>> /\ races \subseteq races'
        /\ step = "done" /\ step' = "forget"
        /\ ledger' = [ledger EXCEPT ![Line] = Done(@)]
    BY DEF RecordDone, Goto, PassFrame, Meets
  <1>2. Line \in Lines /\ hand # None
    BY <1>1, HandIsItem, NoneAssumption DEF IInv, Line, Item, NoneAssumption
  <1>3. (l \in Queued' <=> l \in Queued) /\ ~ Held(l)'
    BY <1>1 DEF Queued, Held, Undecided
  <1>4. \A h \in Handlers : PutsLine(h, l)' <=> PutsLine(h, l)
    BY <1>1 DEF PutsLine
  <1>5. l \in AtPut' <=> l \in AtPut
    BY <1>4 DEF AtPut
  <1>6. CASE l # Line
    <2>1. ledger'[l] = ledger[l] /\ ~ Recording(l)
      BY <1>1, <1>2, <1>6 DEF IInv, TypeOK, Recording, InHand, Line
    <2>2. OneCopy(l)'
      BY <1>1, <1>3, <1>4, <1>5, <2>1 DEF OneCopy
    <2> QED BY <1>1, <2>1, <2>2 DEF Recorded
  <1>7. CASE l = Line
    <2>1. Held(l)
      BY <1>1, <1>2, <1>7 DEF Held, InHand, Undecided, Steps, Line
    <2>2. ledger'[l] = "done"
      BY <1>1, <1>2, <1>7, <2>1 DEF OneCopy, IInv, TypeOK, Done
    <2>3. OneCopy(l)'
      BY <1>1, <1>3, <1>4, <1>5, <2>1 DEF OneCopy
    <2> QED BY <2>2, <2>3 DEF Recorded
  <1> QED BY <1>6, <1>7

\* The worker writes what becomes of its line, of which there is no other
\* copy; of another line, or one whose pass is settled, it takes nothing back.
LEMMA LetsGo ==
  ASSUME UNCHANGED <<queue, req, hand, heard, races>>, step # "done",
         NEW l \in Lines, OneCopy(l), Recorded(l), ~ Held(l)',
         ledger[l] = "done" => ledger'[l] = "done",
         ~ Held(l) /\ ledger[l] \in {"queued", "playing"} => ledger'[l] \in {"queued", "playing"}
  PROVE  OneCopy(l)' /\ Recorded(l)'
  <1>1. l \in Queued' => l \in Queued
    BY DEF Queued
  <1>2. \A h \in Handlers : PutsLine(h, l)' => PutsLine(h, l)
    BY DEF PutsLine
  <1>3. l \in AtPut' => l \in AtPut
    BY <1>2 DEF AtPut
  <1>4. ~ Recording(l)
    BY DEF Recording
  <1>5. ledger[l] \in {"queued", "playing"} /\ (l \in Queued' \/ l \in AtPut')
            => ledger'[l] \in {"queued", "playing"}
    BY <1>1, <1>3 DEF OneCopy
  <1> QED BY <1>1, <1>2, <1>4, <1>5, Keeps

LEMMA AsideLedgerKeeps ==
  ASSUME IInv, AsideLedger, NEW l \in Lines, OneCopy(l), Recorded(l)
  PROVE  OneCopy(l)' /\ Recorded(l)'
  <1>1. /\ UNCHANGED <<queue, req, hand, heard, races>>
        /\ step = "aside ledger" /\ step' = "settle"
        /\ ledger' = [ledger EXCEPT ![Line] = Dropped(@)]
        /\ inPass' = [inPass EXCEPT ![Line] = FALSE]
    BY DEF AsideLedger, Goto, PassFrame, Quiet
  <1>2. hand # None
    BY <1>1 DEF IInv, Carried
  <1>3. ~ Held(l)'
    BY <1>1, <1>2 DEF Held, InHand, Undecided, Line, IInv, TypeOK
  <1>4. ledger[l] = "done" => ledger'[l] = "done"
    BY <1>1 DEF IInv, TypeOK, Dropped
  <1>5. l = Line => Held(l)
    BY <1>1, <1>2 DEF Held, InHand, Undecided, Steps, Line
  <1>6. l # Line => ledger'[l] = ledger[l]
    BY <1>1 DEF IInv, TypeOK
  <1> QED BY <1>1, <1>3, <1>4, <1>5, <1>6, LetsGo

LEMMA RequeueLedgerKeeps ==
  ASSUME IInv, RequeueLedger, NEW l \in Lines, OneCopy(l), Recorded(l)
  PROVE  OneCopy(l)' /\ Recorded(l)'
  <1>1. /\ UNCHANGED <<queue, req, hand, heard>> /\ races \subseteq races'
        /\ step = "requeue ledger" /\ step' = "settle"
        /\ ledger' = [ledger EXCEPT ![Line] = Requeued(@)]
        /\ inPass' = [inPass EXCEPT ![Line] = FALSE]
    BY DEF RequeueLedger, Goto, PassFrame, Meets
  <1>2. hand # None
    BY <1>1 DEF IInv, Carried
  <1>3. ~ Held(l)' /\ ~ Recording(l)
    BY <1>1, <1>2 DEF Held, InHand, Undecided, Line, IInv, TypeOK, Recording
  <1>4. ledger[l] = "done" => ledger'[l] = "done"
    BY <1>1 DEF IInv, TypeOK, Requeued
  <1>5. ledger[l] \in {"queued", "playing"} => ledger'[l] \in {"queued", "playing"}
    BY <1>1 DEF IInv, TypeOK, Requeued
  <1>6. (l \in Queued' => l \in Queued) /\ \A h \in Handlers : PutsLine(h, l)' => PutsLine(h, l)
    BY <1>1 DEF Queued, PutsLine
  <1> QED BY <1>1, <1>3, <1>4, <1>5, <1>6, Keeps

LEMMA SettleKeeps ==
  ASSUME IInv, Settle, NEW l \in Lines, OneCopy(l), Recorded(l)
  PROVE  OneCopy(l)' /\ Recorded(l)'
  <1>1. /\ UNCHANGED <<queue, req, hand, heard, races>> /\ step = "settle" /\ step' = "finally"
        /\ ledger' = [ledger EXCEPT ![Line] = Settled(@, inPass[Line])]
    BY DEF Settle, Goto, PassFrame, Quiet
  <1>2. ~ Held(l)'
    BY <1>1 DEF Held, Undecided
  <1>3. ledger[l] = "done" => ledger'[l] = "done"
    BY <1>1 DEF IInv, TypeOK, Settled
  <1>4. hand # None
    BY <1>1 DEF IInv, Carried
  <1>5. l = Line /\ ~ Held(l) => ~ inPass[Line]
    BY <1>1, <1>4 DEF Held, InHand, Line
  <1>6. ~ Held(l) => ledger'[l] = ledger[l]
    BY <1>1, <1>5 DEF IInv, TypeOK, Settled
  <1> QED BY <1>1, <1>2, <1>3, <1>6, LetsGo

\* A line a barge-in drops without misjudging it has no copy anywhere.
LEMMA BargeDropKeeps ==
  ASSUME IInv, BargeDrop, NEW l \in Lines, OneCopy(l), Recorded(l), ~ Misjudged(l)'
  PROVE  OneCopy(l)' /\ Recorded(l)'
  <1>1. UNCHANGED <<queue, req, hand, step, heard>> /\ races \subseteq races'
    BY DEF BargeDrop, BargeFrame, worker, Meets
  <1>2. ledger'[l] = IF l \in gone THEN Dropped(ledger[l]) ELSE ledger[l]
    BY DEF BargeDrop
  <1>3. inPass'[l] => inPass[l]
    BY DEF BargeDrop
  <1>4. l \in gone => l \notin InHand \cup Queued \cup AtPut
    BY DEF BargeDrop, Meets, Misjudged
  <1>5. (l \in Queued' => l \in Queued) /\ (Held(l)' => Held(l)) /\ (Recording(l) => Recording(l)')
    BY <1>1, <1>3 DEF Queued, Held, InHand, Recording
  <1>6. \A h \in Handlers : PutsLine(h, l)' => PutsLine(h, l)
    BY <1>1 DEF PutsLine
  <1>7. l \in AtPut' => l \in AtPut
    BY <1>6 DEF AtPut
  <1>8. ledger[l] \in {"queued", "playing"} /\ (l \in Queued' \/ l \in AtPut' \/ Held(l)')
            => ledger'[l] \in {"queued", "playing"}
    BY <1>2, <1>4, <1>5, <1>7 DEF Held
  <1>9. ledger[l] = "done" => ledger'[l] = "done"
    BY <1>2 DEF Dropped
  <1> QED BY <1>1, <1>5, <1>6, <1>8, <1>9, Keeps

\* The process ends: nothing is left of it, and a line heard and not yet
\* recorded is noted as such.
LEMMA GoneKeeps ==
  ASSUME IInv, Gone, NEW l \in Lines, OneCopy(l), Recorded(l),
         ledger[l] = "done" => ledger'[l] = "done"
  PROVE  OneCopy(l)' /\ Recorded(l)'
  <1>1. /\ queue' = {} /\ hand' = None /\ heard' = heard /\ races \subseteq races'
        /\ req' = [h \in Handlers |-> None]
    BY DEF Gone, Meets
  <1>2. l \notin Queued' /\ ~ Held(l)' /\ ~ Recording(l)'
    BY <1>1 DEF Queued, Held, InHand, Recording
  <1>3. \A h \in Handlers : ~ PutsLine(h, l)'
    BY <1>1 DEF PutsLine
  <1>4. OneCopy(l)'
    BY <1>1, <1>2, <1>3 DEF OneCopy, AtPut
  <1>5. Recording(l) => <<"unrecorded", l>> \in races'
    BY DEF Recording, Gone, Meets
  <1>6. Recorded(l)'
    BY <1>1, <1>5 DEF Recorded
  <1> QED BY <1>4, <1>6

LEMMA ExitKeeps ==
  ASSUME IInv, Exit, NEW l \in Lines, OneCopy(l), Recorded(l)
  PROVE  OneCopy(l)' /\ Recorded(l)'
  <1>1. ledger[l] = "done" => ledger'[l] = "done"
    BY DEF Exit, Dropped
  <1> QED BY <1>1, GoneKeeps DEF Exit

LEMMA RestartKeeps ==
  ASSUME IInv, Restart, NEW l \in Lines, OneCopy(l), Recorded(l)
  PROVE  OneCopy(l)' /\ Recorded(l)'
  <1>1. /\ UNCHANGED <<queue, req, hand, step, heard, races>>
        /\ queue = {} /\ hand = None /\ \A h \in Handlers : req[h] = None
    BY DEF Restart, worker, IInv, Down
  <1>2. l \notin Queued' /\ ~ Held(l)' /\ ~ Recording(l)
    BY <1>1 DEF Queued, Held, InHand, Recording
  <1>3. \A h \in Handlers : ~ PutsLine(h, l)'
    BY <1>1 DEF PutsLine
  <1>4. ledger[l] = "done" => ledger'[l] = "done"
    BY DEF Restart, Reloaded
  <1>5. l \notin AtPut'
    BY <1>3 DEF AtPut
  <1> QED BY <1>1, <1>2, <1>3, <1>4, <1>5, Keeps

-----------------------------------------------------------------------------
(* The actions that only move one actor along                              *)

\* What a handler asks next, short of queueing a line.
LEMMA AsksNothing ==
  ASSUME TypeOK, NEW h \in Handlers, NEW r, req' = [req EXCEPT ![h] = r],
         r = None \/ r.stage # "put", NEW l \in Lines, NEW g \in Handlers, PutsLine(g, l)'
  PROVE  PutsLine(g, l)
  BY DEF TypeOK, PutsLine

LEMMA HandlerKeeps ==
  ASSUME IInv, NEW h \in Handlers, NEW l \in Lines, OneCopy(l), Recorded(l),
         \/ \E m \in Lines : Send(h, m) \/ Replay(h, m) \/ Add(h, m)
         \/ Look(h) \/ AddUnlessHeard(h) \/ AddUnlessListed(h) \/ AddMiss(h)
  PROVE  OneCopy(l)' /\ Recorded(l)'
  <1>1. UNCHANGED <<queue, hand, step, ledger, inPass, heard>> /\ races \subseteq races'
    BY DEF Send, Replay, Add, Look, AddUnlessHeard, AddUnlessListed, AddMiss, HandlerFrame,
       worker, Meets
  <1>2. PICK r : req' = [req EXCEPT ![h] = r] /\ (r = None \/ r.stage # "put")
    <2>1. ASSUME NEW m \in Lines, Send(h, m) \/ Replay(h, m) \/ Add(h, m)
          PROVE  \E r : req' = [req EXCEPT ![h] = r] /\ (r = None \/ r.stage # "put")
      BY <2>1 DEF Send, Replay, Add, Asks
    <2>2. ASSUME NEW stage \in {"admit", "listed?", "miss"}, At(h, "look") \/ At(h, "heard?") \/ At(h, "listed?"),
                 Proceeds(h, stage)
          PROVE  \E r : req' = [req EXCEPT ![h] = r] /\ (r = None \/ r.stage # "put")
      <3>1. [req[h] EXCEPT !.stage = stage].stage = stage
        BY <2>2 DEF At, IInv, TypeOK, Request
      <3> DEFINE next == [req[h] EXCEPT !.stage = stage]
      <3>2. req' = [req EXCEPT ![h] = next] /\ next.stage # "put"
        BY <2>2, <3>1 DEF Proceeds
      <3> HIDE DEF next
      <3> QED BY <3>2
    <2>3. ASSUME Answers(h)
          PROVE  \E r : req' = [req EXCEPT ![h] = r] /\ (r = None \/ r.stage # "put")
      BY <2>3 DEF Answers
    <2> QED BY <2>1, <2>2, <2>3 DEF Look, AddUnlessHeard, AddUnlessListed, AddMiss
  <1>3. \A g \in Handlers : PutsLine(g, l)' => PutsLine(g, l)
    BY <1>2, AsksNothing DEF IInv
  <1> QED BY <1>1, <1>3, KeepsOutside

\* He, other narration and the shutdown.
LEMMA OthersKeep ==
  ASSUME IInv, NEW l \in Lines, OneCopy(l), Recorded(l),
         \/ Resume \/ ClearMissed \/ BargeIn \/ Stop
         \/ BargeFlag \/ BargeSink \/ BargeBefore \/ BargePurge \/ BargeAfter
         \/ \E it \in queue : QueueRemove(it) \/ Shed(it)
         \/ Terminate \/ PutSentinel \/ Cut
  PROVE  OneCopy(l)' /\ Recorded(l)'
  <1>1. UNCHANGED <<req, hand, step, ledger, inPass, heard>>
    BY DEF Resume, ClearMissed, BargeIn, Stop, BargeFlag, BargeSink, BargeBefore, BargePurge,
       BargeAfter, QueueRemove, Shed, Terminate, PutSentinel, Cut, BargeFrame, worker
  <1>2. queue' \subseteq queue
    BY DEF Resume, ClearMissed, BargeIn, Stop, BargeFlag, BargeSink, BargeBefore, BargePurge,
       BargeAfter, QueueRemove, Shed, Terminate, PutSentinel, Cut
  <1>3. races \subseteq races'
    BY DEF Resume, ClearMissed, BargeIn, Stop, BargeFlag, BargeSink, BargeBefore, BargePurge,
       BargeAfter, QueueRemove, Shed, Terminate, PutSentinel, Cut, Meets
  <1>4. \A h \in Handlers : PutsLine(h, l)' => PutsLine(h, l)
    BY <1>1 DEF PutsLine
  <1> QED BY <1>1, <1>2, <1>3, <1>4, KeepsOutside

\* The worker, while what becomes of its line is open.
LEMMA PassKeeps ==
  ASSUME IInv, NEW l \in Lines, OneCopy(l), Recorded(l),
         \/ Taken \/ GoAhead \/ ResetFlags \/ Check \/ PreSynth \/ Synth \/ Ready \/ GateCheck
         \/ EnterSink \/ Gate \/ HoldEnds \/ Start \/ Popen \/ SoundEnds \/ AsideMiss
  PROVE  OneCopy(l)' /\ Recorded(l)'
  <1>1. UNCHANGED <<queue, req, hand, heard, races>>
    BY DEF Taken, GoAhead, ResetFlags, Check, PreSynth, Synth, Ready, GateCheck, EnterSink, Gate,
       HoldEnds, Start, Popen, SoundEnds, AsideMiss, PassFrame, Quiet
  <1>2. step # "done" /\ step \in Undecided
    BY DEF Taken, GoAhead, ResetFlags, Check, PreSynth, Synth, Ready, GateCheck, EnterSink, Gate,
       HoldEnds, Start, Popen, SoundEnds, AsideMiss, Undecided, Steps
  <1>3. ledger' = ledger \/ ledger' = [ledger EXCEPT ![Line] = Playing(@)]
    BY DEF Taken, GoAhead, ResetFlags, Check, PreSynth, Synth, Ready, GateCheck, EnterSink, Gate,
       HoldEnds, Start, Popen, SoundEnds, AsideMiss
  <1>4. /\ ledger[l] \in {"queued", "playing"} => ledger'[l] \in {"queued", "playing"}
        /\ ledger[l] = "done" => ledger'[l] = "done"
    BY <1>3 DEF IInv, TypeOK, Playing
  <1> QED BY <1>1, <1>2, <1>4, KeepsInPass

\* The worker, once that is settled, or with nothing in hand.
LEMMA ElseKeeps ==
  ASSUME IInv, NEW l \in Lines, OneCopy(l), Recorded(l), TakeSentinel \/ Forget \/ Finally
  PROVE  OneCopy(l)' /\ Recorded(l)'
  <1>1. UNCHANGED <<queue, req, ledger, heard, races>> /\ step # "done"
    BY DEF TakeSentinel, Forget, Finally, PassFrame, Quiet, Goto
  <1>2. ~ Held(l)'
    <2>1. CASE TakeSentinel
      BY <2>1 DEF TakeSentinel, Goto, Held, Undecided
    <2>2. CASE Finally
      BY <2>2 DEF Finally, Goto, Held, Undecided
    <2>3. CASE Forget
      BY <2>3 DEF Forget, Goto, Held, Undecided, InHand, IInv, Spent
    <2> QED BY <2>1, <2>2, <2>3
  <1>3. l \in Queued' => l \in Queued
    BY <1>1 DEF Queued
  <1>4. \A h \in Handlers : PutsLine(h, l)' => PutsLine(h, l)
    BY <1>1 DEF PutsLine
  <1>5. ~ Recording(l)
    BY <1>1 DEF Recording
  <1> QED BY <1>1, <1>2, <1>3, <1>4, <1>5, Keeps

-----------------------------------------------------------------------------
(* The inductive invariant                                                 *)

\* What has gone wrong with a line is not forgotten.
LEMMA RacesGrow ==
  ASSUME [Next]_vars PROVE races \subseteq races'
  <1>1. CASE UNCHANGED vars
    BY <1>1 DEF vars
  <1>2. ASSUME NEW h \in Handlers, NEW l \in Lines, Send(h, l) \/ Replay(h, l) \/ Add(h, l)
        PROVE  races \subseteq races'
    BY <1>2 DEF Send, Replay, Add
  <1>3. ASSUME NEW h \in Handlers, Handler(h) PROVE races \subseteq races'
    BY <1>3 DEF Handler, Look, Admit, PutLine, AddUnlessHeard, AddUnlessListed, AddMiss, Meets
  <1>4. CASE Resume \/ ClearMissed \/ BargeIn \/ Stop \/ Barging
    BY <1>4 DEF Resume, ClearMissed, BargeIn, Stop, Barging, BargeFlag, BargeSink, BargeBefore,
       BargePurge, BargeAfter, BargeDrop, Meets
  <1>5. ASSUME NEW it \in queue, QueueRemove(it) \/ Shed(it) PROVE races \subseteq races'
    BY <1>5 DEF QueueRemove, Shed, Meets
  <1>6. CASE Worker
    BY <1>6 DEF Worker, TakeSentinel, Take, Pass, Quiet, Taken, PutBack, GoAhead, ResetFlags,
       Check, PreSynth, Synth, Ready, GateCheck, EnterSink, Gate, HoldEnds, Start, Popen,
       SoundEnds, Played, RecordDone, Forget, AsideMiss, AsideLedger, RequeuePut, RequeueLedger,
       Settle, Finally, Meets
  <1>7. CASE Ends \/ Restart
    BY <1>7 DEF Ends, Restart, Terminate, PutSentinel, Cut, Exit, Crash, Gone, Meets
  <1> QED BY <1>1, <1>2, <1>3, <1>4, <1>5, <1>6, <1>7 DEF Next

LEMMA CopiesStep ==
  ASSUME IInv, [Next]_vars PROVE Copies'
  <1> SUFFICES ASSUME NEW l \in Lines, ~ Misjudged(l)' PROVE OneCopy(l)' /\ Recorded(l)'
    BY DEF Copies
  <1>0. OneCopy(l) /\ Recorded(l)
    BY RacesGrow DEF IInv, Copies, Misjudged
  <1>1. CASE UNCHANGED vars
    <2>1. UNCHANGED <<queue, req, hand, step, ledger, inPass, heard, races>>
      BY <1>1 DEF vars, worker
    <2>2. \A h \in Handlers : PutsLine(h, l)' => PutsLine(h, l)
      BY <2>1 DEF PutsLine
    <2> QED BY <1>0, <2>1, <2>2, KeepsOutside
  <1>2. ASSUME NEW h \in Handlers, NEW m \in Lines, Send(h, m) \/ Replay(h, m) \/ Add(h, m)
        PROVE  OneCopy(l)' /\ Recorded(l)'
    BY <1>0, <1>2, HandlerKeeps
  <1>3. ASSUME NEW h \in Handlers, Handler(h) PROVE OneCopy(l)' /\ Recorded(l)'
    BY <1>0, <1>3, HandlerKeeps, AdmitKeeps, PutKeeps DEF Handler
  <1>4. CASE Resume \/ ClearMissed \/ BargeIn \/ Stop \/ Barging
    BY <1>0, <1>4, OthersKeep, BargeDropKeeps DEF Barging
  <1>5. ASSUME NEW it \in queue, QueueRemove(it) \/ Shed(it) PROVE OneCopy(l)' /\ Recorded(l)'
    BY <1>0, <1>5, OthersKeep
  <1>6. CASE TakeSentinel \/ \E it \in queue : Take(it)
    BY <1>0, <1>6, ElseKeeps, TakeKeeps
  <1>7. CASE Pass
    BY <1>0, <1>7, PassKeeps, ElseKeeps, PutBackKeeps, PlayedKeeps, RecordDoneKeeps,
       AsideLedgerKeeps, RequeuePutKeeps, RequeueLedgerKeeps, SettleKeeps DEF Pass
  <1>8. CASE Crash
    BY <1>0, <1>8, GoneKeeps DEF Crash
  <1>9. CASE Terminate \/ PutSentinel \/ Cut \/ Exit \/ Restart
    BY <1>0, <1>9, OthersKeep, ExitKeeps, RestartKeeps
  <1> QED BY <1>1, <1>2, <1>3, <1>4, <1>5, <1>6, <1>7, <1>8, <1>9 DEF Next, Worker, Ends

\* Only a running daemon queues, takes or asks.
LEMMA DownStep ==
  ASSUME IInv, [Next]_vars PROVE Down'
  <1>1. CASE UNCHANGED vars
    BY <1>1 DEF vars, worker, IInv, Down
  <1>2. ASSUME NEW h \in Handlers, NEW l \in Lines, Send(h, l) \/ Replay(h, l) \/ Add(h, l)
        PROVE  Down'
    BY <1>2 DEF Send, Replay, Add, Free, HandlerFrame, Down
  <1>3. ASSUME NEW h \in Handlers, Handler(h) PROVE Down'
    <2>1. up /\ up' = up
      BY <1>3 DEF Handler, Look, Admit, PutLine, AddUnlessHeard, AddUnlessListed, AddMiss, At,
         HandlerFrame
    <2> QED BY <2>1 DEF Down
  <1>4. CASE Resume \/ ClearMissed \/ BargeIn \/ Stop \/ Barging
    <2>1. UNCHANGED <<up, req, hand>> /\ queue' \subseteq queue
      BY <1>4 DEF Resume, ClearMissed, BargeIn, Stop, Barging, BargeFlag, BargeSink, BargeBefore,
         BargePurge, BargeAfter, BargeDrop, BargeFrame, worker
    <2> QED BY <2>1 DEF IInv, Down
  <1>5. ASSUME NEW it \in queue, QueueRemove(it) \/ Shed(it) PROVE Down'
    BY <1>5 DEF QueueRemove, Shed, BargeFrame, Down
  <1>6. CASE Worker
    <2>1. up /\ up' = up
      BY <1>6 DEF Worker, TakeSentinel, Take, Pass, PassFrame, Goto, SetAside, RetryOrSetAside,
         Taken, PutBack, GoAhead, ResetFlags, Check, PreSynth, Synth, Ready, GateCheck,
         EnterSink, Gate, HoldEnds, Start, Popen, SoundEnds, Played, RecordDone, Forget,
         AsideMiss, AsideLedger, RequeuePut, RequeueLedger, Settle, Finally
    <2> QED BY <2>1 DEF Down
  <1>7. CASE Terminate \/ PutSentinel \/ Cut
    <2>1. up /\ up' = up
      BY <1>7 DEF Terminate, PutSentinel, Cut
    <2> QED BY <2>1 DEF Down
  <1>8. CASE Exit \/ Crash
    BY <1>8 DEF Exit, Crash, Gone, Down
  <1>9. CASE Restart
    BY <1>9 DEF Restart, Down
  <1> QED BY <1>1, <1>2, <1>3, <1>4, <1>5, <1>6, <1>7, <1>8, <1>9 DEF Next, Ends

\* A pass reaches "forget" only by recording its line as done and "finally"
\* only by settling it, and only a taken line is set in pass again.
LEMMA SpentStep ==
  ASSUME IInv, [Next]_vars PROVE Spent'
  <1>1. CASE UNCHANGED <<step, hand>> /\ \A l \in Lines : inPass'[l] => inPass[l]
    BY <1>1, HandIsItem DEF IInv, Spent, Item
  <1>2. CASE step' \notin {"forget", "finally"}
    BY <1>2 DEF Spent
  <1>3. CASE UNCHANGED vars
    BY <1>1, <1>3 DEF vars, worker
  <1>4. ASSUME NEW h \in Handlers, NEW l \in Lines, Send(h, l) \/ Replay(h, l) \/ Add(h, l)
        PROVE  Spent'
    BY <1>1, <1>4 DEF Send, Replay, Add, HandlerFrame, worker
  <1>5. ASSUME NEW h \in Handlers, Handler(h) PROVE Spent'
    <2>1. UNCHANGED <<step, hand>>
      BY <1>5 DEF Handler, Look, Admit, PutLine, AddUnlessHeard, AddUnlessListed, AddMiss,
         HandlerFrame, worker
    <2>2. inPass' = inPass \/ \E l : inPass' = [inPass EXCEPT ![l] = FALSE]
      BY <1>5 DEF Handler, Look, Admit, PutLine, AddUnlessHeard, AddUnlessListed, AddMiss
    <2>3. \A l \in Lines : inPass'[l] => inPass[l]
      BY <2>2 DEF IInv, TypeOK
    <2> QED BY <1>1, <2>1, <2>3
  <1>6. CASE Resume \/ ClearMissed \/ BargeIn \/ Stop \/ Barging
    <2>1. UNCHANGED <<step, hand>>
      BY <1>6 DEF Resume, ClearMissed, BargeIn, Stop, Barging, BargeFlag, BargeSink, BargeBefore,
         BargePurge, BargeAfter, BargeDrop, BargeFrame, worker
    <2>2. \A l \in Lines : inPass'[l] => inPass[l]
      BY <1>6 DEF Resume, ClearMissed, BargeIn, Stop, Barging, BargeFlag, BargeSink, BargeBefore,
         BargePurge, BargeAfter, BargeDrop
    <2> QED BY <1>1, <2>1, <2>2
  <1>7. ASSUME NEW it \in queue, QueueRemove(it) \/ Shed(it) PROVE Spent'
    BY <1>1, <1>7 DEF QueueRemove, Shed, BargeFrame, worker
  <1>8. CASE TakeSentinel \/ \E it \in queue : Take(it)
    BY <1>2, <1>8 DEF TakeSentinel, Take, Goto
  <1>9. CASE Pass
    <2>1. CASE RecordDone \/ Settle
      <3>1. Line \in Lines /\ hand' = hand /\ inPass' = [inPass EXCEPT ![Line] = FALSE]
        BY <2>1, HandIsItem DEF RecordDone, Settle, IInv, Line, Item
      <3> QED BY <3>1 DEF Spent, Line, IInv, TypeOK
    <2>2. CASE ~ (RecordDone \/ Settle)
      <3>1. step' \notin {"forget", "finally"}
        BY <1>9, <2>2 DEF Pass, Goto, SetAside, RetryOrSetAside,
           Taken, PutBack, GoAhead, ResetFlags, Check, PreSynth, Synth, Ready, GateCheck,
           EnterSink, Gate, HoldEnds, Start, Popen, SoundEnds, Played, Forget,
           AsideMiss, AsideLedger, RequeuePut, RequeueLedger, Finally
      <3> QED BY <1>2, <3>1
    <2> QED BY <2>1, <2>2
  <1>10. CASE Terminate \/ PutSentinel \/ Cut
    BY <1>1, <1>10 DEF Terminate, PutSentinel, Cut, worker
  <1>11. CASE Exit \/ Crash
    BY <1>2, <1>11 DEF Exit, Crash, Gone
  <1>12. CASE Restart
    BY <1>1, <1>12 DEF Restart, worker
  <1> QED BY <1>3, <1>4, <1>5, <1>6, <1>7, <1>8, <1>9, <1>10, <1>11, <1>12 DEF Next, Worker, Ends

LEMMA InitIInv == Init => IInv
  <1> SUFFICES ASSUME Init PROVE IInv
    OBVIOUS
  <1>1. Down /\ Spent
    BY DEF Init, Down, Spent
  <1>2. ASSUME NEW l \in Lines PROVE OneCopy(l) /\ Recorded(l)
    BY DEF Init, OneCopy, Recorded, Queued, AtPut, PutsLine, Held, InHand
  <1> QED BY <1>1, <1>2, TypeInit DEF IInv, Copies

LEMMA IInvStep == IInv /\ [Next]_vars => IInv'
  BY TypeStep, CarriedStep, CopiesStep, DownStep, SpentStep DEF IInv

\* The inductive invariant holds in every state of every behaviour: no line
\* has two copies on its way, and what was heard is done in the ledger.
THEOREM Inductive == Spec => []IInv
  BY InitIInv, IInvStep, PTL DEF Spec

\* A line id is in one place at a time (narrator_service.py with
\* line_ledger.py), for every set of lines and handlers and any number of
\* sends, replays, retries, barge-ins, crashes and restarts.
THEOREM OnePlace == Spec => []InOnePlace
  <1>1. IInv => InOnePlace
    <2> SUFFICES ASSUME IInv, NEW l \in Lines, ~ Misjudged(l)
                 PROVE  /\ \A p, q \in Places(l) : p = q
                        /\ Places(l) # {} => ledger[l] \in {"queued", "playing"}
      BY DEF InOnePlace, Except, Misjudged
    <2>1. OneCopy(l)
      BY DEF IInv, Copies
    <2>2. \A p \in Places(l) :
             \/ \E it \in queue : it.line = l /\ p = <<"queue", it>>
             \/ \E h \in Handlers : PutsLine(h, l) /\ p = <<"handler", h>>
             \/ Held(l) /\ p = <<"hand", hand>>
      BY DEF Places
    <2>3. Places(l) # {} => l \in Queued \/ l \in AtPut \/ Held(l)
      BY <2>2 DEF Queued, AtPut
    <2>4. \A p, q \in Places(l) : p = q
      BY <2>1, <2>2 DEF OneCopy, Queued, AtPut
    <2> QED BY <2>1, <2>3, <2>4 DEF OneCopy
  <1> QED BY <1>1, Inductive, PTL

\* One line id, one play (ADR-025): what was heard never sounds again, save
\* for the line a barge-in misjudged and the one heard as the process ended.
THEOREM OnePlay == Spec => []OneIdOnePlay
  <1>1. IInv => OneIdOnePlay
    <2> SUFFICES ASSUME IInv, step = "sounding", Line \in heard,
                        ~ Misjudged(Line), <<"unrecorded", Line>> \notin races
                 PROVE  FALSE
      BY HandIsItem DEF IInv, OneIdOnePlay, Except, Misjudged, Line, Item
    <2>1. Line \in Lines /\ hand # None
      BY HandIsItem, NoneAssumption DEF IInv, Line, Item, NoneAssumption
    <2>2. Held(Line) /\ ~ Recording(Line)
      BY <2>1 DEF Held, InHand, Line, Undecided, Steps, Recording
    <2>3. ledger[Line] = "done"
      BY <2>1, <2>2 DEF IInv, Copies, Recorded
    <2> QED BY <2>1, <2>2, <2>3 DEF IInv, Copies, OneCopy
  <1> QED BY <1>1, Inductive, PTL

-----------------------------------------------------------------------------
(* His stop                                                                *)

\* mpv runs only in the worker's own wait for it; and while he has stopped,
\* the worker is past its last look at the stop only with a late line.
StopStands ==
    /\ proc => step = "sounding"
    /\ stopped /\ ~ late => step \notin PastStopCheck

\* A step that moves neither mpv nor the worker, and no later than the stop.
LEMMA StandsStill ==
  ASSUME StopStands, StopHolds, UNCHANGED <<step, stopped, late>>, proc' => proc,
         barge' \notin {"flag", "sink"} => barge \notin {"flag", "sink"} \/ ~ proc'
  PROVE  StopStands' /\ StopHolds'
  BY DEF StopStands, StopHolds

\* The worker's steps.
LEMMA PassStands ==
  ASSUME StopStands, StopHolds, Pass PROVE StopStands' /\ StopHolds'
  <1>1. UNCHANGED <<stopped, barge>>
    BY DEF Pass, PassFrame, barging, Taken, PutBack, GoAhead, ResetFlags, Check, PreSynth, Synth,
       Ready, GateCheck, EnterSink, Gate, HoldEnds, Start, Popen, SoundEnds, Played, RecordDone,
       Forget, AsideMiss, AsideLedger, RequeuePut, RequeueLedger, Settle, Finally
  <1>2. CASE Finally
    BY <1>1, <1>2 DEF Finally, Goto, sink, StopStands, StopHolds, PastStopCheck
  <1>3. CASE Popen
    BY <1>1, <1>3 DEF Popen, Goto, Quiet, StopStands, StopHolds, PastStopCheck
  <1>4. CASE SoundEnds
    BY <1>1, <1>4 DEF SoundEnds, RetryOrSetAside, SetAside, Goto, Quiet, StopStands, StopHolds,
       PastStopCheck
  <1>5. CASE GateCheck
    BY <1>1, <1>5 DEF GateCheck, SetAside, Goto, Quiet, sink, StopStands, StopHolds, PastStopCheck
  <1>6. CASE EnterSink \/ Gate \/ HoldEnds \/ Start
    BY <1>1, <1>6 DEF EnterSink, Gate, HoldEnds, Start, SetAside, Goto, Quiet, sink, StopStands,
       StopHolds, PastStopCheck
  <1>7. CASE \/ Taken \/ PutBack \/ GoAhead \/ ResetFlags \/ Check \/ PreSynth \/ Synth \/ Ready
             \/ Played \/ RecordDone \/ Forget \/ AsideMiss \/ AsideLedger \/ RequeuePut
             \/ RequeueLedger \/ Settle
    <2>1. step # "sounding" /\ UNCHANGED <<proc, late>>
      BY <1>7 DEF Taken, PutBack, GoAhead, ResetFlags, Check, PreSynth, Synth, Ready, Played,
         RecordDone, Forget, AsideMiss, AsideLedger, RequeuePut, RequeueLedger, Settle, Quiet, sink
    <2>2. step' \notin PastStopCheck
      BY <1>7 DEF Taken, PutBack, GoAhead, ResetFlags, Check, PreSynth, Synth, Ready, Played,
         RecordDone, Forget, AsideMiss, AsideLedger, RequeuePut, RequeueLedger, Settle, Goto,
         SetAside, RetryOrSetAside, PastStopCheck
    <2> QED BY <1>1, <2>1, <2>2 DEF StopStands, StopHolds
  <1> QED BY <1>2, <1>3, <1>4, <1>5, <1>6, <1>7 DEF Pass

LEMMA StopStep ==
  ASSUME StopStands, StopHolds, [Next]_vars PROVE StopStands' /\ StopHolds'
  <1>1. CASE UNCHANGED vars
    BY <1>1, StandsStill DEF vars, worker, sink, barging
  <1>2. ASSUME NEW h \in Handlers, NEW l \in Lines, Send(h, l) \/ Replay(h, l) \/ Add(h, l)
        PROVE  StopStands' /\ StopHolds'
    BY <1>2, StandsStill DEF Send, Replay, Add, HandlerFrame, worker, sink, barging
  <1>3. ASSUME NEW h \in Handlers, Handler(h) PROVE StopStands' /\ StopHolds'
    BY <1>3, StandsStill DEF Handler, Look, Admit, PutLine, AddUnlessHeard, AddUnlessListed,
       AddMiss, HandlerFrame, worker, sink, barging
  <1>4. CASE Resume \/ Stop
    <2>1. CASE Resume
      BY <2>1 DEF Resume, worker, sink, StopStands, StopHolds
    <2>2. CASE Stop
      <3>1. UNCHANGED <<step, proc>> /\ barge' = "flag" /\ (late' <=> step \in PastStopCheck)
        BY <2>2 DEF Stop, BargeFrame, worker, sink
      <3> QED BY <3>1 DEF StopStands, StopHolds
    <2> QED BY <1>4, <2>1, <2>2
  <1>5. CASE BargeSink
    BY <1>5 DEF BargeSink, SinkInterrupted, BargeFrame, worker, StopStands, StopHolds
  <1>6. CASE \/ ClearMissed \/ BargeIn \/ BargeFlag \/ BargeBefore \/ BargePurge \/ BargeAfter
             \/ BargeDrop \/ \E it \in queue : QueueRemove(it) \/ Shed(it)
    <2>1. UNCHANGED <<step, stopped, late, proc>>
      BY <1>6 DEF ClearMissed, BargeIn, BargeFlag, BargeBefore, BargePurge, BargeAfter,
         BargeDrop, QueueRemove, Shed, BargeFrame, worker, sink
    <2>2. barge' \notin {"flag", "sink"} => barge \notin {"flag", "sink"}
      BY <1>6 DEF ClearMissed, BargeIn, BargeFlag, BargeBefore, BargePurge, BargeAfter,
         BargeDrop, QueueRemove, Shed, barging
    <2> QED BY <2>1, <2>2, StandsStill
  <1>7. CASE TakeSentinel \/ \E it \in queue : Take(it)
    BY <1>7 DEF TakeSentinel, Take, Goto, Quiet, PassFrame, sink, barging, StopStands, StopHolds,
       PastStopCheck
  <1>8. CASE Pass
    BY <1>8, PassStands
  <1>9. CASE Exit \/ Crash
    BY <1>9 DEF Exit, Crash, Gone, StopStands, StopHolds, PastStopCheck
  <1>10. CASE Terminate \/ PutSentinel \/ Cut \/ Restart
    <2>1. UNCHANGED <<step, stopped, late, barge>>
      BY <1>10 DEF Terminate, PutSentinel, Cut, Restart, worker, barging
    <2>2. proc' = FALSE \/ proc' = proc
      BY <1>10 DEF Terminate, PutSentinel, Cut, Restart, SinkInterrupted, sink
    <2> QED BY <2>1, <2>2, StandsStill
  <1> QED BY <1>1, <1>2, <1>3, <1>4, <1>5, <1>6, <1>7, <1>8, <1>9, <1>10
       DEF Next, Worker, Ends, Barging

\* His stop holds (ADR-024), for every set of lines and any interleaving of
\* stops, resumes, barge-ins and the worker: once the stop's own barge-in has
\* been through the sink, nothing sounds while it stands, save the line
\* whose pass had already asked for the last time whether he had stopped.
THEOREM StopStandsFast == Spec => []StopHolds
  <1>1. Init => StopStands /\ StopHolds
    BY DEF Init, StopStands, StopHolds, PastStopCheck
  <1>2. StopStands /\ StopHolds /\ [Next]_vars => (StopStands /\ StopHolds)'
    BY StopStep
  <1> QED BY <1>1, <1>2, PTL DEF Spec

-----------------------------------------------------------------------------
(* What was heard and the missed list                                      *)

\* A line that was heard is on the missed list no longer than its pass takes
\* to forget it, and a caller adding it asked before it was recorded.
Spoken(l) ==
    l \in heard /\ \A kind \in {"misjudged", "late add", "unrecorded"} : <<kind, l>> \notin races
Unlisted(l) ==
    Spoken(l) => /\ missed[l] # None => l \in InHand /\ step \in {"done", "forget"}
                 /\ \A h \in Handlers : AddsLine(h, l) => Recording(l)

\* A line that was heard has no copy left that could play or be set aside.
LEMMA SpokenIsOver ==
  ASSUME IInv, NEW l \in Lines, Spoken(l)
  PROVE  /\ ledger[l] = "done" \/ Recording(l)
         /\ l \notin Queued
         /\ Held(l) => step = "done"
  <1>1. ~ Misjudged(l) /\ <<"unrecorded", l>> \notin races /\ l \in heard
    BY DEF Spoken, Misjudged
  <1>2. OneCopy(l) /\ Recorded(l)
    BY <1>1 DEF IInv, Copies
  <1>3. Recording(l) => Held(l)
    BY DEF Recording, Held, Undecided, Steps
  <1> QED BY <1>1, <1>2, <1>3 DEF OneCopy, Recorded, Recording

\* A step that puts nothing on the list and lets nobody begin to add.
LEMMA StaysUnlisted ==
  ASSUME NEW l \in Lines, Unlisted(l), races \subseteq races', l \in heard' => l \in heard,
         missed'[l] # None => missed[l] # None,
         \A h \in Handlers : AddsLine(h, l)' => AddsLine(h, l),
         l \in InHand /\ step \in {"done", "forget"} =>
             l \in InHand' /\ step' \in {"done", "forget"},
         Recording(l) => Recording(l)'
  PROVE  Unlisted(l)'
  <1> SUFFICES ASSUME Spoken(l)'
               PROVE  /\ missed'[l] # None => l \in InHand' /\ step' \in {"done", "forget"}
                      /\ \A h \in Handlers : AddsLine(h, l)' => Recording(l)'
    BY DEF Unlisted
  <1>1. Spoken(l)
    BY DEF Spoken
  <1> QED BY <1>1 DEF Unlisted

\* The same for a step of another thread than the worker.
LEMMA StaysUnlistedOutside ==
  ASSUME NEW l \in Lines, Unlisted(l), races \subseteq races', UNCHANGED <<hand, step, heard>>,
         missed'[l] # None => missed[l] # None,
         \A h \in Handlers : AddsLine(h, l)' => AddsLine(h, l)
  PROVE  Unlisted(l)'
  <1>1. (l \in InHand' <=> l \in InHand) /\ (Recording(l) => Recording(l)')
    BY DEF InHand, Recording
  <1> QED BY <1>1, StaysUnlisted

\* The same for a step of a pass before its line counts as heard.
LEMMA StaysUnlistedInPass ==
  ASSUME NEW l \in Lines, Unlisted(l), races \subseteq races', UNCHANGED <<req, heard>>,
         step \notin {"done", "forget"},
         Spoken(l) => missed'[l] = missed[l]
  PROVE  Unlisted(l)'
  <1> SUFFICES ASSUME Spoken(l)'
               PROVE  missed'[l] = None /\ \A h \in Handlers : ~ AddsLine(h, l)'
    BY DEF Unlisted
  <1>1. Spoken(l)
    BY DEF Spoken
  <1> QED BY <1>1 DEF Unlisted, AddsLine, Recording

-----------------------------------------------------------------------------
\* A handler that goes on to something other than adding.
LEMMA AddsNothing ==
  ASSUME TypeOK, NEW h \in Handlers, NEW r, req' = [req EXCEPT ![h] = r],
         r = None \/ r.stage \notin {"listed?", "miss"}, NEW l \in Lines, NEW g \in Handlers,
         AddsLine(g, l)'
  PROVE  AddsLine(g, l)
  BY DEF TypeOK, AddsLine

LEMMA AsksUnlisted ==
  ASSUME IInv, NEW h \in Handlers, NEW l \in Lines, Unlisted(l), races \subseteq races',
         NEW m \in Lines, Send(h, m) \/ Replay(h, m) \/ Add(h, m)
  PROVE  Unlisted(l)'
  <1>1. UNCHANGED <<hand, step, heard, missed>>
    BY DEF Send, Replay, Add, HandlerFrame, worker
  <1>2. \A stage, replay, send :
             LET r == [line |-> m, stage |-> stage, send |-> send, replay |-> replay]
             IN  Asks(h, r) /\ stage \notin {"listed?", "miss"} =>
                     \A g \in Handlers : AddsLine(g, l)' => AddsLine(g, l)
    BY DEF Asks, AddsLine, IInv, TypeOK
  <1>3. \A g \in Handlers : AddsLine(g, l)' => AddsLine(g, l)
    BY <1>2 DEF Send, Replay, Add
  <1> QED BY <1>1, <1>3, StaysUnlistedOutside

LEMMA HandlerUnlisted ==
  ASSUME IInv, NEW h \in Handlers, NEW l \in Lines, Unlisted(l), races \subseteq races',
         Handler(h)
  PROVE  Unlisted(l)'
  <1> DEFINE m == req[h].line
  <1>1. UNCHANGED <<hand, step, heard>> /\ req[h] \in Request /\ h \in DOMAIN req
    BY DEF Handler, Look, Admit, PutLine, AddUnlessHeard, AddUnlessListed, AddMiss,
       HandlerFrame, worker, At, IInv, TypeOK
  <1>2. CASE Answers(h) /\ (missed'[l] # None => missed[l] # None)
    <2>1. \A g \in Handlers : AddsLine(g, l)' => AddsLine(g, l)
      BY <1>2, AddsNothing DEF Answers, IInv
    <2> QED BY <1>1, <1>2, <2>1, StaysUnlistedOutside
  <1>3. ASSUME NEW stage \in {"admit", "put"}, Proceeds(h, stage), missed' = missed
        PROVE  Unlisted(l)'
    <2> DEFINE next == [req[h] EXCEPT !.stage = stage]
    <2>1. req' = [req EXCEPT ![h] = next] /\ next.stage \notin {"listed?", "miss"}
      BY <1>1, <1>3 DEF Proceeds, Request
    <2> HIDE DEF next
    <2>2. \A g \in Handlers : AddsLine(g, l)' => AddsLine(g, l)
      BY <2>1, AddsNothing DEF IInv
    <2> QED BY <1>1, <1>3, <2>2, StaysUnlistedOutside
  <1>4. CASE Look(h) \/ PutLine(h)
    BY <1>2, <1>3, <1>4 DEF Look, PutLine
  <1>5. CASE Admit(h)
    <2>1. Answers(h) => missed' = missed \/ missed' = [missed EXCEPT ![m] = None]
      BY <1>5 DEF Admit
    <2>2. Answers(h) => (missed'[l] # None => missed[l] # None)
      BY <2>1 DEF IInv, TypeOK
    <2>3. Answers(h) \/ (Proceeds(h, "put") /\ missed' = missed)
      BY <1>5 DEF Admit
    <2> QED BY <1>2, <1>3, <2>2, <2>3
  <1>6. CASE AddUnlessHeard(h)
    <2>1. CASE Answers(h)
      BY <1>2, <1>6, <2>1 DEF AddUnlessHeard
    <2>2. CASE ledger[m] # "done" /\ Proceeds(h, "listed?")
      <3>1. UNCHANGED <<missed, races>>
        BY <1>6 DEF AddUnlessHeard
      <3>2. \A g \in Handlers : AddsLine(g, l)' => AddsLine(g, l) \/ l = m
        BY <1>1, <2>2 DEF Proceeds, AddsLine, Request, IInv, TypeOK
      <3>3. l = m /\ Spoken(l) => Recording(l)
        BY <2>2, SpokenIsOver
      <3>4. (Spoken(l)' <=> Spoken(l)) /\ (Recording(l)' <=> Recording(l))
            /\ (l \in InHand' <=> l \in InHand)
        BY <1>1, <3>1 DEF Spoken, Recording, InHand
      <3> QED BY <1>1, <3>1, <3>2, <3>3, <3>4 DEF Unlisted
    <2> QED BY <1>6, <2>1, <2>2 DEF AddUnlessHeard
  <1>7. CASE AddUnlessListed(h)
    <2>1. CASE Answers(h)
      BY <1>2, <1>7, <2>1 DEF AddUnlessListed
    <2>2. CASE Proceeds(h, "miss")
      <3>1. missed' = missed
        BY <1>7 DEF AddUnlessListed
      <3>2. \A g \in Handlers : AddsLine(g, l)' => AddsLine(g, l)
        BY <1>1, <1>7, <2>2 DEF AddUnlessListed, At, Proceeds, AddsLine, Request, IInv, TypeOK
      <3> QED BY <1>1, <3>1, <3>2, StaysUnlistedOutside
    <2> QED BY <1>7, <2>1, <2>2 DEF AddUnlessListed
  <1>8. CASE AddMiss(h)
    <2>1. missed' = [missed EXCEPT ![m] = "missed"] /\ Answers(h) /\ AddsLine(h, m)
      BY <1>8 DEF AddMiss, At, AddsLine
    <2>2. CASE l # m
      BY <1>2, <2>1, <2>2 DEF IInv, TypeOK
    <2>3. CASE l = m
      <3>1. Spoken(l) => Recording(l)
        BY <2>1, <2>3 DEF Unlisted
      <3>2. \A g \in Handlers : AddsLine(g, l)' => AddsLine(g, l)
        BY <2>1, AddsNothing DEF Answers, IInv
      <3>3. (Spoken(l)' => Spoken(l)) /\ (Recording(l)' <=> Recording(l))
            /\ (l \in InHand' <=> l \in InHand)
        BY <1>1 DEF Spoken, Recording, InHand
      <3> QED BY <1>1, <3>1, <3>2, <3>3 DEF Unlisted, Recording
    <2> QED BY <2>2, <2>3
  <1> QED BY <1>4, <1>5, <1>6, <1>7, <1>8 DEF Handler

LEMMA OthersUnlisted ==
  ASSUME IInv, NEW l \in Lines, Unlisted(l), races \subseteq races',
         \/ Resume \/ ClearMissed \/ BargeIn \/ Stop \/ Barging
         \/ \E it \in queue : QueueRemove(it) \/ Shed(it)
         \/ Terminate \/ PutSentinel \/ Cut \/ Restart
  PROVE  Unlisted(l)'
  <1>1. UNCHANGED <<req, hand, step, heard>>
    BY DEF Resume, ClearMissed, BargeIn, Stop, Barging, BargeFlag, BargeSink, BargeBefore,
       BargePurge, BargeAfter, BargeDrop, QueueRemove, Shed, Terminate, PutSentinel, Cut, Restart,
       BargeFrame, worker
  <1>2. \/ missed' = missed \/ missed' = [m \in Lines |-> None]
        \/ missed' = [m \in Lines |-> IF missed[m] = "held" THEN "missed" ELSE missed[m]]
    BY DEF Resume, ClearMissed, BargeIn, Stop, Barging, BargeFlag, BargeSink, BargeBefore,
       BargePurge, BargeAfter, BargeDrop, QueueRemove, Shed, Terminate, PutSentinel, Cut, Restart,
       BargeFrame
  <1>3. "held" # None
    BY NoneAssumption DEF NoneAssumption, Statuses
  <1>4. missed'[l] # None => missed[l] # None
    BY <1>2, <1>3
  <1>5. \A h \in Handlers : AddsLine(h, l)' => AddsLine(h, l)
    BY <1>1 DEF AddsLine
  <1> QED BY <1>1, <1>4, <1>5, StaysUnlistedOutside

\* The worker, before its line counts as heard: what it puts on the list, for
\* a hold or to set it aside, has not been heard.
LEMMA PassUnlisted ==
  ASSUME IInv, NEW l \in Lines, Unlisted(l), races \subseteq races',
         \/ TakeSentinel \/ \E it \in queue : Take(it)
         \/ Taken \/ PutBack \/ GoAhead \/ ResetFlags \/ Check \/ PreSynth \/ Synth \/ Ready
         \/ GateCheck \/ EnterSink \/ Gate \/ HoldEnds \/ Start \/ Popen \/ SoundEnds \/ AsideMiss
         \/ AsideLedger \/ RequeuePut \/ RequeueLedger \/ Settle \/ Finally
  PROVE  Unlisted(l)'
  <1>1. UNCHANGED <<req, heard>> /\ step \notin {"done", "forget"}
    BY DEF TakeSentinel, Take, Taken, PutBack, GoAhead, ResetFlags, Check, PreSynth, Synth, Ready,
       GateCheck, EnterSink, Gate, HoldEnds, Start, Popen, SoundEnds, AsideMiss, AsideLedger,
       RequeuePut, RequeueLedger, Settle, Finally, PassFrame, Quiet
  <1>2. \/ missed' = missed
        \/ \E status : missed' = [missed EXCEPT ![Line] = status] /\ step \in {"gated", "aside"}
    BY DEF TakeSentinel, Take, Taken, PutBack, GoAhead, ResetFlags, Check, PreSynth, Synth, Ready,
       GateCheck, EnterSink, Gate, HoldEnds, Start, Popen, SoundEnds, AsideMiss, AsideLedger,
       RequeuePut, RequeueLedger, Settle, Finally
  <1>3. step \in {"gated", "aside"} /\ l = Line => Held(l)
    BY DEF Held, InHand, Undecided, Steps, Line, IInv, Carried
  <1>4. Spoken(l) => missed'[l] = missed[l]
    BY <1>1, <1>2, <1>3, SpokenIsOver DEF IInv, TypeOK
  <1> QED BY <1>1, <1>4, StaysUnlistedInPass

LEMMA PlayedUnlisted ==
  ASSUME IInv, NEW l \in Lines, Unlisted(l), races \subseteq races', Played
  PROVE  Unlisted(l)'
  <1>1. UNCHANGED <<req, hand>> /\ step = "played" /\ hand # None
    BY DEF Played, PassFrame, IInv, Carried
  <1>2. CASE UNCHANGED <<heard, missed>>
    BY <1>1, <1>2, StaysUnlistedInPass
  <1>3. CASE /\ step' = "done" /\ heard' = heard \cup {Line}
             /\ missed' = IF onHold \/ hand.listed THEN [missed EXCEPT ![Line] = None] ELSE missed
    <2>1. CASE l = Line
      BY <1>1, <1>3, <2>1 DEF Unlisted, Recording, InHand, Line
    <2>2. CASE l # Line
      <3>1. l \notin InHand /\ missed'[l] = missed[l]
        BY <1>3, <2>2 DEF InHand, Line, IInv, TypeOK
      <3>2. \A h \in Handlers : AddsLine(h, l)' => AddsLine(h, l)
        BY <1>1 DEF AddsLine
      <3> QED BY <1>3, <2>2, <3>1, <3>2, StaysUnlisted DEF Recording
    <2> QED BY <2>1, <2>2
  <1> QED BY <1>2, <1>3 DEF Played, SetAside, Goto

\* Whoever asked before is noted; whoever asks from here on is refused.
LEMMA RecordDoneUnlisted ==
  ASSUME IInv, NEW l \in Lines, Unlisted(l), races \subseteq races', RecordDone
  PROVE  Unlisted(l)'
  <1>1. /\ UNCHANGED <<req, hand, heard, missed>> /\ step = "done" /\ step' = "forget"
        /\ hand # None
    BY DEF RecordDone, Goto, PassFrame, IInv, Carried
  <1>2. \A h \in Handlers : AddsLine(h, l)' <=> AddsLine(h, l)
    BY <1>1 DEF AddsLine
  <1>3. CASE l = Line
    <2>1. Spoken(l)' => \A h \in Handlers : ~ AddsLine(h, l)
      BY <1>3 DEF RecordDone, Meets, Spoken
    <2>2. l \in InHand'
      BY <1>1, <1>3 DEF InHand, Line
    <2> QED BY <1>1, <1>2, <2>1, <2>2 DEF Unlisted
  <1>4. CASE l # Line
    <2>1. l \notin InHand
      BY <1>4 DEF InHand, Line
    <2> QED BY <1>1, <1>2, <2>1, StaysUnlisted DEF Recording
  <1> QED BY <1>3, <1>4

LEMMA ForgetUnlisted ==
  ASSUME IInv, NEW l \in Lines, Unlisted(l), races \subseteq races', Forget
  PROVE  Unlisted(l)'
  <1>1. UNCHANGED <<req, hand, heard>> /\ step = "forget" /\ missed' = [missed EXCEPT ![Line] = None]
    BY DEF Forget, PassFrame, Quiet
  <1>2. \A h \in Handlers : AddsLine(h, l)' <=> AddsLine(h, l)
    BY <1>1 DEF AddsLine
  <1>3. Spoken(l)' => Spoken(l)
    BY <1>1 DEF Spoken
  <1>4. l # Line => l \notin InHand
    BY DEF InHand, Line
  <1>5. ~ Recording(l) /\ (l = Line => missed'[l] = None) /\ (l # Line => missed'[l] = missed[l])
    BY <1>1 DEF Recording, IInv, TypeOK
  <1> QED BY <1>1, <1>2, <1>3, <1>4, <1>5 DEF Unlisted

\* The process ends: what waits is set aside and has not been heard; what
\* was heard and is still being recorded is noted.
LEMMA EndUnlisted ==
  ASSUME IInv, NEW l \in Lines, Unlisted(l), races \subseteq races', Exit \/ Crash
  PROVE  Unlisted(l)'
  <1>1. heard' = heard /\ \A h \in Handlers : req'[h] = None
    BY DEF Exit, Crash, Gone
  <1>2. \A h \in Handlers : ~ AddsLine(h, l)'
    BY <1>1 DEF AddsLine
  <1>3. l \in InHand /\ step \in {"done", "forget"} => <<"unrecorded", l>> \in races'
    BY DEF Exit, Crash, Gone, Meets
  <1>4. missed'[l] = missed[l] \/ l \in Queued
    BY DEF Exit, Crash
  <1>5. Spoken(l)' => Spoken(l)
    BY <1>1 DEF Spoken
  <1>6. Spoken(l)' => ~ (l \in InHand /\ step \in {"done", "forget"})
    BY <1>3 DEF Spoken
  <1>7. Spoken(l)' => missed'[l] = None
    BY <1>4, <1>5, <1>6, SpokenIsOver DEF Unlisted
  <1> QED BY <1>2, <1>7 DEF Unlisted

LEMMA UnlistedStep ==
  ASSUME IInv, [Next]_vars, NEW l \in Lines, Unlisted(l) PROVE Unlisted(l)'
  <1> USE RacesGrow
  <1>1. CASE UNCHANGED vars
    <2>1. UNCHANGED <<hand, step, heard, missed, req>>
      BY <1>1 DEF vars, worker
    <2>2. \A h \in Handlers : AddsLine(h, l)' => AddsLine(h, l)
      BY <2>1 DEF AddsLine
    <2> QED BY <2>1, <2>2, StaysUnlistedOutside
  <1>2. ASSUME NEW h \in Handlers, NEW m \in Lines, Send(h, m) \/ Replay(h, m) \/ Add(h, m)
        PROVE  Unlisted(l)'
    BY <1>2, AsksUnlisted
  <1>3. ASSUME NEW h \in Handlers, Handler(h) PROVE Unlisted(l)'
    BY <1>3, HandlerUnlisted
  <1>4. CASE \/ Resume \/ ClearMissed \/ BargeIn \/ Stop \/ Barging
             \/ \E it \in queue : QueueRemove(it) \/ Shed(it)
             \/ Terminate \/ PutSentinel \/ Cut \/ Restart
    BY <1>4, OthersUnlisted
  <1>5. CASE Worker
    BY <1>5, PassUnlisted, PlayedUnlisted, RecordDoneUnlisted, ForgetUnlisted DEF Worker, Pass
  <1>6. CASE Exit \/ Crash
    BY <1>6, EndUnlisted
  <1> QED BY <1>1, <1>2, <1>3, <1>4, <1>5, <1>6 DEF Next, Ends

\* What was heard leaves the missed list and never comes back to it
\* (ADR-026), for every set of lines and handlers: no entry of it outlives
\* its pass, whoever put one there and whenever, save the caller that asked
\* before it was heard and wrote after.
THEOREM HeardIsForgotten == Spec => []HeardLeavesList
  <1> DEFINE Inv == IInv /\ \A l \in Lines : Unlisted(l)
  <1>1. Init => Inv
    BY InitIInv DEF Init, Unlisted, Spoken
  <1>2. Inv /\ [Next]_vars => Inv'
    BY IInvStep, UnlistedStep
  <1>3. Inv => HeardLeavesList
    <2> SUFFICES ASSUME Inv, NEW l \in heard \ Except({"misjudged", "late add", "unrecorded"}),
                        missed[l] # None
                 PROVE  l \in InHand /\ step \in {"done", "forget"}
      BY DEF HeardLeavesList
    <2>1. l \in Lines /\ Spoken(l)
      BY DEF IInv, TypeOK, Spoken, Except
    <2> QED BY <2>1 DEF Unlisted
  <1> QED BY <1>1, <1>2, <1>3, PTL DEF Spec

-----------------------------------------------------------------------------
(* The ledger and what is really on its way                                *)

\* What a barge-in knows of the queue it knows only between its steps.
Snapshots == (before # {} => barge \in {"purge", "after"}) /\ (gone # {} => barge = "drop")

\* A line the ledger calls queued or playing is on its way outside the
\* worker's hand, or in it with a settle to come that will not leave it so.
Elsewhere(l) == l \in Queued \/ l \in AtPut \/ l \in before \/ l \in gone
Lost(l) == \E kind \in {"shed", "made room", "purged unseen", "purged retry"} : <<kind, l>> \in races
Open(l) == up /\ ledger[l] \in {"queued", "playing"} /\ ~ Lost(l)
InPass(l) == l \in InHand /\ (step = "taken" \/ inPass[l])
Tracked(l) == Open(l) => Elsewhere(l) \/ InPass(l)

LEMMA SnapshotsStep ==
  ASSUME Snapshots, [Next]_vars PROVE Snapshots'
  <1>1. CASE UNCHANGED barging
    BY <1>1 DEF barging, Snapshots
  <1>2. CASE UNCHANGED vars
    BY <1>1, <1>2 DEF vars
  <1>3. ASSUME NEW h \in Handlers, NEW l \in Lines, Send(h, l) \/ Replay(h, l) \/ Add(h, l)
        PROVE  Snapshots'
    BY <1>1, <1>3 DEF Send, Replay, Add, HandlerFrame
  <1>4. ASSUME NEW h \in Handlers, Handler(h) PROVE Snapshots'
    BY <1>1, <1>4 DEF Handler, Look, Admit, PutLine, AddUnlessHeard, AddUnlessListed, AddMiss,
       HandlerFrame
  <1>5. CASE Resume \/ ClearMissed \/ (\E it \in queue : Shed(it)) \/ Terminate \/ PutSentinel \/ Cut
             \/ Restart
    BY <1>1, <1>5 DEF Resume, ClearMissed, Shed, Terminate, PutSentinel, Cut, Restart
  <1>6. CASE BargeIn \/ Stop \/ Barging \/ \E it \in queue : QueueRemove(it)
    BY <1>6 DEF BargeIn, Stop, Barging, BargeFlag, BargeSink, BargeBefore, BargePurge, BargeAfter,
       BargeDrop, QueueRemove, Snapshots
  <1>7. CASE Worker
    BY <1>1, <1>7 DEF Worker, TakeSentinel, Take, Pass, PassFrame, Taken, PutBack, GoAhead,
       ResetFlags, Check, PreSynth, Synth, Ready, GateCheck, EnterSink, Gate, HoldEnds, Start,
       Popen, SoundEnds, Played, RecordDone, Forget, AsideMiss, AsideLedger, RequeuePut,
       RequeueLedger, Settle, Finally
  <1>8. CASE Exit \/ Crash
    BY <1>8 DEF Exit, Crash, Gone, Snapshots
  <1> QED BY <1>2, <1>3, <1>4, <1>5, <1>6, <1>7, <1>8 DEF Next, Ends

\* A step that makes no line queued or playing and loses sight of none.
LEMMA StaysTracked ==
  ASSUME NEW l \in Lines, Tracked(l), races \subseteq races',
         Open(l)' => up /\ ledger[l] \in {"queued", "playing"},
         Open(l)' /\ (Elsewhere(l) \/ InPass(l)) => Elsewhere(l)' \/ InPass(l)'
  PROVE  Tracked(l)'
  <1>1. Open(l)' => Open(l)
    BY DEF Open, Lost
  <1> QED BY <1>1 DEF Tracked

\* The same for a step of another thread than the worker.
LEMMA StaysTrackedOutside ==
  ASSUME NEW l \in Lines, Tracked(l), races \subseteq races', UNCHANGED <<hand, step>>,
         Open(l)' => up /\ ledger[l] \in {"queued", "playing"} /\ inPass'[l] = inPass[l],
         Open(l)' /\ Elsewhere(l) => Elsewhere(l)'
  PROVE  Tracked(l)'
  <1>1. Open(l)' /\ InPass(l) => InPass(l)'
    BY DEF InPass, InHand
  <1> QED BY <1>1, StaysTracked

\* The same for a step of a pass that leaves queue and ledger alone.
LEMMA StaysTrackedInPass ==
  ASSUME NEW l \in Lines, Tracked(l), races \subseteq races',
         UNCHANGED <<up, queue, req, barging, hand, inPass>>, step # "taken",
         Open(l)' => ledger[l] \in {"queued", "playing"}
  PROVE  Tracked(l)'
  <1>1. Elsewhere(l) => Elsewhere(l)'
    BY DEF Elsewhere, Queued, AtPut, PutsLine, barging
  <1>2. InPass(l) => InPass(l)'
    BY DEF InPass, InHand
  <1>3. Open(l)' => up
    BY DEF Open
  <1> QED BY <1>1, <1>2, <1>3, StaysTracked

LEMMA AsksTracked ==
  ASSUME IInv, NEW h \in Handlers, NEW l \in Lines, Tracked(l), races \subseteq races',
         \/ \E m \in Lines : Send(h, m) \/ Replay(h, m) \/ Add(h, m)
         \/ Look(h) \/ AddUnlessHeard(h) \/ AddUnlessListed(h) \/ AddMiss(h)
  PROVE  Tracked(l)'
  <1>1. UNCHANGED <<hand, step, ledger, inPass, queue, before, gone, up>>
    BY DEF Send, Replay, Add, Look, AddUnlessHeard, AddUnlessListed, AddMiss, HandlerFrame,
       worker, barging
  <1>2. req[h] = None \/ req[h].stage # "put"
    BY DEF Send, Replay, Add, Look, AddUnlessHeard, AddUnlessListed, AddMiss, Free, At
  <1>3. \E r : req' = [req EXCEPT ![h] = r]
    BY DEF Send, Replay, Add, Look, AddUnlessHeard, AddUnlessListed, AddMiss, Asks, Proceeds,
       Answers
  <1>4. \A g \in Handlers : PutsLine(g, l) => PutsLine(g, l)'
    BY <1>2, <1>3 DEF PutsLine, IInv, TypeOK
  <1>5. Elsewhere(l) => Elsewhere(l)'
    BY <1>1, <1>4 DEF Elsewhere, Queued, AtPut
  <1> QED BY <1>1, <1>5, StaysTrackedOutside DEF Open

LEMMA PutTracked ==
  ASSUME IInv, NEW h \in Handlers, NEW l \in Lines, Tracked(l), races \subseteq races', PutLine(h)
  PROVE  Tracked(l)'
  <1>1. UNCHANGED <<hand, step, ledger, inPass, before, gone, up>> /\ queue \subseteq queue'
    BY DEF PutLine, HandlerFrame, worker, barging
  <1>2. PICK it \in queue' : it.line = req[h].line
    <2>1. PICK wav \in BOOLEAN :
              queue' = queue \cup {[line |-> req[h].line, send |-> req[h].send,
                                    replay |-> req[h].replay, listed |-> req[h].replay,
                                    tries |-> 0, wav |-> wav]}
      BY DEF PutLine
    <2> DEFINE new == [line |-> req[h].line, send |-> req[h].send, replay |-> req[h].replay,
                       listed |-> req[h].replay, tries |-> 0, wav |-> wav]
    <2>2. new \in queue' /\ new.line = req[h].line
      BY <2>1
    <2> HIDE DEF new
    <2> QED BY <2>2
  <1>3. \A g \in Handlers : PutsLine(g, l) => PutsLine(g, l)' \/ l \in Queued'
    BY <1>2 DEF PutLine, Answers, PutsLine, Queued, IInv, TypeOK
  <1>4. l \in Queued => l \in Queued'
    BY <1>1 DEF Queued
  <1>5. Elsewhere(l) => Elsewhere(l)'
    BY <1>1, <1>3, <1>4 DEF Elsewhere, AtPut
  <1> QED BY <1>1, <1>5, StaysTrackedOutside DEF Open

\* An admitted line is in its handler until that has queued it.
LEMMA AdmitTracked ==
  ASSUME IInv, NEW h \in Handlers, NEW l \in Lines, Tracked(l), races \subseteq races', Admit(h)
  PROVE  Tracked(l)'
  <1> DEFINE m == req[h].line
  <1>1. /\ UNCHANGED <<queue, hand, step, before, gone, up>>
        /\ req[h] \in Request /\ req[h].stage = "admit" /\ m \in Lines
    BY DEF Admit, HandlerFrame, worker, barging, At, IInv, TypeOK, Request
  <1>2. \E r : req' = [req EXCEPT ![h] = r]
    BY DEF Admit, Proceeds, Answers
  <1>3. \A g \in Handlers : PutsLine(g, l) => PutsLine(g, l)'
    BY <1>1, <1>2 DEF PutsLine, IInv, TypeOK
  <1>4. Elsewhere(l) => Elsewhere(l)'
    BY <1>1, <1>3 DEF Elsewhere, Queued, AtPut
  <1>5. CASE UNCHANGED <<ledger, inPass>>
    BY <1>1, <1>4, <1>5, StaysTrackedOutside DEF Open
  <1>6. CASE /\ req' = [req EXCEPT ![h] = [req[h] EXCEPT !.stage = "put"]]
             /\ ledger' = [ledger EXCEPT ![m] = "queued"] /\ inPass' = [inPass EXCEPT ![m] = FALSE]
    <2>1. CASE l = m
      <3>1. PutsLine(h, l)'
        BY <1>1, <1>6, <2>1, NoneAssumption DEF PutsLine, Request, IInv, TypeOK, NoneAssumption
      <3> QED BY <3>1 DEF Tracked, Elsewhere, AtPut
    <2>2. CASE l # m
      <3>1. ledger'[l] = ledger[l] /\ inPass'[l] = inPass[l]
        BY <1>6, <2>2 DEF IInv, TypeOK
      <3> QED BY <1>1, <1>4, <3>1, StaysTrackedOutside DEF Open
    <2> QED BY <2>1, <2>2
  <1> QED BY <1>5, <1>6 DEF Admit, Proceeds

\* A line that leaves the queue leaves it for the hands of the thread that
\* will drop it in the ledger, or is noted.
LEMMA BargeTracked ==
  ASSUME IInv, Snapshots, NEW l \in Lines, Tracked(l), races \subseteq races',
         \/ Resume \/ ClearMissed \/ BargeIn \/ Stop \/ Barging
         \/ \E it \in queue : QueueRemove(it) \/ Shed(it)
         \/ Terminate \/ PutSentinel \/ Cut
  PROVE  Tracked(l)'
  <1>1. UNCHANGED <<hand, step, req, up>>
    BY DEF Resume, ClearMissed, BargeIn, Stop, Barging, BargeFlag, BargeSink, BargeBefore,
       BargePurge, BargeAfter, BargeDrop, QueueRemove, Shed, Terminate, PutSentinel, Cut,
       BargeFrame, worker
  <1>2. l \in AtPut => l \in AtPut'
    BY <1>1 DEF AtPut, PutsLine
  <1>3. CASE BargeDrop
    <2>1. l \in gone \/ (ledger'[l] = ledger[l] /\ inPass'[l] = inPass[l])
      BY <1>3 DEF BargeDrop, IInv, TypeOK
    <2>2. l \in gone => ~ Open(l)'
      BY <1>3 DEF BargeDrop, Dropped, Open
    <2>3. UNCHANGED <<queue, before>>
      BY <1>3 DEF BargeDrop
    <2>4. Open(l)' /\ Elsewhere(l) => Elsewhere(l)'
      BY <1>2, <2>2, <2>3 DEF Elsewhere, Queued
    <2> QED BY <1>1, <2>1, <2>2, <2>4, StaysTrackedOutside DEF Open
  <1>4. CASE ~ BargeDrop
    <2>1. UNCHANGED <<ledger, inPass>>
      BY <1>4 DEF Resume, ClearMissed, BargeIn, Stop, Barging, BargeFlag, BargeSink, BargeBefore,
         BargePurge, BargeAfter, QueueRemove, Shed, Terminate, PutSentinel, Cut
    <2>2. Open(l)' /\ Elsewhere(l) => Elsewhere(l)'
      <3>1. CASE Resume \/ ClearMissed \/ BargeIn \/ Stop \/ BargeFlag \/ BargeSink \/ Terminate
                 \/ Cut
        <4>1. UNCHANGED <<queue, before, gone>>
          BY <3>1 DEF Resume, ClearMissed, BargeIn, Stop, BargeFlag, BargeSink, Terminate, Cut,
             barging
        <4> QED BY <1>2, <4>1 DEF Elsewhere, Queued
      <3>2. CASE BargeBefore
        <4>1. before = {} /\ UNCHANGED <<queue, gone>>
          BY <3>2 DEF BargeBefore, Snapshots
        <4> QED BY <1>2, <4>1 DEF Elsewhere, Queued
      <3>3. CASE BargePurge
        <4>1. l \in Queued /\ l \notin Queued' => PrioOf[l] >= 3
          <5>1. l \in Queued /\ l \notin Queued' => ~ (PrioOf[l] < 3)
            BY <3>3 DEF BargePurge, Queued
          <5>2. PrioOf[l] \in 2..4
            BY ServiceAssumption DEF ServiceAssumption
          <5> QED BY <5>1, <5>2
        <4>2. l \in Queued /\ l \notin Queued' /\ l \notin before => Lost(l)'
          BY <3>3, <4>1 DEF BargePurge, Meets, Lost
        <4>3. UNCHANGED <<before, gone>>
          BY <3>3 DEF BargePurge
        <4> QED BY <1>2, <4>2, <4>3 DEF Elsewhere, Open
      <3>4. CASE BargeAfter
        <4>1. gone = {} /\ gone' = before \ Queued /\ queue' = queue
          BY <3>4 DEF BargeAfter, Snapshots
        <4> QED BY <1>2, <4>1 DEF Elsewhere, Queued
      <3>5. ASSUME NEW it \in queue, QueueRemove(it) PROVE Open(l)' /\ Elsewhere(l) => Elsewhere(l)'
        <4>1. gone = {} /\ gone' = {it.line} /\ queue' = queue \ {it} /\ before' = before
          BY <3>5 DEF QueueRemove, Snapshots
        <4> QED BY <1>2, <4>1 DEF Elsewhere, Queued
      <3>6. ASSUME NEW it \in queue, Shed(it) PROVE Open(l)' /\ Elsewhere(l) => Elsewhere(l)'
        <4>1. queue' = queue \ {it} /\ UNCHANGED <<before, gone>> /\ <<"shed", it.line>> \in races'
          BY <3>6 DEF Shed, barging, Meets
        <4>2. l \in Queued => l \in Queued' \/ Lost(l)'
          BY <4>1 DEF Queued, Lost
        <4> QED BY <1>2, <4>1, <4>2 DEF Elsewhere, Open
      <3>7. CASE PutSentinel
        <4>1. \/ queue' = queue
              \/ \E it \in queue : queue' = queue \ {it} /\ <<"made room", it.line>> \in races'
          BY <3>7 DEF PutSentinel, Meets
        <4>2. l \in Queued => l \in Queued' \/ Lost(l)'
          BY <4>1 DEF Queued, Lost
        <4>3. UNCHANGED <<before, gone>>
          BY <3>7 DEF PutSentinel, barging
        <4> QED BY <1>2, <4>2, <4>3 DEF Elsewhere, Open
      <3> QED BY <1>4, <3>1, <3>2, <3>3, <3>4, <3>5, <3>6, <3>7 DEF Barging
    <2> QED BY <1>1, <2>1, <2>2, StaysTrackedOutside DEF Open
  <1> QED BY <1>3, <1>4

LEMMA TakeTracked ==
  ASSUME IInv, NEW l \in Lines, Tracked(l), races \subseteq races',
         TakeSentinel \/ \E it \in queue : Take(it)
  PROVE  Tracked(l)'
  <1>1. UNCHANGED <<ledger, inPass, req, before, gone>> /\ step = "idle" /\ hand = None /\ up' = up
    BY DEF TakeSentinel, Take, PassFrame, barging, IInv, Carried
  <1>2. ~ InPass(l) /\ (l \in AtPut => l \in AtPut')
    BY <1>1 DEF InPass, InHand, AtPut, PutsLine
  <1>3. CASE TakeSentinel
    <2>1. queue' = queue
      BY <1>3 DEF TakeSentinel
    <2> QED BY <1>1, <1>2, <2>1, StaysTracked DEF Elsewhere, Queued, Open
  <1>4. ASSUME NEW it \in queue, Take(it) PROVE Tracked(l)'
    <2>1. queue' = queue \ {it} /\ hand' = it /\ step' = "taken"
      BY <1>4 DEF Take, Goto
    <2>2. it # None
      BY NoneAssumption DEF NoneAssumption, IInv, TypeOK
    <2>3. l = it.line => InPass(l)'
      BY <2>1, <2>2 DEF InPass, InHand
    <2>4. l \in Queued => l \in Queued' \/ l = it.line
      BY <2>1 DEF Queued
    <2> QED BY <1>1, <1>2, <2>3, <2>4, StaysTracked DEF Elsewhere, Open
  <1> QED BY <1>3, <1>4

LEMMA TakenTracked ==
  ASSUME IInv, NEW l \in Lines, Tracked(l), races \subseteq races', Taken
  PROVE  Tracked(l)'
  <1>1. /\ UNCHANGED <<ledger, req, before, gone, queue, hand, up>> /\ hand # None
        /\ inPass' = [inPass EXCEPT ![Line] = ledger[Line] # "unknown"]
    BY DEF Taken, PassFrame, barging, IInv, Carried
  <1>2. Elsewhere(l) => Elsewhere(l)'
    BY <1>1 DEF Elsewhere, Queued, AtPut, PutsLine
  <1>3. Open(l)' /\ l \in InHand => InPass(l)'
    BY <1>1 DEF Open, InPass, InHand, Line, IInv, TypeOK
  <1> QED BY <1>1, <1>2, <1>3, StaysTracked DEF Open, InPass

LEMMA PutBackTracked ==
  ASSUME IInv, NEW l \in Lines, Tracked(l), races \subseteq races', PutBack
  PROVE  Tracked(l)'
  <1>1. UNCHANGED <<ledger, req, before, gone, up>> /\ queue' = queue \cup {hand}
    BY DEF PutBack, PassFrame, barging
  <1>2. l \in InHand => l \in Queued'
    BY <1>1 DEF InHand, Queued
  <1>3. Elsewhere(l) \/ InPass(l) => Elsewhere(l)'
    BY <1>1, <1>2 DEF Elsewhere, InPass, Queued, AtPut, PutsLine
  <1> QED BY <1>1, <1>3, StaysTracked DEF Open

LEMMA WorkerTracked ==
  ASSUME IInv, NEW l \in Lines, Tracked(l), races \subseteq races',
         \/ GoAhead \/ ResetFlags \/ Check \/ PreSynth \/ Synth \/ Ready \/ GateCheck
         \/ EnterSink \/ Gate \/ HoldEnds \/ Start \/ Popen \/ SoundEnds \/ Played \/ AsideMiss
         \/ Forget
  PROVE  Tracked(l)'
  <1>1. UNCHANGED <<up, queue, req, barging, hand, inPass>> /\ step # "taken"
    BY DEF GoAhead, ResetFlags, Check, PreSynth, Synth, Ready, GateCheck, EnterSink, Gate,
       HoldEnds, Start, Popen, SoundEnds, Played, AsideMiss, Forget, PassFrame
  <1>2. ledger' = ledger \/ ledger' = [ledger EXCEPT ![Line] = Playing(@)]
    BY DEF GoAhead, ResetFlags, Check, PreSynth, Synth, Ready, GateCheck, EnterSink, Gate,
       HoldEnds, Start, Popen, SoundEnds, Played, AsideMiss, Forget
  <1>3. ledger'[l] \in {"queued", "playing"} => ledger[l] \in {"queued", "playing"}
    BY <1>2 DEF Playing, IInv, TypeOK
  <1> QED BY <1>1, <1>3, StaysTrackedInPass DEF Open

\* Recorded as heard, set aside or settled: the ledger calls the line queued
\* or playing no more, unless it waits elsewhere.
LEMMA LetsGoTracked ==
  ASSUME IInv, NEW l \in Lines, Tracked(l), races \subseteq races',
         RecordDone \/ AsideLedger \/ Settle
  PROVE  Tracked(l)'
  <1>1. /\ UNCHANGED <<up, queue, req, before, gone, hand>> /\ step # "taken"
        /\ inPass' = [inPass EXCEPT ![Line] = FALSE]
    BY DEF RecordDone, AsideLedger, Settle, PassFrame, barging
  <1>2. Elsewhere(l) => Elsewhere(l)'
    BY <1>1 DEF Elsewhere, Queued, AtPut, PutsLine
  <1>3. CASE l # Line
    <2>1. ledger'[l] = ledger[l] /\ inPass'[l] = inPass[l]
      BY <1>1, <1>3 DEF RecordDone, AsideLedger, Settle, IInv, TypeOK
    <2>2. l \notin InHand
      BY <1>3 DEF InHand, Line
    <2> QED BY <1>1, <1>2, <2>1, <2>2, StaysTracked DEF Open, InPass
  <1>4. CASE l = Line
    <2>1. CASE RecordDone \/ AsideLedger
      <3>1. ledger'[l] = Done(ledger[l]) \/ ledger'[l] = Dropped(ledger[l])
        BY <1>4, <2>1 DEF RecordDone, AsideLedger, IInv, TypeOK
      <3>2. ~ Open(l)'
        BY <3>1 DEF Open, Done, Dropped, IInv, TypeOK, States
      <3> QED BY <3>2 DEF Tracked
    <2>2. CASE Settle
      <3>1. ledger'[l] = Settled(ledger[l], inPass[l])
        BY <1>4, <2>2 DEF Settle, IInv, TypeOK
      <3>2. Open(l)' => ~ inPass[l] /\ ledger[l] \in {"queued", "playing"}
        BY <3>1 DEF Open, Settled
      <3> QED BY <1>1, <1>2, <3>2, StaysTracked DEF Open, InPass
    <2> QED BY <2>1, <2>2 DEF RecordDone, AsideLedger, Settle
  <1> QED BY <1>3, <1>4

LEMMA RequeueTracked ==
  ASSUME IInv, NEW l \in Lines, Tracked(l), races \subseteq races', RequeuePut \/ RequeueLedger
  PROVE  Tracked(l)'
  <1>1. UNCHANGED <<up, req, before, gone, hand>> /\ step # "taken" /\ queue \subseteq queue'
    BY DEF RequeuePut, RequeueLedger, PassFrame, barging
  <1>2. Elsewhere(l) => Elsewhere(l)'
    BY <1>1 DEF Elsewhere, Queued, AtPut, PutsLine
  <1>3. CASE RequeueLedger /\ l = Line
    <2>1. l \in Queued' \/ Lost(l)'
      BY <1>3 DEF RequeueLedger, Meets, Lost, Queued
    <2> QED BY <2>1 DEF Tracked, Elsewhere, Open
  <1>4. CASE RequeuePut \/ l # Line
    <2>1. ledger'[l] = ledger[l] /\ inPass'[l] = inPass[l]
      BY <1>4 DEF RequeuePut, RequeueLedger, IInv, TypeOK
    <2>2. InPass(l) => InPass(l)'
      BY <1>1, <2>1 DEF InPass, InHand
    <2> QED BY <1>1, <1>2, <2>1, <2>2, StaysTracked DEF Open
  <1> QED BY <1>3, <1>4

LEMMA FinallyTracked ==
  ASSUME IInv, NEW l \in Lines, Tracked(l), races \subseteq races', Finally
  PROVE  Tracked(l)'
  <1>1. UNCHANGED <<ledger, up, queue, req, before, gone>> /\ step = "finally"
    BY DEF Finally, PassFrame, barging
  <1>2. ~ InPass(l)
    BY <1>1 DEF InPass, InHand, IInv, Spent
  <1>3. Elsewhere(l) => Elsewhere(l)'
    BY <1>1 DEF Elsewhere, Queued, AtPut, PutsLine
  <1> QED BY <1>1, <1>2, <1>3, StaysTracked DEF Open

LEMMA TrackedStep ==
  ASSUME IInv, Snapshots, [Next]_vars, NEW l \in Lines, Tracked(l) PROVE Tracked(l)'
  <1> USE RacesGrow
  <1>1. CASE UNCHANGED vars
    <2>1. UNCHANGED <<up, queue, req, before, gone, hand, step, ledger, inPass>>
      BY <1>1 DEF vars, worker, barging
    <2>2. Elsewhere(l) => Elsewhere(l)'
      BY <2>1 DEF Elsewhere, Queued, AtPut, PutsLine
    <2> QED BY <2>1, <2>2, StaysTrackedOutside DEF Open
  <1>2. ASSUME NEW h \in Handlers, NEW m \in Lines, Send(h, m) \/ Replay(h, m) \/ Add(h, m)
        PROVE  Tracked(l)'
    BY <1>2, AsksTracked
  <1>3. ASSUME NEW h \in Handlers, Handler(h) PROVE Tracked(l)'
    BY <1>3, AsksTracked, AdmitTracked, PutTracked DEF Handler
  <1>4. CASE \/ Resume \/ ClearMissed \/ BargeIn \/ Stop \/ Barging
             \/ \E it \in queue : QueueRemove(it) \/ Shed(it)
             \/ Terminate \/ PutSentinel \/ Cut
    BY <1>4, BargeTracked
  <1>5. CASE TakeSentinel \/ \E it \in queue : Take(it)
    BY <1>5, TakeTracked
  <1>6. CASE Pass
    BY <1>6, TakenTracked, PutBackTracked, WorkerTracked, LetsGoTracked, RequeueTracked,
       FinallyTracked DEF Pass
  <1>7. CASE Exit \/ Crash
    BY <1>7 DEF Exit, Crash, Gone, Tracked, Open
  <1>8. CASE Restart
    BY <1>8 DEF Restart, Reloaded, Tracked, Open
  <1> QED BY <1>1, <1>2, <1>3, <1>4, <1>5, <1>6, <1>7, <1>8 DEF Next, Worker, Ends

\* The ledger tells the truth (line_ledger.py), for every set of lines and
\* handlers: while the daemon runs, an id it calls queued or playing, and so
\* refuses, waits or is in hand, and is not stuck so with nothing left to
\* play, save for the ways out of the queue that no ledger write follows.
THEOREM LedgerIsTrue == Spec => []LedgerTellsTheTruth
  <1> DEFINE Inv == IInv /\ Snapshots /\ \A l \in Lines : Tracked(l)
  <1>1. Init => Inv
    BY InitIInv DEF Init, Snapshots, Tracked, Open
  <1>2. Inv /\ [Next]_vars => Inv'
    BY IInvStep, SnapshotsStep, TrackedStep
  <1>3. Inv => LedgerTellsTheTruth
    BY DEF LedgerTellsTheTruth, Except, Tracked, Open, Lost, Elsewhere, InPass, OnItsWay
  <1> QED BY <1>1, <1>2, <1>3, PTL DEF Spec
=============================================================================
