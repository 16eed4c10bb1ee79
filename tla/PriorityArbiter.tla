--------------------------- MODULE PriorityArbiter ---------------------------
(***************************************************************************)
(* The four-band queue of the narrator daemon (priority_arbiter.py): the   *)
(* arbiter, whose bands are guarded by its lock, and the queue.Queue       *)
(* facade over it, whose counter of unfinished tasks is guarded by another *)
(* lock with a condition.  A put counts the item under the condition and   *)
(* only then appends it under the arbiter's lock; whatever removes items   *)
(* does so under the arbiter's lock and only then, in a callback, corrects *)
(* the counter and wakes the putters.  Each of those halves is a step of   *)
(* its own here, so that the threads of the daemon interleave between      *)
(* them: one thread per spoken line (a socket handler), the transcript     *)
(* tail that narrates, the worker that plays, and the control's handlers.  *)
(***************************************************************************)
EXTENDS Integers, Sequences, SequencesExt, FiniteSets

CONSTANTS Lines,        \* lines put by socket handlers: put(block=True)
          Phases,       \* narration put by the tail: put_nowait, shedding when full
          Worker,       \* the thread that plays
          Controllers,  \* threads that purge (barge-in) or edit the queue
          NoItem,
          PrioOf,       \* Lines \cup Phases -> 1..4
          MaxSize,      \* max_queue_depth; 0 is unbounded
          Slow,         \* the lines whose playback may time out
          MaxRetries,   \* timeout_retries
          MaxPutBacks,  \* bound: how often a waiting retry is put back unchanged
          MaxPurges     \* bound: purges and edits in one behaviour

Items == Lines \cup Phases
Putters == Items \cup {Worker}
Threads == Putters \cup Controllers

ASSUME ArbiterAssumption ==
    /\ Lines \cap Phases = {} /\ Worker \notin Items
    /\ Controllers \cap Putters = {}
    /\ NoItem \notin Items
    /\ PrioOf \in [Items -> 1..4]
    /\ \A i \in Phases : PrioOf[i] = 4
    /\ Slow \subseteq Lines
    /\ MaxSize \in Nat /\ MaxRetries \in Nat
    /\ MaxPutBacks \in Nat /\ MaxPurges \in Nat

VARIABLES
    band,        \* _p1.._p4: [1..4 -> sequence of items], under _lock
    active,      \* _active_item: the item most recently dequeued, under _lock
    unfinished,  \* _unfinished_tasks, under _cond
    call,        \* where each thread is in its put
    callback,    \* how many removed items each thread has yet to report
    pass,        \* where the worker is in its pass over the active item
    retries,     \* QueueItem.retries
    putBacks, purges, edits

vars == <<band, active, unfinished, call, callback, pass, retries, putBacks, purges, edits>>

TypeOK ==
    /\ band \in [1..4 -> Seq(Items)]
    /\ active \in Items \cup {NoItem}
    /\ unfinished \in Nat
    /\ call \in [Putters -> {"new", "waiting", "woken", "counted", "full", "retry",
                             "returned", "dropped"}]
    /\ callback \in [Threads -> Nat]
    /\ pass \in {"idle", "taken", "playing", "retrying", "putting back", "ended"}
    /\ retries \in [Items -> 0..MaxRetries]
    /\ putBacks \in 0..MaxPutBacks /\ purges \in 0..MaxPurges /\ edits \in 0..MaxPurges

Init ==
    /\ band = [p \in 1..4 |-> <<>>]
    /\ active = NoItem
    /\ unfinished = 0
    /\ call = [p \in Putters |-> IF p = Worker THEN "returned" ELSE "new"]
    /\ callback = [t \in Threads |-> 0]
    /\ pass = "idle"
    /\ retries = [i \in Items |-> 0]
    /\ putBacks = 0 /\ purges = 0 /\ edits = 0

-----------------------------------------------------------------------------
(* The bands *)

Depth == Len(band[1]) + Len(band[2]) + Len(band[3]) + Len(band[4])
Waiting == Range(band[1]) \cup Range(band[2]) \cup Range(band[3]) \cup Range(band[4])

\* (A mistake to rule out: every band is capped.)
EveryBand(i) == TRUE

\* Only narration is capped.
Low(i) == PrioOf[i] >= 4
AtCapacity == MaxSize > 0 /\ Depth >= MaxSize
Highest == CHOOSE p \in 1..4 : band[p] # <<>> /\ \A q \in 1..(p - 1) : band[q] = <<>>

\* (A mistake to rule out: autoplay gives way before narration.)
AutoplayFirst == IF band[3] # <<>> THEN 3 ELSE 4

\* _shed_oldest_low_priority_locked: narration gives way before autoplay,
\* and nothing more urgent ever does.
ShedBand == IF band[4] # <<>> THEN 4 ELSE 3
CanShed == band[ShedBand] # <<>>

Notified(c) == [p \in Putters |-> IF c[p] = "waiting" THEN "woken" ELSE c[p]]

-----------------------------------------------------------------------------
(* QueueProxyFacade.put, in its two halves *)

\* The worker puts back the item in hand; every other putter its own.
Argument(p) == IF p = Worker THEN active ELSE p

\* Under _cond: wait for room, or count the item.  Only narration waits.
CountOrWait(p) ==
    /\ call[p] \in {"new", "woken"} /\ p \notin Phases
    /\ IF Low(Argument(p)) /\ AtCapacity
       THEN call' = [call EXCEPT ![p] = "waiting"] /\ UNCHANGED unfinished
       ELSE call' = [call EXCEPT ![p] = "counted"] /\ unfinished' = unfinished + 1
    /\ UNCHANGED <<band, active, callback, pass, retries, putBacks, purges, edits>>

\* (A mistake to rule out: whoever has seen room appends.)
SeenRoom(p) == FALSE

NoRoomLeft(p) == MaxSize > 0 /\ Len(band[4]) >= MaxSize /\ PrioOf[Argument(p)] = 4

\* Under _lock: append to the item's band, shedding inside the band when
\* another put filled it since the count.
Enqueue(p) ==
    /\ call[p] = "counted"
    /\ LET i == Argument(p)
           kept == IF NoRoomLeft(p) THEN Tail(band[4]) ELSE band[PrioOf[i]]
       IN  band' = [band EXCEPT ![PrioOf[i]] = Append(kept, i)]
    /\ callback' = [callback EXCEPT ![p] = IF NoRoomLeft(p) THEN 1 ELSE 0]
    /\ call' = [call EXCEPT ![p] = "returned"]
    /\ pass' = IF p # Worker THEN pass ELSE IF pass = "retrying" THEN "ended" ELSE "idle"
    /\ putBacks' = IF p = Worker /\ pass = "putting back" THEN putBacks + 1 ELSE putBacks
    /\ UNCHANGED <<active, unfinished, retries, purges, edits>>

\* _enqueue_item: put_nowait; on Full shed the oldest, then put_nowait once
\* more and give the new phase up if there is still no room.  _queue_lock
\* lets one thread narrate at a time.
TailFree(i) == \A j \in Phases \ {i} :
                   call[j] \in {"new", "dropped"} \/ (call[j] = "returned" /\ callback[j] = 0)

PutNowait(i) ==
    /\ i \in Phases /\ call[i] \in {"new", "retry"} /\ callback[i] = 0 /\ TailFree(i)
    /\ IF AtCapacity
       THEN /\ call' = [call EXCEPT ![i] = IF @ = "new" THEN "full" ELSE "dropped"]
            /\ UNCHANGED unfinished
       ELSE call' = [call EXCEPT ![i] = "counted"] /\ unfinished' = unfinished + 1
    /\ UNCHANGED <<band, active, callback, pass, retries, putBacks, purges, edits>>

\* (A mistake to rule out: the shed line is finished by the caller too.)
ShedAndFinished(i) ==
    /\ call[i] = "full"
    /\ call' = [call EXCEPT ![i] = "retry"]
    /\ IF CanShed
       THEN /\ band' = [band EXCEPT ![ShedBand] = Tail(@)]
            /\ callback' = [callback EXCEPT ![i] = 1]
            /\ unfinished' = IF unfinished > 0 THEN unfinished - 1 ELSE 0
       ELSE UNCHANGED <<band, callback, unfinished>>
    /\ UNCHANGED <<active, pass, retries, putBacks, purges, edits>>

ShedOldest(i) ==
    /\ call[i] = "full"
    /\ call' = [call EXCEPT ![i] = "retry"]
    /\ IF CanShed
       THEN /\ band' = [band EXCEPT ![ShedBand] = Tail(@)]
            /\ callback' = [callback EXCEPT ![i] = 1]
       ELSE UNCHANGED <<band, callback>>
    /\ UNCHANGED <<active, unfinished, pass, retries, putBacks, purges, edits>>

\* (A mistake to rule out: a purge wakes nobody.)
PurgedUnnoticed(t) ==
    /\ callback[t] > 0
    /\ unfinished' = IF unfinished > callback[t] THEN unfinished - callback[t] ELSE 0
    /\ callback' = [callback EXCEPT ![t] = 0]
    /\ UNCHANGED <<band, active, call, pass, retries, putBacks, purges, edits>>

\* QueueProxyFacade._on_purged, run by whichever thread removed the items.
OnPurged(t) ==
    /\ callback[t] > 0
    /\ unfinished' = IF unfinished > callback[t] THEN unfinished - callback[t] ELSE 0
    /\ callback' = [callback EXCEPT ![t] = 0]
    /\ call' = Notified(call)
    /\ UNCHANGED <<band, active, pass, retries, putBacks, purges, edits>>

-----------------------------------------------------------------------------
(* The worker: get, the pass over the item, task_done *)

Ready == callback[Worker] = 0 /\ call[Worker] = "returned"

\* PriorityArbiter.dequeue, under _lock.
Dequeue ==
    /\ pass = "idle" /\ Ready /\ Depth > 0
    /\ active' = Head(band[Highest])
    /\ band' = [band EXCEPT ![Highest] = Tail(@)]
    /\ pass' = "taken"
    /\ UNCHANGED <<unfinished, call, callback, retries, putBacks, purges, edits>>

\* (A mistake to rule out: a get wakes nobody.)
GetUnnoticed ==
    /\ pass = "taken"
    /\ pass' = "playing"
    /\ UNCHANGED <<band, active, unfinished, call, callback, retries, putBacks, purges, edits>>

\* The end of QueueProxyFacade.get: the putters learn of the room.
GetReturns ==
    /\ pass = "taken"
    /\ call' = Notified(call)
    /\ pass' = "playing"
    /\ UNCHANGED <<band, active, unfinished, callback, retries, putBacks, purges, edits>>

\* The pass ended with the line played, failed or set aside.
Finish ==
    /\ pass = "playing" /\ Ready
    /\ pass' = "ended"
    /\ UNCHANGED <<band, active, unfinished, call, callback, retries, putBacks, purges, edits>>

\* (A mistake to rule out: a line that timed out is retried for ever.)
RetryForEver ==
    /\ pass = "playing" /\ Ready
    /\ active \in Slow
    /\ retries' = [retries EXCEPT ![active] = @ + 1]
    /\ call' = [call EXCEPT ![Worker] = "new"]
    /\ pass' = "retrying"
    /\ UNCHANGED <<band, active, unfinished, callback, putBacks, purges, edits>>

\* _retry: the line timed out, and the worker itself puts it in the queue again.
Retry ==
    /\ pass = "playing" /\ Ready
    /\ active \in Slow /\ retries[active] < MaxRetries
    /\ retries' = [retries EXCEPT ![active] = @ + 1]
    /\ call' = [call EXCEPT ![Worker] = "new"]
    /\ pass' = "retrying"
    /\ UNCHANGED <<band, active, unfinished, callback, putBacks, purges, edits>>

\* _await_load: a retry interrupted while it waits for the load is put back
\* and the worker goes on without task_done.
PutBack ==
    /\ pass = "playing" /\ Ready
    /\ retries[active] > 0 /\ putBacks < MaxPutBacks
    /\ call' = [call EXCEPT ![Worker] = "new"]
    /\ pass' = "putting back"
    /\ UNCHANGED <<band, active, unfinished, callback, retries, putBacks, purges, edits>>

TaskDone ==
    /\ pass = "ended" /\ Ready
    /\ unfinished' = IF unfinished > 0 THEN unfinished - 1 ELSE 0
    /\ call' = IF unfinished = 1 THEN Notified(call) ELSE call
    /\ pass' = "idle"
    /\ UNCHANGED <<band, active, callback, retries, putBacks, purges, edits>>

-----------------------------------------------------------------------------
(* Purges and edits *)

Free(t) == callback[t] = 0 /\ purges + edits < MaxPurges

\* purge_lower_queues: a barge-in empties both narration bands.
PurgeLowerQueues(t) ==
    /\ Free(t) /\ Len(band[3]) + Len(band[4]) > 0
    /\ callback' = [callback EXCEPT ![t] = Len(band[3]) + Len(band[4])]
    /\ band' = [band EXCEPT ![3] = <<>>, ![4] = <<>>]
    /\ purges' = purges + 1
    /\ UNCHANGED <<active, unfinished, call, pass, retries, putBacks, edits>>

\* What is left of s without the items in S, in the order it had.
Without(s, S) ==
    LET kept[n \in 0..Len(s)] == IF n = 0 THEN <<>>
                                 ELSE IF s[n] \in S THEN kept[n - 1]
                                 ELSE Append(kept[n - 1], s[n])
    IN  kept[Len(s)]

\* remove_where: the waiting lines a match accepts, from every band at once.
RemoveWhere(t, S) ==
    /\ Free(t) /\ S # {}
    /\ band' = [p \in 1..4 |-> Without(band[p], S)]
    /\ callback' = [callback EXCEPT ![t] = Depth - Len(band'[1]) - Len(band'[2])
                                                 - Len(band'[3]) - Len(band'[4])]
    /\ edits' = edits + 1
    /\ UNCHANGED <<active, unfinished, call, pass, retries, putBacks, purges>>

\* How much plays before band p does.
Ahead(q, p) == IF q < p THEN Len(band[q]) ELSE 0
Before(p) == Ahead(1, p) + Ahead(2, p) + Ahead(3, p)
Clamped(n, low, high) == IF n < low THEN low ELSE IF n > high THEN high ELSE n

\* (A mistake to rule out: an index into the play order taken for one into
\* the band.)
MoveWithinBand(p, at, to) ==
    LET rest == RemoveAt(band[p], at)
    IN  [band EXCEPT ![p] = InsertAt(rest, Clamped(to, 0, Len(rest)) + 1, band[p][at])]

\* move: from its place `at` in band p to index `to` of the play order,
\* stopping at the edge of the band.
MoveTo(p, at, to) ==
    LET rest == RemoveAt(band[p], at)
    IN  [band EXCEPT ![p] = InsertAt(rest, Clamped(to - Before(p), 0, Len(rest)) + 1, band[p][at])]

Move(t, i, to) ==
    /\ Free(t)
    /\ \E p \in 1..4 : \E at \in DOMAIN band[p] : band[p][at] = i /\ band' = MoveTo(p, at, to)
    /\ edits' = edits + 1
    /\ UNCHANGED <<active, unfinished, call, callback, pass, retries, putBacks, purges>>

-----------------------------------------------------------------------------
PutStep(p) == CountOrWait(p) \/ PutNowait(p) \/ ShedOldest(p) \/ Enqueue(p)
WorkerStep == Dequeue \/ GetReturns \/ Finish \/ Retry \/ PutBack \/ TaskDone

Next ==
    \/ \E p \in Putters : PutStep(p)
    \/ \E t \in Threads : OnPurged(t)
    \/ WorkerStep
    \/ \E t \in Controllers :
           \/ PurgeLowerQueues(t)
           \/ \E S \in SUBSET Waiting : RemoveWhere(t, S)
           \/ \E i \in Waiting, to \in -1..Depth : Move(t, i, to)

Spec == Init /\ [][Next]_vars

\* Every thread the daemon has started keeps running; what the control and
\* the barge-ins do is up to him.  A pass over a line ends, since every wait
\* in it has a budget.
Fairness ==
    /\ \A p \in Putters : WF_vars(PutStep(p))
    /\ \A t \in Threads : WF_vars(OnPurged(t))
    /\ WF_vars(WorkerStep)

FairSpec == Spec /\ Fairness

-----------------------------------------------------------------------------
(* Properties *)

Counted == {p \in Putters : call[p] = "counted"}
Unreported == UNION {{t} \X (1..callback[t]) : t \in Threads}
InHand == IF pass = "idle" THEN 0 ELSE 1

\* What still has to be accounted for: lines waiting, in hand, counted but
\* not yet appended, and removed but not yet reported.
Outstanding == Depth + InHand + Cardinality(Counted) + Cardinality(Unreported)

\* The counter is the work outstanding, however the halves of puts, purges
\* and passes interleave, so join() never returns while a line waits or
\* plays.  The one thing it is over by is the retries _await_load put back,
\* which are counted twice and finished once.
UnfinishedAccounted == unfinished = Outstanding + putBacks

\* max_queue_depth really caps the narration band, although two handlers
\* may both have seen room before either appended (PriorityArbiter.enqueue
\* sheds inside the band).
NarrationCapped == MaxSize > 0 => Len(band[4]) <= MaxSize

\* A put blocked on a full queue is never forgotten: while one sleeps, the
\* queue is full or some thread that made room has yet to wake it.
NoLostWakeup ==
    (\E p \in Putters : call[p] = "waiting") =>
        AtCapacity \/ pass = "taken" \/ \E t \in Threads : callback[t] > 0

\* A socket handler that blocks on a full queue answers in the end.
BlockedPutReturns == \A i \in Lines : call[i] = "waiting" ~> call[i] = "returned"

\* A line in the queue is taken to play (or purged, or removed) in the end:
\* the worker never stops taking, whatever it does with a line that timed
\* out ("late rather than not at all", ADR-019).
QueuedLineIsTaken == \A i \in Lines : i \in Waiting ~> i \notin Waiting

\* The queue plays in the order PlayOrder promises.
Order == INSTANCE PlayOrder
             WITH order <- band[1] \o band[2] \o band[3] \o band[4], last <- active
PlaysInOrder == Order!Spec

\* A moved line ends as near as its priority allows to the place in the play
\* order that was asked for, whatever moved or came meanwhile.
MovesAsAsked ==
    [][\A t \in Controllers, i \in Items, to \in -1..Cardinality(Items) :
          edits' # edits /\ Move(t, i, to) => Order!Move(i, to)]_vars
=============================================================================
