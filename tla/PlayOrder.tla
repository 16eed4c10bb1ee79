------------------------------ MODULE PlayOrder ------------------------------
(***************************************************************************)
(* What the narrator's queue promises, without bands, locks or threads:    *)
(* one sequence, in the order it will play (PriorityArbiter.waiting).  A   *)
(* line is put behind every line at least as urgent, the next line played  *)
(* is the first of the sequence, narration is the only thing that is ever  *)
(* shed or purged, and an edit from the speech control never carries a     *)
(* line across the edge of its priority.                                   *)
(***************************************************************************)
EXTENDS Integers, Sequences, SequencesExt

CONSTANTS Items,    \* what can be queued
          PrioOf,   \* Items -> 1..4: 1 interrupt, 2 explicit, 3 autoplay, 4 narration
          NoItem    \* not an item: nothing has been taken yet

VARIABLES order,    \* what waits, first to play first
          last,     \* the item most recently taken to play
          edits     \* how often the control has edited what waits

vars == <<order, last, edits>>

Droppable(i) == PrioOf[i] >= 3
Sorted(s) == \A j, k \in DOMAIN s : j < k => PrioOf[s[j]] <= PrioOf[s[k]]

Init == order = <<>> /\ last = NoItem /\ edits = 0

\* Behind every line at least as urgent, before every other.
Put(i) ==
    /\ \E k \in 1..(Len(order) + 1) :
           /\ \A j \in DOMAIN order : j < k <=> PrioOf[order[j]] <= PrioOf[i]
           /\ order' = InsertAt(order, k, i)
    /\ UNCHANGED <<last, edits>>

\* The one place that gives way when the queue is full: the oldest line of
\* the least urgent narration.
Oldest(k) ==
    /\ \A j \in DOMAIN order : PrioOf[order[j]] <= PrioOf[order[k]]
    /\ \A j \in 1..(k - 1) : PrioOf[order[j]] < PrioOf[order[k]]

Shed ==
    /\ \E k \in DOMAIN order : /\ Oldest(k) /\ Droppable(order[k])
                               /\ order' = RemoveAt(order, k)
    /\ UNCHANGED <<last, edits>>

\* Narration put on a full queue: it goes last, as narration does.
PutShedding(i) ==
    /\ \E k \in DOMAIN order : /\ Oldest(k) /\ PrioOf[order[k]] = 4 /\ PrioOf[i] = 4
                               /\ order' = Append(RemoveAt(order, k), i)
    /\ UNCHANGED <<last, edits>>

Take == order # <<>> /\ last' = Head(order) /\ order' = Tail(order) /\ UNCHANGED edits

Purge ==
    /\ \E k \in 0..Len(order) : /\ \A j \in DOMAIN order : j > k <=> Droppable(order[j])
                                /\ order' = SubSeq(order, 1, k)
    /\ UNCHANGED <<last, edits>>

Edited == edits' = edits + 1 /\ UNCHANGED last

\* r is what is left of s without the items in S, in the order it had.
Thinned(s, S, r) ==
    \E from \in [DOMAIN r -> DOMAIN s] :
        /\ \A j, k \in DOMAIN r : j < k => from[j] < from[k]
        /\ \A j \in DOMAIN r : r[j] = s[from[j]]
        /\ \A k \in DOMAIN s : s[k] \notin S <=> \E j \in DOMAIN r : from[j] = k

TakeOut(S) == Edited /\ Thinned(order, S, order')

Distance(a, b) == IF a < b THEN b - a ELSE a - b

\* Moved as near to index `to` as its priority allows.
Move(i, to) ==
    /\ Edited
    /\ \E at \in DOMAIN order :
           LET rest == RemoveAt(order, at)
               fits == {k \in 0..Len(rest) : Sorted(InsertAt(rest, k + 1, i))}
           IN  /\ order[at] = i
               /\ \E k \in fits : /\ \A other \in fits : Distance(k, to) <= Distance(other, to)
                                  /\ order' = InsertAt(rest, k + 1, i)

Next == \/ \E i \in Items \ Range(order) : Put(i) \/ PutShedding(i)
        \/ Take \/ Shed \/ Purge
        \/ \E S \in SUBSET Range(order) : TakeOut(S)
        \/ \E i \in Range(order), to \in -1..(Len(order) + 1) : Move(i, to)

Spec == Init /\ [][Next]_vars
=============================================================================
