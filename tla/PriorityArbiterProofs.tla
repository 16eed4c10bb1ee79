------------------------ MODULE PriorityArbiterProofs ------------------------
(***************************************************************************)
(* Theorems about PriorityArbiter, for any lines, threads, priorities, cap *)
(* and bounds: the counter of unfinished tasks is the work outstanding     *)
(* (UnfinishedAccounted), the narration band is capped (NarrationCapped),  *)
(* and no put that sleeps is forgotten (NoLostWakeup).                     *)
(*                                                                         *)
(* They rest on one another and on this: the worker's own put is of the    *)
(* item in hand, in exactly the steps that put one (Carried); a thread     *)
(* that has still to append or shed has nothing to report (Fresh), so that *)
(* a callback never runs over another that waits; and those that have      *)
(* counted, or have to report, are few enough to count (Few).              *)
(***************************************************************************)
EXTENDS PriorityArbiter, SequenceTheorems, FiniteSetTheorems, WellFoundedInduction, TLAPS

(* An item taken out of a sequence, or put in. *)

LEMMA RemoveAtSeq ==
  ASSUME NEW T, NEW s \in Seq(T), NEW at \in 1..Len(s)
  PROVE  /\ RemoveAt(s, at) \in Seq(T)
         /\ Len(RemoveAt(s, at)) = Len(s) - 1
         /\ \A j \in 1..(Len(s) - 1) : RemoveAt(s, at)[j] = IF j < at THEN s[j] ELSE s[j + 1]
  <1> DEFINE a == SubSeq(s, 1, at - 1)
             b == SubSeq(s, at + 1, Len(s))
  <1>0. Len(s) \in Nat /\ \A i \in 1..Len(s) : s[i] \in T
    BY LenProperties
  <1>1. a \in Seq(T) /\ Len(a) = at - 1 /\ \A i \in 1..(at - 1) : a[i] = s[i]
    <2>1. 1 \in Int /\ at - 1 \in Int /\ \A i \in 1..(at - 1) : s[i] \in T
      BY <1>0
    <2>2. Len(a) = IF 1 <= at - 1 THEN at - 1 - 1 + 1 ELSE 0
      BY <2>1, SubSeqProperties
    <2>3. \A i \in 1..(at - 1 - 1 + 1) : a[i] = s[1 + i - 1]
      BY <2>1, SubSeqProperties
    <2>4. a \in Seq(T)
      BY <2>1, SubSeqProperties
    <2> QED BY <1>0, <2>2, <2>3, <2>4
  <1>2. b \in Seq(T) /\ Len(b) = Len(s) - at /\ \A i \in 1..(Len(s) - at) : b[i] = s[at + i]
    <2>1. at + 1 \in Int /\ Len(s) \in Int /\ \A i \in (at + 1)..Len(s) : s[i] \in T
      BY <1>0
    <2>2. Len(b) = IF at + 1 <= Len(s) THEN Len(s) - (at + 1) + 1 ELSE 0
      BY <2>1, SubSeqProperties
    <2>3. \A i \in 1..(Len(s) - (at + 1) + 1) : b[i] = s[(at + 1) + i - 1]
      BY <2>1, SubSeqProperties
    <2>4. b \in Seq(T)
      BY <2>1, SubSeqProperties
    <2> QED BY <1>0, <2>2, <2>3, <2>4
  <1>3. RemoveAt(s, at) = a \o b
    BY DEF RemoveAt
  <1> HIDE DEF a, b
  <1>4. /\ a \o b \in Seq(T) /\ Len(a \o b) = Len(a) + Len(b)
        /\ \A i \in 1..(Len(a) + Len(b)) : (a \o b)[i] = IF i <= Len(a) THEN a[i] ELSE b[i - Len(a)]
    BY <1>1, <1>2, ConcatProperties
  <1>5. \A j \in 1..(Len(s) - 1) : (a \o b)[j] = IF j < at THEN s[j] ELSE s[j + 1]
    <2> TAKE j \in 1..(Len(s) - 1)
    <2>1. CASE j < at
      BY <1>0, <1>1, <1>2, <1>4, <2>1
    <2>2. CASE ~ (j < at)
      <3>1. j - Len(a) \in 1..(Len(s) - at) /\ at + (j - Len(a)) = j + 1
        BY <1>0, <1>1, <2>2
      <3>2. b[j - Len(a)] = s[j + 1]
        BY <1>2, <3>1
      <3>3. (a \o b)[j] = b[j - Len(a)]
        BY <1>0, <1>1, <1>2, <1>4, <2>2
      <3> QED BY <1>0, <2>2, <3>2, <3>3
    <2> QED BY <2>1, <2>2
  <1> QED BY <1>0, <1>1, <1>2, <1>3, <1>4, <1>5

LEMMA InsertAtSeq ==
  ASSUME NEW T, NEW s \in Seq(T), NEW k \in 1..(Len(s) + 1), NEW e \in T
  PROVE  /\ InsertAt(s, k, e) \in Seq(T)
         /\ Len(InsertAt(s, k, e)) = Len(s) + 1
         /\ \A j \in 1..(Len(s) + 1) :
                InsertAt(s, k, e)[j] = IF j < k THEN s[j] ELSE IF j = k THEN e ELSE s[j - 1]
  <1> DEFINE a == SubSeq(s, 1, k - 1)
             b == SubSeq(s, k, Len(s))
             m == <<e>>
  <1>0. Len(s) \in Nat /\ \A i \in 1..Len(s) : s[i] \in T
    BY LenProperties
  <1>1. a \in Seq(T) /\ Len(a) = k - 1 /\ \A i \in 1..(k - 1) : a[i] = s[i]
    <2>1. 1 \in Int /\ k - 1 \in Int /\ \A i \in 1..(k - 1) : s[i] \in T
      BY <1>0
    <2>2. Len(a) = IF 1 <= k - 1 THEN k - 1 - 1 + 1 ELSE 0
      BY <2>1, SubSeqProperties
    <2>3. \A i \in 1..(k - 1 - 1 + 1) : a[i] = s[1 + i - 1]
      BY <2>1, SubSeqProperties
    <2>4. a \in Seq(T)
      BY <2>1, SubSeqProperties
    <2> QED BY <1>0, <2>2, <2>3, <2>4
  <1>2. b \in Seq(T) /\ Len(b) = Len(s) - k + 1 /\ \A i \in 1..(Len(s) - k + 1) : b[i] = s[k + i - 1]
    <2>1. k \in Int /\ Len(s) \in Int /\ \A i \in k..Len(s) : s[i] \in T
      BY <1>0
    <2>2. Len(b) = IF k <= Len(s) THEN Len(s) - k + 1 ELSE 0
      BY <2>1, SubSeqProperties
    <2>3. \A i \in 1..(Len(s) - k + 1) : b[i] = s[k + i - 1]
      BY <2>1, SubSeqProperties
    <2>4. b \in Seq(T)
      BY <2>1, SubSeqProperties
    <2> QED BY <1>0, <2>2, <2>3, <2>4
  <1>3. InsertAt(s, k, e) = (a \o m) \o b
    BY DEF InsertAt
  <1>4. m \in Seq(T) /\ Len(m) = 1 /\ m[1] = e
    OBVIOUS
  <1> HIDE DEF a, b, m
  <1> PICK c : c = a \o m
    OBVIOUS
  <1>5. /\ c \in Seq(T) /\ Len(c) = Len(a) + Len(m)
        /\ \A i \in 1..(Len(a) + Len(m)) : c[i] = IF i <= Len(a) THEN a[i] ELSE m[i - Len(a)]
    BY <1>1, <1>4, ConcatProperties
  <1>6. Len(c) = k /\ \A i \in 1..k : c[i] = IF i < k THEN s[i] ELSE e
    BY <1>0, <1>1, <1>4, <1>5
  <1>7. /\ c \o b \in Seq(T) /\ Len(c \o b) = Len(c) + Len(b)
        /\ \A i \in 1..(Len(c) + Len(b)) : (c \o b)[i] = IF i <= Len(c) THEN c[i] ELSE b[i - Len(c)]
    <2>1. c \in Seq(T)
      BY <1>5
    <2>2. b \in Seq(T)
      BY <1>2
    <2> QED BY <2>1, <2>2, ConcatProperties
  <1>8. \A j \in 1..(Len(s) + 1) :
            (c \o b)[j] = IF j < k THEN s[j] ELSE IF j = k THEN e ELSE s[j - 1]
    <2> TAKE j \in 1..(Len(s) + 1)
    <2>1. CASE j <= k
      BY <1>0, <1>2, <1>6, <1>7, <2>1
    <2>2. CASE j > k
      <3>1. j - Len(c) \in 1..(Len(s) - k + 1) /\ k + (j - Len(c)) - 1 = j - 1
        BY <1>0, <1>6, <2>2
      <3>2. b[j - Len(c)] = s[j - 1]
        BY <1>2, <3>1
      <3>3. (c \o b)[j] = b[j - Len(c)]
        BY <1>0, <1>2, <1>6, <1>7, <2>2
      <3> QED BY <1>0, <2>2, <3>2, <3>3
    <2>3. j <= k \/ j > k
      BY <1>0
    <2> QED BY <2>1, <2>2, <2>3
  <1> QED BY <1>0, <1>2, <1>3, <1>6, <1>7, <1>8
----------------------------------------------------------------------------
(* What is left of a sequence.  A definition over the naturals is reasoned *)
(* about by its least counterexample.                                      *)

\* A set of numbers that is not empty has its least.
LEMMA LeastOf ==
  ASSUME NEW S \in SUBSET Nat, S # {}
  PROVE  \E x \in S : \A y \in S : x <= y
  <1>1. PICK x \in S : \A y \in S : ~(<<y, x>> \in OpToRel(<, Nat))
    BY NatLessThanWellFounded, WFMin
  <1>2. \A y \in S : ~(y < x)
    BY <1>1 DEF OpToRel
  <1> QED BY <1>2

\* What holds at 0 and passes from each number to the next holds up to m.
LEMMA UpTo ==
  ASSUME NEW m \in Nat, NEW S, 0 \in S, \A n \in 1..m : n - 1 \in S => n \in S
  PROVE  0..m \subseteq S
  <1> DEFINE Missed == {n \in 0..m : n \notin S}
  <1>1. SUFFICES ASSUME Missed # {} PROVE FALSE
    OBVIOUS
  <1>2. PICK x \in Missed : \A y \in Missed : x <= y
    <2>1. Missed \in SUBSET Nat
      OBVIOUS
    <2> HIDE DEF Missed
    <2> QED BY <1>1, <2>1, LeastOf
  <1>3. x \in Nat /\ \A y \in Missed : ~(y < x)
    <2>1. x \in Nat /\ Missed \subseteq Nat
      OBVIOUS
    <2> QED BY <1>2, <2>1
  <1>4. x \in 1..m /\ x - 1 \in 0..m /\ x - 1 < x
    OBVIOUS
  <1>5. x - 1 \in S
    BY <1>3, <1>4
  <1> QED BY <1>4, <1>5

\* One step of Without: what is kept of the first n once the first n - 1 are.
Kept(s, S, n, before) == IF s[n] \in S THEN before ELSE Append(before, s[n])

\* kept is what Without computes: what is kept of the first n of s.
KeepsOf(s, S, kept) ==
  kept = [n \in 0..Len(s) |-> IF n = 0 THEN <<>>
                              ELSE IF s[n] \in S THEN kept[n - 1]
                              ELSE Append(kept[n - 1], s[n])]

LEMMA WithoutIsKept ==
  ASSUME NEW T, NEW s \in Seq(T), NEW S
  PROVE  \E kept : KeepsOf(s, S, kept) /\ Without(s, S) = kept[Len(s)]
  <1>0. Len(s) \in Nat
    BY LenProperties
  <1> DEFINE UpToIs(n, f) == /\ f = [k \in 0..n |-> f[k]]
                             /\ f[0] = <<>>
                             /\ \A k \in 1..n : f[k] = Kept(s, S, k, f[k - 1])
             Reached == {n \in 0..Len(s) : \E f : UpToIs(n, f)}
  <1>1. 0 \in Reached
    <2> DEFINE f == [k \in 0..0 |-> <<>>]
    <2>1. UpToIs(0, f)
      BY <1>0
    <2> HIDE DEF UpToIs, f
    <2>2. \E h : UpToIs(0, h)
      BY <2>1
    <2> QED BY <1>0, <2>2
  <1>2. ASSUME NEW n \in 1..Len(s), n - 1 \in Reached
        PROVE  n \in Reached
    <2>1. PICK f : UpToIs(n - 1, f)
      BY <1>2
    <2> DEFINE g == [k \in 0..n |-> IF k = n THEN Kept(s, S, n, f[n - 1]) ELSE f[k]]
    <2>2. g = [k \in 0..n |-> g[k]] /\ g[0] = <<>>
      BY <1>0, <2>1
    <2>3. \A k \in 1..n : g[k] = Kept(s, S, k, g[k - 1])
      <3> TAKE k \in 1..n
      <3>1. k - 1 \in 0..n /\ k - 1 # n /\ g[k - 1] = f[k - 1]
        BY <1>0
      <3>2. CASE k = n
        BY <1>0, <3>1, <3>2
      <3>3. CASE k # n
        <4>1. k \in 1..(n - 1) /\ k \in 0..n
          BY <1>0, <3>3
        <4>2. g[k] = f[k]
          BY <3>3, <4>1
        <4>3. f[k] = Kept(s, S, k, f[k - 1])
          BY <2>1, <4>1
        <4> QED BY <3>1, <4>2, <4>3
      <3> QED BY <3>2, <3>3
    <2> HIDE DEF g
    <2>4. UpToIs(n, g)
      BY <2>2, <2>3
    <2> HIDE DEF UpToIs
    <2>5. \E h : UpToIs(n, h)
      BY <2>4
    <2> QED BY <1>0, <2>5
  <1> HIDE DEF Reached
  <1>3. 0..Len(s) \subseteq Reached
    BY <1>0, <1>1, <1>2, UpTo
  <1>4. Len(s) \in Reached
    BY <1>0, <1>3
  <1>5. PICK f : UpToIs(Len(s), f)
    BY <1>4 DEF Reached
  <1>6. KeepsOf(s, S, f)
    <2> DEFINE g == [n \in 0..Len(s) |-> IF n = 0 THEN <<>>
                              ELSE IF s[n] \in S THEN f[n - 1]
                              ELSE Append(f[n - 1], s[n])]
    <2>1. \A n \in 0..Len(s) : f[n] = g[n]
      BY <1>0, <1>5 DEF Kept
    <2>2. f = g
      BY <1>5, <2>1
    <2> QED BY <2>2 DEF KeepsOf
  <1> QED BY <1>6 DEF KeepsOf, Without

\* from tells where in the first n of s each item of r stood: r is what is
\* left of them without the items in S.
Places(s, S, n, r, from) ==
  /\ from \in [1..Len(r) -> 1..n]
  /\ \A j, k \in 1..Len(r) : j < k => from[j] < from[k]
  /\ \A j \in 1..Len(r) : r[j] = s[from[j]]
  /\ \A k \in 1..n : s[k] \notin S <=> \E j \in 1..Len(r) : from[j] = k

LEMMA KeptPlaces ==
  ASSUME NEW T, NEW s \in Seq(T), NEW S, NEW n \in 1..Len(s), NEW r \in Seq(T),
         NEW from, Places(s, S, n - 1, r, from)
  PROVE  /\ Kept(s, S, n, r) \in Seq(T)
         /\ Len(Kept(s, S, n, r)) <= Len(r) + 1
         /\ \E f : Places(s, S, n, Kept(s, S, n, r), f)
  <1>0. Len(s) \in Nat /\ Len(r) \in Nat /\ s[n] \in T
    BY LenProperties, ElementOfSeq
  <1>1. CASE s[n] \in S
    <2>1. Kept(s, S, n, r) = r
      BY <1>1 DEF Kept
    <2>2. Places(s, S, n, r, from)
      <3>1. from \in [1..Len(r) -> 1..n]
        BY <1>0 DEF Places
      <3>2. \A k \in 1..n : s[k] \notin S <=> \E j \in 1..Len(r) : from[j] = k
        <4> TAKE k \in 1..n
        <4>1. CASE k = n
          BY <1>0, <1>1, <4>1 DEF Places
        <4>2. CASE k # n
          <5>1. k \in 1..(n - 1)
            BY <1>0, <4>2
          <5> QED BY <5>1 DEF Places
        <4> QED BY <4>1, <4>2
      <3> QED BY <3>1, <3>2 DEF Places
    <2> QED BY <1>0, <2>1, <2>2
  <1>2. CASE s[n] \notin S
    <2> DEFINE r2 == Append(r, s[n])
               f2 == [j \in 1..(Len(r) + 1) |-> IF j <= Len(r) THEN from[j] ELSE n]
    <2>1. Kept(s, S, n, r) = r2
      BY <1>2 DEF Kept
    <2>2. /\ r2 \in Seq(T) /\ Len(r2) = Len(r) + 1
          /\ \A j \in 1..Len(r) : r2[j] = r[j]
          /\ r2[Len(r) + 1] = s[n]
      BY <1>0, AppendProperties
    <2>3. /\ f2 \in [1..(Len(r) + 1) -> 1..n]
          /\ \A j \in 1..Len(r) : f2[j] = from[j] /\ from[j] \in 1..(n - 1)
          /\ f2[Len(r) + 1] = n
      BY <1>0 DEF Places
    <2> HIDE DEF r2, f2
    <2>4. \A j, k \in 1..(Len(r) + 1) : j < k => f2[j] < f2[k]
      <3> TAKE j, k \in 1..(Len(r) + 1)
      <3> HAVE j < k
      <3>1. j \in 1..Len(r) /\ f2[j] = from[j] /\ from[j] \in 1..(n - 1)
        BY <1>0, <2>3
      <3>2. CASE k = Len(r) + 1
        BY <1>0, <2>3, <3>1, <3>2
      <3>3. CASE k \in 1..Len(r)
        BY <2>3, <3>1, <3>3 DEF Places
      <3> QED BY <1>0, <3>2, <3>3
    <2>5. \A j \in 1..(Len(r) + 1) : r2[j] = s[f2[j]]
      <3> TAKE j \in 1..(Len(r) + 1)
      <3>1. CASE j \in 1..Len(r)
        BY <2>2, <2>3, <3>1 DEF Places
      <3>2. CASE j = Len(r) + 1
        BY <2>2, <2>3, <3>2
      <3> QED BY <1>0, <3>1, <3>2
    <2>6. \A k \in 1..n : s[k] \notin S <=> \E j \in 1..(Len(r) + 1) : f2[j] = k
      <3> TAKE k \in 1..n
      <3>1. CASE k = n
        BY <1>0, <1>2, <2>3, <3>1
      <3>2. CASE k # n
        <4>1. k \in 1..(n - 1)
          BY <1>0, <3>2
        <4>2. s[k] \notin S <=> \E j \in 1..Len(r) : from[j] = k
          BY <4>1 DEF Places
        <4>3. \A j \in 1..(Len(r) + 1) : f2[j] = k => j \in 1..Len(r)
          BY <1>0, <2>3, <3>2
        <4>4. \A j \in 1..Len(r) : j \in 1..(Len(r) + 1)
          BY <1>0
        <4> QED BY <2>3, <4>2, <4>3, <4>4
      <3> QED BY <3>1, <3>2
    <2>7. Places(s, S, n, r2, f2)
      BY <2>2, <2>3, <2>4, <2>5, <2>6 DEF Places
    <2> QED BY <1>0, <2>1, <2>2, <2>7
  <1> QED BY <1>1, <1>2

\* What Without returns: what is left, each item from its place.
LEMMA WithoutPlaces ==
  ASSUME NEW T, NEW s \in Seq(T), NEW S
  PROVE  /\ Without(s, S) \in Seq(T)
         /\ Len(Without(s, S)) <= Len(s)
         /\ \E from : Places(s, S, Len(s), Without(s, S), from)
  <1>0. Len(s) \in Nat
    BY LenProperties
  <1>1. PICK kept : KeepsOf(s, S, kept) /\ Without(s, S) = kept[Len(s)]
    BY WithoutIsKept
  <1>2. kept[0] = <<>> /\ \A n \in 1..Len(s) : n - 1 \in 0..Len(s) /\ kept[n] = Kept(s, S, n, kept[n - 1])
    <2> DEFINE g == [n \in 0..Len(s) |-> IF n = 0 THEN <<>>
                                         ELSE IF s[n] \in S THEN kept[n - 1]
                                         ELSE Append(kept[n - 1], s[n])]
    <2>1. kept = g
      BY <1>1 DEF KeepsOf
    <2>2. g[0] = <<>> /\ \A n \in 1..Len(s) : g[n] = Kept(s, S, n, kept[n - 1])
      BY <1>0 DEF Kept
    <2> HIDE DEF g
    <2> QED BY <1>0, <2>1, <2>2
  <1> DEFINE Good(n) == /\ kept[n] \in Seq(T) /\ Len(kept[n]) <= n
                        /\ \E from : Places(s, S, n, kept[n], from)
             Done == {n \in 0..Len(s) : Good(n)}
  <1>3. 0 \in Done
    <2>1. Places(s, S, 0, <<>>, [j \in 1..0 |-> 1])
      BY DEF Places
    <2>2. Good(0)
      BY <1>2, <2>1
    <2> HIDE DEF Good
    <2> QED BY <1>0, <2>2
  <1>4. ASSUME NEW n \in 1..Len(s), n - 1 \in Done
        PROVE  n \in Done
    <2>1. Good(n - 1)
      BY <1>4
    <2>2. PICK from : Places(s, S, n - 1, kept[n - 1], from)
      BY <2>1
    <2>3. kept[n - 1] \in Seq(T) /\ Len(kept[n - 1]) \in Nat /\ Len(kept[n - 1]) <= n - 1
      BY <2>1, LenProperties
    <2>4. /\ kept[n] \in Seq(T)
          /\ Len(kept[n]) <= Len(kept[n - 1]) + 1
          /\ \E f : Places(s, S, n, kept[n], f)
      <3>1. /\ Kept(s, S, n, kept[n - 1]) \in Seq(T)
            /\ Len(Kept(s, S, n, kept[n - 1])) <= Len(kept[n - 1]) + 1
            /\ \E f : Places(s, S, n, Kept(s, S, n, kept[n - 1]), f)
        BY <2>2, <2>3, KeptPlaces
      <3> QED BY <1>2, <3>1
    <2>5. Len(kept[n]) \in Nat
      BY <2>4, LenProperties
    <2>6. Good(n)
      BY <2>3, <2>4, <2>5
    <2> HIDE DEF Good
    <2> QED BY <1>0, <2>6
  <1>5. 0..Len(s) \subseteq Done
    <2> HIDE DEF Done
    <2> QED BY <1>0, <1>3, <1>4, UpTo
  <1>6. Good(Len(s))
    BY <1>0, <1>5
  <1> QED BY <1>1, <1>6

----------------------------------------------------------------------------
(* Counting: who has counted an item and not appended it, and what was     *)
(* removed and not reported.                                               *)

CountedBy(c) == {p \in Putters : c[p] = "counted"}
UnreportedBy(cb) == UNION {{t} \X (1..cb[t]) : t \in Threads}

LEMMA OneMoreCounted ==
  ASSUME NEW c, NEW d, NEW p \in Putters, IsFiniteSet(CountedBy(c)),
         c[p] # "counted", d[p] = "counted",
         \A q \in Putters \ {p} : d[q] = "counted" <=> c[q] = "counted"
  PROVE  /\ IsFiniteSet(CountedBy(d))
         /\ Cardinality(CountedBy(d)) = Cardinality(CountedBy(c)) + 1
  <1>1. CountedBy(d) = CountedBy(c) \cup {p} /\ p \notin CountedBy(c)
    BY DEF CountedBy
  <1> QED BY <1>1, FS_AddElement

LEMMA OneLessCounted ==
  ASSUME NEW c, NEW d, NEW p \in Putters, IsFiniteSet(CountedBy(c)),
         c[p] = "counted", d[p] # "counted",
         \A q \in Putters \ {p} : d[q] = "counted" <=> c[q] = "counted"
  PROVE  /\ IsFiniteSet(CountedBy(d))
         /\ Cardinality(CountedBy(d)) = Cardinality(CountedBy(c)) - 1
  <1>1. CountedBy(d) = CountedBy(c) \ {p} /\ p \in CountedBy(c)
    BY DEF CountedBy
  <1> QED BY <1>1, FS_RemoveElement

LEMMA SameCounted ==
  ASSUME NEW c, NEW d, \A q \in Putters : d[q] = "counted" <=> c[q] = "counted"
  PROVE  CountedBy(d) = CountedBy(c)
  BY DEF CountedBy

\* A thread that had nothing to report has now n: that many more.
Owing(cb, t, n) == [cb EXCEPT ![t] = n]

LEMMA MoreUnreported ==
  ASSUME NEW cb \in [Threads -> Nat], NEW t \in Threads, NEW n \in Nat, cb[t] = 0,
         NEW d, d = Owing(cb, t, n)
  PROVE  /\ IsFiniteSet(UnreportedBy(cb)) <=> IsFiniteSet(UnreportedBy(d))
         /\ IsFiniteSet(UnreportedBy(cb)) =>
                Cardinality(UnreportedBy(d)) = Cardinality(UnreportedBy(cb)) + n
  <1> DEFINE new == {t} \X (1..n)
  <1>1. UnreportedBy(d) = UnreportedBy(cb) \cup new
    <2>1. \A u \in Threads : d[u] = IF u = t THEN n ELSE cb[u]
      BY DEF Owing
    <2>2. ASSUME NEW x \in UnreportedBy(d) PROVE x \in UnreportedBy(cb) \cup new
      <3>1. PICK u \in Threads : x \in {u} \X (1..d[u])
        BY <2>2 DEF UnreportedBy
      <3>2. CASE u = t
        BY <2>1, <3>1, <3>2
      <3>3. CASE u # t
        BY <2>1, <3>1, <3>3 DEF UnreportedBy
      <3> QED BY <3>2, <3>3
    <2>3. ASSUME NEW x \in UnreportedBy(cb) PROVE x \in UnreportedBy(d)
      <3>1. PICK u \in Threads : x \in {u} \X (1..cb[u])
        BY <2>3 DEF UnreportedBy
      <3>2. u # t
        BY <3>1
      <3> QED BY <2>1, <3>1, <3>2 DEF UnreportedBy
    <2>4. ASSUME NEW x \in new PROVE x \in UnreportedBy(d)
      <3>1. x \in {t} \X (1..d[t])
        BY <2>1, <2>4
      <3> QED BY <3>1 DEF UnreportedBy
    <2> QED BY <2>2, <2>3, <2>4
  <1>2. UnreportedBy(cb) \cap new = {}
    <2> SUFFICES ASSUME NEW x \in UnreportedBy(cb), x \in new PROVE FALSE
      OBVIOUS
    <2>1. PICK u \in Threads : x \in {u} \X (1..cb[u])
      BY DEF UnreportedBy
    <2>2. u = t
      BY <2>1
    <2> QED BY <2>1, <2>2
  <1>3. IsFiniteSet(new) /\ Cardinality(new) = n
    <2>1. IsFiniteSet({t}) /\ Cardinality({t}) = 1
      BY FS_Singleton
    <2>2. IsFiniteSet(1..n) /\ Cardinality(1..n) = n
      BY FS_Interval
    <2>3. IsFiniteSet(new) /\ Cardinality(new) = 1 * n
      BY <2>1, <2>2, FS_Product
    <2> QED BY <2>3
  <1> HIDE DEF new
  <1>4. ASSUME IsFiniteSet(UnreportedBy(cb))
        PROVE  /\ IsFiniteSet(UnreportedBy(d))
               /\ Cardinality(UnreportedBy(d)) = Cardinality(UnreportedBy(cb)) + n
    <2>1. /\ IsFiniteSet(UnreportedBy(cb) \cup new)
          /\ Cardinality(UnreportedBy(cb) \cup new) =
                Cardinality(UnreportedBy(cb)) + n - Cardinality(UnreportedBy(cb) \cap new)
      BY <1>3, <1>4, FS_Union
    <2>2. Cardinality(UnreportedBy(cb) \cap new) = 0
      BY <1>2, FS_EmptySet
    <2>3. Cardinality(UnreportedBy(cb)) \in Nat
      BY <1>4, FS_CardinalityType
    <2>4. Cardinality(UnreportedBy(cb) \cup new) = Cardinality(UnreportedBy(cb)) + n
      BY <2>1, <2>2, <2>3
    <2> QED BY <1>1, <2>1, <2>4
  <1>5. ASSUME IsFiniteSet(UnreportedBy(d)) PROVE IsFiniteSet(UnreportedBy(cb))
    <2>1. UnreportedBy(cb) \in SUBSET UnreportedBy(d)
      BY <1>1
    <2> QED BY <1>5, <2>1, FS_Subset
  <1> QED BY <1>4, <1>5

----------------------------------------------------------------------------
(* The bands and how much waits in them. *)

DepthOf(b) == Len(b[1]) + Len(b[2]) + Len(b[3]) + Len(b[4])
Bands == [1..4 -> Seq(Items)]

LEMMA Lengths ==
  ASSUME NEW b \in Bands
  PROVE  /\ \A p \in 1..4 : Len(b[p]) \in Nat /\ Len(b[p]) <= DepthOf(b)
         /\ \A p \in 1..4 : b[p] = <<>> <=> Len(b[p]) = 0
         /\ DepthOf(b) \in Nat
  <1>1. \A p \in 1..4 : b[p] \in Seq(Items) /\ Len(b[p]) \in Nat /\ (b[p] = <<>> <=> Len(b[p]) = 0)
    <2> TAKE p \in 1..4
    <2>1. b[p] \in Seq(Items)
      BY DEF Bands
    <2> QED BY <2>1, LenProperties, EmptySeq
  <1>2. Len(b[1]) \in Nat /\ Len(b[2]) \in Nat /\ Len(b[3]) \in Nat /\ Len(b[4]) \in Nat
    BY <1>1
  <1>3. \A p \in 1..4 : p = 1 \/ p = 2 \/ p = 3 \/ p = 4
    OBVIOUS
  <1>4. /\ DepthOf(b) \in Nat
        /\ Len(b[1]) <= DepthOf(b) /\ Len(b[2]) <= DepthOf(b)
        /\ Len(b[3]) <= DepthOf(b) /\ Len(b[4]) <= DepthOf(b)
    <2> PICK n1 \in Nat, n2 \in Nat, n3 \in Nat, n4 \in Nat :
            Len(b[1]) = n1 /\ Len(b[2]) = n2 /\ Len(b[3]) = n3 /\ Len(b[4]) = n4
      BY <1>2
    <2>1. DepthOf(b) = n1 + n2 + n3 + n4
      BY DEF DepthOf
    <2> QED BY <2>1
  <1>5. \A p \in 1..4 : Len(b[p]) <= DepthOf(b)
    BY <1>3, <1>4
  <1> QED BY <1>1, <1>4, <1>5

\* The bands b with s for band p.
With(b, p, s) == [b EXCEPT ![p] = s]

\* Only band p of b is another one in d, namely s.
OnlyBand(b, p, s, d) ==
  /\ d \in Bands
  /\ d[p] = s /\ \A q \in 1..4 \ {p} : d[q] = b[q]
  /\ DepthOf(d) = DepthOf(b) - Len(b[p]) + Len(s)

LEMMA OneBand ==
  ASSUME NEW b \in Bands, NEW p \in 1..4, NEW s \in Seq(Items)
  PROVE  OnlyBand(b, p, s, With(b, p, s))
  <1> DEFINE d == With(b, p, s)
  <1>1. d \in Bands /\ d[p] = s /\ \A q \in 1..4 \ {p} : d[q] = b[q]
    BY DEF Bands, With
  <1> HIDE DEF d
  <1>2. Len(s) \in Nat /\ \A q \in 1..4 : Len(b[q]) \in Nat
    BY Lengths, LenProperties
  <1>3. Len(b[1]) \in Nat /\ Len(b[2]) \in Nat /\ Len(b[3]) \in Nat /\ Len(b[4]) \in Nat
    BY <1>2
  <1>4. p = 1 \/ p = 2 \/ p = 3 \/ p = 4
    OBVIOUS
  <1> PICK m \in Nat, n1 \in Nat, n2 \in Nat, n3 \in Nat, n4 \in Nat :
          /\ Len(s) = m
          /\ Len(b[1]) = n1 /\ Len(b[2]) = n2 /\ Len(b[3]) = n3 /\ Len(b[4]) = n4
    BY <1>2, <1>3
  <1>9. DepthOf(b) = n1 + n2 + n3 + n4
    BY DEF DepthOf
  <1>5. ASSUME p = 1 PROVE DepthOf(d) = DepthOf(b) - Len(b[p]) + Len(s)
    <2>1. d[1] = s /\ d[2] = b[2] /\ d[3] = b[3] /\ d[4] = b[4]
      BY <1>1, <1>5
    <2>2. DepthOf(d) = m + n2 + n3 + n4
      BY <2>1 DEF DepthOf
    <2>3. Len(b[p]) = n1
      BY <1>5
    <2>4. DepthOf(d) = DepthOf(b) - Len(b[p]) + Len(s)
      BY <1>9, <2>2, <2>3
    <2> QED BY <2>4
  <1>6. ASSUME p = 2 PROVE DepthOf(d) = DepthOf(b) - Len(b[p]) + Len(s)
    <2>1. d[1] = b[1] /\ d[2] = s /\ d[3] = b[3] /\ d[4] = b[4]
      BY <1>1, <1>6
    <2>2. DepthOf(d) = n1 + m + n3 + n4
      BY <2>1 DEF DepthOf
    <2>3. Len(b[p]) = n2
      BY <1>6
    <2>4. DepthOf(d) = DepthOf(b) - Len(b[p]) + Len(s)
      BY <1>9, <2>2, <2>3
    <2> QED BY <2>4
  <1>7. ASSUME p = 3 PROVE DepthOf(d) = DepthOf(b) - Len(b[p]) + Len(s)
    <2>1. d[1] = b[1] /\ d[2] = b[2] /\ d[3] = s /\ d[4] = b[4]
      BY <1>1, <1>7
    <2>2. DepthOf(d) = n1 + n2 + m + n4
      BY <2>1 DEF DepthOf
    <2>3. Len(b[p]) = n3
      BY <1>7
    <2>4. DepthOf(d) = DepthOf(b) - Len(b[p]) + Len(s)
      BY <1>9, <2>2, <2>3
    <2> QED BY <2>4
  <1>8. ASSUME p = 4 PROVE DepthOf(d) = DepthOf(b) - Len(b[p]) + Len(s)
    <2>1. d[1] = b[1] /\ d[2] = b[2] /\ d[3] = b[3] /\ d[4] = s
      BY <1>1, <1>8
    <2>2. DepthOf(d) = n1 + n2 + n3 + m
      BY <2>1 DEF DepthOf
    <2>3. Len(b[p]) = n4
      BY <1>8
    <2>4. DepthOf(d) = DepthOf(b) - Len(b[p]) + Len(s)
      BY <1>9, <2>2, <2>3
    <2> QED BY <2>4
  <1>10. DepthOf(d) = DepthOf(b) - Len(b[p]) + Len(s)
    BY <1>4, <1>5, <1>6, <1>7, <1>8
  <1> QED BY <1>1, <1>10 DEF d, OnlyBand

\* The worker takes from a band that is not empty.
LEMMA HighestWaits ==
  ASSUME band \in Bands, Depth > 0
  PROVE  Highest \in 1..4 /\ band[Highest] # <<>> /\ \A q \in 1..(Highest - 1) : band[q] = <<>>
  <1>1. \E p \in 1..4 : band[p] # <<>> /\ \A q \in 1..(p - 1) : band[q] = <<>>
    <2>1. band[1] # <<>> \/ band[2] # <<>> \/ band[3] # <<>> \/ band[4] # <<>>
      <3>1. \A p \in 1..4 : band[p] = <<>> <=> Len(band[p]) = 0
        BY Lengths
      <3>2. SUFFICES ASSUME Len(band[1]) = 0, Len(band[2]) = 0, Len(band[3]) = 0, Len(band[4]) = 0
                     PROVE  FALSE
        BY <3>1
      <3>3. Depth = 0 + 0 + 0 + 0
        BY <3>2 DEF Depth
      <3> QED BY <3>3
    <2>2. CASE band[1] # <<>>
      <3>1. \A q \in 1..(1 - 1) : band[q] = <<>>
        OBVIOUS
      <3> QED BY <2>2, <3>1
    <2>3. CASE band[1] = <<>> /\ band[2] # <<>>
      <3>1. \A q \in 1..(2 - 1) : band[q] = <<>>
        BY <2>3
      <3> QED BY <2>3, <3>1
    <2>4. CASE band[1] = <<>> /\ band[2] = <<>> /\ band[3] # <<>>
      <3>1. \A q \in 1..(3 - 1) : q = 1 \/ q = 2
        OBVIOUS
      <3>2. \A q \in 1..(3 - 1) : band[q] = <<>>
        BY <2>4, <3>1
      <3> QED BY <2>4, <3>2
    <2>5. CASE band[1] = <<>> /\ band[2] = <<>> /\ band[3] = <<>> /\ band[4] # <<>>
      <3>1. \A q \in 1..(4 - 1) : q = 1 \/ q = 2 \/ q = 3
        OBVIOUS
      <3>2. \A q \in 1..(4 - 1) : band[q] = <<>>
        BY <2>5, <3>1
      <3> QED BY <2>5, <3>2
    <2> QED BY <2>1, <2>2, <2>3, <2>4, <2>5
  <1> QED BY <1>1 DEF Highest

----------------------------------------------------------------------------
(* The inductive invariant. *)

\* The worker's own put is of the item in hand, and only then is it in one.
Carried ==
  /\ pass # "idle" => active \in Items
  /\ pass = "putting back" => putBacks < MaxPutBacks
  /\ call[Worker] \in {"new", "waiting", "woken", "counted", "returned"}
  /\ call[Worker] # "returned" <=> pass \in {"retrying", "putting back"}

\* Until a thread has appended or shed, it has nothing to report.
Fresh == \A p \in Putters :
  call[p] \in {"new", "waiting", "woken", "counted", "full"} => callback[p] = 0

\* However many threads there are, few have counted and few have to report.
Few == IsFiniteSet(Counted) /\ IsFiniteSet(Unreported)

ArbiterInv ==
  TypeOK /\ Carried /\ Fresh /\ Few /\ UnfinishedAccounted /\ NarrationCapped /\ NoLostWakeup

LEMMA WhoIsWho ==
  /\ Worker \in Putters /\ Worker \notin Items
  /\ Items \subseteq Putters /\ Putters \subseteq Threads /\ Controllers \subseteq Threads
  /\ \A t \in Controllers : t \notin Putters
  /\ Putters = Items \cup {Worker} /\ Phases \subseteq Items
  BY ArbiterAssumption DEF Putters, Threads, Items

LEMMA Sizes ==
  ASSUME TypeOK, Few
  PROVE  /\ Depth \in Nat /\ InHand \in Nat
         /\ Cardinality(Counted) \in Nat /\ Cardinality(Unreported) \in Nat
         /\ unfinished \in Nat /\ putBacks \in Nat /\ MaxSize \in Nat
         /\ band \in Bands /\ Depth = DepthOf(band)
  <1>1. band \in Bands /\ Depth = DepthOf(band)
    BY DEF TypeOK, Bands, Depth, DepthOf
  <1>2. Depth \in Nat
    BY <1>1, Lengths
  <1>3. Cardinality(Counted) \in Nat /\ Cardinality(Unreported) \in Nat
    BY FS_CardinalityType DEF Few
  <1>4. InHand \in Nat
    BY DEF InHand
  <1>5. unfinished \in Nat /\ putBacks \in Nat /\ MaxSize \in Nat
    <2>1. unfinished \in Nat /\ putBacks \in 0..MaxPutBacks
      BY DEF TypeOK
    <2>2. MaxPutBacks \in Nat /\ MaxSize \in Nat
      BY ArbiterAssumption
    <2> QED BY <2>1, <2>2
  <1> QED BY <1>1, <1>2, <1>3, <1>4, <1>5

\* What a step adds to the counter it adds to the work outstanding.
LEMMA Balance ==
  ASSUME TypeOK, Few, UnfinishedAccounted,
         NEW d \in Int, NEW h \in Int, NEW c \in Int, NEW u \in Int, NEW b \in Int,
         Depth' = Depth + d, InHand' = InHand + h,
         Cardinality(Counted)' = Cardinality(Counted) + c,
         Cardinality(Unreported)' = Cardinality(Unreported) + u,
         putBacks' = putBacks + b,
         unfinished' = unfinished + (d + h + c + u + b)
  PROVE  UnfinishedAccounted'
  <1> PICK nd \in Nat, nh \in Nat, nc \in Nat, nu \in Nat, nb \in Nat :
          /\ Depth = nd /\ InHand = nh /\ Cardinality(Counted) = nc
          /\ Cardinality(Unreported) = nu /\ putBacks = nb
    BY Sizes
  <1>1. unfinished = nd + nh + nc + nu + nb
    BY DEF UnfinishedAccounted, Outstanding
  <1>2. /\ Depth' = nd + d /\ InHand' = nh + h /\ Cardinality(Counted)' = nc + c
        /\ Cardinality(Unreported)' = nu + u /\ putBacks' = nb + b
    OBVIOUS
  <1>3. (Outstanding + putBacks)' = (nd + d) + (nh + h) + (nc + c) + (nu + u) + (nb + b)
    BY <1>2 DEF Outstanding
  <1> QED BY <1>1, <1>3 DEF UnfinishedAccounted

LEMMA ArbiterStarts == Init => ArbiterInv
  <1> SUFFICES ASSUME Init PROVE ArbiterInv
    OBVIOUS
  <1>1. \A p \in 1..4 : band[p] = <<>> /\ Len(band[p]) = 0
    BY DEF Init
  <1>2. band \in Bands /\ Depth = 0
    <2>1. Len(band[1]) = 0 /\ Len(band[2]) = 0 /\ Len(band[3]) = 0 /\ Len(band[4]) = 0
      BY <1>1
    <2>2. Depth = 0 + 0 + 0 + 0
      BY <2>1 DEF Depth
    <2> QED BY <2>2, EmptySeq DEF Init, Bands
  <1>3. TypeOK
    BY <1>2, ArbiterAssumption DEF Init, TypeOK, Bands
  <1>4. Carried /\ Fresh
    BY WhoIsWho DEF Init, Carried, Fresh
  <1>5. Counted = {}
    BY DEF Init, Counted
  <1>6. Unreported = {}
    BY DEF Init, Unreported
  <1>7. Few /\ Cardinality(Counted) = 0 /\ Cardinality(Unreported) = 0
    BY <1>5, <1>6, FS_EmptySet DEF Few
  <1>8. UnfinishedAccounted
    BY <1>2, <1>7 DEF Init, UnfinishedAccounted, Outstanding, InHand
  <1>9. NarrationCapped
    BY <1>1, ArbiterAssumption DEF NarrationCapped
  <1>10. NoLostWakeup
    BY DEF Init, NoLostWakeup
  <1> QED BY <1>3, <1>4, <1>7, <1>8, <1>9, <1>10 DEF ArbiterInv

\* Nobody sleeps after a notify_all, and no put goes on otherwise.
LEMMA NotifiedAll ==
  ASSUME TypeOK
  PROVE  /\ Notified(call) \in [Putters -> {"new", "waiting", "woken", "counted", "full", "retry",
                                            "returned", "dropped"}]
         /\ \A p \in Putters : Notified(call)[p] # "waiting"
         /\ \A p \in Putters : Notified(call)[p] = call[p]
                               \/ (call[p] = "waiting" /\ Notified(call)[p] = "woken")
  BY DEF TypeOK, Notified

LEMMA ArgumentOf ==
  ASSUME TypeOK, Carried, NEW p \in Putters, call[p] \in {"new", "waiting", "woken", "counted"}
  PROVE  Argument(p) \in Items /\ PrioOf[Argument(p)] \in 1..4
  <1>1. Argument(p) \in Items
    BY WhoIsWho DEF Carried, Argument
  <1> QED BY <1>1, ArbiterAssumption

\* A step that touches neither the bands, the retries put back nor what there
\* is to report, and leaves the worker's hands as they were.
LEMMA QuietBands ==
  ASSUME UNCHANGED <<band, callback, putBacks>>
  PROVE  /\ Depth' = Depth /\ Unreported' = Unreported
         /\ (AtCapacity' <=> AtCapacity) /\ (NarrationCapped' <=> NarrationCapped)
  BY DEF Depth, Unreported, AtCapacity, NarrationCapped

LEMMA CountOrWaitKeeps ==
  ASSUME ArbiterInv, NEW p \in Putters, CountOrWait(p)
  PROVE  ArbiterInv'
  <1> USE DEF ArbiterInv
  <1>1. TypeOK'
    <2>1. unfinished' \in Nat
      <3>1. unfinished' = unfinished \/ unfinished' = unfinished + 1
        BY DEF CountOrWait
      <3> QED BY <3>1, Sizes
    <2>2. call' \in [Putters -> {"new", "waiting", "woken", "counted", "full", "retry",
                                 "returned", "dropped"}]
      BY DEF CountOrWait, TypeOK
    <2> QED BY <2>1, <2>2 DEF CountOrWait, TypeOK
  <1>2. Carried'
    BY WhoIsWho DEF CountOrWait, Carried, TypeOK
  <1>3. Fresh'
    BY DEF CountOrWait, Fresh, TypeOK
  <1>4. Depth' = Depth /\ Unreported' = Unreported /\ (AtCapacity' <=> AtCapacity) /\ NarrationCapped'
    BY QuietBands DEF CountOrWait
  <1>5. InHand' = InHand
    BY DEF CountOrWait, InHand
  <1>6. CASE Low(Argument(p)) /\ AtCapacity
    <2>1. Counted' = Counted
      BY <1>6 DEF CountOrWait, Counted, TypeOK
    <2>2. UnfinishedAccounted'
      BY <1>4, <1>5, <1>6, <2>1 DEF CountOrWait, UnfinishedAccounted, Outstanding
    <2>3. NoLostWakeup'
      BY <1>4, <1>6 DEF NoLostWakeup
    <2> QED BY <1>1, <1>2, <1>3, <1>4, <2>1, <2>2, <2>3 DEF Few
  <1>7. CASE ~ (Low(Argument(p)) /\ AtCapacity)
    <2>1. /\ call[p] # "counted" /\ call'[p] = "counted"
          /\ \A q \in Putters \ {p} : call'[q] = call[q]
          /\ unfinished' = unfinished + 1 /\ putBacks' = putBacks
      BY <1>7 DEF CountOrWait, TypeOK
    <2>2. IsFiniteSet(Counted') /\ Cardinality(Counted') = Cardinality(Counted) + 1
      BY <2>1, OneMoreCounted DEF Counted, CountedBy, Few
    <2>3. UnfinishedAccounted'
      BY <1>4, <1>5, <2>1, <2>2, Sizes DEF UnfinishedAccounted, Outstanding
    <2>4. NoLostWakeup'
      <3>1. \A q \in Putters : call'[q] = "waiting" => call[q] = "waiting"
        BY <2>1
      <3> QED BY <1>4, <3>1 DEF NoLostWakeup, CountOrWait
    <2> QED BY <1>1, <1>2, <1>3, <1>4, <2>2, <2>3, <2>4 DEF Few
  <1> QED BY <1>6, <1>7

LEMMA PutNowaitKeeps ==
  ASSUME ArbiterInv, NEW i \in Putters, PutNowait(i)
  PROVE  ArbiterInv'
  <1> USE DEF ArbiterInv
  <1>0. i \in Phases /\ i # Worker
    BY WhoIsWho DEF PutNowait
  <1>1. TypeOK'
    <2>1. unfinished' \in Nat
      <3>1. unfinished' = unfinished \/ unfinished' = unfinished + 1
        BY DEF PutNowait
      <3> QED BY <3>1, Sizes
    <2>2. call' \in [Putters -> {"new", "waiting", "woken", "counted", "full", "retry",
                                 "returned", "dropped"}]
      BY DEF PutNowait, TypeOK
    <2> QED BY <2>1, <2>2 DEF PutNowait, TypeOK
  <1>2. Carried'
    BY <1>0, WhoIsWho DEF PutNowait, Carried, TypeOK
  <1>3. Fresh'
    BY DEF PutNowait, Fresh, TypeOK
  <1>4. Depth' = Depth /\ Unreported' = Unreported /\ (AtCapacity' <=> AtCapacity) /\ NarrationCapped'
    BY QuietBands DEF PutNowait
  <1>5. InHand' = InHand
    BY DEF PutNowait, InHand
  <1>8. NoLostWakeup'
    <2>1. \A q \in Putters : call'[q] = "waiting" => call[q] = "waiting"
      BY DEF PutNowait, TypeOK
    <2> QED BY <1>4, <2>1 DEF NoLostWakeup, PutNowait
  <1>6. CASE AtCapacity
    <2>1. Counted' = Counted
      BY <1>6 DEF PutNowait, Counted, TypeOK
    <2>2. UnfinishedAccounted'
      BY <1>4, <1>5, <1>6, <2>1 DEF PutNowait, UnfinishedAccounted, Outstanding
    <2> QED BY <1>1, <1>2, <1>3, <1>4, <1>8, <2>1, <2>2 DEF Few
  <1>7. CASE ~ AtCapacity
    <2>1. /\ call[i] # "counted" /\ call'[i] = "counted"
          /\ \A q \in Putters \ {i} : call'[q] = call[q]
          /\ unfinished' = unfinished + 1 /\ putBacks' = putBacks
      BY <1>7 DEF PutNowait, TypeOK
    <2>2. IsFiniteSet(Counted') /\ Cardinality(Counted') = Cardinality(Counted) + 1
      BY <2>1, OneMoreCounted DEF Counted, CountedBy, Few
    <2>3. UnfinishedAccounted'
      BY <1>4, <1>5, <2>1, <2>2, Sizes DEF UnfinishedAccounted, Outstanding
    <2> QED BY <1>1, <1>2, <1>3, <1>4, <1>8, <2>2, <2>3 DEF Few
  <1> QED BY <1>6, <1>7

\* The oldest of a band is taken from its head.
LEMMA HeadTaken ==
  ASSUME NEW b \in Bands, NEW p \in 1..4, b[p] # <<>>, NEW d, d = With(b, p, Tail(b[p]))
  PROVE  /\ d \in Bands /\ d[p] = Tail(b[p]) /\ \A q \in 1..4 \ {p} : d[q] = b[q]
         /\ Head(b[p]) \in Items
         /\ Len(d[p]) = Len(b[p]) - 1 /\ Len(b[p]) \in Nat
         /\ DepthOf(d) = DepthOf(b) - 1
  <1>1. b[p] \in Seq(Items)
    BY DEF Bands
  <1>2. Head(b[p]) \in Items /\ Tail(b[p]) \in Seq(Items) /\ Len(Tail(b[p])) = Len(b[p]) - 1
    BY <1>1, HeadTailProperties
  <1>4. /\ d \in Bands /\ d[p] = Tail(b[p]) /\ \A q \in 1..4 \ {p} : d[q] = b[q]
        /\ DepthOf(d) = DepthOf(b) - Len(b[p]) + Len(Tail(b[p]))
    <2>1. OnlyBand(b, p, Tail(b[p]), d)
      BY <1>2, OneBand
    <2> QED BY <2>1 DEF OnlyBand
  <1>5. Len(b[p]) \in Nat /\ DepthOf(b) \in Nat
    BY Lengths
  <1>6. DepthOf(d) = DepthOf(b) - 1
    BY <1>2, <1>4, <1>5
  <1> QED BY <1>2, <1>4, <1>5, <1>6

\* Something was removed, and the thread that did it has yet to report it.
LEMMA RemovedUnreported ==
  ASSUME TypeOK, Few, NEW t \in Threads, callback[t] = 0, NEW n \in Nat,
         callback' = [callback EXCEPT ![t] = n]
  PROVE  /\ IsFiniteSet(Unreported)'
         /\ Cardinality(Unreported)' = Cardinality(Unreported) + n
         /\ callback' \in [Threads -> Nat]
  <1>1. callback \in [Threads -> Nat]
    BY DEF TypeOK
  <1>2. Unreported = UnreportedBy(callback) /\ Unreported' = UnreportedBy(callback')
    BY DEF Unreported, UnreportedBy
  <1>3. /\ IsFiniteSet(UnreportedBy(callback'))
        /\ Cardinality(UnreportedBy(callback')) = Cardinality(UnreportedBy(callback)) + n
    <2>1. IsFiniteSet(UnreportedBy(callback))
      BY <1>2 DEF Few
    <2>2. callback' = Owing(callback, t, n)
      BY DEF Owing
    <2> QED BY <1>1, <2>1, <2>2, MoreUnreported
  <1>4. callback' \in [Threads -> Nat]
    BY <1>1
  <1> QED BY <1>2, <1>3, <1>4

LEMMA ShedOldestKeeps ==
  ASSUME ArbiterInv, NEW i \in Putters, ShedOldest(i)
  PROVE  ArbiterInv'
  <1> USE DEF ArbiterInv
  <1>0. i # Worker /\ i \in Threads /\ callback[i] = 0
    BY WhoIsWho DEF ShedOldest, Carried, Fresh
  <1>1. call' \in [Putters -> {"new", "waiting", "woken", "counted", "full", "retry",
                               "returned", "dropped"}]
    BY DEF ShedOldest, TypeOK
  <1>2. Carried'
    BY <1>0, WhoIsWho DEF ShedOldest, Carried, TypeOK
  <1>3. Counted' = Counted /\ InHand' = InHand
    BY DEF ShedOldest, Counted, InHand, TypeOK
  <1>4. \A q \in Putters : call'[q] = "waiting" => call[q] = "waiting"
    BY DEF ShedOldest, TypeOK
  <1>5. CASE CanShed
    <2>1. band' = [band EXCEPT ![ShedBand] = Tail(@)] /\ callback' = [callback EXCEPT ![i] = 1]
      BY <1>5 DEF ShedOldest
    <2>2. ShedBand \in 1..4 /\ band[ShedBand] # <<>>
      BY <1>5 DEF ShedBand, CanShed
    <2>3. band \in Bands /\ DepthOf(band) = Depth /\ Depth' = DepthOf(band')
      BY Sizes DEF Depth, DepthOf
    <2>4. /\ band' \in Bands /\ DepthOf(band') = DepthOf(band) - 1
          /\ band'[ShedBand] = Tail(band[ShedBand]) /\ \A q \in 1..4 \ {ShedBand} : band'[q] = band[q]
          /\ Len(band'[ShedBand]) = Len(band[ShedBand]) - 1
      <3>1. band' = With(band, ShedBand, Tail(band[ShedBand]))
        BY <2>1 DEF With
      <3> QED BY <2>2, <2>3, <3>1, HeadTaken
    <2>5. /\ IsFiniteSet(Unreported)' /\ Cardinality(Unreported)' = Cardinality(Unreported) + 1
          /\ callback' \in [Threads -> Nat]
      BY <1>0, <2>1, RemovedUnreported
    <2>6. TypeOK'
      BY <1>1, <2>4, <2>5 DEF ShedOldest, TypeOK, Bands
    <2>7. Fresh'
      <3>1. call'[i] = "retry" /\ \A q \in Putters \ {i} : call'[q] = call[q]
        BY DEF ShedOldest, TypeOK
      <3>2. \A q \in Putters \ {i} : callback'[q] = callback[q]
        BY <2>1, WhoIsWho DEF TypeOK
      <3> QED BY <3>1, <3>2 DEF Fresh
    <2>8. UnfinishedAccounted'
      <3>1. Depth' = Depth - 1
        BY <2>3, <2>4
      <3>2. unfinished' = unfinished /\ putBacks' = putBacks
        BY DEF ShedOldest
      <3> QED BY <1>3, <2>5, <3>1, <3>2, Sizes DEF UnfinishedAccounted, Outstanding
    <2>9. NarrationCapped'
      <3>1. Len(band'[4]) <= Len(band[4]) /\ Len(band[4]) \in Nat /\ Len(band'[4]) \in Nat
        <4>1. Len(band[4]) \in Nat /\ Len(band'[4]) \in Nat
          BY <2>3, <2>4, Lengths
        <4>2. CASE ShedBand = 4
          <5>1. Len(band'[4]) = Len(band[4]) - 1
            BY <2>4, <4>2
          <5> QED BY <4>1, <5>1
        <4>3. CASE ShedBand # 4
          BY <2>4, <4>1, <4>3
        <4> QED BY <4>1, <4>2, <4>3
      <3>2. MaxSize \in Nat
        BY ArbiterAssumption
      <3> QED BY <3>1, <3>2 DEF NarrationCapped
    <2>10. NoLostWakeup'
      <3>1. callback'[i] = 1
        BY <1>0, <2>1 DEF TypeOK
      <3> QED BY <1>0, <3>1 DEF NoLostWakeup
    <2> QED BY <1>2, <1>3, <2>5, <2>6, <2>7, <2>8, <2>9, <2>10 DEF Few
  <1>6. CASE ~ CanShed
    <2>1. UNCHANGED <<band, callback, putBacks, unfinished, pass>>
      BY <1>6 DEF ShedOldest
    <2>2. Depth' = Depth /\ Unreported' = Unreported /\ (AtCapacity' <=> AtCapacity) /\ NarrationCapped'
      BY <2>1, QuietBands
    <2>3. TypeOK'
      BY <1>1, <2>1 DEF ShedOldest, TypeOK
    <2>4. Fresh'
      BY <2>1 DEF ShedOldest, Fresh, TypeOK
    <2>5. UnfinishedAccounted'
      BY <1>3, <2>1, <2>2 DEF UnfinishedAccounted, Outstanding
    <2>6. NoLostWakeup'
      BY <1>4, <2>1, <2>2 DEF NoLostWakeup
    <2> QED BY <1>2, <1>3, <2>2, <2>3, <2>4, <2>5, <2>6 DEF Few
  <1> QED BY <1>5, <1>6

\* An append grows the queue by one, unless it shed inside the band.
LEMMA EnqueueGrows ==
  ASSUME TypeOK, Carried, Few, NarrationCapped, NEW p \in Putters, Enqueue(p)
  PROVE  /\ band' \in Bands /\ NarrationCapped'
         /\ Depth' = Depth + (IF NoRoomLeft(p) THEN 0 ELSE 1)
  <1>a. Argument(p) \in Items /\ PrioOf[Argument(p)] \in 1..4
    BY ArgumentOf DEF Enqueue
  <1>0. band \in Bands /\ DepthOf(band) = Depth /\ Depth' = DepthOf(band') /\ MaxSize \in Nat /\ Depth \in Nat
    BY Sizes DEF Depth, DepthOf
  <1>1. \A r \in 1..4 : band[r] \in Seq(Items) /\ Len(band[r]) \in Nat
    BY <1>0, Lengths DEF Bands
  <1>2. CASE NoRoomLeft(p)
    <2>1. PrioOf[Argument(p)] = 4 /\ MaxSize > 0 /\ Len(band[4]) >= MaxSize /\ band[4] # <<>>
      <3>1. PrioOf[Argument(p)] = 4 /\ MaxSize > 0 /\ Len(band[4]) >= MaxSize
        BY <1>2 DEF NoRoomLeft
      <3>2. Len(band[4]) # 0
        BY <1>0, <1>1, <3>1
      <3>3. band[4] = <<>> <=> Len(band[4]) = 0
        BY <1>0, Lengths
      <3> QED BY <3>1, <3>2, <3>3
    <2>2. Tail(band[4]) \in Seq(Items) /\ Len(Tail(band[4])) = Len(band[4]) - 1
      BY <1>1, <2>1, HeadTailProperties
    <2>3. band' = With(band, 4, Append(Tail(band[4]), Argument(p)))
      BY <1>2, <2>1 DEF Enqueue, With
    <2>4. /\ band' \in Bands
          /\ Len(band'[4]) = Len(Tail(band[4])) + 1
          /\ DepthOf(band') = DepthOf(band) - Len(band[4]) + Len(Tail(band[4])) + 1
      <3>1. /\ Append(Tail(band[4]), Argument(p)) \in Seq(Items)
            /\ Len(Append(Tail(band[4]), Argument(p))) = Len(Tail(band[4])) + 1
        BY <1>a, <2>2, AppendProperties
      <3>2. OnlyBand(band, 4, Append(Tail(band[4]), Argument(p)), band')
        <4>1. band \in Bands /\ 4 \in 1..4
          BY <1>0
        <4>2. OnlyBand(band, 4, Append(Tail(band[4]), Argument(p)),
                       With(band, 4, Append(Tail(band[4]), Argument(p))))
          BY <3>1, <4>1, OneBand
        <4> QED BY <2>3, <4>2
      <3>3. DepthOf(band) \in Nat /\ Len(band[4]) \in Nat /\ Len(Tail(band[4])) \in Nat
        BY <1>0, <1>1, <2>2, LenProperties
      <3>4. DepthOf(band') = DepthOf(band) - Len(band[4]) + (Len(Tail(band[4])) + 1)
        BY <3>1, <3>2 DEF OnlyBand
      <3> QED BY <3>1, <3>2, <3>3, <3>4 DEF OnlyBand
    <2>5. Len(band'[4]) = Len(band[4]) /\ Len(band[4]) \in Nat
      BY <1>1, <2>2, <2>4
    <2>6. NarrationCapped'
      BY <2>5 DEF NarrationCapped
    <2>7. DepthOf(band') = DepthOf(band)
      BY <1>0, <2>2, <2>4, <2>5
    <2> QED BY <1>0, <1>2, <2>4, <2>6, <2>7
  <1>3. CASE ~ NoRoomLeft(p)
    <2> PICK q \in 1..4 : q = PrioOf[Argument(p)]
      BY <1>a
    <2>2. band' = With(band, q, Append(band[q], Argument(p)))
      BY <1>3 DEF Enqueue, With
    <2>3. /\ band' \in Bands /\ \A r \in 1..4 \ {q} : band'[r] = band[r]
          /\ Len(band'[q]) = Len(band[q]) + 1
          /\ DepthOf(band') = DepthOf(band) - Len(band[q]) + Len(band[q]) + 1
      <3>1. /\ Append(band[q], Argument(p)) \in Seq(Items)
            /\ Len(Append(band[q], Argument(p))) = Len(band[q]) + 1
        BY <1>1, <1>a, AppendProperties
      <3>2. OnlyBand(band, q, Append(band[q], Argument(p)), band')
        BY <1>0, <2>2, <3>1, OneBand
      <3>3. DepthOf(band) \in Nat /\ Len(band[q]) \in Nat
        BY <1>0, <1>1
      <3>4. DepthOf(band') = DepthOf(band) - Len(band[q]) + (Len(band[q]) + 1)
        BY <3>1, <3>2 DEF OnlyBand
      <3> QED BY <3>1, <3>2, <3>3, <3>4 DEF OnlyBand
    <2>4. DepthOf(band') = DepthOf(band) + 1
      <3>1. Len(band[q]) \in Nat /\ DepthOf(band) \in Nat
        BY <1>0, <1>1
      <3> QED BY <2>3, <3>1
    <2>5. NarrationCapped'
      <3>1. CASE q = 4
        <4>1. MaxSize > 0 => ~ (Len(band[4]) >= MaxSize)
          BY <1>3, <3>1 DEF NoRoomLeft
        <4>2. Len(band'[4]) = Len(band[4]) + 1 /\ Len(band[4]) \in Nat
          BY <1>1, <2>3, <3>1
        <4> QED BY <1>0, <4>1, <4>2 DEF NarrationCapped
      <3>2. CASE q # 4
        BY <2>3, <3>2 DEF NarrationCapped
      <3> QED BY <3>1, <3>2
    <2> QED BY <1>0, <1>3, <2>3, <2>4, <2>5
  <1> QED BY <1>2, <1>3

LEMMA EnqueueKeeps ==
  ASSUME ArbiterInv, NEW p \in Putters, Enqueue(p)
  PROVE  ArbiterInv'
  <1> USE DEF ArbiterInv
  <1>0. p \in Threads /\ callback[p] = 0 /\ call[p] = "counted" /\ call'[p] = "returned"
        /\ \A q \in Putters \ {p} : call'[q] = call[q]
    BY WhoIsWho DEF Enqueue, Fresh, TypeOK
  <1> PICK n : n = IF NoRoomLeft(p) THEN 1 ELSE 0
    OBVIOUS
  <1>1. n \in {0, 1} /\ n \in Nat /\ callback' = [callback EXCEPT ![p] = n]
    BY DEF Enqueue
  <1>2. band' \in Bands /\ NarrationCapped' /\ Depth' = Depth + (IF NoRoomLeft(p) THEN 0 ELSE 1)
    BY EnqueueGrows
  <1>3. /\ IsFiniteSet(Unreported)' /\ Cardinality(Unreported)' = Cardinality(Unreported) + n
        /\ callback' \in [Threads -> Nat]
    BY <1>0, <1>1, RemovedUnreported
  <1>4. IsFiniteSet(Counted)' /\ Cardinality(Counted)' = Cardinality(Counted) - 1
    BY <1>0, OneLessCounted DEF Counted, CountedBy, Few
  <1>5. p = Worker => pass \in {"retrying", "putting back"} /\ (pass = "putting back" => putBacks < MaxPutBacks)
    BY <1>0 DEF Carried
  <1>6. TypeOK'
    <2>1. call' \in [Putters -> {"new", "waiting", "woken", "counted", "full", "retry",
                                 "returned", "dropped"}]
      BY DEF Enqueue, TypeOK
    <2>2. pass' \in {"idle", "taken", "playing", "retrying", "putting back", "ended"}
      BY DEF Enqueue, TypeOK
    <2>3. putBacks' \in 0..MaxPutBacks
      <3>1. putBacks \in 0..MaxPutBacks /\ MaxPutBacks \in Nat
        BY ArbiterAssumption DEF TypeOK
      <3>2. putBacks' = putBacks \/ (p = Worker /\ pass = "putting back" /\ putBacks' = putBacks + 1)
        BY DEF Enqueue
      <3>3. CASE putBacks' = putBacks
        BY <3>1, <3>3
      <3>4. CASE p = Worker /\ pass = "putting back" /\ putBacks' = putBacks + 1
        <4>1. putBacks < MaxPutBacks
          BY <1>5, <3>4
        <4>2. putBacks + 1 \in 0..MaxPutBacks
          BY <3>1, <4>1
        <4> QED BY <3>4, <4>2
      <3> QED BY <3>2, <3>3, <3>4
    <2> QED BY <1>2, <1>3, <2>1, <2>2, <2>3 DEF Enqueue, TypeOK, Bands
  <1>7. Carried'
    <2>1. CASE p = Worker
      <3>1. /\ pass' \in {"ended", "idle"} /\ (pass' # "idle" => pass # "idle")
            /\ call'[Worker] = "returned" /\ active' = active
        BY <1>0, <1>5, <2>1 DEF Enqueue
      <3> QED BY <3>1 DEF Carried
    <2>2. CASE p # Worker
      <3>1. pass' = pass /\ putBacks' = putBacks /\ call'[Worker] = call[Worker] /\ active' = active
        BY <1>0, <2>2, WhoIsWho DEF Enqueue
      <3> QED BY <3>1 DEF Carried
    <2> QED BY <2>1, <2>2
  <1>8. Fresh'
    <2>1. \A q \in Putters \ {p} : callback'[q] = callback[q]
      BY <1>1, WhoIsWho DEF TypeOK
    <2> QED BY <1>0, <2>1 DEF Fresh
  <1>9. UnfinishedAccounted'
    <2>1. unfinished' = unfinished
      BY DEF Enqueue
    <2>2. PICK h \in {0, 1} : InHand' = InHand - h /\ putBacks' = putBacks + h
      <3>1. CASE p = Worker /\ pass = "putting back"
        <4>1. InHand = 1 /\ InHand' = 0 /\ putBacks' = putBacks + 1
          BY <3>1 DEF Enqueue, InHand
        <4> QED BY <4>1
      <3>2. CASE ~ (p = Worker /\ pass = "putting back")
        <4>1. InHand' = InHand /\ putBacks' = putBacks
          BY <1>5, <3>2 DEF Enqueue, InHand
        <4> QED BY <4>1, Sizes
      <3> QED BY <3>1, <3>2
    <2>3. Depth' = Depth + (1 - n)
      BY <1>2, Sizes
    <2> PICK d \in Int, c \in Int, g \in Int : d = 1 - n /\ c = -1 /\ g = -h
      BY <1>1
    <2>4. /\ Depth' = Depth + d /\ Cardinality(Counted)' = Cardinality(Counted) + c
          /\ InHand' = InHand + g
      BY <1>4, <2>2, <2>3, Sizes
    <2>5. unfinished' = unfinished + (d + g + c + n + h)
      BY <1>1, <2>1, Sizes
    <2> QED BY <1>1, <1>3, <2>2, <2>4, <2>5, Balance
  <1>10. NoLostWakeup'
    <2>1. CASE n = 1
      <3>1. callback'[p] = 1
        BY <1>0, <1>1, <2>1 DEF TypeOK
      <3> QED BY <1>0, <3>1 DEF NoLostWakeup
    <2>2. CASE n = 0
      <3>1. callback' = callback
        BY <1>0, <1>1, <2>2 DEF TypeOK
      <3>2. AtCapacity => AtCapacity'
        BY <1>2, Sizes DEF AtCapacity
      <3>3. pass = "taken" => pass' = "taken"
        BY <1>5 DEF Enqueue
      <3>4. \A q \in Putters : call'[q] = "waiting" => call[q] = "waiting"
        BY <1>0
      <3> QED BY <3>1, <3>2, <3>3, <3>4 DEF NoLostWakeup
    <2> QED BY <1>1, <2>1, <2>2
  <1> QED BY <1>2, <1>3, <1>4, <1>6, <1>7, <1>8, <1>9, <1>10 DEF Few

LEMMA OnPurgedKeeps ==
  ASSUME ArbiterInv, NEW t \in Threads, OnPurged(t)
  PROVE  ArbiterInv'
  <1> USE DEF ArbiterInv
  <1> PICK n \in Nat : n = callback[t]
    BY DEF TypeOK
  <1>1. callback' \in [Threads -> Nat] /\ callback'[t] = 0 /\ callback = Owing(callback', t, n)
    BY DEF OnPurged, TypeOK, Owing
  <1>2. /\ IsFiniteSet(Unreported)' /\ Cardinality(Unreported)' \in Nat
        /\ Cardinality(Unreported) = Cardinality(Unreported)' + n
    <2>1. Unreported = UnreportedBy(callback) /\ Unreported' = UnreportedBy(callback')
      BY DEF Unreported, UnreportedBy
    <2>2. IsFiniteSet(UnreportedBy(callback))
      BY <2>1 DEF Few
    <2>3. /\ IsFiniteSet(UnreportedBy(callback'))
          /\ Cardinality(UnreportedBy(callback)) = Cardinality(UnreportedBy(callback')) + n
      BY <1>1, <2>2, MoreUnreported
    <2> QED BY <2>1, <2>3, FS_CardinalityType
  <1>3. /\ Depth' = Depth /\ InHand' = InHand /\ putBacks' = putBacks /\ NarrationCapped'
        /\ call' = Notified(call)
    BY DEF OnPurged, Depth, InHand, NarrationCapped
  <1>4. Counted' = Counted
    <2>1. \A q \in Putters : call'[q] = "counted" <=> call[q] = "counted"
      BY <1>3, NotifiedAll
    <2> QED BY <2>1, SameCounted DEF Counted, CountedBy
  <1>5. unfinished' = unfinished - n /\ unfinished - n \in Nat
    <2>1. unfinished = Depth + InHand + Cardinality(Counted) + (Cardinality(Unreported)' + n) + putBacks
      BY <1>2 DEF UnfinishedAccounted, Outstanding
    <2>2. unfinished >= n
      BY <1>2, <2>1, Sizes
    <2>3. unfinished' = IF unfinished > n THEN unfinished - n ELSE 0
      BY DEF OnPurged
    <2> QED BY <2>2, <2>3, Sizes
  <1>6. TypeOK'
    BY <1>1, <1>3, <1>5, NotifiedAll DEF OnPurged, TypeOK
  <1>7. Carried'
    BY <1>3, NotifiedAll, WhoIsWho DEF OnPurged, Carried
  <1>8. Fresh'
    <2>1. \A q \in Threads : callback'[q] = callback[q] \/ callback'[q] = 0
      BY DEF OnPurged, TypeOK
    <2> QED BY <1>3, <2>1, NotifiedAll, WhoIsWho DEF Fresh
  <1>9. UnfinishedAccounted'
    <2>1. unfinished = Depth + InHand + Cardinality(Counted) + (Cardinality(Unreported)' + n) + putBacks
      BY <1>2 DEF UnfinishedAccounted, Outstanding
    <2> PICK u \in Nat : u = Cardinality(Unreported)'
      BY <1>2
    <2>2. unfinished' = Depth + InHand + Cardinality(Counted) + u + putBacks
      BY <1>5, <2>1, Sizes
    <2>3. (Outstanding + putBacks)' = Depth + InHand + Cardinality(Counted) + u + putBacks
      BY <1>3, <1>4 DEF Outstanding
    <2> QED BY <2>2, <2>3 DEF UnfinishedAccounted
  <1>10. NoLostWakeup'
    BY <1>3, NotifiedAll DEF NoLostWakeup
  <1> QED BY <1>2, <1>3, <1>4, <1>6, <1>7, <1>8, <1>9, <1>10 DEF Few

LEMMA DequeueKeeps ==
  ASSUME ArbiterInv, Dequeue
  PROVE  ArbiterInv'
  <1> USE DEF ArbiterInv
  <1>0. band \in Bands /\ DepthOf(band) = Depth /\ Depth' = DepthOf(band') /\ Depth \in Nat /\ MaxSize \in Nat
    BY Sizes DEF Depth, DepthOf
  <1>1. Highest \in 1..4 /\ band[Highest] # <<>>
    BY <1>0, HighestWaits DEF Dequeue
  <1>2. band' = With(band, Highest, Tail(band[Highest]))
    BY DEF Dequeue, With
  <1>3. /\ band' \in Bands /\ DepthOf(band') = DepthOf(band) - 1
        /\ Head(band[Highest]) \in Items
        /\ \A q \in 1..4 \ {Highest} : band'[q] = band[q]
        /\ Len(band'[Highest]) = Len(band[Highest]) - 1
    <2> DEFINE p == Highest
    <2>1. band \in Bands
      BY <1>0
    <2>2. p \in 1..4 /\ band[p] # <<>> /\ band' = With(band, p, Tail(band[p]))
      BY <1>1, <1>2
    <2> HIDE DEF p
    <2>3. /\ band' \in Bands /\ DepthOf(band') = DepthOf(band) - 1
          /\ Head(band[p]) \in Items
          /\ \A q \in 1..4 \ {p} : band'[q] = band[q]
          /\ Len(band'[p]) = Len(band[p]) - 1
      BY <2>1, <2>2, HeadTaken
    <2> QED BY <2>3 DEF p
  <1>4. TypeOK'
    BY <1>3 DEF Dequeue, TypeOK, Bands
  <1>5. Carried' /\ Fresh'
    BY <1>3 DEF Dequeue, Ready, Carried, Fresh
  <1>6. Counted' = Counted /\ Unreported' = Unreported
    BY DEF Dequeue, Counted, Unreported
  <1>7. UnfinishedAccounted'
    <2>1. InHand = 0 /\ InHand' = 1 /\ unfinished' = unfinished /\ putBacks' = putBacks
      BY DEF Dequeue, InHand
    <2>2. Depth' = Depth - 1
      BY <1>0, <1>3
    <2> QED BY <1>6, <2>1, <2>2, Sizes DEF UnfinishedAccounted, Outstanding
  <1>8. NarrationCapped'
    <2>1. Len(band[4]) \in Nat /\ Len(band'[4]) \in Nat
      BY <1>0, <1>3, Lengths
    <2>2. CASE Highest = 4
      <3>1. Len(band'[4]) = Len(band[4]) - 1
        BY <1>3, <2>2
      <3> QED BY <1>0, <2>1, <3>1 DEF NarrationCapped
    <2>3. CASE Highest # 4
      BY <1>3, <2>3 DEF NarrationCapped
    <2> QED BY <2>2, <2>3
  <1>9. NoLostWakeup'
    BY DEF Dequeue, NoLostWakeup
  <1> QED BY <1>4, <1>5, <1>6, <1>7, <1>8, <1>9 DEF Few

LEMMA GetReturnsKeeps ==
  ASSUME ArbiterInv, GetReturns
  PROVE  ArbiterInv'
  <1> USE DEF ArbiterInv
  <1>1. /\ Depth' = Depth /\ Unreported' = Unreported /\ NarrationCapped' /\ InHand' = InHand
        /\ call' = Notified(call)
    BY QuietBands DEF GetReturns, InHand
  <1>2. Counted' = Counted
    <2>1. \A q \in Putters : call'[q] = "counted" <=> call[q] = "counted"
      BY <1>1, NotifiedAll
    <2> QED BY <2>1, SameCounted DEF Counted, CountedBy
  <1>3. TypeOK'
    BY <1>1, NotifiedAll DEF GetReturns, TypeOK
  <1>4. Carried'
    BY <1>1, NotifiedAll, WhoIsWho DEF GetReturns, Carried
  <1>5. Fresh'
    BY <1>1, NotifiedAll DEF GetReturns, Fresh
  <1>6. UnfinishedAccounted'
    BY <1>1, <1>2 DEF GetReturns, UnfinishedAccounted, Outstanding
  <1>7. NoLostWakeup'
    BY <1>1, NotifiedAll DEF NoLostWakeup
  <1> QED BY <1>1, <1>2, <1>3, <1>4, <1>5, <1>6, <1>7 DEF Few

\* The pass ends, or its item is to be put in the queue once more.
LEMMA PassKeeps ==
  ASSUME ArbiterInv, Finish \/ Retry \/ PutBack
  PROVE  ArbiterInv'
  <1> USE DEF ArbiterInv
  <1>0. /\ pass = "playing" /\ Ready /\ active \in Items
        /\ pass' \in {"ended", "retrying", "putting back"}
        /\ UNCHANGED <<band, active, unfinished, callback, putBacks, purges, edits>>
    BY DEF Finish, Retry, PutBack, Carried
  <1>1. /\ Depth' = Depth /\ Unreported' = Unreported /\ NarrationCapped' /\ InHand' = InHand
        /\ (AtCapacity' <=> AtCapacity)
    BY <1>0, QuietBands DEF InHand
  <1>2. CASE Finish
    <2>1. UNCHANGED <<call, retries>> /\ pass' = "ended"
      BY <1>2 DEF Finish
    <2>2. TypeOK' /\ Carried' /\ Fresh'
      BY <1>0, <2>1 DEF TypeOK, Carried, Fresh
    <2>3. Counted' = Counted
      BY <2>1 DEF Counted
    <2>4. UnfinishedAccounted'
      BY <1>0, <1>1, <2>3 DEF UnfinishedAccounted, Outstanding
    <2>5. NoLostWakeup'
      BY <1>0, <1>1, <2>1 DEF NoLostWakeup
    <2> QED BY <1>1, <2>2, <2>3, <2>4, <2>5 DEF Few
  <1>3. CASE Retry \/ PutBack
    <2>1. /\ call[Worker] = "returned" /\ callback[Worker] = 0
          /\ call' = [call EXCEPT ![Worker] = "new"]
          /\ pass' \in {"retrying", "putting back"}
          /\ pass' = "putting back" => putBacks < MaxPutBacks
      BY <1>0, <1>3 DEF Retry, PutBack, Ready
    <2>2. retries' \in [Items -> 0..MaxRetries]
      <3>1. CASE Retry
        <4>1. retries \in [Items -> 0..MaxRetries] /\ retries[active] \in 0..MaxRetries
          BY <1>0 DEF TypeOK
        <4>2. MaxRetries \in Nat /\ retries[active] < MaxRetries
          BY <3>1, ArbiterAssumption DEF Retry
        <4>3. retries[active] + 1 \in 0..MaxRetries
          BY <4>1, <4>2
        <4>4. retries' = [retries EXCEPT ![active] = retries[active] + 1]
          BY <3>1 DEF Retry
        <4> QED BY <4>1, <4>3, <4>4
      <3>2. CASE PutBack
        BY <3>2 DEF PutBack, TypeOK
      <3> QED BY <1>3, <3>1, <3>2
    <2>3. /\ call' \in [Putters -> {"new", "waiting", "woken", "counted", "full", "retry",
                                    "returned", "dropped"}]
          /\ call'[Worker] = "new" /\ \A q \in Putters \ {Worker} : call'[q] = call[q]
      BY <2>1, WhoIsWho DEF TypeOK
    <2>4. TypeOK'
      BY <1>0, <2>2, <2>3 DEF TypeOK
    <2>5. Carried'
      BY <1>0, <2>1, <2>3 DEF Carried
    <2>6. Fresh'
      BY <1>0, <2>1, <2>3 DEF Fresh
    <2>7. Counted' = Counted
      <3>1. \A q \in Putters : call'[q] = "counted" <=> call[q] = "counted"
        BY <2>1, <2>3
      <3> QED BY <3>1, SameCounted DEF Counted, CountedBy
    <2>8. UnfinishedAccounted'
      BY <1>0, <1>1, <2>7 DEF UnfinishedAccounted, Outstanding
    <2>9. NoLostWakeup'
      BY <1>0, <1>1, <2>3 DEF NoLostWakeup
    <2> QED BY <1>1, <2>4, <2>5, <2>6, <2>7, <2>8, <2>9 DEF Few
  <1> QED BY <1>2, <1>3

LEMMA TaskDoneKeeps ==
  ASSUME ArbiterInv, TaskDone
  PROVE  ArbiterInv'
  <1> USE DEF ArbiterInv
  <1>1. /\ Depth' = Depth /\ Unreported' = Unreported /\ NarrationCapped'
        /\ (AtCapacity' <=> AtCapacity) /\ callback' = callback /\ putBacks' = putBacks
    BY QuietBands DEF TaskDone
  <1>2. call' \in [Putters -> {"new", "waiting", "woken", "counted", "full", "retry",
                               "returned", "dropped"}]
    BY NotifiedAll DEF TaskDone, TypeOK
  <1>3. \A q \in Putters : call'[q] = call[q] \/ (call[q] = "waiting" /\ call'[q] = "woken")
    BY NotifiedAll DEF TaskDone
  <1>4. Counted' = Counted
    <2>1. \A q \in Putters : call'[q] = "counted" <=> call[q] = "counted"
      BY <1>3
    <2> QED BY <2>1, SameCounted DEF Counted, CountedBy
  <1>5. InHand = 1 /\ InHand' = 0
    BY DEF TaskDone, InHand
  <1>6. unfinished = Depth + 1 + Cardinality(Counted) + Cardinality(Unreported) + putBacks
    BY <1>5 DEF UnfinishedAccounted, Outstanding
  <1>7. unfinished' = Depth + 0 + Cardinality(Counted) + Cardinality(Unreported) + putBacks
    <2>1. unfinished > 0
      BY <1>6, Sizes
    <2>2. unfinished' = unfinished - 1
      BY <2>1 DEF TaskDone
    <2> QED BY <1>6, <2>2, Sizes
  <1>8. UnfinishedAccounted'
    BY <1>1, <1>4, <1>5, <1>7 DEF UnfinishedAccounted, Outstanding
  <1>9. TypeOK'
    <2>1. unfinished' \in Nat
      BY <1>7, Sizes
    <2> QED BY <1>2, <2>1 DEF TaskDone, TypeOK
  <1>10. Carried'
    BY <1>3, WhoIsWho DEF TaskDone, Ready, Carried
  <1>11. Fresh'
    BY <1>1, <1>3 DEF Fresh
  <1>12. NoLostWakeup'
    BY <1>1, <1>3 DEF TaskDone, NoLostWakeup
  <1> QED BY <1>1, <1>4, <1>8, <1>9, <1>10, <1>11, <1>12 DEF Few

\* What a controller's edit leaves alone when it has taken n items away and
\* has them to report.
LEMMA RemovalKeeps ==
  ASSUME ArbiterInv, NEW t \in Controllers, callback[t] = 0, NEW n \in Nat,
         band' \in Bands, Depth' = Depth - n, Len(band'[4]) <= Len(band[4]),
         callback' = [callback EXCEPT ![t] = n],
         UNCHANGED <<active, unfinished, call, pass, retries, putBacks>>,
         purges' \in 0..MaxPurges, edits' \in 0..MaxPurges
  PROVE  ArbiterInv'
  <1> USE DEF ArbiterInv
  <1>1. /\ IsFiniteSet(Unreported)' /\ Cardinality(Unreported)' = Cardinality(Unreported) + n
        /\ callback' \in [Threads -> Nat]
    BY WhoIsWho, RemovedUnreported
  <1>2. Counted' = Counted /\ InHand' = InHand
    BY DEF Counted, InHand
  <1>3. TypeOK'
    BY <1>1 DEF TypeOK, Bands
  <1>4. Carried'
    BY DEF Carried
  <1>5. Fresh'
    <2>1. \A q \in Putters : callback'[q] = callback[q]
      BY WhoIsWho DEF TypeOK
    <2> QED BY <2>1 DEF Fresh
  <1>6. UnfinishedAccounted'
    <2> PICK d \in Int, z \in Int : d = -n /\ z = 0
      OBVIOUS
    <2>1. Depth' = Depth + d /\ InHand' = InHand + z /\ putBacks' = putBacks + z
      <3>1. Depth \in Nat /\ InHand \in Nat /\ putBacks \in Nat
        BY Sizes
      <3> QED BY <1>2, <3>1
    <2>2. Cardinality(Counted)' = Cardinality(Counted) + z
      BY <1>2, Sizes
    <2>3. unfinished' = unfinished + (d + z + z + n + z)
      BY Sizes
    <2> QED BY <1>1, <2>1, <2>2, <2>3, Balance
  <1>7. NarrationCapped'
    <2>1. Len(band[4]) \in Nat /\ Len(band'[4]) \in Nat /\ MaxSize \in Nat
      BY Sizes, Lengths
    <2> QED BY <2>1 DEF NarrationCapped
  <1>8. NoLostWakeup'
    <2>1. CASE n > 0
      <3>1. t \in Threads /\ callback'[t] = n
        BY WhoIsWho DEF TypeOK
      <3> QED BY <2>1, <3>1 DEF NoLostWakeup
    <2>2. CASE n = 0
      <3>1. callback' = callback /\ Depth' = Depth
        <4>1. callback' = callback
          BY <2>2 DEF TypeOK
        <4>2. Depth' = Depth - 0
          BY <2>2
        <4> QED BY <4>1, <4>2, Sizes
      <3>2. AtCapacity => AtCapacity'
        BY <3>1 DEF AtCapacity
      <3>3. call' = call /\ pass' = pass
        OBVIOUS
      <3> QED BY <3>1, <3>2, <3>3 DEF NoLostWakeup
    <2> QED BY <2>1, <2>2
  <1> QED BY <1>1, <1>2, <1>3, <1>4, <1>5, <1>6, <1>7, <1>8 DEF Few

\* What there is still to do in this behaviour.
LEMMA FreeCounts ==
  ASSUME TypeOK, NEW t, Free(t)
  PROVE  /\ callback[t] = 0
         /\ purges \in 0..MaxPurges /\ purges + 1 \in 0..MaxPurges
         /\ edits \in 0..MaxPurges /\ edits + 1 \in 0..MaxPurges
  <1>1. purges \in 0..MaxPurges /\ edits \in 0..MaxPurges /\ MaxPurges \in Nat
    BY ArbiterAssumption DEF TypeOK
  <1>2. callback[t] = 0 /\ purges + edits < MaxPurges
    BY DEF Free
  <1>3. purges + 1 \in 0..MaxPurges
    BY <1>1, <1>2
  <1>4. edits + 1 \in 0..MaxPurges
    BY <1>1, <1>2
  <1> QED BY <1>1, <1>2, <1>3, <1>4

LEMMA PurgeKeeps ==
  ASSUME ArbiterInv, NEW t \in Controllers, PurgeLowerQueues(t)
  PROVE  ArbiterInv'
  <1> USE DEF ArbiterInv
  <1> DEFINE half == With(band, 3, <<>>)
             all == With(half, 4, <<>>)
  <1>0. band \in Bands /\ DepthOf(band) = Depth /\ Depth' = DepthOf(band')
    BY Sizes DEF Depth, DepthOf
  <1>1. <<>> \in Seq(Items) /\ Len(<<>>) = 0
    BY EmptySeq
  <1>2. OnlyBand(band, 3, <<>>, half)
    <2>1. band \in Bands /\ 3 \in 1..4
      BY <1>0
    <2> QED BY <1>1, <2>1, OneBand, Zenon
  <1>3. OnlyBand(half, 4, <<>>, all)
    <2>1. half \in Bands /\ 4 \in 1..4
      BY <1>2 DEF OnlyBand
    <2> HIDE DEF half
    <2> QED BY <1>1, <2>1, OneBand, Zenon
  <1>4. band' = all
    BY <1>0 DEF PurgeLowerQueues, With, Bands
  <1>5. Len(band[3]) \in Nat /\ Len(band[4]) \in Nat /\ DepthOf(band) \in Nat
    BY <1>0, Lengths
  <1> HIDE DEF half, all
  <1>6. DepthOf(half) = DepthOf(band) - Len(band[3]) + 0 /\ half[4] = band[4]
    BY <1>1, <1>2 DEF OnlyBand
  <1>7. /\ band' \in Bands /\ band'[4] = <<>>
        /\ DepthOf(band') = DepthOf(half) - Len(half[4]) + 0
    BY <1>1, <1>3, <1>4 DEF OnlyBand
  <1> PICK n3 \in Nat, n4 \in Nat, n \in Nat : n3 = Len(band[3]) /\ n4 = Len(band[4]) /\ n = n3 + n4
    BY <1>5
  <1>8. Depth' = Depth - n
    <2>1. DepthOf(half) = DepthOf(band) - n3 + 0
      BY <1>6
    <2>2. DepthOf(band') = DepthOf(half) - n4 + 0
      BY <1>6, <1>7
    <2>3. Depth' = ((Depth - n3) + 0) - n4 + 0
      BY <1>0, <2>1, <2>2
    <2>4. Depth \in Nat /\ n = n3 + n4
      BY <1>0, <1>5
    <2> QED BY <2>3, <2>4
  <1>9. Len(band'[4]) <= Len(band[4])
    BY <1>1, <1>5, <1>7
  <1>10. /\ callback[t] = 0 /\ callback' = [callback EXCEPT ![t] = n]
         /\ purges' \in 0..MaxPurges /\ edits' \in 0..MaxPurges
         /\ UNCHANGED <<active, unfinished, call, pass, retries, putBacks>>
    BY FreeCounts DEF PurgeLowerQueues
  <1> QED BY <1>7, <1>8, <1>9, <1>10, RemovalKeeps

LEMMA RemoveWhereKeeps ==
  ASSUME ArbiterInv, NEW t \in Controllers, NEW S, RemoveWhere(t, S)
  PROVE  ArbiterInv'
  <1> USE DEF ArbiterInv
  <1>0. band \in Bands /\ DepthOf(band) = Depth /\ Depth' = DepthOf(band')
    BY Sizes DEF Depth, DepthOf
  <1>1. \A p \in 1..4 : /\ band'[p] = Without(band[p], S) /\ band'[p] \in Seq(Items)
                        /\ Len(band'[p]) <= Len(band[p])
    <2> TAKE p \in 1..4
    <2>1. band[p] \in Seq(Items) /\ band'[p] = Without(band[p], S)
      BY <1>0 DEF Bands, RemoveWhere
    <2> QED BY <2>1, WithoutPlaces
  <1>2. band' \in Bands
    <2>1. band' = [p \in 1..4 |-> Without(band[p], S)]
      BY DEF RemoveWhere
    <2> QED BY <1>1, <2>1 DEF Bands
  <1>3. \A p \in 1..4 : Len(band[p]) \in Nat /\ Len(band'[p]) \in Nat
    BY <1>0, <1>2, Lengths
  <1> PICK n1 \in Nat, n2 \in Nat, n3 \in Nat, n4 \in Nat, m1 \in Nat, m2 \in Nat, m3 \in Nat, m4 \in Nat :
          /\ Len(band[1]) = n1 /\ Len(band[2]) = n2 /\ Len(band[3]) = n3 /\ Len(band[4]) = n4
          /\ Len(band'[1]) = m1 /\ Len(band'[2]) = m2 /\ Len(band'[3]) = m3 /\ Len(band'[4]) = m4
    <2>1. Len(band[1]) \in Nat /\ Len(band[2]) \in Nat /\ Len(band[3]) \in Nat /\ Len(band[4]) \in Nat
      BY <1>3
    <2>2. Len(band'[1]) \in Nat /\ Len(band'[2]) \in Nat /\ Len(band'[3]) \in Nat /\ Len(band'[4]) \in Nat
      BY <1>3
    <2> QED BY <2>1, <2>2
  <1>4. m1 <= n1 /\ m2 <= n2 /\ m3 <= n3 /\ m4 <= n4
    <2>1. /\ Len(band'[1]) <= Len(band[1]) /\ Len(band'[2]) <= Len(band[2])
          /\ Len(band'[3]) <= Len(band[3]) /\ Len(band'[4]) <= Len(band[4])
      <3>1. \A p \in 1..4 : Len(band'[p]) <= Len(band[p])
        BY <1>1
      <3>2. 1 \in 1..4 /\ 2 \in 1..4 /\ 3 \in 1..4 /\ 4 \in 1..4
        OBVIOUS
      <3> QED BY <3>1, <3>2, Zenon
    <2> QED BY <2>1
  <1>5. Depth = n1 + n2 + n3 + n4 /\ Depth' = m1 + m2 + m3 + m4
    BY <1>0 DEF DepthOf
  <1> PICK n \in Nat : n = Depth - m1 - m2 - m3 - m4
    BY <1>4, <1>5
  <1>6. Depth' = Depth - n
    BY <1>5
  <1>7. Len(band'[4]) <= Len(band[4])
    BY <1>1
  <1>8. /\ callback[t] = 0 /\ callback' = [callback EXCEPT ![t] = n]
        /\ purges' \in 0..MaxPurges /\ edits' \in 0..MaxPurges
        /\ UNCHANGED <<active, unfinished, call, pass, retries, putBacks>>
    BY FreeCounts DEF RemoveWhere
  <1> QED BY <1>2, <1>6, <1>7, <1>8, RemovalKeeps

\* A moved item stays in its band.
LEMMA MoveStays ==
  ASSUME band \in Bands, NEW p \in 1..4, NEW at \in DOMAIN band[p], NEW to \in Int
  PROVE  /\ MoveTo(p, at, to) \in Bands
         /\ DepthOf(MoveTo(p, at, to)) = DepthOf(band)
         /\ \A q \in 1..4 : Len(MoveTo(p, at, to)[q]) = Len(band[q])
  <1> DEFINE rest == RemoveAt(band[p], at)
             k == Clamped(to - Before(p), 0, Len(rest)) + 1
             s == InsertAt(rest, k, band[p][at])
  <1>0. band[p] \in Seq(Items) /\ at \in 1..Len(band[p]) /\ band[p][at] \in Items
    <2>1. band[p] \in Seq(Items)
      BY DEF Bands
    <2> QED BY <2>1, LenProperties, ElementOfSeq
  <1>1. rest \in Seq(Items) /\ Len(rest) = Len(band[p]) - 1
    BY <1>0, RemoveAtSeq
  <1>2. \A q \in 1..4 : Len(band[q]) \in Nat
    BY Lengths
  <1>3. Len(rest) \in Nat
    BY <1>1, LenProperties
  <1>4. Before(p) \in Nat
    <2>1. Ahead(1, p) \in Nat /\ Ahead(2, p) \in Nat /\ Ahead(3, p) \in Nat
      BY <1>2 DEF Ahead
    <2> QED BY <2>1 DEF Before
  <1>5. k \in 1..(Len(rest) + 1)
    <2> HIDE DEF rest
    <2> QED BY <1>3, <1>4 DEF Clamped
  <1>6. MoveTo(p, at, to) = With(band, p, s)
    BY DEF MoveTo, With
  <1> HIDE DEF rest, k
  <1>7. s \in Seq(Items) /\ Len(s) = Len(rest) + 1
    <2>1. rest \in Seq(Items) /\ k \in 1..(Len(rest) + 1) /\ band[p][at] \in Items
      BY <1>0, <1>1, <1>5
    <2> QED BY <2>1, InsertAtSeq
  <1> HIDE DEF s
  <1>8. OnlyBand(band, p, s, With(band, p, s))
    BY <1>7, OneBand
  <1>9. Len(s) = Len(band[p]) /\ DepthOf(band) \in Nat /\ Len(band[p]) \in Nat
    BY <1>1, <1>2, <1>3, <1>7, Lengths
  <1>10. DepthOf(With(band, p, s)) = DepthOf(band)
    BY <1>8, <1>9 DEF OnlyBand
  <1>11. \A q \in 1..4 : Len(With(band, p, s)[q]) = Len(band[q])
    BY <1>8, <1>9 DEF OnlyBand
  <1> QED BY <1>6, <1>8, <1>10, <1>11 DEF OnlyBand

LEMMA MoveKeeps ==
  ASSUME ArbiterInv, NEW t \in Controllers, NEW i, NEW to \in Int, Move(t, i, to)
  PROVE  ArbiterInv'
  <1> USE DEF ArbiterInv
  <1>0. band \in Bands /\ DepthOf(band) = Depth /\ Depth' = DepthOf(band')
    BY Sizes DEF Depth, DepthOf
  <1>1. PICK p \in 1..4 : \E at \in DOMAIN band[p] : band' = MoveTo(p, at, to)
    BY DEF Move
  <1>2. PICK at \in DOMAIN band[p] : band' = MoveTo(p, at, to)
    BY <1>1
  <1>3. /\ band' \in Bands /\ DepthOf(band') = DepthOf(band)
        /\ Len(band'[4]) = Len(band[4])
    BY <1>0, <1>2, MoveStays
  <1>4. /\ purges' \in 0..MaxPurges /\ edits' \in 0..MaxPurges
        /\ UNCHANGED <<active, unfinished, call, callback, pass, retries, putBacks>>
    BY FreeCounts DEF Move
  <1>5. TypeOK'
    BY <1>3, <1>4 DEF TypeOK, Bands
  <1>6. Carried' /\ Fresh'
    BY <1>4 DEF Carried, Fresh
  <1>7. Counted' = Counted /\ Unreported' = Unreported /\ InHand' = InHand /\ Depth' = Depth
    BY <1>0, <1>3, <1>4 DEF Counted, Unreported, InHand
  <1>8. UnfinishedAccounted'
    BY <1>4, <1>7 DEF UnfinishedAccounted, Outstanding
  <1>9. NarrationCapped'
    BY <1>3 DEF NarrationCapped
  <1>10. NoLostWakeup'
    BY <1>4, <1>7 DEF NoLostWakeup, AtCapacity
  <1> QED BY <1>5, <1>6, <1>7, <1>8, <1>9, <1>10 DEF Few

----------------------------------------------------------------------------
LEMMA ArbiterStep == ArbiterInv /\ [Next]_vars => ArbiterInv'
  <1> SUFFICES ASSUME ArbiterInv, [Next]_vars PROVE ArbiterInv'
    OBVIOUS
  <1>1. ASSUME NEW p \in Putters, PutStep(p) PROVE ArbiterInv'
    BY <1>1, CountOrWaitKeeps, PutNowaitKeeps, ShedOldestKeeps, EnqueueKeeps DEF PutStep
  <1>2. ASSUME NEW t \in Threads, OnPurged(t) PROVE ArbiterInv'
    BY <1>2, OnPurgedKeeps
  <1>3. CASE WorkerStep
    BY <1>3, DequeueKeeps, GetReturnsKeeps, PassKeeps, TaskDoneKeeps DEF WorkerStep
  <1>4. ASSUME NEW t \in Controllers, PurgeLowerQueues(t) PROVE ArbiterInv'
    BY <1>4, PurgeKeeps
  <1>5. ASSUME NEW t \in Controllers, NEW S \in SUBSET Waiting, RemoveWhere(t, S) PROVE ArbiterInv'
    BY <1>5, RemoveWhereKeeps
  <1>6. ASSUME NEW t \in Controllers, NEW i \in Waiting, NEW to \in -1..Depth, Move(t, i, to)
        PROVE  ArbiterInv'
    <2>1. to \in Int
      BY Sizes DEF ArbiterInv
    <2> QED BY <1>6, <2>1, MoveKeeps
  <1>7. CASE UNCHANGED vars
    BY <1>7 DEF vars, ArbiterInv, TypeOK, Carried, Fresh, Few, Counted, Unreported,
                UnfinishedAccounted, Outstanding, Depth, InHand, NarrationCapped, NoLostWakeup, AtCapacity
  <1> QED BY <1>1, <1>2, <1>3, <1>4, <1>5, <1>6, <1>7 DEF Next

LEMMA ArbiterHolds == Spec => []ArbiterInv
  BY ArbiterStarts, ArbiterStep, PTL DEF Spec

\* The types of priority_arbiter.py's state.
THEOREM ArbiterTyped == Spec => []TypeOK
  <1>1. ArbiterInv => TypeOK
    BY DEF ArbiterInv
  <1> QED BY <1>1, ArbiterHolds, PTL

\* The counter of unfinished tasks is the work outstanding (and the retries
\* put back), for any number of threads and however their halves interleave.
THEOREM UnfinishedIsAccounted == Spec => []UnfinishedAccounted
  <1>1. ArbiterInv => UnfinishedAccounted
    BY DEF ArbiterInv
  <1> QED BY <1>1, ArbiterHolds, PTL

\* max_queue_depth caps the narration band, whatever the bound and however
\* many handlers have seen room before any of them appends.
THEOREM NarrationIsCapped == Spec => []NarrationCapped
  <1>1. ArbiterInv => NarrationCapped
    BY DEF ArbiterInv
  <1> QED BY <1>1, ArbiterHolds, PTL

\* No put that sleeps on a full queue is forgotten.
THEOREM NoWakeupIsLost == Spec => []NoLostWakeup
  <1>1. ArbiterInv => NoLostWakeup
    BY DEF ArbiterInv
  <1> QED BY <1>1, ArbiterHolds, PTL
====
