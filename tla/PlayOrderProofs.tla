--------------------------- MODULE PlayOrderProofs ---------------------------
(***************************************************************************)
(* The four bands of PriorityArbiter, played one after the other, are the  *)
(* one sequence of PlayOrder: every step of the queue is a step of the     *)
(* abstract queue or changes nothing it sees, for any lines, threads,      *)
(* priorities, cap and bounds (QueuePlaysInOrder), and a move takes an     *)
(* item to the place asked, or the nearest its band has                    *)
(* (MovesGoWhereAsked).                                                    *)
(*                                                                         *)
(* An item put in a band, or taken out, at a place is put in the play      *)
(* order, or taken out, at that place from where the band begins           *)
(* (InsertInBand, DeleteInBand).  That the places are the same needs       *)
(* PlayInv: each item waits in one place, in the band of its priority, and *)
(* what a thread has still to put, or the worker has in hand, waits        *)
(* nowhere.  There is one lemma per action that moves an item.             *)
(***************************************************************************)
EXTENDS PriorityArbiterProofs

----------------------------------------------------------------------------
(* The play order: the bands one after the other. *)

Whole(b) == b[1] \o b[2] \o b[3] \o b[4]

\* How much of b plays before band q does, and the band its j-th item is in.
Start(b, q) == (IF q > 1 THEN Len(b[1]) ELSE 0) + (IF q > 2 THEN Len(b[2]) ELSE 0)
               + (IF q > 3 THEN Len(b[3]) ELSE 0)
BandAt(b, j) == IF j <= Start(b, 2) THEN 1 ELSE IF j <= Start(b, 3) THEN 2
                ELSE IF j <= Start(b, 4) THEN 3 ELSE 4

\* Four lengths, where each begins when they follow each other, and their sum.
InRow(n1, n2, n3, n4, a1, a2, a3, a4, d) ==
  /\ a1 \in Nat /\ a2 \in Nat /\ a3 \in Nat /\ a4 \in Nat /\ d \in Nat
  /\ a1 + n1 <= a2 /\ a1 + n1 <= a3 /\ a1 + n1 <= a4
  /\ a2 + n2 <= a3 /\ a2 + n2 <= a4 /\ a3 + n3 <= a4
  /\ a1 + n1 <= d /\ a2 + n2 <= d /\ a3 + n3 <= d /\ a4 + n4 <= d

LEMMA RowOf ==
  \A n1, n2, n3, n4 \in Nat :
     InRow(n1, n2, n3, n4, 0, n1, n1 + n2, n1 + n2 + n3, n1 + n2 + n3 + n4)
  BY DEF InRow

LEMMA PlusNothing == \A m, n \in Nat : m + n + 0 = m + n
  OBVIOUS

LEMMA Starts ==
  ASSUME NEW b \in Bands
  PROVE  /\ Start(b, 1) = 0 /\ Start(b, 2) = Len(b[1]) /\ Start(b, 3) = Len(b[1]) + Len(b[2])
         /\ Start(b, 4) = Len(b[1]) + Len(b[2]) + Len(b[3])
         /\ DepthOf(b) = Len(b[1]) + Len(b[2]) + Len(b[3]) + Len(b[4])
         /\ Len(b[1]) \in Nat /\ Len(b[2]) \in Nat /\ Len(b[3]) \in Nat /\ Len(b[4]) \in Nat
         /\ b[1] \in Seq(Items) /\ b[2] \in Seq(Items) /\ b[3] \in Seq(Items) /\ b[4] \in Seq(Items)
  <1>1. \A q \in 1..4 : Len(b[q]) \in Nat
    BY Lengths
  <1>2. Len(b[1]) \in Nat /\ Len(b[2]) \in Nat /\ Len(b[3]) \in Nat /\ Len(b[4]) \in Nat
    BY <1>1
  <1>3. b[1] \in Seq(Items) /\ b[2] \in Seq(Items) /\ b[3] \in Seq(Items) /\ b[4] \in Seq(Items)
    BY DEF Bands
  <1>4. Start(b, 1) = 0 + 0 + 0
    BY DEF Start
  <1>5. Start(b, 2) = Len(b[1]) + 0 + 0
    BY DEF Start
  <1>6. Start(b, 3) = Len(b[1]) + Len(b[2]) + 0
    BY DEF Start
  <1>7. Start(b, 4) = Len(b[1]) + Len(b[2]) + Len(b[3])
    BY DEF Start
  <1>8. DepthOf(b) = Len(b[1]) + Len(b[2]) + Len(b[3]) + Len(b[4])
    BY DEF DepthOf
  <1>9. Start(b, 1) = 0
    BY <1>4
  <1>10. Start(b, 2) = Len(b[1])
    BY <1>2, <1>5
  <1>11. Start(b, 3) = Len(b[1]) + Len(b[2])
    BY <1>2, <1>6, PlusNothing, Zenon
  <1> QED BY <1>2, <1>3, <1>7, <1>8, <1>9, <1>10, <1>11

\* What precedes a band precedes every later one, the band itself with it.
LEMMA StartsGrow ==
  ASSUME NEW b \in Bands, NEW q \in 1..4
  PROVE  /\ Start(b, q) \in Nat /\ Len(b[q]) \in Nat
         /\ Start(b, q) + Len(b[q]) <= DepthOf(b)
         /\ \A r \in 1..4 : q < r => Start(b, q) + Len(b[q]) <= Start(b, r)
  <1>1. /\ Len(b[1]) \in Nat /\ Len(b[2]) \in Nat /\ Len(b[3]) \in Nat /\ Len(b[4]) \in Nat
        /\ Start(b, 1) = 0 /\ Start(b, 2) = Len(b[1]) /\ Start(b, 3) = Len(b[1]) + Len(b[2])
        /\ Start(b, 4) = Len(b[1]) + Len(b[2]) + Len(b[3])
        /\ DepthOf(b) = Len(b[1]) + Len(b[2]) + Len(b[3]) + Len(b[4])
    BY Starts
  <1>2. /\ Start(b, 1) \in Nat /\ Start(b, 2) \in Nat /\ Start(b, 3) \in Nat /\ Start(b, 4) \in Nat
        /\ Start(b, 1) + Len(b[1]) <= Start(b, 2) /\ Start(b, 1) + Len(b[1]) <= Start(b, 3)
        /\ Start(b, 1) + Len(b[1]) <= Start(b, 4)
        /\ Start(b, 2) + Len(b[2]) <= Start(b, 3) /\ Start(b, 2) + Len(b[2]) <= Start(b, 4)
        /\ Start(b, 3) + Len(b[3]) <= Start(b, 4)
        /\ Start(b, 1) + Len(b[1]) <= DepthOf(b) /\ Start(b, 2) + Len(b[2]) <= DepthOf(b)
        /\ Start(b, 3) + Len(b[3]) <= DepthOf(b) /\ Start(b, 4) + Len(b[4]) <= DepthOf(b)
    <2>1. InRow(Len(b[1]), Len(b[2]), Len(b[3]), Len(b[4]),
                Start(b, 1), Start(b, 2), Start(b, 3), Start(b, 4), DepthOf(b))
      BY <1>1, RowOf, Zenon
    <2> QED BY <2>1 DEF InRow
  <1>3. \A r \in 1..4 : r = 1 \/ r = 2 \/ r = 3 \/ r = 4
    OBVIOUS
  <1>4. Start(b, q) \in Nat /\ Len(b[q]) \in Nat /\ Start(b, q) + Len(b[q]) <= DepthOf(b)
    BY <1>1, <1>2, <1>3
  <1>5. ASSUME NEW r \in 1..4, q < r PROVE Start(b, q) + Len(b[q]) <= Start(b, r)
    <2>1. CASE q = 1 /\ r = 2
      BY <1>2, <2>1
    <2>2. CASE q = 1 /\ r = 3
      BY <1>2, <2>2
    <2>3. CASE q = 1 /\ r = 4
      BY <1>2, <2>3
    <2>4. CASE q = 2 /\ r = 3
      BY <1>2, <2>4
    <2>5. CASE q = 2 /\ r = 4
      BY <1>2, <2>5
    <2>6. CASE q = 3 /\ r = 4
      BY <1>2, <2>6
    <2>7. \/ q = 1 /\ (r = 2 \/ r = 3 \/ r = 4)
          \/ q = 2 /\ (r = 3 \/ r = 4)
          \/ q = 3 /\ r = 4
      BY <1>5
    <2> QED BY <2>1, <2>2, <2>3, <2>4, <2>5, <2>6, <2>7
  <1> QED BY <1>4, <1>5

\* c is s, of length m, and t, of length n, behind it.
Joins(s, t, m, n, c) ==
  /\ c \in Seq(Items) /\ Len(c) = m + n
  /\ \A i \in 1..m : c[i] = s[i]
  /\ \A i \in 1..n : c[m + i] = t[i]

LEMMA Joined ==
  ASSUME NEW s \in Seq(Items), NEW t \in Seq(Items), NEW m \in Nat, NEW n \in Nat,
         Len(s) = m, Len(t) = n
  PROVE  Joins(s, t, m, n, s \o t)
  <1> PICK c : c = s \o t
    OBVIOUS
  <1>1. /\ c \in Seq(Items) /\ Len(c) = Len(s) + Len(t)
        /\ \A i \in 1..(Len(s) + Len(t)) : c[i] = IF i <= Len(s) THEN s[i] ELSE t[i - Len(s)]
    BY ConcatProperties
  <1>2. \A i \in 1..(m + n) : c[i] = IF i <= m THEN s[i] ELSE t[i - m]
    BY <1>1
  <1>3. \A i \in 1..m : c[i] = s[i]
    <2> TAKE i \in 1..m
    <2>1. i \in 1..(m + n) /\ i <= m
      OBVIOUS
    <2> QED BY <1>2, <2>1
  <1>4. \A i \in 1..n : c[m + i] = t[i]
    <2> TAKE i \in 1..n
    <2>1. m + i \in 1..(m + n) /\ ~ (m + i <= m) /\ (m + i) - m = i
      OBVIOUS
    <2> QED BY <1>2, <2>1
  <1> QED BY <1>1, <1>3, <1>4 DEF Joins

FourJoin(s1, s2, s3, s4, n1, n2, n3, n4, c4) ==
  /\ c4 \in Seq(Items) /\ Len(c4) = n1 + n2 + n3 + n4
  /\ \A m \in 1..n1 : c4[0 + m] = s1[m]
  /\ \A m \in 1..n2 : c4[n1 + m] = s2[m]
  /\ \A m \in 1..n3 : c4[(n1 + n2) + m] = s3[m]
  /\ \A m \in 1..n4 : c4[(n1 + n2 + n3) + m] = s4[m]

LEMMA FourJoined ==
  ASSUME NEW s1 \in Seq(Items), NEW s2 \in Seq(Items), NEW s3 \in Seq(Items), NEW s4 \in Seq(Items),
         NEW n1, NEW n2, NEW n3, NEW n4,
         Len(s1) = n1, Len(s2) = n2, Len(s3) = n3, Len(s4) = n4
  PROVE  FourJoin(s1, s2, s3, s4, n1, n2, n3, n4, s1 \o s2 \o s3 \o s4)
  <1> DEFINE c2 == s1 \o s2
             c3 == c2 \o s3
             c4 == c3 \o s4
  <1>a. n1 \in Nat /\ n2 \in Nat /\ n3 \in Nat /\ n4 \in Nat
    BY LenProperties
  <1>0. n1 + n2 \in Nat /\ n1 + n2 + n3 \in Nat
    BY <1>a
  <1>1. Joins(s1, s2, n1, n2, c2)
    BY <1>a, Joined
  <1> HIDE DEF c2
  <1>2. c2 \in Seq(Items) /\ Len(c2) = n1 + n2
    BY <1>1 DEF Joins
  <1>3. Joins(c2, s3, n1 + n2, n3, c3)
    BY <1>a, <1>0, <1>2, Joined
  <1> HIDE DEF c3
  <1>4. c3 \in Seq(Items) /\ Len(c3) = n1 + n2 + n3
    BY <1>3 DEF Joins
  <1>5. Joins(c3, s4, n1 + n2 + n3, n4, c4)
    BY <1>a, <1>0, <1>4, Joined
  <1> HIDE DEF c4
  <1>6. ASSUME NEW m \in 1..n1 PROVE c4[0 + m] = s1[m]
    <2>1. 0 + m = m /\ m \in 1..(n1 + n2) /\ m \in 1..(n1 + n2 + n3)
      BY <1>a
    <2>2. c2[m] = s1[m]
      BY <1>1 DEF Joins
    <2>3. c3[m] = c2[m]
      BY <1>3, <2>1 DEF Joins
    <2>4. c4[m] = c3[m]
      BY <1>5, <2>1 DEF Joins
    <2> QED BY <2>1, <2>2, <2>3, <2>4
  <1>7. ASSUME NEW m \in 1..n2 PROVE c4[n1 + m] = s2[m]
    <2>1. n1 + m \in 1..(n1 + n2) /\ n1 + m \in 1..(n1 + n2 + n3)
      BY <1>a
    <2>2. c2[n1 + m] = s2[m]
      BY <1>1 DEF Joins
    <2>3. c3[n1 + m] = c2[n1 + m]
      BY <1>3, <2>1 DEF Joins
    <2>4. c4[n1 + m] = c3[n1 + m]
      BY <1>5, <2>1 DEF Joins
    <2> QED BY <2>2, <2>3, <2>4
  <1>8. ASSUME NEW m \in 1..n3 PROVE c4[(n1 + n2) + m] = s3[m]
    <2>1. (n1 + n2) + m \in 1..(n1 + n2 + n3)
      BY <1>a
    <2> QED BY <1>3, <1>5, <2>1 DEF Joins
  <1>9. FourJoin(s1, s2, s3, s4, n1, n2, n3, n4, c4)
    BY <1>5, <1>6, <1>7, <1>8 DEF Joins, FourJoin
  <1> QED BY <1>9 DEF c4, c3, c2

LEMMA WholeIs ==
  ASSUME NEW b \in Bands
  PROVE  /\ Whole(b) \in Seq(Items) /\ Len(Whole(b)) = DepthOf(b) /\ DepthOf(b) \in Nat
         /\ DOMAIN Whole(b) = 1..DepthOf(b)
         /\ \A q \in 1..4 : \A m \in 1..Len(b[q]) : Whole(b)[Start(b, q) + m] = b[q][m]
  <1>1. /\ Len(b[1]) \in Nat /\ Len(b[2]) \in Nat /\ Len(b[3]) \in Nat /\ Len(b[4]) \in Nat
        /\ Start(b, 1) = 0 /\ Start(b, 2) = Len(b[1]) /\ Start(b, 3) = Len(b[1]) + Len(b[2])
        /\ Start(b, 4) = Len(b[1]) + Len(b[2]) + Len(b[3])
        /\ DepthOf(b) = Len(b[1]) + Len(b[2]) + Len(b[3]) + Len(b[4])
    BY Starts
  <1>2. b[1] \in Seq(Items) /\ b[2] \in Seq(Items) /\ b[3] \in Seq(Items) /\ b[4] \in Seq(Items)
    BY Starts
  <1>3. /\ Whole(b) \in Seq(Items) /\ Len(Whole(b)) = Len(b[1]) + Len(b[2]) + Len(b[3]) + Len(b[4])
        /\ \A m \in 1..Len(b[1]) : Whole(b)[0 + m] = b[1][m]
        /\ \A m \in 1..Len(b[2]) : Whole(b)[Len(b[1]) + m] = b[2][m]
        /\ \A m \in 1..Len(b[3]) : Whole(b)[(Len(b[1]) + Len(b[2])) + m] = b[3][m]
        /\ \A m \in 1..Len(b[4]) : Whole(b)[(Len(b[1]) + Len(b[2]) + Len(b[3])) + m] = b[4][m]
    <2>1. FourJoin(b[1], b[2], b[3], b[4], Len(b[1]), Len(b[2]), Len(b[3]), Len(b[4]),
                   b[1] \o b[2] \o b[3] \o b[4])
      <3> PICK s1 \in Seq(Items), s2 \in Seq(Items), s3 \in Seq(Items), s4 \in Seq(Items) :
              s1 = b[1] /\ s2 = b[2] /\ s3 = b[3] /\ s4 = b[4]
        BY <1>2
      <3> QED BY FourJoined
    <2>3. FourJoin(b[1], b[2], b[3], b[4], Len(b[1]), Len(b[2]), Len(b[3]), Len(b[4]), Whole(b))
      BY <2>1 DEF Whole
    <2> QED BY <2>3 DEF FourJoin
  <1>4. /\ \A m \in 1..Len(b[1]) : Whole(b)[Start(b, 1) + m] = b[1][m]
        /\ \A m \in 1..Len(b[2]) : Whole(b)[Start(b, 2) + m] = b[2][m]
        /\ \A m \in 1..Len(b[3]) : Whole(b)[Start(b, 3) + m] = b[3][m]
        /\ \A m \in 1..Len(b[4]) : Whole(b)[Start(b, 4) + m] = b[4][m]
    BY <1>1, <1>3, Zenon
  <1>5. \A q \in 1..4 : q = 1 \/ q = 2 \/ q = 3 \/ q = 4
    OBVIOUS
  <1>6. \A q \in 1..4 : \A m \in 1..Len(b[q]) : Whole(b)[Start(b, q) + m] = b[q][m]
    BY <1>4, <1>5
  <1>7. DepthOf(b) \in Nat
    BY Lengths
  <1>8. DOMAIN Whole(b) = 1..DepthOf(b)
    <2>1. Len(Whole(b)) = DepthOf(b)
      BY <1>1, <1>3
    <2> QED BY <1>3, <2>1, LenProperties
  <1> QED BY <1>1, <1>3, <1>6, <1>7, <1>8

\* Every place of the play order is a place of one band.
LEMMA EachInBand ==
  ASSUME NEW b \in Bands, NEW j \in 1..DepthOf(b)
  PROVE  /\ BandAt(b, j) \in 1..4
         /\ j - Start(b, BandAt(b, j)) \in 1..Len(b[BandAt(b, j)])
         /\ Whole(b)[j] = b[BandAt(b, j)][j - Start(b, BandAt(b, j))]
  <1>1. /\ Len(b[1]) \in Nat /\ Len(b[2]) \in Nat /\ Len(b[3]) \in Nat /\ Len(b[4]) \in Nat
        /\ Start(b, 1) = 0 /\ Start(b, 2) = Len(b[1]) /\ Start(b, 3) = Len(b[1]) + Len(b[2])
        /\ Start(b, 4) = Len(b[1]) + Len(b[2]) + Len(b[3])
        /\ DepthOf(b) = Len(b[1]) + Len(b[2]) + Len(b[3]) + Len(b[4])
    BY Starts
  <1>2. /\ Start(b, 2) \in Nat /\ Start(b, 3) \in Nat /\ Start(b, 4) \in Nat
        /\ Start(b, 2) = 0 + Len(b[1]) /\ Start(b, 3) = Start(b, 2) + Len(b[2])
        /\ Start(b, 4) = Start(b, 3) + Len(b[3]) /\ DepthOf(b) = Start(b, 4) + Len(b[4])
    <2>1. Start(b, 2) \in Nat /\ Start(b, 3) \in Nat /\ Start(b, 4) \in Nat
      BY StartsGrow
    <2>2. 0 + Len(b[1]) = Len(b[1])
      BY <1>1
    <2> QED BY <1>1, <2>1, <2>2
  <1> DEFINE q == BandAt(b, j)
  <1>3. q \in 1..4 /\ j - Start(b, q) \in 1..Len(b[q])
    <2>1. CASE j <= Start(b, 2)
      <3>1. q = 1
        BY <2>1 DEF BandAt
      <3> QED BY <1>1, <2>1, <3>1
    <2>2. CASE ~ (j <= Start(b, 2)) /\ j <= Start(b, 3)
      <3>1. q = 2
        BY <2>2 DEF BandAt
      <3>2. j - Start(b, 2) \in 1..Len(b[2])
        <4>1. Len(b[2]) \in Nat /\ Start(b, 2) \in Nat /\ Start(b, 3) = Start(b, 2) + Len(b[2])
          BY <1>1, <1>2
        <4> QED BY <2>2, <4>1
      <3> QED BY <3>1, <3>2
    <2>3. CASE ~ (j <= Start(b, 2)) /\ ~ (j <= Start(b, 3)) /\ j <= Start(b, 4)
      <3>1. q = 3
        BY <2>3 DEF BandAt
      <3>2. j - Start(b, 3) \in 1..Len(b[3])
        <4>1. Len(b[3]) \in Nat /\ Start(b, 3) \in Nat /\ Start(b, 4) = Start(b, 3) + Len(b[3])
          BY <1>1, <1>2
        <4> QED BY <2>3, <4>1
      <3> QED BY <3>1, <3>2
    <2>4. CASE ~ (j <= Start(b, 2)) /\ ~ (j <= Start(b, 3)) /\ ~ (j <= Start(b, 4))
      <3>1. q = 4
        BY <2>4 DEF BandAt
      <3>2. j - Start(b, 4) \in 1..Len(b[4])
        <4>1. Len(b[4]) \in Nat /\ Start(b, 4) \in Nat /\ DepthOf(b) = Start(b, 4) + Len(b[4])
          BY <1>1, <1>2
        <4> QED BY <2>4, <4>1
      <3> QED BY <3>1, <3>2
    <2> QED BY <2>1, <2>2, <2>3, <2>4
  <1> HIDE DEF q
  <1>4. Whole(b)[Start(b, q) + (j - Start(b, q))] = b[q][j - Start(b, q)]
    BY <1>3, WholeIs
  <1>5. Start(b, q) + (j - Start(b, q)) = j
    <2>1. Start(b, q) \in Nat
      BY <1>3, StartsGrow
    <2> QED BY <2>1
  <1>6. Whole(b)[j] = b[q][j - Start(b, q)]
    BY <1>4, <1>5
  <1> QED BY <1>3, <1>6 DEF q

\* Of two places, the earlier is in the more urgent band or before in the same.
LEMMA BandsInOrder ==
  ASSUME NEW b \in Bands, NEW j \in 1..DepthOf(b), NEW k \in 1..DepthOf(b), j < k
  PROVE  BandAt(b, j) <= BandAt(b, k)
  <1>1. Start(b, 2) \in Nat /\ Start(b, 3) \in Nat /\ Start(b, 4) \in Nat
    BY StartsGrow
  <1> QED BY <1>1 DEF BandAt

\* The place in the play order of a place in a band.
LEMMA PlaceOf ==
  ASSUME NEW b \in Bands, NEW q \in 1..4, NEW m \in 1..Len(b[q])
  PROVE  /\ Start(b, q) + m \in 1..DepthOf(b)
         /\ BandAt(b, Start(b, q) + m) = q
         /\ Whole(b)[Start(b, q) + m] = b[q][m]
  <1>1. /\ Start(b, q) \in Nat /\ Len(b[q]) \in Nat /\ Start(b, q) + Len(b[q]) <= DepthOf(b)
        /\ DepthOf(b) \in Nat
    BY StartsGrow, Lengths
  <1>2. Start(b, q) + m \in 1..DepthOf(b)
    BY <1>1
  <1>3. Whole(b)[Start(b, q) + m] = b[q][m]
    BY WholeIs
  <1> DEFINE r == BandAt(b, Start(b, q) + m)
  <1>4. r \in 1..4 /\ (Start(b, q) + m) - Start(b, r) \in 1..Len(b[r])
    BY <1>2, EachInBand
  <1> HIDE DEF r
  <1>5. Start(b, r) \in Nat /\ Len(b[r]) \in Nat
    BY <1>4, StartsGrow
  <1>6. ~ (q < r)
    <2> SUFFICES ASSUME q < r PROVE FALSE
      OBVIOUS
    <2>1. Start(b, q) + Len(b[q]) <= Start(b, r)
      BY <1>4, StartsGrow
    <2> QED BY <1>1, <1>4, <1>5, <2>1
  <1>7. ~ (r < q)
    <2> SUFFICES ASSUME r < q PROVE FALSE
      OBVIOUS
    <2>1. Start(b, r) + Len(b[r]) <= Start(b, q)
      BY <1>4, StartsGrow
    <2> QED BY <1>1, <1>4, <1>5, <2>1
  <1>8. r = q
    BY <1>4, <1>6, <1>7
  <1> QED BY <1>2, <1>3, <1>8 DEF r

\* Each item is in the band of its priority.
PlacedIn(b) == \A p \in 1..4 : \A j \in 1..Len(b[p]) : PrioOf[b[p][j]] = p

LEMMA WholeSorted ==
  ASSUME NEW b \in Bands, PlacedIn(b)
  PROVE  /\ \A j \in 1..DepthOf(b) : PrioOf[Whole(b)[j]] = BandAt(b, j)
         /\ \A j, k \in 1..DepthOf(b) : j < k => PrioOf[Whole(b)[j]] <= PrioOf[Whole(b)[k]]
  <1>1. ASSUME NEW j \in 1..DepthOf(b) PROVE PrioOf[Whole(b)[j]] = BandAt(b, j)
    <2> DEFINE q == BandAt(b, j)
    <2>1. q \in 1..4 /\ j - Start(b, q) \in 1..Len(b[q]) /\ Whole(b)[j] = b[q][j - Start(b, q)]
      BY EachInBand
    <2> HIDE DEF q
    <2>2. PrioOf[Whole(b)[j]] = q
      BY <2>1 DEF PlacedIn
    <2> QED BY <2>2 DEF q
  <1>2. ASSUME NEW j \in 1..DepthOf(b), NEW k \in 1..DepthOf(b), j < k
        PROVE  PrioOf[Whole(b)[j]] <= PrioOf[Whole(b)[k]]
    <2>1. BandAt(b, j) <= BandAt(b, k)
      BY <1>2, BandsInOrder
    <2> QED BY <1>1, <2>1
  <1> QED BY <1>1, <1>2

LEMMA FirstOfTwo == \A x, y, n \in Nat : n + y = (x + y) - x + n
  OBVIOUS
LEMMA SecondOfTwo == \A x, y, n \in Nat : x + n = (x + y) - y + n
  OBVIOUS

\* Another sequence for band p: the bands before it begin where they did, and
\* those behind it further on or back by what it has grown or shrunk.
LEMMA StartsOf ==
  ASSUME NEW b \in Bands, NEW p \in 1..4, NEW s \in Seq(Items), NEW d, OnlyBand(b, p, s, d)
  PROVE  /\ \A q \in 1..4 : q <= p => Start(d, q) = Start(b, q)
         /\ \A q \in 1..4 : p < q => Start(d, q) = Start(b, q) - Len(b[p]) + Len(s)
  <1>1. d \in Bands /\ d[p] = s /\ \A q \in 1..4 \ {p} : d[q] = b[q]
    BY DEF OnlyBand
  <1>2. Len(s) \in Nat /\ \A q \in 1..4 : Len(b[q]) \in Nat /\ Len(d[q]) \in Nat
    BY <1>1, Lengths, LenProperties
  <1>3. /\ Start(b, 1) = 0 /\ Start(b, 2) = Len(b[1]) /\ Start(b, 3) = Len(b[1]) + Len(b[2])
        /\ Start(b, 4) = Len(b[1]) + Len(b[2]) + Len(b[3])
    BY Starts
  <1>4. /\ Start(d, 1) = 0 /\ Start(d, 2) = Len(d[1]) /\ Start(d, 3) = Len(d[1]) + Len(d[2])
        /\ Start(d, 4) = Len(d[1]) + Len(d[2]) + Len(d[3])
    BY <1>1, Starts
  <1>5. Len(b[1]) \in Nat /\ Len(b[2]) \in Nat /\ Len(b[3]) \in Nat
    BY <1>2
  <1>11. Len(s) \in Nat
    BY <1>2
  <1>6. \A q \in 1..4 : q = 1 \/ q = 2 \/ q = 3 \/ q = 4
    OBVIOUS
  <1>7. CASE p = 1
    <2>1. d[1] = s /\ d[2] = b[2] /\ d[3] = b[3]
      BY <1>1, <1>7
    <2>2. Start(d, 1) = Start(b, 1)
      BY <1>3, <1>4
    <2>3. Start(d, 2) = Start(b, 2) - Len(b[1]) + Len(s)
      BY <1>2, <1>3, <1>4, <1>5, <2>1
    <2>4. Start(d, 3) = Start(b, 3) - Len(b[1]) + Len(s)
      <3>1. Start(d, 3) = Len(s) + Len(b[2])
        BY <1>4, <2>1
      <3>2. Len(s) + Len(b[2]) = (Len(b[1]) + Len(b[2])) - Len(b[1]) + Len(s)
        BY <1>5, <1>11, FirstOfTwo, Zenon
      <3> QED BY <1>3, <3>1, <3>2
    <2>5. Start(d, 4) = Start(b, 4) - Len(b[1]) + Len(s)
      <3>1. Start(d, 4) = Len(s) + Len(b[2]) + Len(b[3])
        BY <1>4, <2>1
      <3>2. Len(s) + Len(b[2]) + Len(b[3]) = (Len(b[1]) + Len(b[2]) + Len(b[3])) - Len(b[1]) + Len(s)
        <4> DEFINE x == Len(b[1])
                   y == Len(b[2])
                   z == Len(b[3])
                   w == Len(s)
        <4>1. x \in Nat /\ y \in Nat /\ z \in Nat /\ w \in Nat
          BY <1>5, <1>11
        <4> HIDE DEF x, y, z, w
        <4>2. w + y + z = (x + y + z) - x + w
          BY <4>1
        <4> QED BY <4>2 DEF x, y, z, w
      <3> QED BY <1>3, <3>1, <3>2
    <2> QED BY <1>6, <1>7, <2>2, <2>3, <2>4, <2>5
  <1>8. CASE p = 2
    <2>1. d[1] = b[1] /\ d[2] = s /\ d[3] = b[3]
      BY <1>1, <1>8
    <2>2. Start(d, 1) = Start(b, 1) /\ Start(d, 2) = Start(b, 2)
      BY <1>3, <1>4, <2>1
    <2>3. Start(d, 3) = Start(b, 3) - Len(b[2]) + Len(s)
      <3>1. Start(d, 3) = Len(b[1]) + Len(s)
        BY <1>4, <2>1
      <3>2. Len(b[1]) + Len(s) = (Len(b[1]) + Len(b[2])) - Len(b[2]) + Len(s)
        BY <1>5, <1>11, SecondOfTwo, Zenon
      <3> QED BY <1>3, <3>1, <3>2
    <2>4. Start(d, 4) = Start(b, 4) - Len(b[2]) + Len(s)
      <3>1. Start(d, 4) = Len(b[1]) + Len(s) + Len(b[3])
        BY <1>4, <2>1
      <3>2. Len(b[1]) + Len(s) + Len(b[3]) = (Len(b[1]) + Len(b[2]) + Len(b[3])) - Len(b[2]) + Len(s)
        <4> DEFINE x == Len(b[1])
                   y == Len(b[2])
                   z == Len(b[3])
                   w == Len(s)
        <4>1. x \in Nat /\ y \in Nat /\ z \in Nat /\ w \in Nat
          BY <1>5, <1>11
        <4> HIDE DEF x, y, z, w
        <4>2. x + w + z = (x + y + z) - y + w
          BY <4>1
        <4> QED BY <4>2 DEF x, y, z, w
      <3> QED BY <1>3, <3>1, <3>2
    <2> QED BY <1>6, <1>8, <2>2, <2>3, <2>4
  <1>9. CASE p = 3
    <2>1. d[1] = b[1] /\ d[2] = b[2] /\ d[3] = s
      BY <1>1, <1>9
    <2>2. Start(d, 1) = Start(b, 1) /\ Start(d, 2) = Start(b, 2) /\ Start(d, 3) = Start(b, 3)
      BY <1>3, <1>4, <2>1
    <2>3. Start(d, 4) = Start(b, 4) - Len(b[3]) + Len(s)
      <3>1. Start(d, 4) = Len(b[1]) + Len(b[2]) + Len(s)
        BY <1>4, <2>1
      <3>2. Len(b[1]) + Len(b[2]) + Len(s) = (Len(b[1]) + Len(b[2]) + Len(b[3])) - Len(b[3]) + Len(s)
        <4> DEFINE x == Len(b[1])
                   y == Len(b[2])
                   z == Len(b[3])
                   w == Len(s)
        <4>1. x \in Nat /\ y \in Nat /\ z \in Nat /\ w \in Nat
          BY <1>5, <1>11
        <4> HIDE DEF x, y, z, w
        <4>2. x + y + w = (x + y + z) - z + w
          BY <4>1
        <4> QED BY <4>2 DEF x, y, z, w
      <3> QED BY <1>3, <3>1, <3>2
    <2> QED BY <1>6, <1>9, <2>2, <2>3
  <1>10. CASE p = 4
    <2>1. d[1] = b[1] /\ d[2] = b[2] /\ d[3] = b[3]
      BY <1>1, <1>10
    <2>2. /\ Start(d, 1) = Start(b, 1) /\ Start(d, 2) = Start(b, 2) /\ Start(d, 3) = Start(b, 3)
          /\ Start(d, 4) = Start(b, 4)
      BY <1>3, <1>4, <2>1
    <2> QED BY <1>6, <1>10, <2>2
  <1> QED BY <1>6, <1>7, <1>8, <1>9, <1>10

\* W and V are the same but for what stands behind place P: t of length L in
\* W, of length D, and s of length N in V.
Around(W, V, t, s, P, L, N, D) ==
  /\ P \in Nat /\ L \in Nat /\ N \in Nat /\ D \in Nat /\ P + L <= D
  /\ W \in Seq(Items) /\ Len(W) = D /\ V \in Seq(Items) /\ Len(V) = D - L + N
  /\ t \in Seq(Items) /\ Len(t) = L /\ s \in Seq(Items) /\ Len(s) = N
  /\ \A j \in 1..P : V[j] = W[j]
  /\ \A m \in 1..L : W[P + m] = t[m]
  /\ \A m \in 1..N : V[P + m] = s[m]
  /\ \A j \in (P + L + 1)..D : V[(j - L) + N] = W[j]

LEMMA NotPast ==
  \A s1, n1, s2, n2, k \in Nat : k <= n1 /\ s1 + n1 <= s2 => ~ (s2 + n2 < s1 + k)
  OBVIOUS

LEMMA WholeAround ==
  ASSUME NEW b \in Bands, NEW p \in 1..4, NEW s \in Seq(Items), NEW d, OnlyBand(b, p, s, d)
  PROVE  Around(Whole(b), Whole(d), b[p], s, Start(b, p), Len(b[p]), Len(s), DepthOf(b))
  <1>1. d \in Bands /\ d[p] = s /\ (\A q \in 1..4 \ {p} : d[q] = b[q])
    BY DEF OnlyBand
  <1>2. DepthOf(d) = DepthOf(b) - Len(b[p]) + Len(s)
    BY DEF OnlyBand
  <1>3. /\ \A q \in 1..4 : q <= p => Start(d, q) = Start(b, q)
        /\ \A q \in 1..4 : p < q => Start(d, q) = Start(b, q) - Len(b[p]) + Len(s)
    BY StartsOf
  <1>4. /\ Start(b, p) \in Nat /\ Len(b[p]) \in Nat /\ Len(s) \in Nat /\ DepthOf(b) \in Nat
        /\ Start(b, p) + Len(b[p]) <= DepthOf(b)
    BY StartsGrow, Lengths, LenProperties
  <1>5. /\ Whole(b) \in Seq(Items) /\ Len(Whole(b)) = DepthOf(b)
        /\ Whole(d) \in Seq(Items) /\ Len(Whole(d)) = DepthOf(d)
    BY <1>1, WholeIs
  <1>6. b[p] \in Seq(Items)
    BY DEF Bands
  <1>7. \A m \in 1..Len(b[p]) : Whole(b)[Start(b, p) + m] = b[p][m]
    BY PlaceOf
  <1>8. \A m \in 1..Len(s) : Whole(d)[Start(b, p) + m] = s[m]
    <2> TAKE m \in 1..Len(s)
    <2>1. m \in 1..Len(d[p]) /\ d[p][m] = s[m] /\ Start(d, p) = Start(b, p)
      BY <1>1, <1>3
    <2>2. Whole(d)[Start(d, p) + m] = d[p][m]
      BY <1>1, <2>1, PlaceOf
    <2> QED BY <2>1, <2>2
  <1>9. ASSUME NEW j \in 1..Start(b, p) PROVE Whole(d)[j] = Whole(b)[j]
    <2>0. j \in 1..DepthOf(b)
      BY <1>4
    <2> DEFINE q == BandAt(b, j)
               m == j - Start(b, q)
    <2>1. q \in 1..4 /\ m \in 1..Len(b[q]) /\ Whole(b)[j] = b[q][m]
      BY <2>0, EachInBand
    <2>2. Start(b, q) \in Nat /\ Len(b[q]) \in Nat /\ (p < q => Start(b, p) + Len(b[p]) <= Start(b, q))
      BY <2>1, StartsGrow
    <2>3. j = Start(b, q) + m
      BY <2>2
    <2> HIDE DEF q, m
    <2>a. j \in Nat /\ j <= Start(b, p) /\ m \in Nat /\ 1 <= m
      BY <1>4, <2>1, <2>2
    <2>4. q < p
      <3>1. CASE q = p
        BY <1>4, <2>3, <2>a, <3>1
      <3>2. CASE p < q
        BY <1>4, <2>2, <2>3, <2>a, <3>2
      <3> QED BY <2>1, <3>1, <3>2
    <2>5. d[q] = b[q] /\ Start(d, q) = Start(b, q)
      BY <1>1, <1>3, <2>1, <2>4
    <2>6. m \in 1..Len(d[q])
      BY <2>1, <2>5
    <2>7. Whole(d)[Start(d, q) + m] = d[q][m]
      BY <1>1, <2>1, <2>6, PlaceOf
    <2> QED BY <2>1, <2>3, <2>5, <2>7
  <1>10. ASSUME NEW j \in (Start(b, p) + Len(b[p]) + 1)..DepthOf(b)
         PROVE  Whole(d)[(j - Len(b[p])) + Len(s)] = Whole(b)[j]
    <2>0. j \in 1..DepthOf(b)
      BY <1>4
    <2> DEFINE q == BandAt(b, j)
               m == j - Start(b, q)
    <2>1. q \in 1..4 /\ m \in 1..Len(b[q]) /\ Whole(b)[j] = b[q][m]
      BY <2>0, EachInBand
    <2>2. Start(b, q) \in Nat /\ Len(b[q]) \in Nat /\ (q < p => Start(b, q) + Len(b[q]) <= Start(b, p))
      BY <2>1, StartsGrow
    <2>3. j = Start(b, q) + m
      BY <2>2
    <2> HIDE DEF q, m
    <2>a. j \in Nat /\ Start(b, p) + Len(b[p]) < j /\ m \in Nat /\ m <= Len(b[q])
      BY <1>4, <2>1, <2>2
    <2>4. p < q
      <3>1. CASE q = p
        BY <1>4, <2>3, <2>a, <3>1
      <3>2. CASE q < p
        <4>1. Start(b, q) + Len(b[q]) <= Start(b, p)
          BY <2>2, <3>2
        <4>2. ~ (Start(b, p) + Len(b[p]) < Start(b, q) + m)
          BY <1>4, <2>2, <2>a, <4>1, NotPast, Zenon
        <4> QED BY <2>3, <2>a, <4>2
      <3> QED BY <2>1, <3>1, <3>2
    <2>5. d[q] = b[q] /\ Start(d, q) = Start(b, q) - Len(b[p]) + Len(s)
      BY <1>1, <1>3, <2>1, <2>4
    <2>6. m \in 1..Len(d[q])
      BY <2>1, <2>5
    <2>7. Whole(d)[Start(d, q) + m] = d[q][m]
      BY <1>1, <2>1, <2>6, PlaceOf
    <2>8. Start(d, q) + m = (j - Len(b[p])) + Len(s)
      <3> DEFINE x == Start(b, q)
                 y == Len(b[p])
                 w == Len(s)
      <3>1. x \in Nat /\ y \in Nat /\ w \in Nat /\ m \in Nat
        BY <1>4, <2>2, <2>a
      <3>2. j = x + m /\ Start(d, q) = x - y + w
        BY <2>3, <2>5
      <3> HIDE DEF x, y, w
      <3>3. (x - y + w) + m = ((x + m) - y) + w
        BY <3>1
      <3>4. Start(d, q) + m = (j - y) + w
        BY <3>2, <3>3
      <3> QED BY <3>4 DEF y, w
    <2> QED BY <2>1, <2>5, <2>7, <2>8
  <1> QED BY <1>2, <1>4, <1>5, <1>6, <1>7, <1>8, <1>9, <1>10 DEF Around

\* s is t with e in place k, or without its item in place k.
Inserts(t, s, L, k, e) ==
  /\ \A m \in 1..(k - 1) : s[m] = t[m]
  /\ s[k] = e
  /\ \A m \in (k + 1)..(L + 1) : s[m] = t[m - 1]

Deletes(t, s, L, k) ==
  /\ \A m \in 1..(k - 1) : s[m] = t[m]
  /\ \A m \in k..(L - 1) : s[m] = t[m + 1]

LEMMA InsertAround ==
  ASSUME NEW W, NEW V, NEW t, NEW s, NEW P \in Nat, NEW L \in Nat, NEW N \in Nat, NEW D \in Nat,
         Around(W, V, t, s, P, L, N, D), N = L + 1,
         NEW k \in 1..(L + 1), NEW e \in Items, Inserts(t, s, L, k, e)
  PROVE  V = InsertAt(W, P + k, e)
  <1>1. /\ P + L <= D /\ W \in Seq(Items) /\ Len(W) = D /\ V \in Seq(Items) /\ Len(V) = D - L + N
        /\ \A j \in 1..P : V[j] = W[j]
        /\ \A m \in 1..L : W[P + m] = t[m]
        /\ \A m \in 1..N : V[P + m] = s[m]
        /\ \A j \in (P + L + 1)..D : V[(j - L) + N] = W[j]
    BY DEF Around
  <1>2. Len(V) = D + 1 /\ P + k \in 1..(D + 1)
    BY <1>1
  <1> DEFINE X == InsertAt(W, P + k, e)
  <1>3. /\ X \in Seq(Items) /\ Len(X) = D + 1
        /\ \A j \in 1..(D + 1) : X[j] = IF j < P + k THEN W[j] ELSE IF j = P + k THEN e ELSE W[j - 1]
    <2>1. W \in Seq(Items) /\ P + k \in 1..(Len(W) + 1)
      BY <1>1, <1>2
    <2>2. /\ X \in Seq(Items) /\ Len(X) = Len(W) + 1
          /\ \A j \in 1..(Len(W) + 1) :
                 X[j] = IF j < P + k THEN W[j] ELSE IF j = P + k THEN e ELSE W[j - 1]
      BY <2>1, InsertAtSeq
    <2> HIDE DEF X
    <2> QED BY <1>1, <2>2
  <1> HIDE DEF X
  <1>4. \A j \in 1..(D + 1) : V[j] = X[j]
    <2> TAKE j \in 1..(D + 1)
    <2>1. CASE j <= P
      <3>1. j \in 1..P /\ j < P + k
        BY <2>1
      <3>2. V[j] = W[j]
        BY <1>1, <3>1
      <3> QED BY <1>3, <3>1, <3>2
    <2>2. CASE P < j /\ j < P + k
      <3> DEFINE m == j - P
      <3>1. m \in 1..(k - 1) /\ m \in 1..L /\ m \in 1..N /\ P + m = j
        BY <2>2
      <3> HIDE DEF m
      <3>2. V[P + m] = s[m] /\ s[m] = t[m] /\ t[m] = W[P + m]
        BY <1>1, <3>1 DEF Inserts
      <3> QED BY <1>3, <2>2, <3>1, <3>2
    <2>3. CASE j = P + k
      <3>1. V[P + k] = s[k] /\ s[k] = e
        BY <1>1 DEF Inserts
      <3>2. X[j] = e
        BY <1>3, <2>3
      <3> QED BY <2>3, <3>1, <3>2
    <2>4. CASE P + k < j /\ j <= P + L + 1
      <3> DEFINE m == j - P
      <3>1. m \in (k + 1)..(L + 1) /\ m \in 1..N /\ P + m = j /\ m - 1 \in 1..L /\ P + (m - 1) = j - 1
        BY <2>4
      <3> HIDE DEF m
      <3>2. V[P + m] = s[m] /\ s[m] = t[m - 1] /\ t[m - 1] = W[P + (m - 1)]
        BY <1>1, <3>1 DEF Inserts
      <3>3. X[j] = W[j - 1]
        BY <1>3, <2>4
      <3> QED BY <3>1, <3>2, <3>3
    <2>5. CASE P + L + 1 < j
      <3>1. j - 1 \in (P + L + 1)..D /\ ((j - 1) - L) + N = j
        BY <2>5
      <3>2. V[((j - 1) - L) + N] = W[j - 1]
        BY <1>1, <3>1
      <3>3. X[j] = W[j - 1]
        BY <1>3, <2>5
      <3> QED BY <3>1, <3>2, <3>3
    <2> QED BY <2>1, <2>2, <2>3, <2>4, <2>5
  <1>5. V = X
    BY <1>1, <1>2, <1>3, <1>4, SeqEqual
  <1> QED BY <1>5 DEF X

LEMMA DeleteAround ==
  ASSUME NEW W, NEW V, NEW t, NEW s, NEW P \in Nat, NEW L \in Nat, NEW N \in Nat, NEW D \in Nat,
         Around(W, V, t, s, P, L, N, D), L = N + 1,
         NEW k \in 1..L, Deletes(t, s, L, k)
  PROVE  V = RemoveAt(W, P + k)
  <1>1. /\ P + L <= D /\ W \in Seq(Items) /\ Len(W) = D /\ V \in Seq(Items) /\ Len(V) = D - L + N
        /\ \A j \in 1..P : V[j] = W[j]
        /\ \A m \in 1..L : W[P + m] = t[m]
        /\ \A m \in 1..N : V[P + m] = s[m]
        /\ \A j \in (P + L + 1)..D : V[(j - L) + N] = W[j]
    BY DEF Around
  <1>2. Len(V) = D - 1 /\ P + k \in 1..D
    BY <1>1
  <1> DEFINE X == RemoveAt(W, P + k)
  <1>3. /\ X \in Seq(Items) /\ Len(X) = D - 1
        /\ \A j \in 1..(D - 1) : X[j] = IF j < P + k THEN W[j] ELSE W[j + 1]
    BY <1>1, <1>2, RemoveAtSeq
  <1> HIDE DEF X
  <1>4. \A j \in 1..(D - 1) : V[j] = X[j]
    <2> TAKE j \in 1..(D - 1)
    <2>1. CASE j <= P
      <3>1. j \in 1..P /\ j < P + k
        BY <2>1
      <3>2. V[j] = W[j]
        BY <1>1, <3>1
      <3> QED BY <1>3, <3>1, <3>2
    <2>2. CASE P < j /\ j < P + k
      <3> DEFINE m == j - P
      <3>1. m \in 1..(k - 1) /\ m \in 1..L /\ m \in 1..N /\ P + m = j
        BY <2>2
      <3> HIDE DEF m
      <3>2. V[P + m] = s[m] /\ s[m] = t[m] /\ t[m] = W[P + m]
        BY <1>1, <3>1 DEF Deletes
      <3> QED BY <1>3, <2>2, <3>1, <3>2
    <2>3. CASE P + k <= j /\ j <= P + N
      <3> DEFINE m == j - P
      <3>1. m \in k..(L - 1) /\ m \in 1..N /\ P + m = j /\ m + 1 \in 1..L /\ P + (m + 1) = j + 1
        BY <2>3
      <3> HIDE DEF m
      <3>2. V[P + m] = s[m] /\ s[m] = t[m + 1] /\ t[m + 1] = W[P + (m + 1)]
        BY <1>1, <3>1 DEF Deletes
      <3>3. X[j] = W[j + 1]
        BY <1>3, <2>3
      <3> QED BY <3>1, <3>2, <3>3
    <2>4. CASE P + N < j
      <3>1. j + 1 \in (P + L + 1)..D /\ ((j + 1) - L) + N = j
        BY <2>4
      <3>2. V[((j + 1) - L) + N] = W[j + 1]
        BY <1>1, <3>1
      <3>3. X[j] = W[j + 1]
        BY <1>3, <2>4
      <3> QED BY <3>1, <3>2, <3>3
    <2> QED BY <2>1, <2>2, <2>3, <2>4
  <1>5. V = X
    BY <1>1, <1>2, <1>3, <1>4, SeqEqual
  <1> QED BY <1>5 DEF X

LEMMA InsertInserts ==
  ASSUME NEW t \in Seq(Items), NEW k \in 1..(Len(t) + 1), NEW e \in Items
  PROVE  /\ InsertAt(t, k, e) \in Seq(Items) /\ Len(InsertAt(t, k, e)) = Len(t) + 1
         /\ Inserts(t, InsertAt(t, k, e), Len(t), k, e)
  <1>1. /\ InsertAt(t, k, e) \in Seq(Items) /\ Len(InsertAt(t, k, e)) = Len(t) + 1 /\ Len(t) \in Nat
        /\ \A j \in 1..(Len(t) + 1) :
               InsertAt(t, k, e)[j] = IF j < k THEN t[j] ELSE IF j = k THEN e ELSE t[j - 1]
    BY InsertAtSeq, LenProperties
  <1> QED BY <1>1 DEF Inserts

LEMMA RemoveDeletes ==
  ASSUME NEW t \in Seq(Items), NEW k \in 1..Len(t)
  PROVE  /\ RemoveAt(t, k) \in Seq(Items) /\ Len(RemoveAt(t, k)) = Len(t) - 1 /\ Len(t) - 1 \in Nat
         /\ Deletes(t, RemoveAt(t, k), Len(t), k)
  <1>1. /\ RemoveAt(t, k) \in Seq(Items) /\ Len(RemoveAt(t, k)) = Len(t) - 1 /\ Len(t) \in Nat
        /\ \A j \in 1..(Len(t) - 1) : RemoveAt(t, k)[j] = IF j < k THEN t[j] ELSE t[j + 1]
    BY RemoveAtSeq, LenProperties
  <1> QED BY <1>1 DEF Deletes

LEMMA AppendInserts ==
  ASSUME NEW t \in Seq(Items), NEW e \in Items
  PROVE  /\ Append(t, e) \in Seq(Items) /\ Len(Append(t, e)) = Len(t) + 1
         /\ Inserts(t, Append(t, e), Len(t), Len(t) + 1, e)
  <1>1. /\ Append(t, e) \in Seq(Items) /\ Len(Append(t, e)) = Len(t) + 1 /\ Len(t) \in Nat
        /\ \A i \in 1..Len(t) : Append(t, e)[i] = t[i]
        /\ Append(t, e)[Len(t) + 1] = e
    BY AppendProperties, LenProperties
  <1> QED BY <1>1 DEF Inserts

LEMMA TailDeletes ==
  ASSUME NEW t \in Seq(Items), t # <<>>
  PROVE  /\ Tail(t) \in Seq(Items) /\ Len(Tail(t)) = Len(t) - 1 /\ Len(t) - 1 \in Nat
         /\ 1 \in 1..Len(t) /\ Deletes(t, Tail(t), Len(t), 1)
  <1>1. /\ Tail(t) \in Seq(Items) /\ Len(Tail(t)) = Len(t) - 1 /\ Len(t) \in Nat \ {0}
        /\ \A i \in 1..Len(Tail(t)) : Tail(t)[i] = t[i + 1]
    BY HeadTailProperties, EmptySeq
  <1> QED BY <1>1 DEF Deletes

----------------------------------------------------------------------------
\* An item put in a band, or taken out, at a place: in the play order it is
\* put in or taken out at that place from where the band begins.
LEMMA InsertInBand ==
  ASSUME NEW b \in Bands, NEW p \in 1..4, NEW s \in Seq(Items), NEW k \in 1..(Len(b[p]) + 1),
         NEW e \in Items, Len(s) = Len(b[p]) + 1, Inserts(b[p], s, Len(b[p]), k, e)
  PROVE  /\ With(b, p, s) \in Bands
         /\ Whole(With(b, p, s)) = InsertAt(Whole(b), Start(b, p) + k, e)
  <1> DEFINE d == With(b, p, s)
  <1>1. OnlyBand(b, p, s, d)
    BY OneBand
  <1> HIDE DEF d
  <1>2. Around(Whole(b), Whole(d), b[p], s, Start(b, p), Len(b[p]), Len(s), DepthOf(b))
    BY <1>1, WholeAround
  <1>3. Start(b, p) \in Nat /\ Len(b[p]) \in Nat /\ Len(s) \in Nat /\ DepthOf(b) \in Nat
    BY <1>2 DEF Around
  <1>4. Whole(d) = InsertAt(Whole(b), Start(b, p) + k, e)
    BY <1>2, <1>3, InsertAround
  <1> QED BY <1>1, <1>4 DEF d, OnlyBand

LEMMA DeleteInBand ==
  ASSUME NEW b \in Bands, NEW p \in 1..4, NEW s \in Seq(Items), NEW k \in 1..Len(b[p]),
         Len(s) = Len(b[p]) - 1, Deletes(b[p], s, Len(b[p]), k)
  PROVE  /\ With(b, p, s) \in Bands
         /\ Whole(With(b, p, s)) = RemoveAt(Whole(b), Start(b, p) + k)
  <1> DEFINE d == With(b, p, s)
  <1>1. OnlyBand(b, p, s, d)
    BY OneBand
  <1> HIDE DEF d
  <1>2. Around(Whole(b), Whole(d), b[p], s, Start(b, p), Len(b[p]), Len(s), DepthOf(b))
    BY <1>1, WholeAround
  <1>3. Start(b, p) \in Nat /\ Len(b[p]) \in Nat /\ Len(s) \in Nat /\ DepthOf(b) \in Nat
    BY <1>2 DEF Around
  <1>5. Len(b[p]) = Len(s) + 1
    BY <1>3
  <1>4. Whole(d) = RemoveAt(Whole(b), Start(b, p) + k)
    BY <1>2, <1>3, <1>5, DeleteAround
  <1> QED BY <1>1, <1>4 DEF d, OnlyBand

----------------------------------------------------------------------------
(* Each item waits in one place, in the band of its priority. *)

InBands(b, x) == \E p \in 1..4 : \E j \in 1..Len(b[p]) : b[p][j] = x
Distinct(b) == \A p \in 1..4 : \A j, k \in 1..Len(b[p]) : b[p][j] = b[p][k] => j = k
OnePlaceEach(b) == PlacedIn(b) /\ Distinct(b)

ToPut == {"new", "waiting", "woken", "counted", "full", "retry"}

\* What is still to be put neither waits nor is in hand, and what is in hand
\* does not wait until the pass over it has ended.
PlayInv ==
  /\ OnePlaceEach(band)
  /\ \A i \in Items : call[i] \in ToPut => (~ InBands(band, i) /\ (pass # "idle" => active # i))
  /\ pass \in {"taken", "playing", "retrying", "putting back"} => ~ InBands(band, active)

LEMMA DeletePlaced ==
  ASSUME NEW b \in Bands, OnePlaceEach(b), NEW p \in 1..4, NEW s \in Seq(Items), NEW k \in 1..Len(b[p]),
         Len(s) = Len(b[p]) - 1, Deletes(b[p], s, Len(b[p]), k)
  PROVE  /\ OnePlaceEach(With(b, p, s))
         /\ \A x : InBands(With(b, p, s), x) => InBands(b, x)
         /\ ~ InBands(With(b, p, s), b[p][k])
  <1> DEFINE d == With(b, p, s)
  <1>0. OnlyBand(b, p, s, d)
    BY OneBand, Zenon
  <1> HIDE DEF d
  <1>1. d \in Bands /\ d[p] = s /\ \A q \in 1..4 \ {p} : d[q] = b[q]
    BY <1>0 DEF OnlyBand
  <1>2. Len(b[p]) \in Nat /\ Len(s) \in Nat
    BY Lengths, LenProperties
  <1> DEFINE f(m) == IF m < k THEN m ELSE m + 1
  <1>3. \A m \in 1..Len(s) : f(m) \in 1..Len(b[p]) /\ f(m) # k /\ s[m] = b[p][f(m)]
    <2> TAKE m \in 1..Len(s)
    <2>1. CASE m < k
      <3>1. m \in 1..(k - 1) /\ m \in 1..Len(b[p]) /\ f(m) = m
        BY <1>2, <2>1
      <3> QED BY <2>1, <3>1 DEF Deletes
    <2>2. CASE ~ (m < k)
      <3>1. m \in k..(Len(b[p]) - 1) /\ m + 1 \in 1..Len(b[p]) /\ f(m) = m + 1 /\ m + 1 # k
        BY <1>2, <2>2
      <3> QED BY <3>1 DEF Deletes
    <2> QED BY <2>1, <2>2
  <1>4. \A m, n \in 1..Len(s) : f(m) = f(n) => m = n
    BY <1>2
  <1> HIDE DEF f
  <1>5. PlacedIn(d)
    <2> SUFFICES ASSUME NEW q \in 1..4, NEW j \in 1..Len(d[q]) PROVE PrioOf[d[q][j]] = q
      BY DEF PlacedIn
    <2>1. CASE q = p
      <3>1. j \in 1..Len(s) /\ d[q][j] = s[j]
        BY <1>1, <2>1
      <3>2. f(j) \in 1..Len(b[p]) /\ s[j] = b[p][f(j)]
        BY <1>3, <3>1
      <3>3. PrioOf[b[p][f(j)]] = p
        BY <3>2 DEF OnePlaceEach, PlacedIn
      <3> QED BY <2>1, <3>1, <3>2, <3>3
    <2>2. CASE q # p
      <3>1. d[q] = b[q]
        BY <1>1, <2>2
      <3> QED BY <3>1 DEF OnePlaceEach, PlacedIn
    <2> QED BY <2>1, <2>2
  <1>6. Distinct(d)
    <2> SUFFICES ASSUME NEW q \in 1..4, NEW j \in 1..Len(d[q]), NEW m \in 1..Len(d[q]), d[q][j] = d[q][m]
                 PROVE  j = m
      BY DEF Distinct
    <2>1. CASE q = p
      <3>1. j \in 1..Len(s) /\ m \in 1..Len(s) /\ s[j] = s[m]
        BY <1>1, <2>1
      <3>2. /\ f(j) \in 1..Len(b[p]) /\ s[j] = b[p][f(j)]
            /\ f(m) \in 1..Len(b[p]) /\ s[m] = b[p][f(m)]
        BY <1>3, <3>1
      <3>3. f(j) = f(m)
        BY <3>1, <3>2 DEF OnePlaceEach, Distinct
      <3> QED BY <1>4, <3>1, <3>3
    <2>2. CASE q # p
      <3>1. d[q] = b[q]
        BY <1>1, <2>2
      <3> QED BY <3>1 DEF OnePlaceEach, Distinct
    <2> QED BY <2>1, <2>2
  <1>7. ASSUME NEW x, InBands(d, x) PROVE InBands(b, x) /\ x # b[p][k]
    <2>0. PICK q \in 1..4 : \E j \in 1..Len(d[q]) : d[q][j] = x
      BY <1>7 DEF InBands
    <2>1. PICK j \in 1..Len(d[q]) : d[q][j] = x
      BY <2>0
    <2>2. CASE q = p
      <3>1. j \in 1..Len(s) /\ s[j] = x
        BY <1>1, <2>1, <2>2
      <3>2. f(j) \in 1..Len(b[p]) /\ f(j) # k /\ x = b[p][f(j)]
        BY <1>3, <3>1
      <3> QED BY <3>2 DEF OnePlaceEach, Distinct, InBands
    <2>3. CASE q # p
      <3>1. d[q] = b[q]
        BY <1>1, <2>3
      <3>2. PrioOf[x] = q /\ PrioOf[b[p][k]] = p /\ InBands(b, x)
        BY <2>1, <3>1 DEF OnePlaceEach, PlacedIn, InBands
      <3> QED BY <2>3, <3>2
    <2> QED BY <2>2, <2>3
  <1>8. \A x : InBands(d, x) => InBands(b, x)
    BY <1>7
  <1>9. ~ InBands(d, b[p][k])
    BY <1>7
  <1> QED BY <1>5, <1>6, <1>8, <1>9 DEF OnePlaceEach, d

LEMMA InsertPlaced ==
  ASSUME NEW b \in Bands, OnePlaceEach(b), NEW p \in 1..4, NEW s \in Seq(Items),
         NEW k \in 1..(Len(b[p]) + 1), NEW e \in Items, PrioOf[e] = p, ~ InBands(b, e),
         Len(s) = Len(b[p]) + 1, Inserts(b[p], s, Len(b[p]), k, e)
  PROVE  /\ OnePlaceEach(With(b, p, s))
         /\ \A x : InBands(With(b, p, s), x) => InBands(b, x) \/ x = e
  <1> DEFINE d == With(b, p, s)
  <1>0. OnlyBand(b, p, s, d)
    BY OneBand, Zenon
  <1> HIDE DEF d
  <1>1. d \in Bands /\ d[p] = s /\ \A q \in 1..4 \ {p} : d[q] = b[q]
    BY <1>0 DEF OnlyBand
  <1>2. Len(b[p]) \in Nat /\ Len(s) \in Nat
    BY Lengths, LenProperties
  <1> DEFINE f(m) == IF m < k THEN m ELSE m - 1
  <1>3. /\ s[k] = e
        /\ \A m \in 1..Len(s) : m # k => f(m) \in 1..Len(b[p]) /\ s[m] = b[p][f(m)]
    <2>1. s[k] = e
      BY DEF Inserts
    <2> SUFFICES ASSUME NEW m \in 1..Len(s), m # k PROVE f(m) \in 1..Len(b[p]) /\ s[m] = b[p][f(m)]
      BY <2>1
    <2>2. CASE m < k
      <3>1. m \in 1..(k - 1) /\ m \in 1..Len(b[p]) /\ f(m) = m
        BY <1>2, <2>2
      <3> QED BY <3>1 DEF Inserts
    <2>3. CASE ~ (m < k)
      <3>1. m \in (k + 1)..(Len(b[p]) + 1) /\ m - 1 \in 1..Len(b[p]) /\ f(m) = m - 1
        BY <1>2, <2>3
      <3> QED BY <3>1 DEF Inserts
    <2> QED BY <2>2, <2>3
  <1>4. \A m, n \in 1..Len(s) : m # k /\ n # k /\ f(m) = f(n) => m = n
    BY <1>2
  <1> HIDE DEF f
  <1>5. PlacedIn(d)
    <2> SUFFICES ASSUME NEW q \in 1..4, NEW j \in 1..Len(d[q]) PROVE PrioOf[d[q][j]] = q
      BY DEF PlacedIn
    <2>1. CASE q = p /\ j # k
      <3>1. j \in 1..Len(s) /\ d[q][j] = s[j]
        BY <1>1, <2>1
      <3>2. f(j) \in 1..Len(b[p]) /\ s[j] = b[p][f(j)]
        BY <1>3, <2>1, <3>1
      <3>3. PrioOf[b[p][f(j)]] = p
        BY <3>2 DEF OnePlaceEach, PlacedIn
      <3> QED BY <2>1, <3>1, <3>2, <3>3
    <2>2. CASE q = p /\ j = k
      BY <1>1, <1>3, <2>2
    <2>3. CASE q # p
      <3>1. d[q] = b[q]
        BY <1>1, <2>3
      <3> QED BY <3>1 DEF OnePlaceEach, PlacedIn
    <2> QED BY <2>1, <2>2, <2>3
  <1>a. \A m \in 1..Len(s) : m # k => s[m] # e
    BY <1>3 DEF InBands
  <1>6. Distinct(d)
    <2> SUFFICES ASSUME NEW q \in 1..4, NEW j \in 1..Len(d[q]), NEW m \in 1..Len(d[q]), d[q][j] = d[q][m]
                 PROVE  j = m
      BY DEF Distinct
    <2>1. CASE q = p /\ j # k /\ m # k
      <3>1. j \in 1..Len(s) /\ m \in 1..Len(s) /\ s[j] = s[m]
        BY <1>1, <2>1
      <3>2. /\ f(j) \in 1..Len(b[p]) /\ s[j] = b[p][f(j)]
            /\ f(m) \in 1..Len(b[p]) /\ s[m] = b[p][f(m)]
        BY <1>3, <2>1, <3>1
      <3>3. f(j) = f(m)
        BY <3>1, <3>2 DEF OnePlaceEach, Distinct
      <3> QED BY <1>4, <2>1, <3>1, <3>3
    <2>2. CASE q = p /\ (j = k \/ m = k)
      <3>1. j \in 1..Len(s) /\ m \in 1..Len(s) /\ s[j] = s[m]
        BY <1>1, <2>2
      <3> QED BY <1>3, <1>a, <2>2, <3>1
    <2>3. CASE q # p
      <3>1. d[q] = b[q]
        BY <1>1, <2>3
      <3> QED BY <3>1 DEF OnePlaceEach, Distinct
    <2> QED BY <2>1, <2>2, <2>3
  <1>7. ASSUME NEW x, InBands(d, x) PROVE InBands(b, x) \/ x = e
    <2>0. PICK q \in 1..4 : \E j \in 1..Len(d[q]) : d[q][j] = x
      BY <1>7 DEF InBands
    <2>1. PICK j \in 1..Len(d[q]) : d[q][j] = x
      BY <2>0
    <2>2. CASE q = p
      <3>1. j \in 1..Len(s) /\ s[j] = x
        BY <1>1, <2>1, <2>2
      <3> QED BY <1>3, <3>1 DEF InBands
    <2>3. CASE q # p
      <3>1. d[q] = b[q]
        BY <1>1, <2>3
      <3> QED BY <2>1, <3>1 DEF InBands
    <2> QED BY <2>2, <2>3
  <1>8. \A x : InBands(d, x) => InBands(b, x) \/ x = e
    BY <1>7
  <1> QED BY <1>5, <1>6, <1>8 DEF OnePlaceEach, d

\* What is left of the bands when only part of each is kept, in order.
LEMMA ThinnedPlaced ==
  ASSUME NEW b \in Bands, OnePlaceEach(b), NEW d \in Bands,
         \A p \in 1..4 : \E f \in [1..Len(d[p]) -> 1..Len(b[p])] :
             /\ \A j, k \in 1..Len(d[p]) : j < k => f[j] < f[k]
             /\ \A j \in 1..Len(d[p]) : d[p][j] = b[p][f[j]]
  PROVE  OnePlaceEach(d) /\ \A x : InBands(d, x) => InBands(b, x)
  <1>0. \A p \in 1..4 : Len(d[p]) \in Nat /\ Len(b[p]) \in Nat
    BY Lengths
  <1>a. \A p \in 1..4 : \A m \in 1..Len(b[p]) : PrioOf[b[p][m]] = p
    BY DEF OnePlaceEach, PlacedIn
  <1>b. \A p \in 1..4 : \A m, n \in 1..Len(b[p]) : b[p][m] = b[p][n] => m = n
    BY DEF OnePlaceEach, Distinct
  <1>1. ASSUME NEW p \in 1..4
        PROVE  /\ \A j \in 1..Len(d[p]) : PrioOf[d[p][j]] = p
               /\ \A j, k \in 1..Len(d[p]) : d[p][j] = d[p][k] => j = k
               /\ \A j \in 1..Len(d[p]) : InBands(b, d[p][j])
    <2>1. PICK f \in [1..Len(d[p]) -> 1..Len(b[p])] :
               /\ \A j, k \in 1..Len(d[p]) : j < k => f[j] < f[k]
               /\ \A j \in 1..Len(d[p]) : d[p][j] = b[p][f[j]]
      OBVIOUS
    <2>2. \A j \in 1..Len(d[p]) : f[j] \in 1..Len(b[p])
      OBVIOUS
    <2>3. ASSUME NEW j \in 1..Len(d[p]) PROVE PrioOf[d[p][j]] = p
      <3>1. d[p][j] = b[p][f[j]] /\ f[j] \in 1..Len(b[p])
        BY <2>1, <2>2
      <3>2. PrioOf[b[p][f[j]]] = p
        BY <1>a, <3>1
      <3> QED BY <3>1, <3>2
    <2>4. ASSUME NEW j \in 1..Len(d[p]), NEW k \in 1..Len(d[p]), d[p][j] = d[p][k] PROVE j = k
      <3>1. f[j] = f[k]
        <4>1. /\ d[p][j] = b[p][f[j]] /\ f[j] \in 1..Len(b[p])
              /\ d[p][k] = b[p][f[k]] /\ f[k] \in 1..Len(b[p])
          BY <2>1, <2>2
        <4>2. b[p][f[j]] = b[p][f[k]]
          BY <2>4, <4>1
        <4> QED BY <1>b, <4>1, <4>2
      <3>2. ~ (j < k) /\ ~ (k < j)
        <4>1. f[j] \in Int /\ f[k] \in Int
          BY <2>2
        <4> QED BY <2>1, <3>1, <4>1
      <3> QED BY <3>2
    <2>5. \A j \in 1..Len(d[p]) : InBands(b, d[p][j])
      BY <2>1, <2>2 DEF InBands
    <2> QED BY <2>3, <2>4, <2>5
  <1>2. PlacedIn(d)
    BY <1>1 DEF PlacedIn
  <1>3. Distinct(d)
    BY <1>1 DEF Distinct
  <1>4. ASSUME NEW x, InBands(d, x) PROVE InBands(b, x)
    <2>1. PICK p \in 1..4 : \E j \in 1..Len(d[p]) : d[p][j] = x
      BY <1>4 DEF InBands
    <2>2. PICK j \in 1..Len(d[p]) : d[p][j] = x
      BY <2>1
    <2>3. InBands(b, d[p][j])
      BY <1>1
    <2> QED BY <2>2, <2>3
  <1> QED BY <1>2, <1>3, <1>4 DEF OnePlaceEach

----------------------------------------------------------------------------
\* Waiting, the play order and the bands have the same items.
LEMMA WhoWaits ==
  ASSUME band \in Bands
  PROVE  /\ \A x : x \in Waiting <=> InBands(band, x)
         /\ \A x : x \in Range(Whole(band)) <=> InBands(band, x)
  <1>0. \A p \in 1..4 : DOMAIN band[p] = 1..Len(band[p])
    <2> TAKE p \in 1..4
    <2>1. band[p] \in Seq(Items)
      BY DEF Bands
    <2> QED BY <2>1, LenProperties
  <1>1. ASSUME NEW x PROVE x \in Waiting <=> InBands(band, x)
    <2>1. \A p \in 1..4 : x \in Range(band[p]) <=> \E j \in 1..Len(band[p]) : band[p][j] = x
      BY <1>0 DEF Range
    <2>2. x \in Waiting <=> \E p \in 1..4 : x \in Range(band[p])
      BY DEF Waiting
    <2> QED BY <2>1, <2>2 DEF InBands
  <1>2. ASSUME NEW x PROVE x \in Range(Whole(band)) <=> InBands(band, x)
    <2>0. DOMAIN Whole(band) = 1..DepthOf(band)
      BY WholeIs
    <2>1. ASSUME x \in Range(Whole(band)) PROVE InBands(band, x)
      <3>1. PICK j \in 1..DepthOf(band) : x = Whole(band)[j]
        BY <2>0, <2>1 DEF Range
      <3>2. /\ BandAt(band, j) \in 1..4
            /\ j - Start(band, BandAt(band, j)) \in 1..Len(band[BandAt(band, j)])
            /\ x = band[BandAt(band, j)][j - Start(band, BandAt(band, j))]
        BY <3>1, EachInBand
      <3> QED BY <3>2 DEF InBands
    <2>2. ASSUME InBands(band, x) PROVE x \in Range(Whole(band))
      <3>0. PICK p \in 1..4 : \E m \in 1..Len(band[p]) : band[p][m] = x
        BY <2>2 DEF InBands
      <3>1. PICK m \in 1..Len(band[p]) : band[p][m] = x
        BY <3>0
      <3>2. Start(band, p) + m \in 1..DepthOf(band) /\ Whole(band)[Start(band, p) + m] = x
        BY <3>1, PlaceOf
      <3> QED BY <2>0, <3>2 DEF Range
    <2> QED BY <2>1, <2>2
  <1> QED BY <1>1, <1>2

----------------------------------------------------------------------------
(* PlayOrder's steps, of the play order the bands make. *)

LEMMA SameHelpers ==
  /\ \A s, k, e : Order!InsertAt(s, k, e) = InsertAt(s, k, e)
  /\ \A s, k : Order!RemoveAt(s, k) = RemoveAt(s, k)
  /\ \A s : Order!Range(s) = Range(s)
  BY DEF InsertAt, RemoveAt, Range, Order!InsertAt, Order!RemoveAt, Order!Range

LEMMA PutIs ==
  ASSUME NEW i, NEW k \in 1..(Len(Whole(band)) + 1),
         \A j \in DOMAIN Whole(band) : j < k <=> PrioOf[Whole(band)[j]] <= PrioOf[i],
         Whole(band') = InsertAt(Whole(band), k, i), UNCHANGED <<active, edits>>
  PROVE  Order!Put(i)
  BY SameHelpers DEF Order!Put, Whole

\* The oldest of the least urgent that waits is in place k.
OldestIs(W, k) ==
  /\ k \in DOMAIN W
  /\ \A j \in DOMAIN W : PrioOf[W[j]] <= PrioOf[W[k]]
  /\ \A j \in 1..(k - 1) : PrioOf[W[j]] < PrioOf[W[k]]

LEMMA ShedIs ==
  ASSUME NEW k, OldestIs(Whole(band), k), PrioOf[Whole(band)[k]] >= 3,
         Whole(band') = RemoveAt(Whole(band), k), UNCHANGED <<active, edits>>
  PROVE  Order!Shed
  BY SameHelpers DEF Order!Shed, Order!Oldest, Order!Droppable, Whole, OldestIs

LEMMA PutSheddingIs ==
  ASSUME NEW i, NEW k, OldestIs(Whole(band), k), PrioOf[Whole(band)[k]] = 4, PrioOf[i] = 4,
         Whole(band') = Append(RemoveAt(Whole(band), k), i), UNCHANGED <<active, edits>>
  PROVE  Order!PutShedding(i)
  BY SameHelpers DEF Order!PutShedding, Order!Oldest, Whole, OldestIs

LEMMA TakeIs ==
  ASSUME Whole(band) # <<>>, active' = Head(Whole(band)), Whole(band') = Tail(Whole(band)),
         UNCHANGED edits
  PROVE  Order!Take
  BY DEF Order!Take, Whole

LEMMA PurgeIs ==
  ASSUME NEW k \in 0..Len(Whole(band)),
         \A j \in DOMAIN Whole(band) : j > k <=> PrioOf[Whole(band)[j]] >= 3,
         Whole(band') = SubSeq(Whole(band), 1, k), UNCHANGED <<active, edits>>
  PROVE  Order!Purge
  BY DEF Order!Purge, Order!Droppable, Whole

ThinnedBy(s, S, r) ==
  \E from \in [DOMAIN r -> DOMAIN s] :
     /\ \A j, k \in DOMAIN r : j < k => from[j] < from[k]
     /\ \A j \in DOMAIN r : r[j] = s[from[j]]
     /\ \A k \in DOMAIN s : s[k] \notin S <=> \E j \in DOMAIN r : from[j] = k

LEMMA TakeOutIs ==
  ASSUME NEW S, ThinnedBy(Whole(band), S, Whole(band')), edits' = edits + 1, UNCHANGED active
  PROVE  Order!TakeOut(S)
  BY DEF Order!TakeOut, Order!Edited, Order!Thinned, ThinnedBy, Whole

SortedSeq(s) == \A j, k \in DOMAIN s : j < k => PrioOf[s[j]] <= PrioOf[s[k]]
Fits(rest, i) == {k \in 0..Len(rest) : SortedSeq(InsertAt(rest, k + 1, i))}
Apart(a, b) == IF a < b THEN b - a ELSE a - b

LEMMA MoveIs ==
  ASSUME NEW i, NEW to, edits' = edits + 1, UNCHANGED active,
         NEW at \in DOMAIN Whole(band), Whole(band)[at] = i,
         NEW k \in Fits(RemoveAt(Whole(band), at), i),
         \A other \in Fits(RemoveAt(Whole(band), at), i) : Apart(k, to) <= Apart(other, to),
         Whole(band') = InsertAt(RemoveAt(Whole(band), at), k + 1, i)
  PROVE  Order!Move(i, to)
  <1> DEFINE rest == Order!RemoveAt(Whole(band), at)
             fits == {n \in 0..Len(rest) : Order!Sorted(Order!InsertAt(rest, n + 1, i))}
  <1>1. rest = RemoveAt(Whole(band), at)
    BY SameHelpers
  <1> HIDE DEF rest
  <1>2. \A n : Order!Sorted(Order!InsertAt(rest, n + 1, i)) <=> SortedSeq(InsertAt(rest, n + 1, i))
    <2> TAKE n
    <2>1. Order!InsertAt(rest, n + 1, i) = InsertAt(rest, n + 1, i)
      BY SameHelpers
    <2> QED BY <2>1 DEF Order!Sorted, SortedSeq
  <1>3. fits = Fits(RemoveAt(Whole(band), at), i)
    BY <1>1, <1>2 DEF Fits
  <1>4. k \in fits /\ Whole(band') = Order!InsertAt(rest, k + 1, i)
    BY <1>1, <1>3, SameHelpers
  <1>5. \A other \in fits : Order!Distance(k, to) <= Order!Distance(other, to)
    BY <1>3 DEF Order!Distance, Apart
  <1>6. \E n \in fits : /\ \A other \in fits : Order!Distance(n, to) <= Order!Distance(other, to)
                        /\ Whole(band') = Order!InsertAt(rest, n + 1, i)
    BY <1>4, <1>5
  <1>7. Order!Edited
    BY DEF Order!Edited
  <1> QED BY <1>6, <1>7 DEF Order!Move, Whole, rest

LEMMA SameOrder ==
  ASSUME UNCHANGED <<band, active, edits>>
  PROVE  UNCHANGED Order!vars
  BY DEF Order!vars

\* The places up to the end of a band, and those before it, by their bands.
LEMMA UpToBand ==
  ASSUME NEW b \in Bands, NEW q \in 1..4, NEW j \in 1..DepthOf(b)
  PROVE  /\ BandAt(b, j) <= q <=> j < Start(b, q) + (Len(b[q]) + 1)
         /\ BandAt(b, j) < q <=> j <= Start(b, q)
  <1> DEFINE r == BandAt(b, j)
  <1>1. r \in 1..4 /\ j - Start(b, r) \in 1..Len(b[r])
    BY EachInBand
  <1> HIDE DEF r
  <1>2. /\ Start(b, q) \in Nat /\ Len(b[q]) \in Nat
        /\ q < r => Start(b, q) + Len(b[q]) <= Start(b, r)
    BY <1>1, StartsGrow
  <1>3. /\ Start(b, r) \in Nat /\ Len(b[r]) \in Nat
        /\ r < q => Start(b, r) + Len(b[r]) <= Start(b, q)
    BY <1>1, StartsGrow
  <1>a. /\ j \in Nat /\ Start(b, r) < j /\ j <= Start(b, r) + Len(b[r])
        /\ r \in Nat /\ q \in Nat
    BY <1>1, <1>3
  <1>4. r <= q <=> j < Start(b, q) + (Len(b[q]) + 1)
    <2>1. CASE r < q
      BY <1>a, <1>2, <1>3, <2>1
    <2>2. CASE r = q
      BY <1>a, <1>2, <2>2
    <2>3. CASE q < r
      BY <1>a, <1>2, <1>3, <2>3
    <2> QED BY <1>a, <2>1, <2>2, <2>3
  <1>5. r < q <=> j <= Start(b, q)
    <2>1. CASE r < q
      BY <1>a, <1>2, <1>3, <2>1
    <2>2. CASE r = q
      BY <1>a, <1>2, <2>2
    <2>3. CASE q < r
      BY <1>a, <1>2, <1>3, <2>3
    <2> QED BY <1>a, <2>1, <2>2, <2>3
  <1> QED BY <1>4, <1>5 DEF r

LEMMA AppendIsInsert ==
  ASSUME NEW t \in Seq(Items), NEW e \in Items
  PROVE  InsertAt(t, Len(t) + 1, e) = Append(t, e)
  <1> DEFINE k == Len(t) + 1
             X == InsertAt(t, k, e)
             Y == Append(t, e)
  <1>1. Len(t) \in Nat /\ k \in 1..(Len(t) + 1)
    BY LenProperties
  <1>2. /\ X \in Seq(Items) /\ Len(X) = Len(t) + 1
        /\ \A j \in 1..(Len(t) + 1) :
               X[j] = IF j < k THEN t[j] ELSE IF j = k THEN e ELSE t[j - 1]
    <2> HIDE DEF k
    <2> QED BY <1>1, InsertAtSeq
  <1>3. /\ Y \in Seq(Items) /\ Len(Y) = Len(t) + 1
        /\ \A i \in 1..Len(t) : Y[i] = t[i]
        /\ Y[Len(t) + 1] = e
    BY AppendProperties
  <1> HIDE DEF X, Y
  <1>4. \A j \in 1..(Len(t) + 1) : X[j] = Y[j]
    BY <1>1, <1>2, <1>3
  <1>5. X = Y
    BY <1>2, <1>3, <1>4, SeqEqual
  <1> QED BY <1>5 DEF X, Y

LEMMA TailIsRemove ==
  ASSUME NEW t \in Seq(Items), t # <<>>
  PROVE  Tail(t) = RemoveAt(t, 1) /\ Head(t) = t[1]
  <1> DEFINE X == RemoveAt(t, 1)
             Y == Tail(t)
  <1>1. Len(t) \in Nat \ {0}
    BY EmptySeq
  <1>2. /\ X \in Seq(Items) /\ Len(X) = Len(t) - 1
        /\ \A j \in 1..(Len(t) - 1) : X[j] = IF j < 1 THEN t[j] ELSE t[j + 1]
    BY <1>1, RemoveAtSeq
  <1>3. /\ Y \in Seq(Items) /\ Len(Y) = Len(t) - 1
        /\ \A i \in 1..Len(Y) : Y[i] = t[i + 1]
    BY HeadTailProperties
  <1> HIDE DEF X, Y
  <1>4. \A j \in 1..Len(X) : X[j] = Y[j]
    BY <1>1, <1>2, <1>3
  <1>5. X = Y
    BY <1>2, <1>3, <1>4, SeqEqual
  <1> QED BY <1>5 DEF X, Y

\* The first place of a band behind which nothing waits is that of the oldest
\* of the least urgent.
LEMMA OldestOfLast ==
  ASSUME NEW b \in Bands, PlacedIn(b), NEW p \in 1..4, b[p] # <<>>,
         \A q \in 1..4 : p < q => b[q] = <<>>
  PROVE  OldestIs(Whole(b), Start(b, p) + 1) /\ PrioOf[Whole(b)[Start(b, p) + 1]] = p
  <1>1. Len(b[p]) \in Nat /\ Len(b[p]) # 0 /\ Start(b, p) \in Nat /\ DOMAIN Whole(b) = 1..DepthOf(b)
    BY Lengths, StartsGrow, WholeIs
  <1>2. 1 \in 1..Len(b[p])
    BY <1>1
  <1> DEFINE k == Start(b, p) + 1
  <1>3. k \in 1..DepthOf(b) /\ BandAt(b, k) = p
    BY <1>2, PlaceOf
  <1>4. \A j \in 1..DepthOf(b) : PrioOf[Whole(b)[j]] = BandAt(b, j)
    BY WholeSorted
  <1>5. \A j \in 1..DepthOf(b) : BandAt(b, j) <= p
    <2> TAKE j \in 1..DepthOf(b)
    <2> DEFINE r == BandAt(b, j)
    <2>1. r \in 1..4 /\ j - Start(b, r) \in 1..Len(b[r])
      BY EachInBand
    <2> HIDE DEF r
    <2>2. ~ (p < r)
      <3> SUFFICES ASSUME p < r PROVE FALSE
        OBVIOUS
      <3>1. Len(b[r]) = 0
        BY <2>1, Lengths
      <3> QED BY <2>1, <3>1
    <2>3. r <= p
      BY <2>1, <2>2
    <2> QED BY <2>3 DEF r
  <1>6. \A j \in 1..DepthOf(b) : j <= Start(b, p) => BandAt(b, j) < p
    BY UpToBand
  <1>7. PrioOf[Whole(b)[k]] = p
    BY <1>3, <1>4
  <1>8. \A j \in 1..(k - 1) : PrioOf[Whole(b)[j]] < p
    <2> TAKE j \in 1..(k - 1)
    <2>1. j \in 1..DepthOf(b) /\ j <= Start(b, p)
      <3>1. DepthOf(b) \in Nat
        BY Lengths
      <3> QED BY <1>1, <1>3, <3>1
    <2> QED BY <1>4, <1>6, <2>1
  <1> HIDE DEF k
  <1>9. OldestIs(Whole(b), k)
    BY <1>1, <1>3, <1>4, <1>5, <1>7, <1>8 DEF OldestIs
  <1> QED BY <1>7, <1>9 DEF k

----------------------------------------------------------------------------
\* A step that puts nothing in a band, takes nothing in hand and begins no put.
LEMMA FewerWait ==
  ASSUME PlayInv, OnePlaceEach(band'), \A x : InBands(band', x) => InBands(band, x),
         \A i \in Items : call'[i] \in ToPut => call[i] \in ToPut,
         active' = active, pass' # "idle" => pass # "idle",
         pass' \in {"taken", "playing", "retrying", "putting back"} =>
             pass \in {"taken", "playing", "retrying", "putting back"}
  PROVE  PlayInv'
  <1>1. ASSUME NEW i \in Items, call'[i] \in ToPut
        PROVE  ~ InBands(band', i) /\ (pass' # "idle" => active' # i)
    BY <1>1 DEF PlayInv
  <1>2. pass' \in {"taken", "playing", "retrying", "putting back"} => ~ InBands(band', active')
    BY DEF PlayInv
  <1>3. (\A i \in Items : call[i] \in ToPut => (~ InBands(band, i) /\ (pass # "idle" => active # i)))'
    BY <1>1 DEF ToPut, InBands
  <1> QED BY <1>2, <1>3 DEF PlayInv, OnePlaceEach, PlacedIn, Distinct, InBands

LEMMA NothingMoves ==
  ASSUME PlayInv, UNCHANGED <<band, active, edits>>,
         \A i \in Items : call'[i] \in ToPut => call[i] \in ToPut,
         pass' # "idle" => pass # "idle",
         pass' \in {"taken", "playing", "retrying", "putting back"} =>
             pass \in {"taken", "playing", "retrying", "putting back"}
  PROVE  PlayInv' /\ UNCHANGED Order!vars
  <1>1. OnePlaceEach(band') /\ \A x : InBands(band', x) => InBands(band, x)
    BY DEF PlayInv
  <1> QED BY <1>1, FewerWait, SameOrder

LEMMA QuietPlays ==
  ASSUME TypeOK, PlayInv,
         \/ \E p \in Putters : CountOrWait(p) \/ PutNowait(p)
         \/ \E t \in Threads : OnPurged(t)
         \/ GetReturns \/ Finish \/ Retry \/ PutBack \/ TaskDone
  PROVE  PlayInv' /\ UNCHANGED Order!vars
  <1>0. Worker \notin Items /\ Items \subseteq Putters
    BY WhoIsWho
  <1>1. ASSUME NEW p \in Putters, CountOrWait(p) PROVE PlayInv' /\ UNCHANGED Order!vars
    BY <1>0, <1>1, NothingMoves DEF CountOrWait, TypeOK, ToPut
  <1>2. ASSUME NEW p \in Putters, PutNowait(p) PROVE PlayInv' /\ UNCHANGED Order!vars
    BY <1>0, <1>2, NothingMoves DEF PutNowait, TypeOK, ToPut
  <1>3. ASSUME NEW t \in Threads, OnPurged(t) PROVE PlayInv' /\ UNCHANGED Order!vars
    BY <1>0, <1>3, NothingMoves DEF OnPurged, Notified, TypeOK, ToPut
  <1>4. CASE GetReturns
    BY <1>0, <1>4, NothingMoves DEF GetReturns, Notified, TypeOK, ToPut
  <1>5. CASE Finish
    BY <1>5, NothingMoves DEF Finish
  <1>6. CASE Retry
    BY <1>0, <1>6, NothingMoves DEF Retry, TypeOK
  <1>7. CASE PutBack
    BY <1>0, <1>7, NothingMoves DEF PutBack, TypeOK
  <1>8. CASE TaskDone
    BY <1>0, <1>8, NothingMoves DEF TaskDone, Notified, TypeOK, ToPut
  <1> QED BY <1>1, <1>2, <1>3, <1>4, <1>5, <1>6, <1>7, <1>8

\* What a thread in its put puts.
LEMMA PutsWhatIsToPut ==
  ASSUME TypeOK, Carried, PlayInv, NEW p \in Putters, call[p] = "counted"
  PROVE  /\ Argument(p) \in Items /\ PrioOf[Argument(p)] \in 1..4 /\ ~ InBands(band, Argument(p))
         /\ p # Worker => p \in Items /\ Argument(p) = p
         /\ p = Worker => Argument(p) = active /\ pass \in {"retrying", "putting back"}
  <1>1. Argument(p) \in Items /\ PrioOf[Argument(p)] \in 1..4
    BY ArgumentOf
  <1>2. CASE p # Worker
    <2>1. p \in Items /\ Argument(p) = p
      BY <1>2, WhoIsWho DEF Argument
    <2>2. ~ InBands(band, p)
      BY <2>1 DEF PlayInv, ToPut
    <2> QED BY <1>1, <1>2, <2>1, <2>2
  <1>3. CASE p = Worker
    <2>1. Argument(p) = active /\ pass \in {"retrying", "putting back"}
      BY <1>3 DEF Argument, Carried
    <2>2. ~ InBands(band, active)
      BY <2>1 DEF PlayInv
    <2> QED BY <1>1, <1>3, <2>1, <2>2
  <1> QED BY <1>2, <1>3

\* One more waits, the one put.
LEMMA OneMoreWaits ==
  ASSUME TypeOK, Carried, PlayInv, NEW p \in Putters, Enqueue(p), OnePlaceEach(band'),
         \A x : InBands(band', x) => InBands(band, x) \/ x = Argument(p)
  PROVE  PlayInv'
  <1>0. call[p] = "counted" /\ active' = active
    BY DEF Enqueue
  <1>1. /\ Argument(p) \in Items /\ ~ InBands(band, Argument(p))
        /\ p # Worker => p \in Items /\ Argument(p) = p
        /\ p = Worker => Argument(p) = active /\ pass \in {"retrying", "putting back"}
    BY <1>0, PutsWhatIsToPut
  <1>2. call'[p] = "returned" /\ \A q \in Putters \ {p} : call'[q] = call[q]
    BY DEF Enqueue, TypeOK
  <1>3. Items \subseteq Putters
    BY WhoIsWho
  <1>4. pass' # "idle" => pass # "idle"
    BY <1>1 DEF Enqueue
  <1>5. ASSUME NEW i \in Items, call'[i] \in ToPut
        PROVE  ~ InBands(band', i) /\ (pass' # "idle" => active' # i)
    <2>1. i # p /\ call[i] \in ToPut
      BY <1>2, <1>3, <1>5 DEF ToPut
    <2>2. ~ InBands(band, i) /\ (pass # "idle" => active # i)
      BY <2>1 DEF PlayInv
    <2>3. i # Argument(p)
      BY <1>1, <2>1, <2>2
    <2> QED BY <1>0, <1>4, <2>2, <2>3
  <1>6. pass' \in {"taken", "playing", "retrying", "putting back"} => ~ InBands(band', active')
    <2> SUFFICES ASSUME pass' \in {"taken", "playing", "retrying", "putting back"}
                 PROVE  ~ InBands(band', active')
      OBVIOUS
    <2>1. p # Worker /\ pass' = pass
      BY DEF Enqueue
    <2>2. ~ InBands(band, active)
      BY <2>1 DEF PlayInv
    <2>3. active # p
      BY <1>0, <1>1, <2>1 DEF PlayInv, ToPut
    <2> QED BY <1>0, <1>1, <2>1, <2>2, <2>3
  <1>7. (\A i \in Items : call[i] \in ToPut => (~ InBands(band, i) /\ (pass # "idle" => active # i)))'
    BY <1>5 DEF ToPut, InBands
  <1> QED BY <1>6, <1>7 DEF PlayInv, OnePlaceEach, PlacedIn, Distinct, InBands

LEMMA EnqueuePlays ==
  ASSUME ArbiterInv, PlayInv, NEW p \in Putters, Enqueue(p)
  PROVE  /\ PlayInv'
         /\ Argument(p) \in Items /\ ~ InBands(band, Argument(p))
         /\ Order!Put(Argument(p)) \/ Order!PutShedding(Argument(p))
  <1> USE DEF ArbiterInv
  <1> DEFINE i == Argument(p)
             q == PrioOf[i]
  <1>0. /\ i \in Items /\ q \in 1..4 /\ ~ InBands(band, i) /\ band \in Bands
        /\ OnePlaceEach(band) /\ PlacedIn(band) /\ UNCHANGED <<active, edits>>
    BY PutsWhatIsToPut DEF Enqueue, PlayInv, OnePlaceEach, TypeOK, Bands
  <1> HIDE DEF i
  <1>1. CASE ~ NoRoomLeft(p)
    <2> DEFINE s == Append(band[q], i)
               k == Len(band[q]) + 1
    <2>1. band' = With(band, q, s)
      BY <1>1 DEF Enqueue, With, i
    <2>2. band[q] \in Seq(Items) /\ Len(band[q]) \in Nat
      BY <1>0, Lengths DEF Bands
    <2>3. s \in Seq(Items) /\ Len(s) = Len(band[q]) + 1 /\ Inserts(band[q], s, Len(band[q]), k, i)
      BY <1>0, <2>2, AppendInserts
    <2>4. k \in 1..(Len(band[q]) + 1)
      BY <2>2
    <2> HIDE DEF q, s, k
    <2>5. Whole(band') = InsertAt(Whole(band), Start(band, q) + k, i)
      BY <1>0, <2>1, <2>3, <2>4, InsertInBand
    <2>6. /\ OnePlaceEach(band')
          /\ \A x : InBands(band', x) => InBands(band, x) \/ x = i
      <3>1. PrioOf[i] = q
        BY DEF q
      <3> QED BY <1>0, <2>1, <2>3, <2>4, <3>1, InsertPlaced
    <2>7. PlayInv'
      BY <2>6, OneMoreWaits DEF i
    <2>8. Start(band, q) + k \in 1..(Len(Whole(band)) + 1)
      <3>1. /\ Start(band, q) \in Nat /\ Start(band, q) + Len(band[q]) <= DepthOf(band)
            /\ DepthOf(band) \in Nat /\ Len(Whole(band)) = DepthOf(band)
        BY <1>0, StartsGrow, WholeIs
      <3> QED BY <2>2, <3>1 DEF k
    <2>9. \A j \in DOMAIN Whole(band) : j < Start(band, q) + k <=> PrioOf[Whole(band)[j]] <= PrioOf[i]
      <3> SUFFICES ASSUME NEW j \in 1..DepthOf(band)
                   PROVE  j < Start(band, q) + k <=> PrioOf[Whole(band)[j]] <= PrioOf[i]
        BY <1>0, WholeIs
      <3>1. PrioOf[Whole(band)[j]] = BandAt(band, j)
        BY <1>0, WholeSorted
      <3>2. BandAt(band, j) <= q <=> j < Start(band, q) + (Len(band[q]) + 1)
        BY <1>0, UpToBand
      <3> QED BY <3>1, <3>2 DEF k, q
    <2>10. Order!Put(i)
      BY <1>0, <2>5, <2>8, <2>9, PutIs
    <2> QED BY <1>0, <2>7, <2>10 DEF i
  <1>2. CASE NoRoomLeft(p)
    <2> DEFINE mid == With(band, 4, Tail(band[4]))
               s == Append(mid[4], i)
    <2>a. 4 \in 1..4
      OBVIOUS
    <2>1. q = 4 /\ band[4] # <<>> /\ band[4] \in Seq(Items)
      <3>1. q = 4 /\ MaxSize > 0 /\ Len(band[4]) >= MaxSize /\ MaxSize \in Nat
        BY <1>2, ArbiterAssumption DEF NoRoomLeft, i
      <3>2. Len(band[4]) # 0 /\ band[4] \in Seq(Items)
        <4>1. Len(band[4]) \in Nat
          BY <1>0, Lengths
        <4> QED BY <1>0, <3>1, <4>1 DEF Bands
      <3> QED BY <1>0, <3>1, <3>2, Lengths
    <2>2. /\ Tail(band[4]) \in Seq(Items) /\ Len(Tail(band[4])) = Len(band[4]) - 1
          /\ 1 \in 1..Len(band[4]) /\ Deletes(band[4], Tail(band[4]), Len(band[4]), 1)
      BY <2>1, TailDeletes
    <2>3. /\ mid \in Bands /\ mid[4] = Tail(band[4])
          /\ Whole(mid) = RemoveAt(Whole(band), Start(band, 4) + 1)
      <3>1. OnlyBand(band, 4, Tail(band[4]), mid)
        BY <1>0, <2>a, <2>2, OneBand
      <3>2. Whole(mid) = RemoveAt(Whole(band), Start(band, 4) + 1)
        BY <1>0, <2>a, <2>2, DeleteInBand
      <3> QED BY <3>1, <3>2 DEF OnlyBand
    <2>4. OnePlaceEach(mid) /\ \A x : InBands(mid, x) => InBands(band, x)
      BY <1>0, <2>a, <2>2, DeletePlaced
    <2>5. band' = With(mid, 4, s)
      <3>1. band' = [band EXCEPT ![4] = Append(Tail(band[4]), i)]
        BY <1>2, <2>1 DEF Enqueue, i
      <3>2. mid = [band EXCEPT ![4] = Tail(band[4])]
        BY DEF With
      <3>3. s = Append(Tail(band[4]), i)
        BY <2>3
      <3> HIDE DEF mid, s
      <3> QED BY <1>0, <3>1, <3>2, <3>3 DEF With, Bands
    <2> HIDE DEF mid
    <2>6. mid[4] \in Seq(Items) /\ Len(mid[4]) \in Nat /\ Len(mid[4]) + 1 \in 1..(Len(mid[4]) + 1)
      <3>1. mid[4] \in Seq(Items)
        BY <2>2, <2>3
      <3>2. Len(mid[4]) \in Nat
        BY <3>1, LenProperties
      <3> QED BY <3>1, <3>2
    <2>7. s \in Seq(Items) /\ Len(s) = Len(mid[4]) + 1 /\ Inserts(mid[4], s, Len(mid[4]), Len(mid[4]) + 1, i)
      BY <1>0, <2>6, AppendInserts
    <2> HIDE DEF s
    <2>8. Whole(band') = InsertAt(Whole(mid), Start(mid, 4) + (Len(mid[4]) + 1), i)
      BY <1>0, <2>a, <2>3, <2>5, <2>6, <2>7, InsertInBand
    <2>9. Whole(band') = Append(Whole(mid), i)
      <3>1. /\ Whole(mid) \in Seq(Items) /\ Len(Whole(mid)) = DepthOf(mid) /\ DepthOf(mid) \in Nat
            /\ Start(mid, 4) \in Nat
        BY <2>3, WholeIs, StartsGrow
      <3>2. Start(mid, 4) + Len(mid[4]) = DepthOf(mid)
        <4>1. /\ Start(mid, 4) = Len(mid[1]) + Len(mid[2]) + Len(mid[3])
              /\ DepthOf(mid) = Len(mid[1]) + Len(mid[2]) + Len(mid[3]) + Len(mid[4])
          BY <2>3, Starts
        <4> QED BY <4>1
      <3>3. Start(mid, 4) + (Len(mid[4]) + 1) = Len(Whole(mid)) + 1
        BY <2>6, <3>1, <3>2
      <3> QED BY <1>0, <2>8, <3>1, <3>3, AppendIsInsert
    <2>10. /\ OnePlaceEach(band')
           /\ \A x : InBands(band', x) => InBands(mid, x) \/ x = i
      <3>1. PrioOf[i] = 4 /\ ~ InBands(mid, i)
        BY <1>0, <2>1, <2>4
      <3> DEFINE k == Len(mid[4]) + 1
      <3>2. /\ mid \in Bands /\ OnePlaceEach(mid) /\ s \in Seq(Items) /\ i \in Items
            /\ k \in 1..(Len(mid[4]) + 1) /\ Len(s) = Len(mid[4]) + 1
            /\ Inserts(mid[4], s, Len(mid[4]), k, i)
        BY <1>0, <2>3, <2>4, <2>6, <2>7
      <3> HIDE DEF k
      <3>3. /\ OnePlaceEach(With(mid, 4, s))
            /\ \A x : InBands(With(mid, 4, s), x) => InBands(mid, x) \/ x = i
        BY <2>a, <3>1, <3>2, InsertPlaced
      <3> QED BY <2>5, <3>3
    <2>11. PlayInv'
      BY <2>4, <2>10, OneMoreWaits DEF i
    <2>12. /\ OldestIs(Whole(band), Start(band, 4) + 1)
           /\ PrioOf[Whole(band)[Start(band, 4) + 1]] = 4
      BY <1>0, <2>1, OldestOfLast
    <2>13. Order!PutShedding(i)
      BY <1>0, <2>1, <2>3, <2>9, <2>12, PutSheddingIs
    <2> QED BY <1>0, <2>11, <2>13 DEF i
  <1> QED BY <1>1, <1>2

LEMMA ShedPlays ==
  ASSUME ArbiterInv, PlayInv, NEW p \in Putters, ShedOldest(p)
  PROVE  PlayInv' /\ (Order!Shed \/ UNCHANGED Order!vars)
  <1> USE DEF ArbiterInv
  <1>0. /\ band \in Bands /\ OnePlaceEach(band) /\ PlacedIn(band) /\ UNCHANGED <<active, edits, pass>>
        /\ \A i \in Items : call'[i] \in ToPut => call[i] \in ToPut
    BY WhoIsWho DEF ShedOldest, PlayInv, OnePlaceEach, TypeOK, Bands, ToPut
  <1>1. CASE ~ CanShed
    <2>1. UNCHANGED band
      BY <1>1 DEF ShedOldest
    <2> QED BY <1>0, <2>1, NothingMoves
  <1>2. CASE CanShed
    <2> DEFINE q == ShedBand
               s == Tail(band[q])
    <2>1. q \in {3, 4} /\ band[q] # <<>> /\ \A r \in 1..4 : q < r => band[r] = <<>>
      BY <1>2 DEF CanShed, ShedBand
    <2>2. band' = With(band, q, s)
      BY <1>2 DEF ShedOldest, With
    <2> HIDE DEF q
    <2>3. q \in 1..4 /\ band[q] \in Seq(Items)
      BY <1>0, <2>1 DEF Bands
    <2>4. /\ s \in Seq(Items) /\ Len(s) = Len(band[q]) - 1
          /\ 1 \in 1..Len(band[q]) /\ Deletes(band[q], s, Len(band[q]), 1)
      BY <2>1, <2>3, TailDeletes
    <2> HIDE DEF s
    <2>5. Whole(band') = RemoveAt(Whole(band), Start(band, q) + 1)
      BY <1>0, <2>2, <2>3, <2>4, DeleteInBand
    <2>6. OnePlaceEach(band') /\ \A x : InBands(band', x) => InBands(band, x)
      BY <1>0, <2>2, <2>3, <2>4, DeletePlaced
    <2>7. PlayInv'
      BY <1>0, <2>6, FewerWait
    <2>8. /\ OldestIs(Whole(band), Start(band, q) + 1)
          /\ PrioOf[Whole(band)[Start(band, q) + 1]] = q
      BY <1>0, <2>1, <2>3, OldestOfLast
    <2>9. Order!Shed
      BY <1>0, <2>1, <2>5, <2>8, ShedIs
    <2> QED BY <2>7, <2>9
  <1> QED BY <1>1, <1>2

LEMMA DequeuePlays ==
  ASSUME ArbiterInv, PlayInv, Dequeue
  PROVE  PlayInv' /\ Order!Take
  <1> USE DEF ArbiterInv
  <1> DEFINE p == Highest
             s == Tail(band[p])
  <1>0. band \in Bands /\ OnePlaceEach(band) /\ PlacedIn(band) /\ UNCHANGED <<call, edits>>
    BY DEF Dequeue, PlayInv, OnePlaceEach, TypeOK, Bands
  <1>1. p \in 1..4 /\ band[p] # <<>> /\ \A r \in 1..(p - 1) : band[r] = <<>>
    BY <1>0, HighestWaits DEF Dequeue
  <1>2. band' = With(band, p, s) /\ active' = Head(band[p])
    BY DEF Dequeue, With
  <1> HIDE DEF p
  <1>3. band[p] \in Seq(Items)
    BY <1>0, <1>1 DEF Bands
  <1>4. /\ s \in Seq(Items) /\ Len(s) = Len(band[p]) - 1
        /\ 1 \in 1..Len(band[p]) /\ Deletes(band[p], s, Len(band[p]), 1)
    BY <1>1, <1>3, TailDeletes
  <1>5. active' = band[p][1]
    BY <1>1, <1>2, <1>3, TailIsRemove
  <1> HIDE DEF s
  <1>6. Whole(band') = RemoveAt(Whole(band), Start(band, p) + 1)
    BY <1>0, <1>1, <1>2, <1>4, DeleteInBand
  <1>7. /\ OnePlaceEach(band') /\ \A x : InBands(band', x) => InBands(band, x)
        /\ ~ InBands(band', active')
    BY <1>0, <1>1, <1>2, <1>4, <1>5, DeletePlaced
  <1>8. Start(band, p) = 0
    <2>1. \A r \in 1..4 : r < p => Len(band[r]) = 0
      BY <1>0, <1>1, Lengths
    <2>2. /\ Start(band, 1) = 0 /\ Start(band, 2) = Len(band[1])
          /\ Start(band, 3) = Len(band[1]) + Len(band[2])
          /\ Start(band, 4) = Len(band[1]) + Len(band[2]) + Len(band[3])
      BY <1>0, Starts
    <2>3. CASE p = 1
      BY <2>2, <2>3
    <2>4. CASE p = 2
      BY <2>1, <2>2, <2>4
    <2>5. CASE p = 3
      <3>1. Len(band[1]) = 0 /\ Len(band[2]) = 0
        BY <2>1, <2>5
      <3> QED BY <2>2, <2>5, <3>1
    <2>6. CASE p = 4
      <3>1. Len(band[1]) = 0 /\ Len(band[2]) = 0 /\ Len(band[3]) = 0
        BY <2>1, <2>6
      <3> QED BY <2>2, <2>6, <3>1
    <2> QED BY <1>1, <2>3, <2>4, <2>5, <2>6
  <1>9. Whole(band) \in Seq(Items) /\ Whole(band) # <<>> /\ Whole(band)[1] = band[p][1]
    <2>1. /\ Whole(band) \in Seq(Items) /\ Len(Whole(band)) = DepthOf(band)
          /\ Start(band, p) + 1 \in 1..DepthOf(band) /\ Whole(band)[Start(band, p) + 1] = band[p][1]
      BY <1>0, <1>1, <1>4, WholeIs, PlaceOf
    <2>2. Start(band, p) + 1 = 1
      BY <1>8
    <2>3. Len(Whole(band)) # 0
      BY <2>1, <2>2
    <2> QED BY <2>1, <2>2, <2>3, EmptySeq
  <1>10. Order!Take
    <2>1. Start(band, p) + 1 = 1
      BY <1>8
    <2>2. Whole(band') = Tail(Whole(band)) /\ active' = Head(Whole(band))
      BY <1>5, <1>6, <1>9, <2>1, TailIsRemove
    <2> QED BY <1>0, <1>9, <2>2, TakeIs
  <1>11. PlayInv'
    <2>1. InBands(band, active')
      BY <1>1, <1>4, <1>5 DEF InBands
    <2>2. ASSUME NEW i \in Items, call'[i] \in ToPut
          PROVE  ~ InBands(band', i) /\ (pass' # "idle" => active' # i)
      <3>1. ~ InBands(band, i)
        BY <1>0, <2>2 DEF PlayInv
      <3> QED BY <1>7, <2>1, <3>1
    <2>3. (\A i \in Items : call[i] \in ToPut => (~ InBands(band, i) /\ (pass # "idle" => active # i)))'
      BY <2>2 DEF ToPut, InBands
    <2> QED BY <1>7, <2>3 DEF PlayInv, OnePlaceEach, PlacedIn, Distinct, InBands
  <1> QED BY <1>10, <1>11

LEMMA PurgePlays ==
  ASSUME ArbiterInv, PlayInv, NEW t \in Controllers, PurgeLowerQueues(t)
  PROVE  PlayInv' /\ Order!Purge
  <1> USE DEF ArbiterInv
  <1>0. /\ band \in Bands /\ OnePlaceEach(band) /\ PlacedIn(band) /\ UNCHANGED <<active, call, pass, edits>>
        /\ band' = [band EXCEPT ![3] = <<>>, ![4] = <<>>]
    BY DEF PurgeLowerQueues, PlayInv, OnePlaceEach, TypeOK, Bands
  <1>1. /\ band' \in Bands /\ band'[1] = band[1] /\ band'[2] = band[2]
        /\ band'[3] = <<>> /\ band'[4] = <<>>
    <2>1. <<>> \in Seq(Items)
      BY EmptySeq
    <2>2. \A q \in 1..4 : band'[q] = IF q \in {3, 4} THEN <<>> ELSE band[q]
      BY <1>0 DEF Bands
    <2>3. band' \in Bands
      BY <1>0, <2>1 DEF Bands
    <2> QED BY <2>2, <2>3
  <1>2. Len(band'[3]) = 0 /\ Len(band'[4]) = 0 /\ \A q \in 1..4 : Len(band[q]) \in Nat
    BY <1>0, <1>1, Lengths
  <1>3. OnePlaceEach(band') /\ \A x : InBands(band', x) => InBands(band, x)
    <2>1. ASSUME NEW p \in 1..4
          PROVE  \E f \in [1..Len(band'[p]) -> 1..Len(band[p])] :
                   /\ \A j, k \in 1..Len(band'[p]) : j < k => f[j] < f[k]
                   /\ \A j \in 1..Len(band'[p]) : band'[p][j] = band[p][f[j]]
      <3> DEFINE f == [j \in 1..Len(band'[p]) |-> j]
      <3>1. (p \in {1, 2} /\ band'[p] = band[p]) \/ Len(band'[p]) = 0
        BY <1>1, <1>2
      <3>2. f \in [1..Len(band'[p]) -> 1..Len(band[p])]
        BY <3>1
      <3>3. \A j \in 1..Len(band'[p]) : band'[p][j] = band[p][f[j]]
        BY <3>1
      <3> QED BY <3>2, <3>3
    <2>2. band \in Bands /\ OnePlaceEach(band) /\ band' \in Bands
      BY <1>0, <1>1
    <2> QED BY <2>1, <2>2, ThinnedPlaced, Zenon
  <1>4. PlayInv'
    BY <1>0, <1>3, FewerWait
  <1> DEFINE k == Start(band, 3)
  <1>5. k \in Nat /\ k <= DepthOf(band) /\ DepthOf(band) \in Nat
    <2>1. k \in Nat /\ Len(band[3]) \in Nat /\ k + Len(band[3]) <= DepthOf(band) /\ DepthOf(band) \in Nat
      BY <1>0, StartsGrow, Lengths
    <2> QED BY <2>1
  <1>6. Whole(band) \in Seq(Items) /\ Len(Whole(band)) = DepthOf(band) /\ DOMAIN Whole(band) = 1..DepthOf(band)
    BY <1>0, WholeIs
  <1>7. \A j \in DOMAIN Whole(band) : j > k <=> PrioOf[Whole(band)[j]] >= 3
    <2> SUFFICES ASSUME NEW j \in 1..DepthOf(band) PROVE j > k <=> PrioOf[Whole(band)[j]] >= 3
      BY <1>6
    <2>1. PrioOf[Whole(band)[j]] = BandAt(band, j)
      BY <1>0, WholeSorted
    <2>2. BandAt(band, j) < 3 <=> j <= k
      BY <1>0, UpToBand
    <2>3. BandAt(band, j) \in 1..4
      BY <1>0, EachInBand
    <2> QED BY <1>5, <2>1, <2>2, <2>3
  <1>8. Whole(band') = SubSeq(Whole(band), 1, k)
    <2>1. Whole(band') \in Seq(Items) /\ Len(Whole(band')) = DepthOf(band')
      BY <1>1, WholeIs
    <2>2. DepthOf(band') = k
      <3>1. DepthOf(band') = Len(band'[1]) + Len(band'[2]) + Len(band'[3]) + Len(band'[4])
        BY DEF DepthOf
      <3>2. k = Len(band[1]) + Len(band[2])
        BY <1>0, Starts
      <3>3. Len(band[1]) \in Nat /\ Len(band[2]) \in Nat
        BY <1>2
      <3>4. DepthOf(band') = Len(band[1]) + Len(band[2]) + 0 + 0
        BY <1>1, <1>2, <3>1
      <3> HIDE DEF k
      <3> QED BY <3>2, <3>3, <3>4
    <2>3. /\ SubSeq(Whole(band), 1, k) \in Seq(Items) /\ Len(SubSeq(Whole(band), 1, k)) = k
          /\ \A j \in 1..k : SubSeq(Whole(band), 1, k)[j] = Whole(band)[j]
      <3> HIDE DEF k
      <3>1. 1 \in Int /\ k \in Int /\ \A j \in 1..k : Whole(band)[j] \in Items
        <4>1. 1 \in Int /\ k \in Int
          BY <1>5
        <4>2. \A j \in 1..k : j \in 1..Len(Whole(band))
          BY <1>5, <1>6
        <4>3. \A j \in 1..Len(Whole(band)) : Whole(band)[j] \in Items
          BY <1>6, ElementOfSeq
        <4> QED BY <4>1, <4>2, <4>3
      <3>2. /\ SubSeq(Whole(band), 1, k) \in Seq(Items)
            /\ Len(SubSeq(Whole(band), 1, k)) = IF 1 <= k THEN k - 1 + 1 ELSE 0
            /\ \A j \in 1..(k - 1 + 1) : SubSeq(Whole(band), 1, k)[j] = Whole(band)[1 + j - 1]
        BY <3>1, SubSeqProperties
      <3> QED BY <1>5, <3>2
    <2>4. ASSUME NEW j \in 1..k PROVE Whole(band')[j] = Whole(band)[j]
      <3> DEFINE r == BandAt(band, j)
                 m == j - Start(band, r)
      <3>1. j \in 1..DepthOf(band) /\ j <= Start(band, 3)
        BY <1>5
      <3>2. r \in 1..4 /\ m \in 1..Len(band[r]) /\ Whole(band)[j] = band[r][m] /\ r < 3
        BY <1>0, <3>1, EachInBand, UpToBand
      <3>3. Start(band, r) \in Nat
        BY <1>0, <3>2, StartsGrow
      <3>4. j = Start(band, r) + m
        BY <3>3
      <3> HIDE DEF r, m
      <3>5. band'[r] = band[r] /\ Start(band', r) = Start(band, r)
        <4>1. /\ Start(band, 1) = 0 /\ Start(band, 2) = Len(band[1])
              /\ Start(band', 1) = 0 /\ Start(band', 2) = Len(band'[1])
          BY <1>0, <1>1, Starts
        <4>2. r = 1 \/ r = 2
          BY <3>2
        <4> QED BY <1>1, <4>1, <4>2
      <3>6. m \in 1..Len(band'[r])
        BY <3>2, <3>5
      <3>7. Whole(band')[Start(band', r) + m] = band'[r][m]
        BY <1>1, <3>2, <3>6, PlaceOf
      <3> QED BY <3>2, <3>4, <3>5, <3>7
    <2> HIDE DEF k
    <2>5. \A j \in 1..Len(Whole(band')) : Whole(band')[j] = SubSeq(Whole(band), 1, k)[j]
      BY <2>1, <2>2, <2>3, <2>4
    <2>6. Len(Whole(band')) = Len(SubSeq(Whole(band), 1, k))
      BY <2>1, <2>2, <2>3
    <2> QED BY <2>1, <2>3, <2>5, <2>6, SeqEqual
  <1> HIDE DEF k
  <1>9. k \in 0..Len(Whole(band))
    BY <1>5, <1>6
  <1>10. Order!Purge
    BY <1>0, <1>7, <1>8, <1>9, PurgeIs
  <1> QED BY <1>4, <1>10

----------------------------------------------------------------------------
LEMMA AheadOf ==
  \A s1, l1, s2, n1, n2 \in Nat : n1 <= l1 /\ s1 + l1 <= s2 /\ 1 <= n2 => s1 + n1 < s2 + n2
  OBVIOUS

LEMMA SumsAreAsTheirParts ==
  \A x, y, z \in Nat : (x + y < x + z <=> y < z) /\ (x + y = x + z <=> y = z)
  OBVIOUS

LEMMA PlaceIsNumber == \A n \in Nat : \A k \in 1..n : k \in Nat /\ 1 <= k /\ k <= n
  OBVIOUS

\* Bands thinned each by itself make a play order thinned.
LEMMA WholeThinned ==
  ASSUME NEW b \in Bands, NEW d \in Bands, NEW S, NEW g,
         \A p \in 1..4 : Places(b[p], S, Len(b[p]), d[p], g[p])
  PROVE  ThinnedBy(Whole(b), S, Whole(d))
  <1> DEFINE r(j) == BandAt(d, j)
             m(j) == j - Start(d, r(j))
             from == [j \in 1..DepthOf(d) |-> Start(b, r(j)) + g[r(j)][m(j)]]
  <1>0. /\ DOMAIN Whole(b) = 1..DepthOf(b) /\ DOMAIN Whole(d) = 1..DepthOf(d)
        /\ DepthOf(b) \in Nat /\ DepthOf(d) \in Nat
    BY WholeIs
  <1>1. ASSUME NEW j \in 1..DepthOf(d)
        PROVE  r(j) \in 1..4 /\ m(j) \in 1..Len(d[r(j)]) /\ Whole(d)[j] = d[r(j)][m(j)]
    BY EachInBand
  <1>2. ASSUME NEW j \in 1..DepthOf(d)
        PROVE  /\ g[r(j)][m(j)] \in 1..Len(b[r(j)])
               /\ d[r(j)][m(j)] = b[r(j)][g[r(j)][m(j)]]
    <2>1. r(j) \in 1..4 /\ m(j) \in 1..Len(d[r(j)])
      BY <1>1
    <2> HIDE DEF r, m
    <2>2. Places(b[r(j)], S, Len(b[r(j)]), d[r(j)], g[r(j)])
      BY <2>1
    <2> QED BY <2>1, <2>2 DEF Places
  <1>3. ASSUME NEW j \in 1..DepthOf(d)
        PROVE  /\ from[j] \in 1..DepthOf(b) /\ Whole(b)[from[j]] = Whole(d)[j]
               /\ BandAt(b, from[j]) = r(j)
    <2> DEFINE p == r(j)
               n == g[p][m(j)]
    <2>1. p \in 1..4 /\ n \in 1..Len(b[p]) /\ Whole(d)[j] = b[p][n] /\ from[j] = Start(b, p) + n
      BY <1>1, <1>2
    <2> HIDE DEF p, n, from
    <2>2. /\ Start(b, p) + n \in 1..DepthOf(b) /\ Whole(b)[Start(b, p) + n] = b[p][n]
          /\ BandAt(b, Start(b, p) + n) = p
      BY <2>1, PlaceOf
    <2>3. /\ from[j] \in 1..DepthOf(b) /\ Whole(b)[from[j]] = Whole(d)[j]
          /\ BandAt(b, from[j]) = p
      BY <2>1, <2>2
    <2> QED BY <2>3 DEF p
  <1>4. from \in [DOMAIN Whole(d) -> DOMAIN Whole(b)]
    <2>1. from = [j \in 1..DepthOf(d) |-> from[j]]
      OBVIOUS
    <2> HIDE DEF from
    <2> QED BY <1>0, <1>3, <2>1
  <1>5. ASSUME NEW j \in 1..DepthOf(d), NEW k \in 1..DepthOf(d), j < k PROVE from[j] < from[k]
    <2>1. /\ r(j) \in 1..4 /\ m(j) \in 1..Len(d[r(j)]) /\ g[r(j)][m(j)] \in 1..Len(b[r(j)])
          /\ r(k) \in 1..4 /\ m(k) \in 1..Len(d[r(k)]) /\ g[r(k)][m(k)] \in 1..Len(b[r(k)])
      BY <1>1, <1>2
    <2>2. r(j) <= r(k)
      BY <1>5, BandsInOrder
    <2>3. /\ from[j] = Start(b, r(j)) + g[r(j)][m(j)]
          /\ from[k] = Start(b, r(k)) + g[r(k)][m(k)]
      OBVIOUS
    <2>4. /\ Start(b, r(j)) \in Nat /\ Start(b, r(k)) \in Nat
          /\ Len(b[r(j)]) \in Nat /\ Len(b[r(k)]) \in Nat
          /\ r(j) < r(k) => Start(b, r(j)) + Len(b[r(j)]) <= Start(b, r(k))
      <3> HIDE DEF r
      <3> QED BY <2>1, StartsGrow
    <2>5. CASE r(j) = r(k)
      <3>1. Start(d, r(j)) \in Nat
        BY <2>1, StartsGrow
      <3>2. m(j) < m(k)
        BY <1>5, <2>5, <3>1
      <3> HIDE DEF r, m, from
      <3>3. Places(b[r(j)], S, Len(b[r(j)]), d[r(j)], g[r(j)])
        BY <2>1
      <3>4. g[r(j)][m(j)] < g[r(j)][m(k)]
        BY <2>1, <2>5, <3>2, <3>3 DEF Places
      <3>5. from[k] = Start(b, r(j)) + g[r(j)][m(k)]
        BY <2>3, <2>5
      <3>6. g[r(j)][m(j)] \in Nat /\ g[r(j)][m(k)] \in Nat
        BY <2>1, <2>4, <2>5, PlaceIsNumber
      <3>7. Start(b, r(j)) + g[r(j)][m(j)] < Start(b, r(j)) + g[r(j)][m(k)]
        BY <2>4, <3>4, <3>6, SumsAreAsTheirParts, Zenon
      <3> QED BY <2>3, <3>5, <3>7
    <2>6. CASE r(j) < r(k)
      <3> HIDE DEF r, m, from
      <3>1. Start(b, r(j)) + Len(b[r(j)]) <= Start(b, r(k))
        BY <2>4, <2>6
      <3>2. /\ g[r(j)][m(j)] \in Nat /\ g[r(k)][m(k)] \in Nat
            /\ g[r(j)][m(j)] <= Len(b[r(j)]) /\ 1 <= g[r(k)][m(k)]
        BY <2>1, <2>4, PlaceIsNumber, Zenon
      <3>3. Start(b, r(j)) + g[r(j)][m(j)] < Start(b, r(k)) + g[r(k)][m(k)]
        BY <2>4, <3>1, <3>2, AheadOf, Zenon
      <3> QED BY <2>3, <3>3
    <2> HIDE DEF r, m, from
    <2> QED BY <2>1, <2>2, <2>5, <2>6
  <1>6. ASSUME NEW k \in 1..DepthOf(b)
        PROVE  Whole(b)[k] \notin S <=> \E j \in 1..DepthOf(d) : from[j] = k
    <2> DEFINE p == BandAt(b, k)
               n == k - Start(b, p)
    <2>1. p \in 1..4 /\ n \in 1..Len(b[p]) /\ Whole(b)[k] = b[p][n]
      BY EachInBand
    <2>2. Start(b, p) \in Nat
      BY <2>1, StartsGrow
    <2>a. Len(b[p]) \in Nat
      BY <2>1, Lengths
    <2>3. k = Start(b, p) + n
      BY <2>2
    <2> HIDE DEF p, n
    <2>4. Places(b[p], S, Len(b[p]), d[p], g[p])
      BY <2>1
    <2>5. b[p][n] \notin S <=> \E i \in 1..Len(d[p]) : g[p][i] = n
      BY <2>1, <2>4 DEF Places
    <2>6. ASSUME NEW i \in 1..Len(d[p]), g[p][i] = n PROVE \E j \in 1..DepthOf(d) : from[j] = k
      <3> DEFINE j == Start(d, p) + i
      <3>1. j \in 1..DepthOf(d) /\ r(j) = p
        BY <2>1, <2>6, PlaceOf
      <3>2. Start(d, p) \in Nat
        BY <2>1, StartsGrow
      <3>3. m(j) = i
        BY <3>1, <3>2
      <3>4. from[j] = Start(b, r(j)) + g[r(j)][m(j)]
        BY <3>1
      <3> HIDE DEF j, r, m, from
      <3>5. from[j] = k
        BY <2>3, <2>6, <3>1, <3>3, <3>4
      <3> QED BY <3>1, <3>5
    <2>7. ASSUME NEW j \in 1..DepthOf(d), from[j] = k PROVE \E i \in 1..Len(d[p]) : g[p][i] = n
      <3>1. r(j) = p
        BY <1>3, <2>7 DEF p
      <3>2. m(j) \in 1..Len(d[p]) /\ g[p][m(j)] \in 1..Len(b[p]) /\ k = Start(b, p) + g[p][m(j)]
        BY <1>1, <1>2, <2>7, <3>1
      <3> HIDE DEF r, m, from
      <3>3. g[p][m(j)] \in Nat /\ n \in Nat /\ Start(b, p) + g[p][m(j)] = Start(b, p) + n
        BY <2>1, <2>3, <2>a, <3>2, PlaceIsNumber
      <3>4. g[p][m(j)] = n
        BY <2>2, <3>3, SumsAreAsTheirParts, Zenon
      <3> QED BY <3>2, <3>4
    <2> QED BY <2>1, <2>5, <2>6, <2>7
  <1> HIDE DEF from
  <1>7. \A j \in DOMAIN Whole(d) : Whole(d)[j] = Whole(b)[from[j]]
    BY <1>0, <1>3
  <1>8. \A j, k \in DOMAIN Whole(d) : j < k => from[j] < from[k]
    BY <1>0, <1>5
  <1>9. \A k \in DOMAIN Whole(b) : Whole(b)[k] \notin S <=> \E j \in DOMAIN Whole(d) : from[j] = k
    BY <1>0, <1>6
  <1> QED BY <1>4, <1>7, <1>8, <1>9 DEF ThinnedBy

LEMMA RemoveWherePlays ==
  ASSUME ArbiterInv, PlayInv, NEW t \in Controllers, NEW S, RemoveWhere(t, S)
  PROVE  PlayInv' /\ Order!TakeOut(S)
  <1> USE DEF ArbiterInv
  <1>0. /\ band \in Bands /\ OnePlaceEach(band) /\ UNCHANGED <<active, call, pass>> /\ edits' = edits + 1
        /\ band' = [p \in 1..4 |-> Without(band[p], S)]
    BY DEF RemoveWhere, PlayInv, TypeOK, Bands
  <1> DEFINE g == [p \in 1..4 |-> CHOOSE from : Places(band[p], S, Len(band[p]), band'[p], from)]
  <1>1. ASSUME NEW p \in 1..4
        PROVE  band'[p] \in Seq(Items) /\ Places(band[p], S, Len(band[p]), band'[p], g[p])
    <2>1. band[p] \in Seq(Items) /\ band'[p] = Without(band[p], S)
      BY <1>0 DEF Bands
    <2>2. /\ Without(band[p], S) \in Seq(Items)
          /\ \E from : Places(band[p], S, Len(band[p]), Without(band[p], S), from)
      BY <2>1, WithoutPlaces
    <2>3. \E from : Places(band[p], S, Len(band[p]), band'[p], from)
      BY <2>1, <2>2
    <2> QED BY <2>1, <2>2, <2>3
  <1>2. band' \in Bands
    BY <1>0, <1>1 DEF Bands
  <1> HIDE DEF g
  <1>3. OnePlaceEach(band') /\ \A x : InBands(band', x) => InBands(band, x)
    <2>1. ASSUME NEW p \in 1..4
          PROVE  \E f \in [1..Len(band'[p]) -> 1..Len(band[p])] :
                   /\ \A j, k \in 1..Len(band'[p]) : j < k => f[j] < f[k]
                   /\ \A j \in 1..Len(band'[p]) : band'[p][j] = band[p][f[j]]
      <3>1. Places(band[p], S, Len(band[p]), band'[p], g[p])
        BY <1>1
      <3> QED BY <3>1 DEF Places
    <2> QED BY <1>0, <1>2, <2>1, ThinnedPlaced
  <1>4. PlayInv'
    BY <1>0, <1>3, FewerWait
  <1>5. ThinnedBy(Whole(band), S, Whole(band'))
    BY <1>0, <1>1, <1>2, WholeThinned
  <1>6. Order!TakeOut(S)
    BY <1>0, <1>5, TakeOutIs
  <1> QED BY <1>4, <1>6

InsertIs(W, n, e, D, X) ==
  /\ DOMAIN X = 1..(D + 1)
  /\ \A j \in 1..(D + 1) : X[j] = IF j < n THEN W[j] ELSE IF j = n THEN e ELSE W[j - 1]

LEMMA InsertPlain ==
  ASSUME NEW W \in Seq(Items), NEW n \in 1..(Len(W) + 1), NEW e \in Items
  PROVE  InsertIs(W, n, e, Len(W), InsertAt(W, n, e))
  <1>1. /\ InsertAt(W, n, e) \in Seq(Items) /\ Len(InsertAt(W, n, e)) = Len(W) + 1 /\ Len(W) \in Nat
        /\ \A j \in 1..(Len(W) + 1) :
               InsertAt(W, n, e)[j] = IF j < n THEN W[j] ELSE IF j = n THEN e ELSE W[j - 1]
    BY InsertAtSeq, LenProperties
  <1>2. DOMAIN InsertAt(W, n, e) = 1..Len(InsertAt(W, n, e))
    BY <1>1, LenProperties
  <1> QED BY <1>1, <1>2 DEF InsertIs

\* In a play order in which each waits in the band of its priority, an item
\* fits where its band is and nowhere else.
LEMMA FitsItsBand ==
  ASSUME NEW b \in Bands, PlacedIn(b), NEW p \in 1..4, NEW i \in Items, PrioOf[i] = p,
         NEW k \in Fits(Whole(b), i)
  PROVE  k \in Int /\ Start(b, p) <= k /\ k <= Start(b, p) + Len(b[p])
  <1>1. /\ Whole(b) \in Seq(Items) /\ Len(Whole(b)) = DepthOf(b) /\ DepthOf(b) \in Nat
        /\ Start(b, p) \in Nat /\ Len(b[p]) \in Nat /\ Start(b, p) + Len(b[p]) <= DepthOf(b)
    BY WholeIs, StartsGrow
  <1>2. k \in 0..DepthOf(b) /\ SortedSeq(InsertAt(Whole(b), k + 1, i))
    BY <1>1 DEF Fits
  <1> DEFINE X == InsertAt(Whole(b), k + 1, i)
  <1>3. /\ DOMAIN X = 1..(DepthOf(b) + 1)
        /\ \A j \in 1..(DepthOf(b) + 1) :
               X[j] = IF j < k + 1 THEN Whole(b)[j] ELSE IF j = k + 1 THEN i ELSE Whole(b)[j - 1]
    <2> DEFINE n == k + 1
    <2>1. n \in 1..(Len(Whole(b)) + 1)
      BY <1>1, <1>2
    <2> HIDE DEF n
    <2>2. InsertIs(Whole(b), n, i, Len(Whole(b)), InsertAt(Whole(b), n, i))
      BY <1>1, <2>1, InsertPlain, Zenon
    <2>3. InsertIs(Whole(b), n, i, DepthOf(b), InsertAt(Whole(b), n, i))
      BY <1>1, <2>2
    <2> QED BY <2>3 DEF InsertIs, n
  <1>4. \A j, n \in DOMAIN X : j < n => PrioOf[X[j]] <= PrioOf[X[n]]
    BY <1>2 DEF SortedSeq
  <1> HIDE DEF X
  <1>5. k + 1 \in DOMAIN X /\ X[k + 1] = i
    BY <1>1, <1>2, <1>3
  <1>6. \A j \in 1..DepthOf(b) : PrioOf[Whole(b)[j]] = BandAt(b, j) /\ BandAt(b, j) \in 1..4
    BY WholeSorted, EachInBand
  <1>7. Start(b, p) <= k
    <2> SUFFICES ASSUME k < Start(b, p) PROVE FALSE
      BY <1>1, <1>2
    <2> DEFINE j == Start(b, p)
    <2>1. j \in 1..DepthOf(b) /\ j + 1 \in DOMAIN X /\ k + 1 < j + 1 /\ (j + 1) - 1 = j
      <3>1. j \in Nat /\ DepthOf(b) \in Nat /\ j <= DepthOf(b) /\ k \in Nat /\ k < j
        BY <1>1, <1>2
      <3> HIDE DEF j
      <3> QED BY <1>3, <3>1
    <2>2. BandAt(b, j) < p
      BY <2>1, UpToBand
    <2> HIDE DEF j
    <2>3. X[j + 1] = Whole(b)[j]
      <3>1. j + 1 \in 1..(DepthOf(b) + 1) /\ ~ (j + 1 < k + 1) /\ j + 1 # k + 1
        BY <1>1, <1>2, <2>1
      <3>2. X[j + 1] = Whole(b)[(j + 1) - 1]
        BY <1>3, <3>1
      <3> QED BY <2>1, <3>2
    <2>4. PrioOf[X[k + 1]] <= PrioOf[X[j + 1]]
      BY <1>4, <1>5, <2>1
    <2>5. p <= BandAt(b, j) /\ BandAt(b, j) \in 1..4
      BY <1>5, <1>6, <2>1, <2>3, <2>4
    <2> QED BY <2>2, <2>5
  <1>8. k <= Start(b, p) + Len(b[p])
    <2> SUFFICES ASSUME Start(b, p) + Len(b[p]) < k PROVE FALSE
      BY <1>1, <1>2
    <2> DEFINE j == Start(b, p) + (Len(b[p]) + 1)
    <2>1. j \in 1..DepthOf(b) /\ j \in DOMAIN X /\ j < k + 1 /\ ~ (j < j)
      <3> DEFINE x == Start(b, p)
                 y == Len(b[p])
      <3>a. x \in Nat /\ y \in Nat /\ k \in Nat /\ x + y < k /\ k <= DepthOf(b)
        BY <1>1, <1>2
      <3>b. j = x + (y + 1)
        OBVIOUS
      <3> HIDE DEF j, x, y
      <3>1. j \in Nat /\ 1 <= j /\ j <= k /\ k <= DepthOf(b)
        BY <3>a, <3>b
      <3> QED BY <1>1, <1>2, <1>3, <3>1
    <2>2. ~ (BandAt(b, j) <= p)
      BY <2>1, UpToBand
    <2> HIDE DEF j
    <2>3. X[j] = Whole(b)[j]
      BY <1>3, <2>1
    <2>4. PrioOf[X[j]] <= PrioOf[X[k + 1]]
      BY <1>4, <1>5, <2>1
    <2>5. BandAt(b, j) <= p
      BY <1>5, <1>6, <2>1, <2>3, <2>4
    <2> QED BY <2>2, <2>5
  <1> QED BY <1>2, <1>7, <1>8

LEMMA ClampedIsNearest ==
  \A P, L \in Nat : \A to, other \in Int :
     P <= other /\ other <= P + L =>
        /\ Clamped(to - P, 0, L) \in 0..L
        /\ Apart(P + Clamped(to - P, 0, L), to) <= Apart(other, to)
  BY DEF Clamped, Apart

LEMMA MovePlays ==
  ASSUME ArbiterInv, PlayInv, NEW t \in Controllers, NEW i, NEW to \in Int, Move(t, i, to)
  PROVE  PlayInv' /\ Order!Move(i, to)
  <1> USE DEF ArbiterInv
  <1>0. /\ band \in Bands /\ OnePlaceEach(band) /\ UNCHANGED <<active, call, pass>> /\ edits' = edits + 1
    BY DEF Move, PlayInv, TypeOK, Bands
  <1>1. PICK p \in 1..4 : \E at \in DOMAIN band[p] : band[p][at] = i /\ band' = MoveTo(p, at, to)
    BY DEF Move
  <1>2. PICK at \in DOMAIN band[p] : band[p][at] = i /\ band' = MoveTo(p, at, to)
    BY <1>1
  <1>3. band[p] \in Seq(Items) /\ at \in 1..Len(band[p]) /\ i \in Items /\ PrioOf[i] = p
    <2>1. band[p] \in Seq(Items)
      BY <1>0 DEF Bands
    <2>2. at \in 1..Len(band[p])
      BY <2>1, LenProperties
    <2> QED BY <1>0, <1>2, <2>1, <2>2, ElementOfSeq DEF OnePlaceEach, PlacedIn
  <1> DEFINE rest == RemoveAt(band[p], at)
             mid == With(band, p, rest)
             c == Clamped(to - Before(p), 0, Len(rest))
             s == InsertAt(rest, c + 1, i)
  <1>4. /\ rest \in Seq(Items) /\ Len(rest) = Len(band[p]) - 1 /\ Len(band[p]) - 1 \in Nat
        /\ Deletes(band[p], rest, Len(band[p]), at)
    BY <1>3, RemoveDeletes
  <1>5. band' = With(band, p, s)
    BY <1>2 DEF MoveTo, With
  <1> HIDE DEF rest
  <1>6. OnlyBand(band, p, rest, mid)
    BY <1>0, <1>4, OneBand
  <1>7. Whole(mid) = RemoveAt(Whole(band), Start(band, p) + at)
    BY <1>0, <1>3, <1>4, DeleteInBand
  <1>8. /\ OnePlaceEach(mid) /\ \A x : InBands(mid, x) => InBands(band, x)
        /\ ~ InBands(mid, i)
    BY <1>0, <1>2, <1>3, <1>4, DeletePlaced
  <1>9. band' = With(mid, p, s)
    <2> HIDE DEF s
    <2> QED BY <1>0, <1>5 DEF With, Bands
  <1>10. mid \in Bands /\ mid[p] = rest
    BY <1>6 DEF OnlyBand
  <1>11. Start(mid, p) = Start(band, p)
    BY <1>0, <1>4, <1>6, StartsOf
  <1>12. Before(p) = Start(band, p)
    <2>1. Ahead(1, p) = (IF p > 1 THEN Len(band[1]) ELSE 0) /\ Ahead(2, p) = (IF p > 2 THEN Len(band[2]) ELSE 0)
          /\ Ahead(3, p) = (IF p > 3 THEN Len(band[3]) ELSE 0)
      BY DEF Ahead
    <2> QED BY <2>1 DEF Before, Start
  <1>13. Start(mid, p) \in Nat /\ Len(rest) \in Nat /\ Start(mid, p) + Len(rest) <= DepthOf(mid)
    BY <1>10, StartsGrow
  <1>14. c \in 0..Len(rest) /\ c + 1 \in 1..(Len(mid[p]) + 1)
    <2>1. c = Clamped(to - Start(mid, p), 0, Len(rest))
      BY <1>11, <1>12
    <2>2. Start(mid, p) \in Int /\ Start(mid, p) <= Start(mid, p) /\ Start(mid, p) <= Start(mid, p) + Len(rest)
      BY <1>13
    <2> HIDE DEF c, mid
    <2>3. c \in 0..Len(rest)
      BY <1>13, <2>1, <2>2, ClampedIsNearest
    <2> QED BY <1>10, <1>13, <2>3
  <1>15. /\ s \in Seq(Items) /\ Len(s) = Len(mid[p]) + 1
         /\ Inserts(mid[p], s, Len(mid[p]), c + 1, i)
    <2> HIDE DEF c, mid
    <2> QED BY <1>3, <1>4, <1>10, <1>14, InsertInserts
  <1>16. c = Clamped(to - Start(mid, p), 0, Len(rest))
    BY <1>11, <1>12
  <1> HIDE DEF mid, c, s
  <1> DEFINE k == c + 1
  <1>17. k \in 1..(Len(mid[p]) + 1) /\ Inserts(mid[p], s, Len(mid[p]), k, i)
    BY <1>14, <1>15
  <1> HIDE DEF k
  <1>18. band' \in Bands /\ Whole(band') = InsertAt(Whole(mid), Start(mid, p) + k, i)
    BY <1>3, <1>9, <1>10, <1>15, <1>17, InsertInBand
  <1>19. /\ OnePlaceEach(band')
         /\ \A x : InBands(band', x) => InBands(mid, x) \/ x = i
    BY <1>3, <1>8, <1>9, <1>10, <1>15, <1>17, InsertPlaced
  <1>20. InBands(band, i)
    BY <1>2, <1>3 DEF InBands
  <1>21. \A x : InBands(band', x) => InBands(band, x)
    BY <1>8, <1>19, <1>20
  <1>22. PlayInv'
    BY <1>0, <1>19, <1>21, FewerWait
  <1>23. /\ Start(band, p) + at \in DOMAIN Whole(band)
         /\ Whole(band)[Start(band, p) + at] = i
    <2>1. DOMAIN Whole(band) = 1..DepthOf(band)
      BY <1>0, WholeIs
    <2>2. /\ Start(band, p) + at \in 1..DepthOf(band)
          /\ Whole(band)[Start(band, p) + at] = band[p][at]
      BY <1>0, <1>3, PlaceOf
    <2> QED BY <1>2, <2>1, <2>2
  <1> DEFINE n == Start(mid, p) + c
  <1>24. n + 1 = Start(mid, p) + k
    BY <1>13, <1>14 DEF k
  <1>25. n \in Fits(Whole(mid), i)
    <2>1. SortedSeq(Whole(band'))
      <3>1. DOMAIN Whole(band') = 1..DepthOf(band')
        BY <1>18, WholeIs
      <3>2. PlacedIn(band')
        BY <1>19 DEF OnePlaceEach
      <3> QED BY <1>18, <3>1, <3>2, WholeSorted DEF SortedSeq
    <2>2. n \in 0..Len(Whole(mid))
      <3>1. Len(Whole(mid)) = DepthOf(mid) /\ DepthOf(mid) \in Nat
        BY <1>10, WholeIs
      <3> QED BY <1>13, <1>14, <3>1
    <2> HIDE DEF n
    <2>3. SortedSeq(InsertAt(Whole(mid), n + 1, i))
      BY <1>18, <1>24, <2>1
    <2> QED BY <2>2, <2>3 DEF Fits
  <1>26. \A other \in Fits(Whole(mid), i) : Apart(n, to) <= Apart(other, to)
    <2> TAKE other \in Fits(Whole(mid), i)
    <2>1. other \in Int /\ Start(mid, p) <= other /\ other <= Start(mid, p) + Len(rest)
      <3>1. PlacedIn(mid)
        BY <1>8 DEF OnePlaceEach
      <3> QED BY <1>3, <1>10, <3>1, FitsItsBand
    <2>2. Apart(Start(mid, p) + Clamped(to - Start(mid, p), 0, Len(rest)), to) <= Apart(other, to)
      BY <1>13, <2>1, ClampedIsNearest
    <2> QED BY <1>16, <2>2
  <1> HIDE DEF n
  <1>27. Whole(band') = InsertAt(Whole(mid), n + 1, i)
    BY <1>18, <1>24
  <1>28. Order!Move(i, to)
    BY <1>0, <1>7, <1>23, <1>25, <1>26, <1>27, MoveIs
  <1> QED BY <1>22, <1>28

----------------------------------------------------------------------------
LEMMA PlayStarts == Init => PlayInv /\ Order!Init
  <1> SUFFICES ASSUME Init PROVE PlayInv /\ Order!Init
    OBVIOUS
  <1>1. TypeOK /\ active = NoItem /\ edits = 0 /\ pass = "idle"
    BY ArbiterStarts DEF ArbiterInv, Init
  <1>2. band \in Bands /\ \A p \in 1..4 : band[p] = <<>> /\ Len(band[p]) = 0
    <2>1. band \in Bands /\ \A p \in 1..4 : band[p] = <<>>
      BY <1>1 DEF TypeOK, Bands, Init
    <2> QED BY <2>1, Lengths
  <1>3. PlayInv
    BY <1>1, <1>2 DEF PlayInv, OnePlaceEach, PlacedIn, Distinct, InBands
  <1>4. Whole(band) = <<>>
    <2>1. Whole(band) \in Seq(Items) /\ Len(Whole(band)) = DepthOf(band)
      BY <1>2, WholeIs
    <2>2. DepthOf(band) = 0 + 0 + 0 + 0
      <3>1. Len(band[1]) = 0 /\ Len(band[2]) = 0 /\ Len(band[3]) = 0 /\ Len(band[4]) = 0
        BY <1>2
      <3> QED BY <3>1 DEF DepthOf
    <2> QED BY <2>1, <2>2, EmptySeq
  <1>5. Order!Init
    BY <1>1, <1>4 DEF Order!Init, Whole
  <1> QED BY <1>3, <1>5

\* What is waiting, as the play order says it.
LEMMA OrderWaits ==
  ASSUME ArbiterInv
  PROVE  /\ \A x : x \in Order!Range(Whole(band)) <=> InBands(band, x)
         /\ \A x : x \in Waiting <=> InBands(band, x)
         /\ Len(Whole(band)) = Depth /\ Depth \in Nat
  <1>1. band \in Bands /\ DepthOf(band) = Depth
    BY DEF ArbiterInv, TypeOK, Bands, Depth, DepthOf
  <1> QED BY <1>1, WhoWaits, WholeIs, SameHelpers

LEMMA PlayStep == ArbiterInv /\ PlayInv /\ [Next]_vars => PlayInv' /\ [Order!Next]_(Order!vars)
  <1> SUFFICES ASSUME ArbiterInv, PlayInv, [Next]_vars PROVE PlayInv' /\ [Order!Next]_(Order!vars)
    OBVIOUS
  <1>0. TypeOK
    BY DEF ArbiterInv
  <1>a. /\ \A x : x \in Order!Range(Whole(band)) <=> InBands(band, x)
        /\ \A x : x \in Waiting <=> InBands(band, x)
        /\ Len(Whole(band)) = Depth /\ Depth \in Nat
    BY OrderWaits
  <1>1. ASSUME NEW p \in Putters, PutStep(p) PROVE PlayInv' /\ [Order!Next]_(Order!vars)
    <2>1. CASE CountOrWait(p) \/ PutNowait(p)
      BY <1>0, <2>1, QuietPlays
    <2>2. CASE ShedOldest(p)
      BY <2>2, ShedPlays DEF Order!Next
    <2>3. CASE Enqueue(p)
      <3>1. /\ PlayInv' /\ Argument(p) \in Items /\ ~ InBands(band, Argument(p))
            /\ Order!Put(Argument(p)) \/ Order!PutShedding(Argument(p))
        BY <2>3, EnqueuePlays
      <3>2. Argument(p) \in Items \ Order!Range(Whole(band))
        BY <1>a, <3>1
      <3> QED BY <3>1, <3>2 DEF Order!Next, Whole
    <2> QED BY <1>1, <2>1, <2>2, <2>3 DEF PutStep
  <1>2. ASSUME NEW t \in Threads, OnPurged(t) PROVE PlayInv' /\ [Order!Next]_(Order!vars)
    BY <1>0, <1>2, QuietPlays
  <1>3. CASE WorkerStep
    <2>1. CASE Dequeue
      BY <2>1, DequeuePlays DEF Order!Next
    <2>2. CASE GetReturns \/ Finish \/ Retry \/ PutBack \/ TaskDone
      BY <1>0, <2>2, QuietPlays
    <2> QED BY <1>3, <2>1, <2>2 DEF WorkerStep
  <1>4. ASSUME NEW t \in Controllers, PurgeLowerQueues(t) PROVE PlayInv' /\ [Order!Next]_(Order!vars)
    BY <1>4, PurgePlays DEF Order!Next
  <1>5. ASSUME NEW t \in Controllers, NEW S \in SUBSET Waiting, RemoveWhere(t, S)
        PROVE  PlayInv' /\ [Order!Next]_(Order!vars)
    <2>1. PlayInv' /\ Order!TakeOut(S)
      BY <1>5, RemoveWherePlays
    <2>2. S \in SUBSET Order!Range(Whole(band))
      BY <1>a
    <2> QED BY <2>1, <2>2 DEF Order!Next, Whole
  <1>6. ASSUME NEW t \in Controllers, NEW i \in Waiting, NEW to \in -1..Depth, Move(t, i, to)
        PROVE  PlayInv' /\ [Order!Next]_(Order!vars)
    <2>1. to \in Int /\ to \in -1..(Len(Whole(band)) + 1)
      BY <1>a
    <2>2. PlayInv' /\ Order!Move(i, to)
      BY <1>6, <2>1, MovePlays
    <2>3. i \in Order!Range(Whole(band))
      BY <1>a
    <2> QED BY <2>1, <2>2, <2>3 DEF Order!Next, Whole
  <1>7. CASE UNCHANGED vars
    <2>1. UNCHANGED <<band, active, edits, call, pass>>
      BY <1>7 DEF vars
    <2> QED BY <2>1, NothingMoves
  <1> QED BY <1>1, <1>2, <1>3, <1>4, <1>5, <1>6, <1>7 DEF Next

LEMMA PlayHolds == Spec => [](ArbiterInv /\ PlayInv)
  <1>1. Init => ArbiterInv /\ PlayInv
    BY ArbiterStarts, PlayStarts
  <1>2. ArbiterInv /\ PlayInv /\ [Next]_vars => (ArbiterInv /\ PlayInv)'
    BY ArbiterStep, PlayStep
  <1> QED BY <1>1, <1>2, PTL DEF Spec

\* Whatever puts, sheds, purges, removals, moves and gets do, in whatever order,
\* the four deques of priority_arbiter.py behave as one queue in play order: an
\* item is put behind those of its priority and before the less urgent, it is
\* the first that is played, what a full band sheds is the oldest of its kind,
\* and purge, remove and clear drop what they are asked to and reorder nothing.
THEOREM QueuePlaysInOrder == Spec => PlaysInOrder
  <1>1. Init => Order!Init
    BY PlayStarts
  <1>2. ArbiterInv /\ PlayInv /\ [Next]_vars => [Order!Next]_(Order!vars)
    BY PlayStep
  <1> QED BY <1>1, <1>2, PlayHolds, PTL DEF Spec, PlaysInOrder, Order!Spec

\* move takes an item to the place it is asked for in the play order when that
\* place is in the item's band, and to the nearest end of its band otherwise:
\* the clamping of each deque's index is that of the order the user sees.
THEOREM MovesGoWhereAsked == Spec => MovesAsAsked
  <1> DEFINE A == \A t \in Controllers, i \in Items, to \in -1..Cardinality(Items) :
                     edits' # edits /\ Move(t, i, to) => Order!Move(i, to)
  <1>1. ArbiterInv /\ PlayInv => [A]_vars
    <2> SUFFICES ASSUME ArbiterInv, PlayInv, NEW t \in Controllers, NEW i \in Items,
                        NEW to \in -1..Cardinality(Items), Move(t, i, to)
                 PROVE  Order!Move(i, to)
      OBVIOUS
    <2>1. to \in Int
      OBVIOUS
    <2> QED BY <2>1, MovePlays
  <1> HIDE DEF A
  <1>2. Spec => [][A]_vars
    BY <1>1, PlayHolds, PTL
  <1> QED BY <1>2 DEF MovesAsAsked, A
=============================================================================
