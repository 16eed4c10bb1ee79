------------------------ MODULE MCNarratorLifecycle ------------------------
(* A small instance of NarratorLifecycle for TLC: the narrators are alike,  *)
(* and so are the scripts of each kind.                                    *)
EXTENDS NarratorLifecycle, TLC

CONSTANTS n1, n2, n3, s1, s2, t1, r1

MCSymmetry == Permutations(Narrators) \cup Permutations(Starts)
=============================================================================
