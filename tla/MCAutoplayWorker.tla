-------------------------- MODULE MCAutoplayWorker --------------------------
(* A small instance of AutoplayWorker for TLC: two sessions give the same   *)
(* answer, and another answer may be claimed in between.                   *)
EXTENDS AutoplayWorker, TLC

CONSTANTS w1, w2, a, b, s1, s2

MCSession == w1 :> s1 @@ w2 :> s2
MCMessage == w1 :> a @@ w2 :> a
=============================================================================
