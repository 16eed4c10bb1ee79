---------------------------- MODULE MCAudioStores ----------------------------
(* A small instance of AudioStores for TLC. *)
EXTENDS AudioStores, TLC

CONSTANTS r1, r2

\* Nothing tells one request from another but what it asks.
MCSymmetry == Permutations(Requests)
=============================================================================
