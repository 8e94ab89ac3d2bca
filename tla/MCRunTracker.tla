---------------------------- MODULE MCRunTracker ----------------------------
(* Instances of RunTracker for TLC. *)
EXTENDS RunTracker

CONSTANTS ann, bob, k1, k2, r1, r2
=============================================================================
