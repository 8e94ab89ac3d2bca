----------------------------- MODULE MCSearchRun -----------------------------
(* Instances of SearchRun for TLC. *)
EXTENDS SearchRun

CONSTANTS u1, u2
=============================================================================
