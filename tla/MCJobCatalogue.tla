---------------------------- MODULE MCJobCatalogue ----------------------------
(* Instances of JobCatalogue for TLC. *)
EXTENDS JobCatalogue

CONSTANTS w1, w2, p1, b1, r1, r2, s1, x1

\* One posting, on a board; the second request is another user's.
MCBoardOf == [p \in Pages |-> b1]
MCOwner == [o \in Requests \cup Searches \cup Researches |-> IF o = r2 THEN w2 ELSE w1]
=============================================================================
