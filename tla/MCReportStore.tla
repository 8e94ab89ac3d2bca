----------------------------- MODULE MCReportStore -----------------------------
(* Instances of ReportStore for TLC. *)
EXTENDS ReportStore, TLC

CONSTANTS w1, w2

\* The first workspace found the jobs and has the profiles.
MCFinder == [j \in Jobs |-> w1]
MCOwner  == [p \in Profiles |-> w1]
Symmetry == Permutations(RunIds) \cup Permutations(Profiles) \cup Permutations(Texts)
=============================================================================
