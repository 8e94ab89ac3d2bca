--------------------------- MODULE MCRunExecution ---------------------------
(* RunExecution on small instances: the quotas and the symmetric sets.       *)
EXTENDS RunExecution, TLC

CONSTANTS Limit, OtherLimit

\* Limit runs of an agent type a month, OtherLimit of the others.
TwoLimits == [t \in RunTypes |-> IF t \in AgentTypes THEN Limit ELSE OtherLimit]

\* Runs, workers and requests are interchangeable.
Symmetry == Permutations(RunIds) \cup Permutations(Workers) \cup Permutations(Clients)
=============================================================================
