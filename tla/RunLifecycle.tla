----------------------------- MODULE RunLifecycle -----------------------------
(***************************************************************************)
(* What the run system promises to the callers of POST /runs and GET       *)
(* /runs/{id}, with no queue, lock or worker in sight: a run is created in *)
(* one step, within the workspace's monthly quota and beside no active run *)
(* of its agent type; it goes from queued to running to an outcome; and an *)
(* outcome changes only once the broker has delivered an envelope twice.   *)
(* Cancellation keeps no such promise, since a cancelled run may still be  *)
(* claimed and run, and is not part of it.                                 *)
(***************************************************************************)
EXTENDS Naturals, FiniteSets

CONSTANTS RunIds, Requests, NoRequest, AgentTypes, MonthlyLimit

VARIABLES
  status,    \* what GET /runs/{id} shows; "absent" before the run exists
  request,   \* the run's workspace, type and job
  retrying   \* the broker has delivered some envelope again

vars == <<status, request, retrying>>

Outcomes == {"succeeded", "failed", "needs_review"}
Created == {r \in RunIds : status[r] # "absent"}

RunsLike(q) == {r \in Created : request[r].ws = q.ws /\ request[r].type = q.type}

\* No other run of this workspace and agent type is active.
FreeFor(r, q) ==
  q.type \in AgentTypes =>
    \A s \in RunsLike(q) \ {r} : status[s] \notin {"queued", "running"}

become(r, s) == status' = [status EXCEPT ![r] = s]

Init ==
  /\ status = [r \in RunIds |-> "absent"]
  /\ request = [r \in RunIds |-> NoRequest]
  /\ retrying = FALSE

Create(r, q) ==
  /\ r \notin Created
  /\ Cardinality(RunsLike(q)) < MonthlyLimit[q.type]
  /\ FreeFor(r, q)
  /\ become(r, "queued")
  /\ request' = [request EXCEPT ![r] = q]
  /\ UNCHANGED retrying

Start(r) ==
  /\ status[r] = "queued"
  /\ become(r, "running")
  /\ UNCHANGED <<request, retrying>>

\* A run that cannot start fails while it is queued.
Finish(r, s) ==
  /\ status[r] = "running" \/ (status[r] = "queued" /\ s = "failed")
  /\ become(r, s)
  /\ UNCHANGED <<request, retrying>>

\* The broker delivers again, and a run with an outcome can be started again.
Duplicate ==
  /\ retrying' = TRUE
  /\ UNCHANGED <<status, request>>

Repeat(r, s) ==
  /\ retrying
  /\ status[r] \in Outcomes
  /\ s = "running" => FreeFor(r, request[r])
  /\ become(r, s)
  /\ UNCHANGED <<request, retrying>>

Next ==
  \/ Duplicate
  \/ \E r \in RunIds :
       \/ \E q \in Requests : Create(r, q)
       \/ Start(r)
       \/ \E s \in Outcomes : Finish(r, s)
       \/ \E s \in Outcomes \cup {"running"} : Repeat(r, s)

Spec == Init /\ [][Next]_vars
=============================================================================
