----------------------------- MODULE RunExecution -----------------------------
(***************************************************************************)
(* The life of a run in Career OpenClaw: the API creates the run and its   *)
(* task in Postgres and sends an envelope to the Celery broker; a worker   *)
(* takes the envelope, takes the Redis lock of the workspace and task      *)
(* type, claims the task, runs its handler and records the outcome.        *)
(*                                                                         *)
(* One run has one task, so both are named by the run's id.  A Postgres    *)
(* transaction is one action, unless another transaction can come between  *)
(* its reads and its writes (READ COMMITTED): then the read is an action   *)
(* of its own.  Every step between two transactions, Redis commands or     *)
(* broker operations is a point where other processes run, or where the    *)
(* worker dies.                                                            *)
(*                                                                         *)
(* An operator whose name ends in Mutant is the faulty variant of the one  *)
(* below it: with it in place, the property it stands against must fail.   *)
(***************************************************************************)
EXTENDS Naturals, FiniteSets

CONSTANTS
  Workspaces,      \* workspaces.id
  Jobs,            \* jobs.id, the lock scope of report tasks
  RunIds,          \* the ids new runs draw from; never reused
  Workers,         \* Celery worker slots (gevent greenlets or prefork children)
  Clients,         \* API requests in flight
  BatchClients,    \* those that may call batch_analyze
  AgentTypes,      \* run types of uq_active_agent_run_per_workspace_type
  ReportTypes,     \* job_report, fit_report: several active runs, lock per job
  OtherTypes,      \* profile_import, resume_tailor: several active runs
  MonthlyLimit,    \* quotas.yaml: [RunTypes -> Nat]
  NoRun, NoJob, NoClient, NoKey, NoRequest,
  EnqueueMayFail,  \* BOOLEAN: send_task may raise, or the API die before it
  HandlerMayRaise, \* BOOLEAN: a handler may raise an unexpected exception
  TasksMayOverrun, \* BOOLEAN: a task may outlive the lock's TTL (1800 s) and
                   \* the broker's visibility timeout (its 3600 s default)
  MaxCancels,      \* bound: cancel requests
  MaxCrashes,      \* bound: deaths of a whole worker
  MaxLosses,       \* bound: deaths of a prefork child
  MaxRedeliveries  \* bound: envelopes the broker delivers again

RunTypes == AgentTypes \cup ReportTypes \cup OtherTypes

\* The name of a lock: lock:workspace:<ws>:<type>[:<job>].
Keys == [ws : Workspaces, type : RunTypes, job : Jobs \cup {NoJob}]

\* What a run is created for: report tasks name a job.
Requests == {q \in Keys : q.type \in ReportTypes <=> q.job # NoJob}

ASSUME TypesAreDisjoint ==
  /\ AgentTypes \cap ReportTypes = {}
  /\ AgentTypes \cap OtherTypes = {}
  /\ ReportTypes \cap OtherTypes = {}
ASSUME BatchClientsAreClients == BatchClients \subseteq Clients
ASSUME NoValues == NoRun \notin RunIds /\ NoJob \notin Jobs /\ NoClient \notin Clients
ASSUME NoKeyIsNoKey == NoKey \notin Keys /\ NoRequest \notin Keys
ASSUME LimitsAreNumbers == MonthlyLimit \in [RunTypes -> Nat]
ASSUME SwitchesAreBoolean ==
  EnqueueMayFail \in BOOLEAN /\ HandlerMayRaise \in BOOLEAN /\ TasksMayOverrun \in BOOLEAN
ASSUME BoundsAreNumbers ==
  /\ MaxCancels \in Nat /\ MaxCrashes \in Nat
  /\ MaxLosses \in Nat /\ MaxRedeliveries \in Nat

VARIABLES
  runStatus,    \* runs.status of each run id, as committed
  taskStatus,   \* tasks.status of the run's task
  errorCode,    \* tasks.error_code
  request,      \* the run's workspace, run_type and job (envelope and row)
  invoked,      \* runs whose session key is in agent_invocations
  rowLock,      \* who holds workspaces ... FOR UPDATE
  lock,         \* Redis: lock:workspace:<ws>:<scope> -> owner task
  ready,        \* envelopes waiting in the broker's queue
  unacked,      \* envelopes delivered and not acknowledged
  cpc, creq, crun, cbatch,  \* each API request: its place, run spec, run, batch
  wpc, wrun, wkey,          \* each worker: its place, task and lock key
  cancels, crashes, losses, redeliveries

rows    == <<runStatus, taskStatus, errorCode, request, invoked>>
broker  == <<ready, unacked>>
clients == <<rowLock, cpc, creq, crun, cbatch>>
workers == <<wpc, wrun, wkey>>
faults  == <<cancels, crashes, losses, redeliveries>>
vars    == <<rows, lock, broker, clients, workers, faults>>

-----------------------------------------------------------------------------
(* The rows *)

Statuses == {"queued", "running", "succeeded", "failed", "needs_review", "cancelled"}
Finished == {"succeeded", "failed", "needs_review", "cancelled"}
\* A row is absent before its insert, uncommitted inside an open transaction,
\* and rolledback for ever after that transaction is undone.
RowStates == Statuses \cup {"absent", "uncommitted", "rolledback"}

\* The runs other transactions can see.
Visible == {r \in RunIds : runStatus[r] \in Statuses}

RunsOf(ws, type) ==
  {r \in Visible : request[r].ws = ws /\ request[r].type = type}

\* RunRepository.count_this_month_for_workspace: every status counts.
MonthCount(ws, type) == Cardinality(RunsOf(ws, type))

Active(r) == runStatus[r] \in {"queued", "running"}

\* The partial unique index lets row r, of this workspace and type, be active.
IndexAllowsMutant(r, q) == TRUE
IndexAllows(r, q) ==
  q.type \in AgentTypes =>
    ~ \E s \in RunsOf(q.ws, q.type) \ {r} : Active(s)

-----------------------------------------------------------------------------
(* POST /runs: create_run *)

\* get_for_update: SELECT ... FOR UPDATE of the workspace row.  Another
\* create_run of the workspace waits for it, and so does batch_analyze: the
\* foreign key of an inserted run takes a key-share lock on the row, held to
\* the end of the transaction, for which get_for_update waits in turn.
RowLockFreeMutant(ws) == TRUE
RowLockFree(ws) ==
  /\ rowLock[ws] = NoClient
  /\ \A c \in Clients : cpc[c] = "batching" => creq[c].ws # ws

QuotaLeft(ws, type) == MonthCount(ws, type) < MonthlyLimit[type]

\* Requests the cross-workspace or depth checks reject, and those over the
\* quota (429), change nothing and are not steps.
CountQuota(c, q) ==
  /\ cpc[c] = "idle"
  /\ RowLockFree(q.ws)
  /\ QuotaLeft(q.ws, q.type)
  /\ rowLock' = [rowLock EXCEPT ![q.ws] = c]
  /\ cpc' = [cpc EXCEPT ![c] = "counted"]
  /\ creq' = [creq EXCEPT ![c] = q]
  /\ UNCHANGED <<rows, lock, broker, crun, cbatch, workers, faults>>

\* The insert of run and task, and the commit that releases the row lock.
InsertRun(c, r) ==
  LET q == creq[c] IN
  /\ cpc[c] = "counted"
  /\ runStatus[r] = "absent"
  /\ IndexAllows(r, q)
  /\ runStatus' = [runStatus EXCEPT ![r] = "queued"]
  /\ taskStatus' = [taskStatus EXCEPT ![r] = "queued"]
  /\ request' = [request EXCEPT ![r] = q]
  /\ rowLock' = [rowLock EXCEPT ![q.ws] = NoClient]
  /\ cpc' = [cpc EXCEPT ![c] = "committed"]
  /\ crun' = [crun EXCEPT ![c] = r]
  /\ creq' = [creq EXCEPT ![c] = NoRequest]
  /\ UNCHANGED <<errorCode, invoked, lock, broker, cbatch, workers, faults>>

\* The index rejects the insert: rollback and 409.
RejectRun(c) ==
  LET q == creq[c] IN
  /\ cpc[c] = "counted"
  /\ ~ IndexAllows(NoRun, q)
  /\ rowLock' = [rowLock EXCEPT ![q.ws] = NoClient]
  /\ cpc' = [cpc EXCEPT ![c] = "idle"]
  /\ creq' = [creq EXCEPT ![c] = NoRequest]
  /\ UNCHANGED <<rows, lock, broker, crun, cbatch, workers, faults>>

\* send_task after the commit; a failure is logged and the run stays queued.
EnqueueRun(c, sent) ==
  /\ cpc[c] = "committed"
  /\ sent \/ EnqueueMayFail
  /\ ready' = IF sent THEN ready \cup {crun[c]} ELSE ready
  /\ cpc' = [cpc EXCEPT ![c] = "idle"]
  /\ crun' = [crun EXCEPT ![c] = NoRun]
  /\ UNCHANGED <<rows, lock, unacked, rowLock, creq, cbatch, workers, faults>>

-----------------------------------------------------------------------------
(* POST /jobs/batch-analyze *)

\* One job of the request: the rows are flushed, not committed, and the
\* envelope is sent at once.  Nothing counts the runs against the quota.
BatchAdd(c, r, q, sent) ==
  /\ c \in BatchClients
  /\ \/ cpc[c] = "idle" /\ rowLock[q.ws] = NoClient
     \/ cpc[c] = "batching" /\ creq[c].ws = q.ws
  /\ q.type \in ReportTypes
  /\ runStatus[r] = "absent"
  /\ sent \/ EnqueueMayFail
  /\ runStatus' = [runStatus EXCEPT ![r] = "uncommitted"]
  /\ taskStatus' = [taskStatus EXCEPT ![r] = "uncommitted"]
  /\ request' = [request EXCEPT ![r] = q]
  /\ ready' = IF sent THEN ready \cup {r} ELSE ready
  /\ cpc' = [cpc EXCEPT ![c] = "batching"]
  /\ creq' = [creq EXCEPT ![c] = q]
  /\ cbatch' = [cbatch EXCEPT ![c] = @ \cup {r}]
  /\ UNCHANGED <<errorCode, invoked, lock, unacked, rowLock, crun, workers, faults>>

\* The end of the transaction: the one commit after the loop, or the rollback
\* when a later job of the loop raises.
BatchEnd(c, status) ==
  /\ cpc[c] = "batching"
  /\ LET end(f) == [r \in RunIds |-> IF r \in cbatch[c] THEN status ELSE f[r]]
     IN  runStatus' = end(runStatus) /\ taskStatus' = end(taskStatus)
  /\ cpc' = [cpc EXCEPT ![c] = "idle"]
  /\ cbatch' = [cbatch EXCEPT ![c] = {}]
  /\ creq' = [creq EXCEPT ![c] = NoRequest]
  /\ UNCHANGED <<errorCode, request, invoked, lock, broker, rowLock, crun, workers, faults>>

BatchCommit(c) == BatchEnd(c, "queued")
BatchAbort(c)  == BatchEnd(c, "rolledback")

-----------------------------------------------------------------------------
(* POST /runs/{id}/cancel: cancel_run *)

Cancelable(r) ==
  r \in Visible /\ runStatus[r] \notin {"succeeded", "failed", "cancelled"}

CancelRead(c, r) ==
  /\ cancels < MaxCancels
  /\ cpc[c] = "idle"
  /\ Cancelable(r)
  /\ cancels' = cancels + 1
  /\ cpc' = [cpc EXCEPT ![c] = "cancelling"]
  /\ crun' = [crun EXCEPT ![c] = r]
  /\ UNCHANGED <<rows, lock, broker, rowLock, creq, cbatch, workers,
                 crashes, losses, redeliveries>>

\* An unconditional UPDATE: whatever was committed since the read is lost.
\* The task row, the envelope and the worker are left alone.
CancelWrite(c) ==
  /\ cpc[c] = "cancelling"
  /\ runStatus' = [runStatus EXCEPT ![crun[c]] = "cancelled"]
  /\ cpc' = [cpc EXCEPT ![c] = "idle"]
  /\ crun' = [crun EXCEPT ![c] = NoRun]
  /\ UNCHANGED <<taskStatus, errorCode, request, invoked, lock, broker,
                 rowLock, creq, cbatch, workers, faults>>

-----------------------------------------------------------------------------
(* The worker: execute_task *)

\* lock_scope: per job for reports, if the run's row can be read; otherwise
\* the scope is the task type alone.
LockKey(r) ==
  [ws   |-> request[r].ws,
   type |-> request[r].type,
   job  |-> IF r \in Visible THEN request[r].job ELSE NoJob]

WorkerSteps ==
  {"idle", "acquire", "conflict", "claim", "handler", "invoking", "raised",
   "release", "ack"}
\* Between WorkspaceLock.acquire and WorkspaceLock.release.
Holding == {"claim", "handler", "invoking", "raised", "release"}
\* In the handler: mark_running is committed, the outcome is not.
Executing == {"handler", "invoking", "raised"}

HolderAlive(k) == \E w \in Workers : wkey[w] = k /\ wpc[w] \in Holding
TaskAlive(r)   == \E w \in Workers : wrun[w] = r

goto(w, place) == wpc' = [wpc EXCEPT ![w] = place]

\* The broker hands an envelope to a free worker, which reads the lock scope.
DeliverMutant(w, r) ==
  /\ wpc[w] = "idle"
  /\ r \in ready
  /\ ready' = ready \ {r}
  /\ wrun' = [wrun EXCEPT ![w] = r]
  /\ wkey' = [wkey EXCEPT ![w] = LockKey(r)]
  /\ goto(w, "acquire")
  /\ UNCHANGED <<rows, lock, unacked, clients, faults>>
Deliver(w, r) ==
  /\ wpc[w] = "idle"
  /\ r \in ready
  /\ ready' = ready \ {r}
  /\ unacked' = unacked \cup {r}
  /\ wrun' = [wrun EXCEPT ![w] = r]
  /\ wkey' = [wkey EXCEPT ![w] = LockKey(r)]
  /\ goto(w, "acquire")
  /\ UNCHANGED <<rows, lock, clients, faults>>

\* SET key owner NX EX 1800; the owner is the task.
LockFreeMutant(k) == TRUE
LockFree(k) == lock[k] = NoRun

AcquireLock(w) ==
  /\ wpc[w] = "acquire"
  /\ LockFree(wkey[w])
  /\ lock' = [lock EXCEPT ![wkey[w]] = wrun[w]]
  /\ goto(w, "claim")
  /\ UNCHANGED <<rows, broker, clients, wrun, wkey, faults>>

LockConflict(w) ==
  /\ wpc[w] = "acquire"
  /\ ~ LockFree(wkey[w])
  /\ goto(w, "conflict")
  /\ UNCHANGED <<rows, lock, broker, clients, wrun, wkey, faults>>

\* mark_failed and set_status "failed", in one transaction.
FailMutant(r, code) ==
  /\ taskStatus' = [taskStatus EXCEPT ![r] = "failed"]
  /\ errorCode' = [errorCode EXCEPT ![r] = code]
  /\ UNCHANGED <<runStatus, request, invoked>>
Fail(r, code) ==
  /\ runStatus' = [runStatus EXCEPT ![r] = "failed"]
  /\ taskStatus' = [taskStatus EXCEPT ![r] = "failed"]
  /\ errorCode' = [errorCode EXCEPT ![r] = code]
  /\ UNCHANGED <<request, invoked>>

\* A task that found the lock held is failed, not retried.  A row that is not
\* there raises ValueError; either way the envelope is acknowledged next.
FailConflict(w) ==
  /\ wpc[w] = "conflict"
  /\ \/ wrun[w] \in Visible /\ Fail(wrun[w], "WORKSPACE_LOCK_CONFLICT")
     \/ wrun[w] \notin Visible /\ UNCHANGED rows
  /\ goto(w, "ack")
  /\ UNCHANGED <<lock, broker, clients, wrun, wkey, faults>>

\* mark_running and set_status "running" in one transaction, whatever the
\* statuses were; only a missing row or the partial unique index stop it.
Claimable(r) == r \in Visible /\ IndexAllows(r, request[r])

ClaimTask(w) ==
  /\ wpc[w] = "claim"
  /\ Claimable(wrun[w])
  /\ runStatus' = [runStatus EXCEPT ![wrun[w]] = "running"]
  /\ taskStatus' = [taskStatus EXCEPT ![wrun[w]] = "running"]
  /\ goto(w, "handler")
  /\ UNCHANGED <<errorCode, request, invoked, lock, broker, clients, wrun, wkey, faults>>

\* The claim raises outside the try: rolled back, nothing recorded.
ClaimRaises(w) ==
  /\ wpc[w] = "claim"
  /\ ~ Claimable(wrun[w])
  /\ goto(w, "release")
  /\ UNCHANGED <<rows, lock, broker, clients, wrun, wkey, faults>>

IsAgent(r) == request[r].type \in AgentTypes

\* The agent handlers insert agent_invocations under the session key of this
\* run, task and attempt; the envelope's attempt is 1 on every delivery.
CreateInvocationMutant(w) ==
  /\ wpc[w] = "handler"
  /\ IsAgent(wrun[w])
  /\ invoked' = invoked \cup {wrun[w]}
  /\ goto(w, "invoking")
  /\ UNCHANGED <<runStatus, taskStatus, errorCode, request, lock, broker,
                 clients, wrun, wkey, faults>>
CreateInvocation(w) ==
  /\ wpc[w] = "handler"
  /\ IsAgent(wrun[w])
  /\ wrun[w] \notin invoked
  /\ invoked' = invoked \cup {wrun[w]}
  /\ goto(w, "invoking")
  /\ UNCHANGED <<runStatus, taskStatus, errorCode, request, lock, broker,
                 clients, wrun, wkey, faults>>

\* The unique constraint on session_key rejects the insert: IntegrityError.
SessionKeyTaken(w) ==
  /\ wpc[w] = "handler"
  /\ IsAgent(wrun[w])
  /\ wrun[w] \in invoked
  /\ goto(w, "raised")
  /\ UNCHANGED <<rows, lock, broker, clients, wrun, wkey, faults>>

HandlerRaises(w) ==
  /\ HandlerMayRaise
  /\ wpc[w] \in {"handler", "invoking"}
  /\ goto(w, "raised")
  /\ UNCHANGED <<rows, lock, broker, clients, wrun, wkey, faults>>

\* The outcomes a handler records itself: an agent's output is accepted or
\* needs review (its input too, before the agent is invoked); a deterministic
\* handler succeeds or fails.
Outcomes(w) ==
  IF ~ IsAgent(wrun[w])        THEN {"succeeded", "failed"}
  ELSE IF wpc[w] = "invoking"  THEN {"succeeded", "needs_review"}
                               ELSE {"needs_review"}

\* mark_* and set_status / complete in one transaction; only mark_failed and
\* mark_needs_review write error_code.
FinishTask(w, outcome) ==
  LET r == wrun[w] IN
  /\ wpc[w] \in {"handler", "invoking"}
  /\ outcome \in Outcomes(w)
  /\ runStatus' = [runStatus EXCEPT ![r] = outcome]
  /\ taskStatus' = [taskStatus EXCEPT ![r] = outcome]
  /\ errorCode' = [errorCode EXCEPT ![r] =
                     IF outcome = "succeeded" THEN @ ELSE "HANDLER_ERROR"]
  /\ goto(w, "release")
  /\ UNCHANGED <<request, invoked, lock, broker, clients, wrun, wkey, faults>>

\* The except clause of execute_task.
RecordException(w) ==
  /\ wpc[w] = "raised"
  /\ Fail(wrun[w], "TASK_EXCEPTION")
  /\ goto(w, "release")
  /\ UNCHANGED <<lock, broker, clients, wrun, wkey, faults>>

\* DEL key, whoever owns it by now.
ReleaseLock(w) ==
  /\ wpc[w] = "release"
  /\ lock' = [lock EXCEPT ![wkey[w]] = NoRun]
  /\ goto(w, "ack")
  /\ UNCHANGED <<rows, broker, clients, wrun, wkey, faults>>

Leave(w) ==
  /\ goto(w, "idle")
  /\ wrun' = [wrun EXCEPT ![w] = NoRun]
  /\ wkey' = [wkey EXCEPT ![w] = NoKey]

\* task_acks_late: the envelope is acknowledged when execute_task is left,
\* normally or by an exception.
Acknowledge(w) ==
  /\ wpc[w] = "ack"
  /\ unacked' = unacked \ {wrun[w]}
  /\ Leave(w)
  /\ UNCHANGED <<rows, lock, ready, clients, faults>>

-----------------------------------------------------------------------------
(* Faults and time *)

\* The worker dies: its transaction, if any, never commits; the lock and the
\* unacknowledged envelope stay behind.
Crash(w) ==
  /\ crashes < MaxCrashes
  /\ wpc[w] # "idle"
  /\ crashes' = crashes + 1
  /\ Leave(w)
  /\ UNCHANGED <<rows, lock, broker, clients, cancels, losses, redeliveries>>

\* A prefork child dies (out of memory): its parent lives on and, as
\* task_reject_on_worker_lost is not set, acknowledges the envelope.
LoseChild(w) ==
  /\ losses < MaxLosses
  /\ wpc[w] # "idle"
  /\ losses' = losses + 1
  /\ unacked' = unacked \ {wrun[w]}
  /\ Leave(w)
  /\ UNCHANGED <<rows, lock, ready, clients, cancels, crashes, redeliveries>>

\* The broker restores an envelope nobody acknowledged within its visibility
\* timeout.
Redeliver(r) ==
  /\ redeliveries < MaxRedeliveries
  /\ r \in unacked
  /\ TasksMayOverrun \/ ~ TaskAlive(r)
  /\ redeliveries' = redeliveries + 1
  /\ unacked' = unacked \ {r}
  /\ ready' = ready \cup {r}
  /\ UNCHANGED <<rows, lock, clients, workers, cancels, crashes, losses>>

\* The key's TTL runs out.
ExpireLock(k) ==
  /\ lock[k] # NoRun
  /\ TasksMayOverrun \/ ~ HolderAlive(k)
  /\ lock' = [lock EXCEPT ![k] = NoRun]
  /\ UNCHANGED <<rows, broker, clients, workers, faults>>

-----------------------------------------------------------------------------
(* The system *)

Init ==
  /\ runStatus = [r \in RunIds |-> "absent"]
  /\ taskStatus = [r \in RunIds |-> "absent"]
  /\ errorCode = [r \in RunIds |-> "none"]
  /\ request = [r \in RunIds |-> NoRequest]
  /\ invoked = {}
  /\ rowLock = [ws \in Workspaces |-> NoClient]
  /\ lock = [k \in Keys |-> NoRun]
  /\ ready = {} /\ unacked = {}
  /\ cpc = [c \in Clients |-> "idle"]
  /\ creq = [c \in Clients |-> NoRequest]
  /\ crun = [c \in Clients |-> NoRun]
  /\ cbatch = [c \in Clients |-> {}]
  /\ wpc = [w \in Workers |-> "idle"]
  /\ wrun = [w \in Workers |-> NoRun]
  /\ wkey = [w \in Workers |-> NoKey]
  /\ cancels = 0 /\ crashes = 0 /\ losses = 0 /\ redeliveries = 0

\* What one API request does on its own, once it has begun.
ClientStep(c) ==
  \/ \E r \in RunIds : InsertRun(c, r)
  \/ RejectRun(c)
  \/ \E sent \in BOOLEAN : EnqueueRun(c, sent)
  \/ BatchCommit(c)
  \/ CancelWrite(c)

\* A request the user makes.
ClientCall(c) ==
  \/ \E q \in Requests : CountQuota(c, q)
  \/ \E r \in RunIds : CancelRead(c, r)
  \/ \E r \in RunIds, q \in Requests, sent \in BOOLEAN : BatchAdd(c, r, q, sent)
  \/ BatchAbort(c)

WorkerStep(w) ==
  \/ \E r \in RunIds : Deliver(w, r)
  \/ AcquireLock(w) \/ LockConflict(w) \/ FailConflict(w)
  \/ ClaimTask(w) \/ ClaimRaises(w)
  \/ CreateInvocation(w) \/ SessionKeyTaken(w) \/ HandlerRaises(w)
  \/ \E outcome \in Finished : FinishTask(w, outcome)
  \/ RecordException(w)
  \/ ReleaseLock(w) \/ Acknowledge(w)

Next ==
  \/ \E c \in Clients : ClientStep(c) \/ ClientCall(c)
  \/ \E w \in Workers : WorkerStep(w) \/ Crash(w) \/ LoseChild(w)
  \/ \E r \in RunIds : Redeliver(r)
  \/ \E k \in Keys : ExpireLock(k)

Spec == Init /\ [][Next]_vars

\* An API request that has begun ends; a worker that is alive goes on (every
\* handler's calls have timeouts); the broker restores what nobody
\* acknowledged; a key with a TTL expires.  Nobody has to make a request and
\* no worker has to die.
Fairness ==
  /\ \A c \in Clients : WF_vars(ClientStep(c))
  /\ \A w \in Workers : WF_vars(WorkerStep(w))
  /\ \A r \in RunIds : WF_vars(Redeliver(r))
  /\ \A k \in Keys : WF_vars(ExpireLock(k))

FairSpec == Spec /\ Fairness

-----------------------------------------------------------------------------
(* Properties *)

ErrorCodes == {"none", "WORKSPACE_LOCK_CONFLICT", "TASK_EXCEPTION", "HANDLER_ERROR"}
ClientSteps == {"idle", "counted", "committed", "batching", "cancelling"}

\* Every variable holds a value the tables, Redis, the broker and the
\* processes can hold.
TypeOK ==
  /\ runStatus \in [RunIds -> RowStates]
  /\ taskStatus \in [RunIds -> RowStates]
  /\ errorCode \in [RunIds -> ErrorCodes]
  /\ request \in [RunIds -> Requests \cup {NoRequest}]
  /\ invoked \subseteq RunIds
  /\ rowLock \in [Workspaces -> Clients \cup {NoClient}]
  /\ lock \in [Keys -> RunIds \cup {NoRun}]
  /\ ready \subseteq RunIds /\ unacked \subseteq RunIds
  /\ cpc \in [Clients -> ClientSteps]
  /\ creq \in [Clients -> Requests \cup {NoRequest}]
  /\ crun \in [Clients -> RunIds \cup {NoRun}]
  /\ cbatch \in [Clients -> SUBSET RunIds]
  /\ wpc \in [Workers -> WorkerSteps]
  /\ wrun \in [Workers -> RunIds \cup {NoRun}]
  /\ wkey \in [Workers -> Keys \cup {NoKey}]
  /\ cancels \in Nat /\ crashes \in Nat /\ losses \in Nat /\ redeliveries \in Nat

\* A workspace has at most one queued or running run of an agent type, through
\* creations, cancellations, late claims and redeliveries
\* (uq_active_agent_run_per_workspace_type).
ActiveRunUnique ==
  \A r, s \in Visible :
    /\ request[r].type \in AgentTypes
    /\ request[r].ws = request[s].ws /\ request[r].type = request[s].type
    /\ Active(r) /\ Active(s)
    => r = s

\* Two handlers never run at the same time for one workspace and task type
\* (one workspace and job, for reports), as locks.py promises.
MutualExclusion ==
  \A v, w \in Workers :
    /\ wpc[v] \in Executing /\ wpc[w] \in Executing
    /\ request[wrun[v]].ws = request[wrun[w]].ws
    /\ request[wrun[v]].type = request[wrun[w]].type
    /\ request[wrun[v]].job = request[wrun[w]].job
    => v = w

\* No agent session is ever driven by two workers at once, even when locks
\* lapse and envelopes are delivered again: the session key stops the second.
AgentSessionExclusive ==
  \A v, w \in Workers :
    wpc[v] = "invoking" /\ wpc[w] = "invoking" /\ wrun[v] = wrun[w] => v = w

\* Concurrent requests never create more runs of a type in a month than the
\* tier allows (the row lock of create_run).
QuotaRespected ==
  \A ws \in Workspaces, type \in RunTypes : MonthCount(ws, type) <= MonthlyLimit[type]

\* A run shows its task's status, unless the user cancelled it.
RunFollowsTask ==
  \A r \in Visible : runStatus[r] \in {taskStatus[r], "cancelled"}

\* A run that shows queued or running has an envelope that will be delivered
\* or is being worked on, or a request about to send it: it is not stranded.
ActiveHasEnvelope ==
  \A r \in Visible : Active(r) =>
    \/ r \in ready \cup unacked
    \/ \E c \in Clients : cpc[c] = "committed" /\ crun[c] = r

\* Every run that is queued or running, for the first time or reopened, stops
\* being so, through worker deaths and lock conflicts.
EveryRunFinishes ==
  \A r \in RunIds : Active(r) ~> ~ Active(r)

\* What GET /runs shows.
Shown == [r \in RunIds |-> IF r \in Visible THEN runStatus[r] ELSE "absent"]

Lifecycle == INSTANCE RunLifecycle WITH status <- Shown, retrying <- redeliveries > 0

\* Queue, locks, workers and their deaths implement the life of a run that the
\* API shows, as long as nobody cancels and nobody calls batch_analyze.
ImplementsLifecycle == Lifecycle!Spec
=============================================================================
