-------------------------- MODULE RunExecutionProofs --------------------------
(***************************************************************************)
(* Theorems about RunExecution, for every number of workspaces, runs,      *)
(* workers and requests and every bound.                                   *)
(***************************************************************************)
EXTENDS RunExecution, FiniteSetTheorems, TLAPS

-----------------------------------------------------------------------------
(* Type correctness *)

\* The rows that some transaction has inserted.
Inserted == {r \in RunIds : runStatus[r] # "absent"}

\* Every reference held outside the tables, by the broker, a request or a
\* worker, is to a row that has been inserted.
ReferencesInserted ==
  /\ \A r \in Inserted : request[r] \in Requests
  /\ ready \cup unacked \subseteq Inserted
  /\ \A c \in Clients :
       /\ cpc[c] = "counted" => creq[c] \in Requests
       /\ cpc[c] \in {"committed", "cancelling"} => crun[c] \in Inserted
       /\ cbatch[c] \subseteq Inserted
  /\ \A w \in Workers :
       wpc[w] # "idle" => wrun[w] \in Inserted /\ wkey[w] \in Keys

TypeInv == TypeOK /\ ReferencesInserted

\* A request is a lock key, and an inserted run's lock key is a key.
LEMMA RequestIsKey == Requests \subseteq Keys
BY DEF Requests

LEMMA LockKeyIsKey ==
  ASSUME NEW r \in RunIds, request[r] \in Requests
  PROVE  LockKey(r) \in Keys
BY DEF LockKey, Keys, Requests

LEMMA TypeInit == Init => TypeInv
BY NoValues, NoKeyIsNoKey
   DEF Init, TypeInv, TypeOK, ReferencesInserted, Inserted, RowStates, Statuses,
       ErrorCodes, ClientSteps, WorkerSteps

LEMMA TypeStep == TypeInv /\ [Next]_vars => TypeInv'
<1> SUFFICES ASSUME TypeInv, [Next]_vars PROVE TypeInv'
    OBVIOUS
<1> USE DEF TypeInv, TypeOK, ReferencesInserted, Inserted, rows, broker, clients,
            workers, faults, RowStates, Statuses, ClientSteps, WorkerSteps,
            ErrorCodes, goto
<1>1. CASE UNCHANGED vars
      BY <1>1 DEF vars
<1>2. ASSUME NEW c \in Clients, NEW q \in Requests, CountQuota(c, q) PROVE TypeInv'
      BY <1>2, RequestIsKey DEF CountQuota, Keys
<1>3. ASSUME NEW c \in Clients, NEW r \in RunIds, InsertRun(c, r) PROVE TypeInv'
      BY <1>3, RequestIsKey DEF InsertRun, Keys
<1>4. ASSUME NEW c \in Clients, RejectRun(c) PROVE TypeInv'
      BY <1>4, RequestIsKey DEF RejectRun, Keys
<1>5. ASSUME NEW c \in Clients, NEW sent \in BOOLEAN, EnqueueRun(c, sent) PROVE TypeInv'
      BY <1>5 DEF EnqueueRun
<1>6. ASSUME NEW c \in Clients, NEW r \in RunIds, NEW q \in Requests,
             NEW sent \in BOOLEAN, BatchAdd(c, r, q, sent)
      PROVE  TypeInv'
      BY <1>6 DEF BatchAdd
<1>7. ASSUME NEW c \in Clients, NEW status \in {"queued", "rolledback"},
             BatchEnd(c, status)
      PROVE  TypeInv'
      BY <1>7 DEF BatchEnd
<1>8. ASSUME NEW c \in Clients, NEW r \in RunIds, CancelRead(c, r) PROVE TypeInv'
      BY <1>8 DEF CancelRead, Cancelable, Visible
<1>9. ASSUME NEW c \in Clients, CancelWrite(c) PROVE TypeInv'
      BY <1>9 DEF CancelWrite
<1>10. ASSUME NEW w \in Workers, NEW r \in RunIds, Deliver(w, r) PROVE TypeInv'
      <2>1. LockKey(r) \in Keys
            BY <1>10, LockKeyIsKey DEF Deliver
      <2> QED BY <1>10, <2>1 DEF Deliver
<1>11. ASSUME NEW w \in Workers, AcquireLock(w) PROVE TypeInv'
      BY <1>11 DEF AcquireLock
<1>12. ASSUME NEW w \in Workers, LockConflict(w) PROVE TypeInv'
      BY <1>12 DEF LockConflict
<1>13. ASSUME NEW w \in Workers, FailConflict(w) PROVE TypeInv'
      BY <1>13 DEF FailConflict, Fail
<1>14. ASSUME NEW w \in Workers, ClaimTask(w) PROVE TypeInv'
      BY <1>14 DEF ClaimTask
<1>15. ASSUME NEW w \in Workers, ClaimRaises(w) PROVE TypeInv'
      BY <1>15 DEF ClaimRaises
<1>16. ASSUME NEW w \in Workers, CreateInvocation(w) PROVE TypeInv'
      BY <1>16 DEF CreateInvocation
<1>17. ASSUME NEW w \in Workers, SessionKeyTaken(w) PROVE TypeInv'
      BY <1>17 DEF SessionKeyTaken
<1>18. ASSUME NEW w \in Workers, HandlerRaises(w) PROVE TypeInv'
      BY <1>18 DEF HandlerRaises
<1>19. ASSUME NEW w \in Workers, NEW outcome \in Finished, FinishTask(w, outcome)
       PROVE  TypeInv'
      BY <1>19 DEF FinishTask, Finished
<1>20. ASSUME NEW w \in Workers, RecordException(w) PROVE TypeInv'
      BY <1>20 DEF RecordException, Fail
<1>21. ASSUME NEW w \in Workers, ReleaseLock(w) PROVE TypeInv'
      BY <1>21 DEF ReleaseLock
<1>22. ASSUME NEW w \in Workers, Acknowledge(w) PROVE TypeInv'
      BY <1>22 DEF Acknowledge, Leave
<1>23. ASSUME NEW w \in Workers, Crash(w) PROVE TypeInv'
      BY <1>23 DEF Crash, Leave
<1>24. ASSUME NEW w \in Workers, LoseChild(w) PROVE TypeInv'
      BY <1>24 DEF LoseChild, Leave
<1>25. ASSUME NEW r \in RunIds, Redeliver(r) PROVE TypeInv'
      BY <1>25 DEF Redeliver
<1>26. ASSUME NEW k \in Keys, ExpireLock(k) PROVE TypeInv'
      BY <1>26 DEF ExpireLock
<1> HIDE DEF TypeInv, TypeOK, ReferencesInserted, Inserted, rows, broker, clients,
            workers, faults, goto
<1> QED
  BY <1>1, <1>2, <1>3, <1>4, <1>5, <1>6, <1>7, <1>8, <1>9, <1>10, <1>11, <1>12,
     <1>13, <1>14, <1>15, <1>16, <1>17, <1>18, <1>19, <1>20, <1>21, <1>22, <1>23,
     <1>24, <1>25, <1>26
     DEF Next, ClientStep, ClientCall, WorkerStep, BatchCommit, BatchAbort

\* The variables always hold values of the tables, Redis, the broker and the
\* processes, and every reference is to an inserted row.
THEOREM TypeCorrect == Spec => []TypeInv
BY TypeInit, TypeStep, PTL DEF Spec

\* TypeOK is what the runs check.
THEOREM TypeOKHolds == Spec => []TypeOK
BY TypeCorrect, PTL DEF TypeInv

-----------------------------------------------------------------------------
(* One active run of an agent type *)

\* The rows of an open batch are report runs, which the index does not cover:
\* their commit cannot break it.
BatchRowsAreReports ==
  \A c \in Clients : \A r \in cbatch[c] : request[r].type \in ReportTypes

UniqueInv == ActiveRunUnique /\ BatchRowsAreReports

ActiveRuns == {r \in Visible : Active(r)}

\* A step that activates no run and changes no request breaks nothing.
LEMMA NoNewActive ==
  ASSUME TypeInv, UniqueInv, ActiveRuns' \subseteq ActiveRuns,
         UNCHANGED <<request, cbatch>>
  PROVE  UniqueInv'
BY DEF UniqueInv, ActiveRunUnique, BatchRowsAreReports, ActiveRuns

\* A step that activates the one run the index allows breaks nothing either.
LEMMA OneNewActive ==
  ASSUME TypeInv, UniqueInv, NEW r \in RunIds, NEW q \in Requests,
         IndexAllows(r, q), request'[r] = q,
         \A s \in RunIds \ {r} : request'[s] = request[s],
         ActiveRuns' \subseteq ActiveRuns \cup {r}
  PROVE  ActiveRunUnique'
<1> SUFFICES ASSUME NEW s \in Visible', NEW t \in Visible',
                    request'[s].type \in AgentTypes,
                    request'[s].ws = request'[t].ws,
                    request'[s].type = request'[t].type,
                    Active(s)', Active(t)'
             PROVE  s = t
    BY DEF ActiveRunUnique
<1>1. s \in ActiveRuns \cup {r} /\ t \in ActiveRuns \cup {r}
      BY DEF ActiveRuns
<1>2. CASE s = r /\ t # r
      <2>1. t \in RunsOf(q.ws, q.type) \ {r} /\ Active(t)
            BY <1>1, <1>2 DEF RunsOf, ActiveRuns, Visible
      <2> QED BY <1>2, <2>1 DEF IndexAllows
<1>3. CASE t = r /\ s # r
      <2>1. s \in RunsOf(q.ws, q.type) \ {r} /\ Active(s)
            BY <1>1, <1>3 DEF RunsOf, ActiveRuns, Visible
      <2> QED BY <1>3, <2>1 DEF IndexAllows
<1>4. CASE s # r /\ t # r
      BY <1>1, <1>4 DEF UniqueInv, ActiveRunUnique, ActiveRuns, Visible
<1> QED BY <1>2, <1>3, <1>4

LEMMA UniqueInit == Init => UniqueInv
BY DEF Init, UniqueInv, ActiveRunUnique, BatchRowsAreReports, Visible, Statuses

LEMMA UniqueStep == TypeInv /\ UniqueInv /\ [Next]_vars => UniqueInv'
<1> SUFFICES ASSUME TypeInv, UniqueInv, [Next]_vars PROVE UniqueInv'
    OBVIOUS
<1> USE DEF rows, broker, clients, workers, faults
<1>1. CASE UNCHANGED <<runStatus, request, cbatch>>
      BY <1>1, NoNewActive DEF ActiveRuns, Active, Visible
<1>2. ASSUME NEW c \in Clients, NEW r \in RunIds, InsertRun(c, r) PROVE UniqueInv'
      <2>1. creq[c] \in Requests
            BY <1>2 DEF InsertRun, TypeInv, ReferencesInserted
      <2>2. ActiveRuns' \subseteq ActiveRuns \cup {r}
            BY <1>2 DEF InsertRun, ActiveRuns, Active, Visible, TypeInv, TypeOK
      <2>3. IndexAllows(r, creq[c]) /\ request'[r] = creq[c]
            BY <1>2 DEF InsertRun, TypeInv, TypeOK
      <2>4. \A s \in RunIds \ {r} : request'[s] = request[s]
            BY <1>2 DEF InsertRun, TypeInv, TypeOK
      <2>5. ActiveRunUnique'
            BY <2>1, <2>2, <2>3, <2>4, OneNewActive
      <2>6. BatchRowsAreReports'
            BY <1>2, <2>4 DEF InsertRun, UniqueInv, BatchRowsAreReports, TypeInv,
               TypeOK, ReferencesInserted, Inserted
      <2> QED BY <2>5, <2>6 DEF UniqueInv
<1>3. ASSUME NEW c \in Clients, NEW r \in RunIds, NEW q \in Requests,
             NEW sent \in BOOLEAN, BatchAdd(c, r, q, sent)
      PROVE  UniqueInv'
      <2>1. ActiveRuns' = ActiveRuns /\ r \notin ActiveRuns
            BY <1>3 DEF BatchAdd, ActiveRuns, Active, Visible, Statuses, TypeInv, TypeOK
      <2>2. \A s \in RunIds \ {r} : request'[s] = request[s]
            BY <1>3 DEF BatchAdd, TypeInv, TypeOK
      <2>3. request'[r] = q /\ q.type \in ReportTypes
            BY <1>3 DEF BatchAdd, TypeInv, TypeOK
      <2>4. ActiveRunUnique'
            BY <2>1, <2>2 DEF UniqueInv, ActiveRunUnique, ActiveRuns, Visible
      <2>5. BatchRowsAreReports'
            BY <1>3, <2>2, <2>3 DEF BatchAdd, UniqueInv, BatchRowsAreReports,
               TypeInv, TypeOK
      <2> QED BY <2>4, <2>5 DEF UniqueInv
<1>4. ASSUME NEW c \in Clients, NEW status \in {"queued", "rolledback"},
             BatchEnd(c, status)
      PROVE  UniqueInv'
      <2>1. \A s \in ActiveRuns' : s \in ActiveRuns \/ request[s].type \in ReportTypes
            BY <1>4 DEF BatchEnd, ActiveRuns, Active, Visible, UniqueInv,
               BatchRowsAreReports, TypeInv, TypeOK
      <2>2. request' = request
            BY <1>4 DEF BatchEnd
      <2>3. ActiveRunUnique'
            BY <2>1, <2>2, TypesAreDisjoint DEF UniqueInv, ActiveRunUnique, ActiveRuns
      <2>4. BatchRowsAreReports'
            BY <1>4, <2>2 DEF BatchEnd, UniqueInv, BatchRowsAreReports, TypeInv, TypeOK
      <2> QED BY <2>3, <2>4 DEF UniqueInv
<1>5. ASSUME NEW c \in Clients, CancelWrite(c) PROVE UniqueInv'
      <2>1. ActiveRuns' \subseteq ActiveRuns /\ UNCHANGED <<request, cbatch>>
            BY <1>5 DEF CancelWrite, ActiveRuns, Active, Visible, Statuses, TypeInv,
               TypeOK, ReferencesInserted, Inserted
      <2> QED BY <2>1, NoNewActive
<1>6. ASSUME NEW w \in Workers, FailConflict(w) \/ RecordException(w) PROVE UniqueInv'
      <2>1. ActiveRuns' \subseteq ActiveRuns /\ UNCHANGED <<request, cbatch>>
            BY <1>6 DEF FailConflict, RecordException, Fail, ActiveRuns, Active, Visible,
               Statuses, TypeInv, TypeOK
      <2> QED BY <2>1, NoNewActive
<1>7. ASSUME NEW w \in Workers, ClaimTask(w) PROVE UniqueInv'
      <2> DEFINE r == wrun[w]
      <2>1. r \in RunIds /\ request[r] \in Requests /\ IndexAllows(r, request[r])
            BY <1>7 DEF ClaimTask, Claimable, Visible, TypeInv, ReferencesInserted,
               Inserted
      <2>2. UNCHANGED <<request, cbatch>>
            BY <1>7 DEF ClaimTask
      <2>3. ActiveRuns' \subseteq ActiveRuns \cup {r}
            BY <1>7 DEF ClaimTask, ActiveRuns, Active, Visible, TypeInv, TypeOK
      <2>4. ActiveRunUnique'
            BY <2>1, <2>2, <2>3, OneNewActive
      <2> QED BY <2>2, <2>4 DEF UniqueInv, BatchRowsAreReports
<1>8. ASSUME NEW w \in Workers, NEW outcome \in Finished, FinishTask(w, outcome)
      PROVE  UniqueInv'
      <2>1. ActiveRuns' \subseteq ActiveRuns /\ UNCHANGED <<request, cbatch>>
            BY <1>8 DEF FinishTask, Finished, ActiveRuns, Active, Visible, Statuses,
               TypeInv, TypeOK
      <2> QED BY <2>1, NoNewActive
<1> QED
  BY <1>1, <1>2, <1>3, <1>4, <1>5, <1>6, <1>7, <1>8
     DEF Next, vars, ClientStep, ClientCall, WorkerStep, CountQuota, RejectRun,
         EnqueueRun, BatchCommit, BatchAbort, CancelRead, Deliver, AcquireLock,
         LockConflict, ClaimRaises, CreateInvocation, SessionKeyTaken, HandlerRaises,
         ReleaseLock, Acknowledge, Crash, LoseChild, Redeliver, ExpireLock

\* Through creations, cancellations, late claims, redeliveries and batches, a
\* workspace never has two active runs of an agent type.
THEOREM ActiveRunUniqueHolds == Spec => []ActiveRunUnique
<1>1. Init => TypeInv /\ UniqueInv
      BY TypeInit, UniqueInit
<1>2. TypeInv /\ UniqueInv /\ [Next]_vars => (TypeInv /\ UniqueInv)'
      BY TypeStep, UniqueStep
<1>3. TypeInv /\ UniqueInv => ActiveRunUnique
      BY DEF UniqueInv
<1> QED BY <1>1, <1>2, <1>3, PTL DEF Spec

-----------------------------------------------------------------------------
(* Without batch_analyze *)

\* No transaction is open with rows that others cannot see.
NoBatch ==
  /\ \A r \in RunIds : runStatus[r] \in Statuses \cup {"absent"}
  /\ \A c \in Clients : cpc[c] # "batching"

LEMMA NoBatchInit == Init => NoBatch
BY DEF Init, NoBatch

LEMMA NoBatchStep ==
  ASSUME BatchClients = {}, TypeInv, NoBatch, [Next]_vars
  PROVE  NoBatch'
<1> USE DEF NoBatch, Statuses
<1>1. CASE UNCHANGED <<runStatus, cpc>>
      BY <1>1
<1>2. ASSUME NEW c \in Clients, ClientStep(c) PROVE NoBatch'
      BY <1>2 DEF TypeInv, TypeOK, ClientStep, InsertRun, RejectRun, EnqueueRun,
         BatchCommit, BatchEnd, CancelWrite, rows
<1>3. ASSUME NEW c \in Clients, ClientCall(c) PROVE NoBatch'
      BY <1>3 DEF TypeInv, TypeOK, ClientCall, CountQuota, CancelRead, BatchAdd,
         BatchAbort, BatchEnd, rows
<1>4. ASSUME NEW w \in Workers, FailConflict(w) \/ RecordException(w) PROVE NoBatch'
      BY <1>4 DEF TypeInv, TypeOK, FailConflict, RecordException, Fail, rows, clients
<1>5. ASSUME NEW w \in Workers, ClaimTask(w) PROVE NoBatch'
      BY <1>5 DEF TypeInv, TypeOK, ClaimTask, clients
<1>6. ASSUME NEW w \in Workers, NEW outcome \in Finished, FinishTask(w, outcome)
      PROVE  NoBatch'
      BY <1>6 DEF TypeInv, TypeOK, FinishTask, Finished, clients
<1> QED
  BY <1>1, <1>2, <1>3, <1>4, <1>5, <1>6
     DEF Next, vars, rows, clients, WorkerStep, Deliver, AcquireLock, LockConflict,
         ClaimRaises, CreateInvocation, SessionKeyTaken, HandlerRaises, ReleaseLock,
         Acknowledge, Crash, LoseChild, Redeliver, ExpireLock

-----------------------------------------------------------------------------
(* Mutual exclusion of handlers *)

\* Why the lock works while no task outlives its TTL: a worker between acquire
\* and release finds its key set, and no two of them have the same key; the
\* key is the run's own scope, since every delivered run's row can be read.
HoldersApart ==
  /\ \A w \in Workers : wpc[w] # "idle" => wkey[w] = request[wrun[w]]
  /\ \A w \in Workers : wpc[w] \in Holding => lock[wkey[w]] # NoRun
  /\ \A v, w \in Workers :
       wpc[v] \in Holding /\ wpc[w] \in Holding /\ wkey[v] = wkey[w] => v = w

LEMMA HoldersInit == Init => HoldersApart
BY DEF Init, HoldersApart, Holding

\* A run's requested scope is its lock key.
LEMMA LockKeyIsRequest ==
  ASSUME TypeInv, NEW r \in Visible
  PROVE  LockKey(r) = request[r]
<1>1. request[r] \in Keys
      BY RequestIsKey DEF TypeInv, ReferencesInserted, Inserted, Visible, Statuses
<1> QED BY <1>1 DEF LockKey, Keys

LEMMA HoldersStep ==
  ASSUME ~ TasksMayOverrun, TypeInv, NoBatch, HoldersApart, [Next]_vars
  PROVE  HoldersApart'
<1> USE DEF rows, broker, clients, workers, faults, goto
<1>1. CASE UNCHANGED <<request, lock, wpc, wrun, wkey>>
      BY <1>1 DEF HoldersApart
<1>2. ASSUME UNCHANGED <<lock, wpc, wrun, wkey>>,
             NEW r \in RunIds, r \notin Inserted,
             \A s \in RunIds \ {r} : request'[s] = request[s]
      PROVE  HoldersApart'
      <2>1. \A w \in Workers : wpc[w] # "idle" => request'[wrun[w]] = request[wrun[w]]
            BY <1>2 DEF TypeInv, TypeOK, ReferencesInserted, Inserted
      <2> QED BY <1>2, <2>1 DEF HoldersApart
<1>3. ASSUME NEW c \in Clients, NEW r \in RunIds, InsertRun(c, r) PROVE HoldersApart'
      BY <1>2, <1>3 DEF InsertRun, TypeInv, TypeOK, Inserted
<1>4. ASSUME NEW c \in Clients, NEW r \in RunIds, NEW q \in Requests,
             NEW sent \in BOOLEAN, BatchAdd(c, r, q, sent)
      PROVE  HoldersApart'
      BY <1>2, <1>4 DEF BatchAdd, TypeInv, TypeOK, Inserted
<1>5. ASSUME NEW w \in Workers, NEW r \in RunIds, Deliver(w, r) PROVE HoldersApart'
      <2>1. r \in Visible
            BY <1>5 DEF Deliver, TypeInv, ReferencesInserted, Inserted, NoBatch, Visible
      <2>2. LockKey(r) = request[r]
            BY <2>1, LockKeyIsRequest
      <2> QED BY <1>5, <2>2 DEF Deliver, HoldersApart, Holding, TypeInv, TypeOK
<1>6. ASSUME NEW w \in Workers, AcquireLock(w) PROVE HoldersApart'
      BY <1>6, NoValues
         DEF AcquireLock, LockFree, HoldersApart, Holding, TypeInv, TypeOK,
             ReferencesInserted, Inserted
<1>7. ASSUME NEW w \in Workers, NEW place \in WorkerSteps \ {"idle"},
             wpc' = [wpc EXCEPT ![w] = place], wpc[w] # "idle",
             place \in Holding => wpc[w] \in Holding,
             UNCHANGED <<request, lock, wrun, wkey>>
      PROVE  HoldersApart'
      BY <1>7 DEF HoldersApart, TypeInv, TypeOK
<1>8. ASSUME NEW w \in Workers,
             LockConflict(w) \/ FailConflict(w) \/ ClaimTask(w) \/ ClaimRaises(w)
      PROVE  HoldersApart'
      BY <1>7, <1>8 DEF LockConflict, FailConflict, Fail, ClaimTask, ClaimRaises,
         WorkerSteps, Holding
<1>9. ASSUME NEW w \in Workers,
             \/ CreateInvocation(w) \/ SessionKeyTaken(w) \/ HandlerRaises(w)
             \/ RecordException(w) \/ \E outcome \in Finished : FinishTask(w, outcome)
      PROVE  HoldersApart'
      BY <1>7, <1>9 DEF CreateInvocation, SessionKeyTaken, HandlerRaises,
         RecordException, Fail, FinishTask, WorkerSteps, Holding
<1>10. ASSUME NEW w \in Workers, ReleaseLock(w) PROVE HoldersApart'
      BY <1>10 DEF ReleaseLock, HoldersApart, Holding, TypeInv, TypeOK,
         ReferencesInserted
<1>11. ASSUME NEW w \in Workers, Leave(w), UNCHANGED <<request, lock>>
       PROVE  HoldersApart'
      BY <1>11 DEF Leave, HoldersApart, Holding, TypeInv, TypeOK
<1>12. ASSUME NEW w \in Workers, Acknowledge(w) \/ Crash(w) \/ LoseChild(w)
       PROVE  HoldersApart'
      BY <1>11, <1>12 DEF Acknowledge, Crash, LoseChild
<1>13. ASSUME NEW k \in Keys, ExpireLock(k) PROVE HoldersApart'
      BY <1>13 DEF ExpireLock, HolderAlive, HoldersApart, TypeInv, TypeOK,
         ReferencesInserted
<1> QED
  BY <1>1, <1>3, <1>4, <1>5, <1>6, <1>8, <1>9, <1>10, <1>12, <1>13
     DEF Next, vars, ClientStep, ClientCall, WorkerStep, CountQuota, RejectRun,
         EnqueueRun, BatchCommit, BatchAbort, BatchEnd, CancelRead, CancelWrite, Redeliver

LEMMA HoldersExclude ==
  ASSUME TypeInv, HoldersApart
  PROVE  MutualExclusion
<1> SUFFICES ASSUME NEW v \in Workers, NEW w \in Workers,
                    wpc[v] \in Executing, wpc[w] \in Executing,
                    request[wrun[v]].ws = request[wrun[w]].ws,
                    request[wrun[v]].type = request[wrun[w]].type,
                    request[wrun[v]].job = request[wrun[w]].job
             PROVE  v = w
    BY DEF MutualExclusion
<1>1. wpc[v] \in Holding /\ wpc[w] \in Holding /\ wpc[v] # "idle" /\ wpc[w] # "idle"
      BY DEF Executing, Holding
<1>2. request[wrun[v]] \in Keys /\ request[wrun[w]] \in Keys
      BY <1>1, RequestIsKey DEF TypeInv, ReferencesInserted
<1>3. request[wrun[v]] = request[wrun[w]]
      BY <1>2 DEF Keys
<1> QED BY <1>1, <1>3 DEF HoldersApart

\* While no task outlives the lock's TTL and nobody calls batch_analyze, two
\* handlers never run for one workspace, task type and job, through any
\* deaths, redeliveries and cancellations.
THEOREM MutualExclusionHolds ==
  ASSUME ~ TasksMayOverrun, BatchClients = {}
  PROVE  Spec => []MutualExclusion
<1>1. Init => TypeInv /\ NoBatch /\ HoldersApart
      BY TypeInit, NoBatchInit, HoldersInit
<1>2. TypeInv /\ NoBatch /\ HoldersApart /\ [Next]_vars
        => (TypeInv /\ NoBatch /\ HoldersApart)'
      BY TypeStep, NoBatchStep, HoldersStep
<1>3. TypeInv /\ NoBatch /\ HoldersApart => MutualExclusion
      BY HoldersExclude
<1> QED BY <1>1, <1>2, <1>3, PTL DEF Spec

-----------------------------------------------------------------------------
(* The monthly quota *)

\* A request that has counted holds the row lock of its workspace, and its
\* count is still below the limit.
CountsHold ==
  \A c \in Clients : cpc[c] = "counted" =>
    /\ rowLock[creq[c].ws] = c
    /\ QuotaLeft(creq[c].ws, creq[c].type)

QuotaInv == QuotaRespected /\ CountsHold

LEMMA QuotaInit ==
  ASSUME IsFiniteSet(RunIds)
  PROVE  Init => QuotaInv
<1> SUFFICES ASSUME Init PROVE QuotaInv
    OBVIOUS
<1>1. \A ws \in Workspaces, type \in RunTypes : RunsOf(ws, type) = {}
      BY DEF Init, RunsOf, Visible, Statuses
<1>2. QuotaRespected
      BY <1>1, FS_EmptySet, LimitsAreNumbers DEF QuotaRespected, MonthCount
<1>3. CountsHold
      BY DEF Init, CountsHold
<1> QED BY <1>2, <1>3 DEF QuotaInv

\* A step that shows no new run, and leaves the requests that have counted as
\* they are, changes no count.
LEMMA SameCounts ==
  ASSUME TypeInv, QuotaInv, Visible' = Visible, UNCHANGED request,
         \A c \in Clients : cpc'[c] = "counted" =>
           cpc[c] = "counted" /\ creq'[c] = creq[c] /\ rowLock'[creq[c].ws] = rowLock[creq[c].ws]
  PROVE  QuotaInv'
<1>1. \A ws, type : RunsOf(ws, type)' = RunsOf(ws, type)
      BY DEF RunsOf
<1>2. \A ws, type : MonthCount(ws, type)' = MonthCount(ws, type)
      BY <1>1 DEF MonthCount
<1> QED BY <1>2 DEF QuotaInv, QuotaRespected, CountsHold, QuotaLeft

LEMMA QuotaStep ==
  ASSUME IsFiniteSet(RunIds), BatchClients = {}, TypeInv, NoBatch, QuotaInv, [Next]_vars
  PROVE  QuotaInv'
<1> USE DEF rows, broker, clients, workers, faults
<1>1. CASE UNCHANGED <<runStatus, request, cpc, creq, rowLock>>
      <2>1. Visible' = Visible
            BY <1>1 DEF Visible
      <2> QED BY <1>1, <2>1, SameCounts
<1>2. ASSUME NEW c \in Clients, NEW q \in Requests, CountQuota(c, q) PROVE QuotaInv'
      <2>1. \A ws, type : RunsOf(ws, type)' = RunsOf(ws, type)
            BY <1>2 DEF CountQuota, RunsOf, Visible
      <2>2. \A ws, type : MonthCount(ws, type)' = MonthCount(ws, type)
            BY <2>1 DEF MonthCount
      <2>3. QuotaRespected'
            BY <2>2 DEF QuotaInv, QuotaRespected
      <2>4. \A d \in Clients : cpc[d] = "counted" => creq[d].ws # q.ws
            BY <1>2, NoValues DEF CountQuota, RowLockFree, QuotaInv, CountsHold
      <2>5. q.ws \in Workspaces
            BY RequestIsKey DEF Keys
      <2>6. CountsHold'
            BY <1>2, <2>2, <2>4, <2>5
               DEF CountQuota, QuotaInv, CountsHold, QuotaLeft, TypeInv, TypeOK
      <2> QED BY <2>3, <2>6 DEF QuotaInv
<1>3. ASSUME NEW c \in Clients, NEW r \in RunIds, InsertRun(c, r) PROVE QuotaInv'
      <2>0. PICK q \in Requests : q = creq[c]
            BY <1>3 DEF InsertRun, TypeInv, ReferencesInserted
      <2>1. cpc[c] = "counted" /\ q.ws \in Workspaces /\ q.type \in RunTypes
            BY <1>3, RequestIsKey DEF InsertRun, Keys
      <2>2. r \notin Visible /\ Visible' = Visible \cup {r}
            BY <1>3 DEF InsertRun, Visible, Statuses, TypeInv, TypeOK
      <2>3. request'[r] = q /\ \A s \in Visible : request'[s] = request[s]
            BY <1>3, <2>0, <2>2 DEF InsertRun, Visible, TypeInv, TypeOK
      <2>4. RunsOf(q.ws, q.type)' = RunsOf(q.ws, q.type) \cup {r}
            BY <2>2, <2>3 DEF RunsOf
      <2>5. \A ws, type : ws # q.ws \/ type # q.type
              => RunsOf(ws, type)' = RunsOf(ws, type)
            BY <2>2, <2>3 DEF RunsOf
      <2>6. IsFiniteSet(RunsOf(q.ws, q.type)) /\ r \notin RunsOf(q.ws, q.type)
            BY <2>2, FS_Subset DEF RunsOf, Visible
      <2>7. MonthCount(q.ws, q.type)' = MonthCount(q.ws, q.type) + 1
            BY <2>4, <2>6, FS_AddElement DEF MonthCount
      <2>8. MonthCount(q.ws, q.type) \in Nat
            BY <2>6, FS_CardinalityType DEF MonthCount
      <2>9. MonthCount(q.ws, q.type) < MonthlyLimit[q.type]
            BY <2>0, <2>1 DEF QuotaInv, CountsHold, QuotaLeft
      <2>10. MonthCount(q.ws, q.type)' <= MonthlyLimit[q.type]
            BY <2>1, <2>7, <2>8, <2>9, LimitsAreNumbers
      <2>11. \A ws, type : ws # q.ws \/ type # q.type
               => MonthCount(ws, type)' = MonthCount(ws, type)
            BY <2>5 DEF MonthCount
      <2>12. QuotaRespected'
            BY <2>10, <2>11 DEF QuotaInv, QuotaRespected
      <2>13. \A d \in Clients \ {c} : cpc[d] = "counted" => creq[d].ws # q.ws
            BY <2>0, <2>1 DEF QuotaInv, CountsHold
      <2>14. CountsHold'
            BY <1>3, <2>0, <2>1, <2>11, <2>13
               DEF InsertRun, QuotaInv, CountsHold, QuotaLeft, TypeInv, TypeOK
      <2> QED BY <2>12, <2>14 DEF QuotaInv
<1>4. ASSUME NEW c \in Clients, RejectRun(c) PROVE QuotaInv'
      <2>1. \A d \in Clients \ {c} : cpc[d] = "counted" => creq[d].ws # creq[c].ws
            BY <1>4 DEF RejectRun, QuotaInv, CountsHold
      <2>2. Visible' = Visible
            BY <1>4 DEF RejectRun, Visible
      <2> QED BY <1>4, <2>1, <2>2, SameCounts DEF RejectRun, TypeInv, TypeOK
<1>5. ASSUME NEW c \in Clients,
             \/ \E sent \in BOOLEAN : EnqueueRun(c, sent)
             \/ \E r \in RunIds : CancelRead(c, r)
             \/ CancelWrite(c)
      PROVE  QuotaInv'
      <2>1. Visible' = Visible
            BY <1>5 DEF EnqueueRun, CancelRead, CancelWrite, Visible, Statuses, NoBatch,
               TypeInv, TypeOK, ReferencesInserted, Inserted
      <2> QED BY <1>5, <2>1, SameCounts
              DEF EnqueueRun, CancelRead, CancelWrite, TypeInv, TypeOK
<1>6. ASSUME UNCHANGED <<request, cpc, creq, rowLock>>, Visible' = Visible
      PROVE  QuotaInv'
      BY <1>6, SameCounts
<1>7. ASSUME NEW w \in Workers,
             \/ FailConflict(w) \/ RecordException(w) \/ ClaimTask(w)
             \/ \E outcome \in Finished : FinishTask(w, outcome)
      PROVE  QuotaInv'
      <2>1. CASE wpc[w] = "idle"
            BY <1>7, <2>1 DEF FailConflict, RecordException, ClaimTask, FinishTask
      <2>2. CASE wpc[w] # "idle"
            <3>1. wrun[w] \in Visible
                  BY <2>2 DEF TypeInv, ReferencesInserted, Inserted, NoBatch, Visible
            <3>2. Visible' = Visible
                  BY <1>7, <3>1 DEF FailConflict, RecordException, Fail, ClaimTask,
                     FinishTask, Finished, Visible, Statuses, TypeInv, TypeOK
            <3> QED BY <1>6, <1>7, <3>2 DEF FailConflict, RecordException, Fail,
                    ClaimTask, FinishTask
      <2> QED BY <2>1, <2>2
<1>8. ASSUME NEW c \in Clients, NEW r \in RunIds, NEW q \in Requests,
             NEW sent \in BOOLEAN, BatchAdd(c, r, q, sent)
      PROVE  FALSE
      BY <1>8 DEF BatchAdd
<1>9. ASSUME NEW c \in Clients, BatchCommit(c) \/ BatchAbort(c) PROVE FALSE
      BY <1>9 DEF BatchCommit, BatchAbort, BatchEnd, NoBatch
<1> QED
  BY <1>1, <1>2, <1>3, <1>4, <1>5, <1>7, <1>8, <1>9
     DEF Next, vars, ClientStep, ClientCall, WorkerStep, Deliver, AcquireLock,
         LockConflict, ClaimRaises, CreateInvocation, SessionKeyTaken, HandlerRaises,
         ReleaseLock, Acknowledge, Crash, LoseChild, Redeliver, ExpireLock

\* Concurrent POST /runs requests never create more runs of a type in a month
\* than the tier allows: the row lock makes count and insert one step.
THEOREM QuotaRespectedHolds ==
  ASSUME IsFiniteSet(RunIds), BatchClients = {}
  PROVE  Spec => []QuotaRespected
<1>1. Init => TypeInv /\ NoBatch /\ QuotaInv
      BY TypeInit, NoBatchInit, QuotaInit
<1>2. TypeInv /\ NoBatch /\ QuotaInv /\ [Next]_vars
        => (TypeInv /\ NoBatch /\ QuotaInv)'
      BY TypeStep, NoBatchStep, QuotaStep
<1>3. QuotaInv => QuotaRespected
      BY DEF QuotaInv
<1> QED BY <1>1, <1>2, <1>3, PTL DEF Spec

-----------------------------------------------------------------------------
(* Runs and tasks, and agent sessions *)

LEMMA FollowInit == Init => RunFollowsTask
BY DEF Init, RunFollowsTask, Visible, Statuses

\* Every transaction but the cancellation writes both rows.
LEMMA FollowStep == TypeInv /\ RunFollowsTask /\ [Next]_vars => RunFollowsTask'
<1> SUFFICES ASSUME TypeInv, RunFollowsTask, [Next]_vars PROVE RunFollowsTask'
    OBVIOUS
<1> USE DEF rows, broker, clients, workers, faults
<1>1. CASE UNCHANGED <<runStatus, taskStatus>>
      BY <1>1 DEF RunFollowsTask, Visible
<1>2. ASSUME NEW r \in RunIds \cup {NoRun}, NEW status,
             runStatus' = [runStatus EXCEPT ![r] = status],
             taskStatus' = [taskStatus EXCEPT ![r] = status]
      PROVE  RunFollowsTask'
      BY <1>2 DEF RunFollowsTask, Visible, TypeInv, TypeOK
<1>3. ASSUME NEW c \in Clients, NEW r \in RunIds,
             InsertRun(c, r) \/ \E q \in Requests, sent \in BOOLEAN : BatchAdd(c, r, q, sent)
      PROVE  RunFollowsTask'
      BY <1>2, <1>3 DEF InsertRun, BatchAdd
<1>4. ASSUME NEW c \in Clients, NEW status \in {"queued", "rolledback"}, BatchEnd(c, status)
      PROVE  RunFollowsTask'
      BY <1>4 DEF BatchEnd, RunFollowsTask, Visible, TypeInv, TypeOK
<1>5. ASSUME NEW c \in Clients, CancelWrite(c) PROVE RunFollowsTask'
      BY <1>5 DEF CancelWrite, RunFollowsTask, Visible, TypeInv, TypeOK
<1>6. ASSUME NEW w \in Workers,
             FailConflict(w) \/ RecordException(w) \/ ClaimTask(w)
               \/ \E outcome \in Finished : FinishTask(w, outcome)
      PROVE  RunFollowsTask'
      <2>1. wrun[w] \in RunIds \cup {NoRun}
            BY DEF TypeInv, TypeOK
      <2> QED BY <1>1, <1>2, <1>6, <2>1
              DEF FailConflict, RecordException, ClaimTask, FinishTask, Fail
<1> QED
  BY <1>1, <1>3, <1>4, <1>5, <1>6
     DEF Next, vars, ClientStep, ClientCall, WorkerStep, CountQuota, RejectRun,
         EnqueueRun, BatchCommit, BatchAbort, CancelRead, Deliver, AcquireLock,
         LockConflict, ClaimRaises, CreateInvocation, SessionKeyTaken, HandlerRaises,
         ReleaseLock, Acknowledge, Crash, LoseChild, Redeliver, ExpireLock

\* A run never disagrees with its task but by a cancellation, with batches,
\* overruns and deaths.
THEOREM RunFollowsTaskHolds == Spec => []RunFollowsTask
BY TypeCorrect, FollowInit, FollowStep, PTL DEF Spec

\* Whoever drives a session has its key, and the key is never given back.
SessionsKeyed ==
  \A w \in Workers : wpc[w] = "invoking" => wrun[w] \in invoked

SessionInv == SessionsKeyed /\ AgentSessionExclusive

LEMMA SessionInit == Init => SessionInv
BY DEF Init, SessionInv, SessionsKeyed, AgentSessionExclusive

LEMMA SessionStep == TypeInv /\ SessionInv /\ [Next]_vars => SessionInv'
<1> SUFFICES ASSUME TypeInv, SessionInv, [Next]_vars PROVE SessionInv'
    OBVIOUS
<1> USE DEF rows, broker, clients, workers, faults, goto
<1>1. CASE UNCHANGED <<invoked, wpc, wrun>>
      BY <1>1 DEF SessionInv, SessionsKeyed, AgentSessionExclusive
<1>2. ASSUME NEW w \in Workers, NEW place, place # "invoking",
             wpc' = [wpc EXCEPT ![w] = place], UNCHANGED invoked,
             \A v \in Workers \ {w} : wrun'[v] = wrun[v]
      PROVE  SessionInv'
      BY <1>2 DEF SessionInv, SessionsKeyed, AgentSessionExclusive, TypeInv, TypeOK
<1>3. ASSUME NEW w \in Workers, CreateInvocation(w) PROVE SessionInv'
      BY <1>3 DEF CreateInvocation, SessionInv, SessionsKeyed, AgentSessionExclusive,
         TypeInv, TypeOK
<1>4. ASSUME NEW w \in Workers, \E r \in RunIds : Deliver(w, r) PROVE SessionInv'
      BY <1>2, <1>4 DEF Deliver, TypeInv, TypeOK
<1>5. ASSUME NEW w \in Workers,
             \/ AcquireLock(w) \/ LockConflict(w) \/ FailConflict(w) \/ ClaimTask(w)
             \/ ClaimRaises(w) \/ SessionKeyTaken(w) \/ HandlerRaises(w)
             \/ RecordException(w) \/ ReleaseLock(w)
             \/ \E outcome \in Finished : FinishTask(w, outcome)
      PROVE  SessionInv'
      BY <1>2, <1>5 DEF AcquireLock, LockConflict, FailConflict, ClaimTask, ClaimRaises,
         SessionKeyTaken, HandlerRaises, RecordException, ReleaseLock, FinishTask, Fail
<1>6. ASSUME NEW w \in Workers, Acknowledge(w) \/ Crash(w) \/ LoseChild(w)
      PROVE  SessionInv'
      BY <1>2, <1>6 DEF Acknowledge, Crash, LoseChild, Leave, TypeInv, TypeOK
<1> QED
  BY <1>1, <1>3, <1>4, <1>5, <1>6
     DEF Next, vars, ClientStep, ClientCall, WorkerStep, CountQuota, InsertRun,
         RejectRun, EnqueueRun, BatchAdd, BatchCommit, BatchAbort, BatchEnd,
         CancelRead, CancelWrite, Redeliver, ExpireLock

\* No agent session has two workers, even when tasks outlive their locks and
\* envelopes are delivered again.
THEOREM AgentSessionExclusiveHolds == Spec => []AgentSessionExclusive
<1>1. Init => TypeInv /\ SessionInv
      BY TypeInit, SessionInit
<1>2. TypeInv /\ SessionInv /\ [Next]_vars => (TypeInv /\ SessionInv)'
      BY TypeStep, SessionStep
<1>3. SessionInv => AgentSessionExclusive
      BY DEF SessionInv
<1> QED BY <1>1, <1>2, <1>3, PTL DEF Spec

-----------------------------------------------------------------------------
(* No active run is stranded *)

\* While no task outlives the visibility timeout, each run's envelope is in one
\* place: with the request about to send it, in the queue, or with one worker.
\* A worker that is done with its task leaves a run that is not active.
EnvelopesApart ==
  /\ \A v, w \in Workers : wpc[v] # "idle" /\ wpc[w] # "idle" /\ wrun[v] = wrun[w] => v = w
  /\ \A w \in Workers : wpc[w] # "idle" => wrun[w] \in unacked \ ready
  /\ \A c \in Clients : cpc[c] = "committed" => crun[c] \notin ready \cup unacked
  /\ \A c, d \in Clients :
       cpc[c] = "committed" /\ cpc[d] = "committed" /\ crun[c] = crun[d] => c = d
  /\ \A w \in Workers : wpc[w] \in {"release", "ack"} => ~ Active(wrun[w])

StrandInv == EnvelopesApart /\ ActiveHasEnvelope

LEMMA StrandInit == Init => StrandInv
BY DEF Init, StrandInv, EnvelopesApart, ActiveHasEnvelope, Visible, Statuses

\* A step that only makes runs inactive, and moves no envelope and no worker
\* to its end, strands nobody.
LEMMA Deactivate ==
  ASSUME TypeInv, StrandInv, ActiveRuns' \subseteq ActiveRuns,
         UNCHANGED <<ready, unacked, wrun>>,
         \A c \in Clients : cpc'[c] = "committed" <=> cpc[c] = "committed",
         \A c \in Clients : cpc[c] = "committed" => crun'[c] = crun[c],
         \A w \in Workers : wpc'[w] # "idle" => wpc[w] # "idle",
         \A w \in Workers : wpc'[w] \in {"release", "ack"} => ~ Active(wrun[w])'
  PROVE  StrandInv'
<1>1. EnvelopesApart'
      BY DEF StrandInv, EnvelopesApart
<1>2. ActiveHasEnvelope'
      BY DEF StrandInv, ActiveHasEnvelope, ActiveRuns
<1> QED BY <1>1, <1>2 DEF StrandInv

LEMMA StrandStep ==
  ASSUME ~ TasksMayOverrun, ~ EnqueueMayFail, BatchClients = {}, MaxLosses = 0,
         TypeInv, NoBatch, UniqueInv, StrandInv, [Next]_vars
  PROVE  StrandInv'
<1> USE DEF rows, broker, clients, workers, faults, goto
<1>1. CASE UNCHANGED <<runStatus, ready, unacked, cpc, crun, wpc, wrun>>
      BY <1>1 DEF StrandInv, EnvelopesApart, ActiveHasEnvelope, Visible, Active
<1>2. ASSUME NEW c \in Clients,
             \/ \E q \in Requests : CountQuota(c, q)
             \/ \E r \in RunIds : CancelRead(c, r)
             \/ RejectRun(c) \/ CancelWrite(c)
      PROVE  StrandInv'
      <2>1. /\ UNCHANGED <<ready, unacked, wpc, wrun>>
            /\ \A d \in Clients : cpc'[d] = "committed" <=> cpc[d] = "committed"
            /\ \A d \in Clients : cpc[d] = "committed" => crun'[d] = crun[d]
            BY <1>2 DEF CountQuota, CancelRead, RejectRun, CancelWrite, TypeInv, TypeOK
      <2>2. ActiveRuns' \subseteq ActiveRuns
            BY <1>2 DEF CountQuota, CancelRead, RejectRun, CancelWrite, TypeInv, TypeOK,
               ActiveRuns, Visible, Active, Statuses
      <2>3. \A r \in RunIds : Active(r)' => Active(r)
            BY <1>2 DEF CountQuota, CancelRead, RejectRun, CancelWrite, TypeInv, TypeOK, Active
      <2>4. \A w \in Workers : wpc[w] \in {"release", "ack"} => ~ Active(wrun[w])'
            <3>1. \A w \in Workers : wpc[w] # "idle" => wrun[w] \in RunIds
                  BY DEF TypeInv, ReferencesInserted, Inserted
            <3>2. \A w \in Workers : wpc[w] \in {"release", "ack"} => ~ Active(wrun[w])
                  BY DEF StrandInv, EnvelopesApart
            <3>3. ASSUME NEW w \in Workers, wpc[w] \in {"release", "ack"}
                  PROVE  ~ Active(wrun[w])'
                  <4>1. wrun[w] \in RunIds
                        BY <3>1, <3>3
                  <4>2. wrun'[w] = wrun[w]
                        BY <2>1
                  <4>3. ~ Active(wrun[w])
                        BY <3>2, <3>3
                  <4> QED BY <2>3, <4>1, <4>2, <4>3 DEF Active
            <3> QED BY <3>3
      <2> QED BY <2>1, <2>2, <2>4, Deactivate
<1>3. ASSUME NEW c \in Clients, NEW r \in RunIds, InsertRun(c, r) PROVE StrandInv'
      <2>1. /\ UNCHANGED <<ready, unacked, wpc, wrun>>
            /\ r \notin Inserted /\ cpc'[c] = "committed" /\ crun'[c] = r
            /\ \A d \in Clients \ {c} : cpc'[d] = cpc[d] /\ crun'[d] = crun[d]
            /\ \A s \in RunIds \ {r} : runStatus'[s] = runStatus[s]
            BY <1>3 DEF InsertRun, TypeInv, TypeOK, Inserted
      <2>2. EnvelopesApart'
            <3>1. \A w \in Workers : wpc[w] # "idle" => wrun[w] \in RunIds \ {r}
                  BY <2>1 DEF TypeInv, ReferencesInserted, Inserted
            <3>2. \A w \in Workers : wpc[w] \in {"release", "ack"} => ~ Active(wrun[w])'
                  BY <2>1, <3>1 DEF StrandInv, EnvelopesApart, Active
            <3>3. r \notin ready \cup unacked
                  BY <2>1 DEF TypeInv, ReferencesInserted
            <3>4. \A d \in Clients \ {c} : cpc[d] = "committed" => crun[d] # r
                  BY <2>1 DEF TypeInv, ReferencesInserted
            <3> QED BY <2>1, <3>2, <3>3, <3>4 DEF StrandInv, EnvelopesApart
      <2>3. ActiveHasEnvelope'
            <3>0. \A s \in Visible' : s # r => s \in Visible
                  BY <2>1 DEF Visible
            <3>1. cpc[c] # "committed"
                  BY <1>3 DEF InsertRun
            <3> QED BY <2>1, <3>0, <3>1 DEF StrandInv, ActiveHasEnvelope, Active, Visible
      <2> QED BY <2>2, <2>3 DEF StrandInv
<1>4. ASSUME NEW c \in Clients, NEW sent \in BOOLEAN, EnqueueRun(c, sent) PROVE StrandInv'
      <2>1. /\ UNCHANGED <<runStatus, unacked, wpc, wrun>>
            /\ cpc[c] = "committed" /\ ready' = ready \cup {crun[c]}
            /\ cpc'[c] = "idle"
            /\ \A d \in Clients \ {c} : cpc'[d] = cpc[d] /\ crun'[d] = crun[d]
            BY <1>4 DEF EnqueueRun, TypeInv, TypeOK
      <2>2. EnvelopesApart'
            <3>1. \A w \in Workers : wpc[w] # "idle" => wrun[w] # crun[c]
                  BY <2>1 DEF StrandInv, EnvelopesApart
            <3>2. \A d \in Clients \ {c} : cpc[d] = "committed" => crun[d] # crun[c]
                  BY <2>1 DEF StrandInv, EnvelopesApart
            <3> QED BY <2>1, <3>1, <3>2 DEF StrandInv, EnvelopesApart, Active
      <2>3. ActiveHasEnvelope'
            BY <2>1 DEF StrandInv, ActiveHasEnvelope, Active, Visible
      <2> QED BY <2>2, <2>3 DEF StrandInv
<1>5. ASSUME NEW w \in Workers, NEW r \in RunIds, Deliver(w, r) PROVE StrandInv'
      <2>1. /\ UNCHANGED <<runStatus, cpc, crun>>
            /\ wpc[w] = "idle" /\ r \in ready /\ ready' = ready \ {r} /\ unacked' = unacked \cup {r}
            /\ wpc'[w] = "acquire" /\ wrun'[w] = r
            /\ \A v \in Workers \ {w} : wpc'[v] = wpc[v] /\ wrun'[v] = wrun[v]
            BY <1>5 DEF Deliver, TypeInv, TypeOK
      <2>2. EnvelopesApart'
            BY <2>1 DEF StrandInv, EnvelopesApart, Active
      <2>3. ActiveHasEnvelope'
            BY <2>1 DEF StrandInv, ActiveHasEnvelope, Active, Visible
      <2> QED BY <2>2, <2>3 DEF StrandInv
<1>6. ASSUME NEW w \in Workers,
             \/ AcquireLock(w) \/ LockConflict(w) \/ CreateInvocation(w)
             \/ SessionKeyTaken(w) \/ HandlerRaises(w) \/ ReleaseLock(w)
      PROVE  StrandInv'
      <2>1. UNCHANGED <<runStatus, ready, unacked, cpc, crun, wrun>>
            BY <1>6 DEF AcquireLock, LockConflict, CreateInvocation, SessionKeyTaken,
               HandlerRaises, ReleaseLock
      <2>2. \A v \in Workers : /\ wpc'[v] # "idle" => wpc[v] # "idle"
                               /\ wpc'[v] \in {"release", "ack"} => wpc[v] \in {"release", "ack"}
            BY <1>6 DEF AcquireLock, LockConflict, CreateInvocation, SessionKeyTaken,
               HandlerRaises, ReleaseLock, TypeInv, TypeOK
      <2>3. ActiveRuns' = ActiveRuns /\ \A r : Active(r)' <=> Active(r)
            BY <2>1 DEF ActiveRuns, Visible, Active
      <2>4. \A v \in Workers : wpc'[v] \in {"release", "ack"} => ~ Active(wrun[v])'
            BY <2>1, <2>2 DEF StrandInv, EnvelopesApart, Active
      <2> QED BY <2>1, <2>2, <2>3, <2>4, Deactivate
<1>7. ASSUME NEW w \in Workers, wpc[w] # "idle", wrun[w] \in RunIds,
             NEW status \in {"running"} \cup Finished, NEW place,
             runStatus' = [runStatus EXCEPT ![wrun[w]] = status],
             wpc' = [wpc EXCEPT ![w] = place],
             place \in {"release", "ack"} => status \in Finished,
             UNCHANGED <<ready, unacked, cpc, crun, wrun>>
      PROVE  StrandInv'
      <2>1. /\ \A v \in Workers \ {w} : wpc'[v] = wpc[v]
            /\ wpc'[w] = place
            /\ \A s \in RunIds \ {wrun[w]} : runStatus'[s] = runStatus[s]
            /\ runStatus'[wrun[w]] = status
            BY <1>7 DEF TypeInv, TypeOK
      <2>2. \A v \in Workers \ {w} : wpc[v] # "idle" => wrun[v] \in RunIds \ {wrun[w]}
            BY <1>7 DEF StrandInv, EnvelopesApart, TypeInv, ReferencesInserted, Inserted
      <2>3. \A v \in Workers : wpc'[v] \in {"release", "ack"} => ~ Active(wrun[v])'
            BY <1>7, <2>1, <2>2 DEF StrandInv, EnvelopesApart, Active, Finished
      <2>4. EnvelopesApart'
            BY <1>7, <2>1, <2>3 DEF StrandInv, EnvelopesApart
      <2>5. wrun[w] \in unacked
            BY <1>7 DEF StrandInv, EnvelopesApart
      <2>6. ActiveHasEnvelope'
            BY <1>7, <2>1, <2>5 DEF StrandInv, ActiveHasEnvelope, Active, Visible
      <2> QED BY <2>4, <2>6 DEF StrandInv
<1>8. ASSUME NEW w \in Workers, wpc[w] # "idle"
      PROVE  wrun[w] \in Visible
      BY <1>8 DEF TypeInv, ReferencesInserted, Inserted, NoBatch, Visible
<1>9. ASSUME NEW w \in Workers,
             \/ FailConflict(w) \/ RecordException(w) \/ ClaimTask(w)
             \/ \E outcome \in Finished : FinishTask(w, outcome)
      PROVE  StrandInv'
      <2>1. wpc[w] # "idle"
            BY <1>9 DEF FailConflict, RecordException, ClaimTask, FinishTask
      <2>2. wrun[w] \in Visible /\ wrun[w] \in RunIds
            BY <1>8, <2>1 DEF Visible
      <2> QED BY <1>7, <1>9, <2>1, <2>2
              DEF FailConflict, RecordException, ClaimTask, FinishTask, Fail, Finished
<1>10. ASSUME NEW w \in Workers, ClaimRaises(w) PROVE StrandInv'
      <2>1. /\ UNCHANGED <<runStatus, request, ready, unacked, cpc, crun, wrun>>
            /\ wpc[w] = "claim" /\ ~ Claimable(wrun[w])
            /\ \A v \in Workers \ {w} : wpc'[v] = wpc[v]
            BY <1>10 DEF ClaimRaises, TypeInv, TypeOK
      <2>2. wrun[w] \in Visible
            BY <1>8, <2>1
      <2>3. ~ Active(wrun[w])
            <3>1. PICK s \in RunsOf(request[wrun[w]].ws, request[wrun[w]].type) \ {wrun[w]} :
                    Active(s) /\ request[wrun[w]].type \in AgentTypes
                  BY <2>1, <2>2 DEF Claimable, IndexAllows
            <3> QED BY <2>2, <3>1 DEF UniqueInv, ActiveRunUnique, RunsOf
      <2>4. ActiveRuns' = ActiveRuns /\ \A r : Active(r)' <=> Active(r)
            BY <2>1 DEF ActiveRuns, Visible, Active
      <2>5. \A v \in Workers : wpc'[v] \in {"release", "ack"} => ~ Active(wrun[v])'
            BY <2>1, <2>3 DEF StrandInv, EnvelopesApart, Active
      <2>6. \A v \in Workers : wpc'[v] # "idle" => wpc[v] # "idle"
            BY <2>1
      <2> QED BY <2>1, <2>4, <2>5, <2>6, Deactivate
<1>11. ASSUME NEW w \in Workers, Acknowledge(w) PROVE StrandInv'
      <2>1. /\ UNCHANGED <<runStatus, ready, cpc, crun>>
            /\ wpc[w] = "ack" /\ unacked' = unacked \ {wrun[w]} /\ wpc'[w] = "idle"
            /\ \A v \in Workers \ {w} : wpc'[v] = wpc[v] /\ wrun'[v] = wrun[v]
            BY <1>11 DEF Acknowledge, Leave, TypeInv, TypeOK
      <2>2. EnvelopesApart'
            BY <2>1 DEF StrandInv, EnvelopesApart, Active
      <2>3. ~ Active(wrun[w])
            BY <2>1 DEF StrandInv, EnvelopesApart
      <2>4. ActiveHasEnvelope'
            BY <2>1, <2>3 DEF StrandInv, ActiveHasEnvelope, Active, Visible
      <2> QED BY <2>2, <2>4 DEF StrandInv
<1>12. ASSUME NEW w \in Workers, Crash(w) PROVE StrandInv'
      <2>1. /\ UNCHANGED <<runStatus, ready, unacked, cpc, crun>> /\ wpc'[w] = "idle"
            /\ \A v \in Workers \ {w} : wpc'[v] = wpc[v] /\ wrun'[v] = wrun[v]
            BY <1>12 DEF Crash, Leave, TypeInv, TypeOK
      <2>2. EnvelopesApart'
            BY <2>1 DEF StrandInv, EnvelopesApart, Active
      <2>3. ActiveHasEnvelope'
            BY <2>1 DEF StrandInv, ActiveHasEnvelope, Active, Visible
      <2> QED BY <2>2, <2>3 DEF StrandInv
<1>13. ASSUME NEW w \in Workers, LoseChild(w) PROVE FALSE
      BY <1>13 DEF LoseChild, TypeInv, TypeOK
<1>14. ASSUME NEW r \in RunIds, Redeliver(r) PROVE StrandInv'
      <2>1. /\ UNCHANGED <<runStatus, cpc, crun, wpc, wrun>>
            /\ r \in unacked /\ unacked' = unacked \ {r} /\ ready' = ready \cup {r}
            /\ \A w \in Workers : wrun[w] # r
            BY <1>14 DEF Redeliver, TaskAlive
      <2>2. EnvelopesApart'
            BY <2>1 DEF StrandInv, EnvelopesApart, Active
      <2>3. ActiveHasEnvelope'
            BY <2>1 DEF StrandInv, ActiveHasEnvelope, Active, Visible
      <2> QED BY <2>2, <2>3 DEF StrandInv
<1>15. ASSUME NEW c \in Clients,
              \/ BatchCommit(c) \/ BatchAbort(c)
              \/ \E r \in RunIds, q \in Requests, sent \in BOOLEAN : BatchAdd(c, r, q, sent)
       PROVE  FALSE
      BY <1>15 DEF BatchCommit, BatchAbort, BatchEnd, BatchAdd, NoBatch
<1> QED
  BY <1>1, <1>2, <1>3, <1>4, <1>5, <1>6, <1>9, <1>10, <1>11, <1>12, <1>13, <1>14, <1>15
     DEF Next, vars, ClientStep, ClientCall, WorkerStep, ExpireLock

\* While no task outlives its timeouts, no send fails, no prefork child dies
\* and nobody calls batch_analyze, an active run has an envelope somewhere,
\* through any deaths of workers, redeliveries and cancellations.
THEOREM ActiveHasEnvelopeHolds ==
  ASSUME ~ TasksMayOverrun, ~ EnqueueMayFail, BatchClients = {}, MaxLosses = 0
  PROVE  Spec => []ActiveHasEnvelope
<1>1. Init => TypeInv /\ NoBatch /\ UniqueInv /\ StrandInv
      BY TypeInit, NoBatchInit, UniqueInit, StrandInit
<1>2. TypeInv /\ NoBatch /\ UniqueInv /\ StrandInv /\ [Next]_vars
        => (TypeInv /\ NoBatch /\ UniqueInv /\ StrandInv)'
      BY TypeStep, NoBatchStep, UniqueStep, StrandStep
<1>3. StrandInv => ActiveHasEnvelope
      BY DEF StrandInv
<1> QED BY <1>1, <1>2, <1>3, PTL DEF Spec

-----------------------------------------------------------------------------
(* Refinement.  RunExecution implements RunLifecycle when nobody cancels a *)
(* run and nobody calls batch_analyze: every step of the queue, the locks  *)
(* and the workers is a step of the run's life or changes nothing the API  *)
(* shows.                                                                  *)

\* Nothing is cancelled, and no worker in its handler has a run that is still
\* queued: a run leaves "queued" for good.
NeverCancelled ==
  /\ cancels = 0
  /\ \A c \in Clients : cpc[c] # "cancelling"
  /\ \A r \in RunIds : runStatus[r] # "cancelled"
  /\ \A w \in Workers : wpc[w] \in Executing => runStatus[wrun[w]] # "queued"

Busy(w) == wpc[w] # "idle"
Sending(c) == cpc[c] = "committed"

\* Until the broker delivers an envelope twice, a run's one envelope is with
\* the request that sends it, in the queue or with one worker, and the run's
\* status says how far it has come.
OneEnvelope ==
  redeliveries = 0 =>
    /\ \A r \in ready :
         /\ runStatus[r] = "queued"
         /\ \A c \in Clients : Sending(c) => crun[c] # r
         /\ \A w \in Workers : Busy(w) => wrun[w] # r
    /\ \A c \in Clients : Sending(c) =>
         /\ runStatus[crun[c]] = "queued"
         /\ \A d \in Clients : Sending(d) /\ crun[d] = crun[c] => d = c
         /\ \A w \in Workers : Busy(w) => wrun[w] # crun[c]
    /\ \A v, w \in Workers : Busy(v) /\ Busy(w) /\ wrun[v] = wrun[w] => v = w
    /\ \A w \in Workers :
         /\ wpc[w] \in {"acquire", "conflict", "claim"} => runStatus[wrun[w]] = "queued"
         /\ wpc[w] \in Executing => runStatus[wrun[w]] = "running"

EnvelopeInv == NeverCancelled /\ OneEnvelope

LEMMA EnvelopeInit == Init => EnvelopeInv
BY DEF Init, EnvelopeInv, NeverCancelled, OneEnvelope, Busy, Sending, Executing

LEMMA EnvelopeStep ==
  ASSUME MaxCancels = 0, BatchClients = {}, TypeInv, NoBatch, EnvelopeInv, [Next]_vars
  PROVE  EnvelopeInv'
<1> USE DEF rows, broker, clients, workers, faults, goto, EnvelopeInv, NeverCancelled,
            OneEnvelope, Busy, Sending, Executing, TypeInv, TypeOK, ReferencesInserted,
            Inserted
<1>1. CASE UNCHANGED vars
      BY <1>1 DEF vars
<1>2. ASSUME NEW c \in Clients, NEW q \in Requests, CountQuota(c, q) PROVE EnvelopeInv'
      BY <1>2 DEF CountQuota
<1>3. ASSUME NEW c \in Clients, NEW r \in RunIds, InsertRun(c, r) PROVE EnvelopeInv'
      BY <1>3 DEF InsertRun
<1>4. ASSUME NEW c \in Clients, RejectRun(c) PROVE EnvelopeInv'
      BY <1>4 DEF RejectRun
<1>5. ASSUME NEW c \in Clients, NEW sent \in BOOLEAN, EnqueueRun(c, sent) PROVE EnvelopeInv'
      BY <1>5 DEF EnqueueRun
<1>6. ASSUME NEW c \in Clients, NEW r \in RunIds, NEW q \in Requests,
             NEW sent \in BOOLEAN, BatchAdd(c, r, q, sent)
      PROVE  FALSE
      BY <1>6 DEF BatchAdd
<1>7. ASSUME NEW c \in Clients, BatchCommit(c) \/ BatchAbort(c) PROVE FALSE
      BY <1>7 DEF BatchCommit, BatchAbort, BatchEnd, NoBatch
<1>8. ASSUME NEW c \in Clients, NEW r \in RunIds, CancelRead(c, r) PROVE FALSE
      BY <1>8 DEF CancelRead
<1>9. ASSUME NEW c \in Clients, CancelWrite(c) PROVE FALSE
      BY <1>9 DEF CancelWrite
<1>10. ASSUME NEW w \in Workers, NEW r \in RunIds, Deliver(w, r) PROVE EnvelopeInv'
      BY <1>10 DEF Deliver
<1>11. ASSUME NEW w \in Workers, AcquireLock(w) PROVE EnvelopeInv'
      BY <1>11 DEF AcquireLock
<1>12. ASSUME NEW w \in Workers, LockConflict(w) PROVE EnvelopeInv'
      BY <1>12 DEF LockConflict
<1>13. ASSUME NEW w \in Workers, FailConflict(w) PROVE EnvelopeInv'
      BY <1>13 DEF FailConflict, Fail
<1>14. ASSUME NEW w \in Workers, ClaimTask(w) PROVE EnvelopeInv'
      BY <1>14 DEF ClaimTask
<1>15. ASSUME NEW w \in Workers, ClaimRaises(w) PROVE EnvelopeInv'
      BY <1>15 DEF ClaimRaises
<1>16. ASSUME NEW w \in Workers, CreateInvocation(w) PROVE EnvelopeInv'
      BY <1>16 DEF CreateInvocation
<1>17. ASSUME NEW w \in Workers, SessionKeyTaken(w) PROVE EnvelopeInv'
      BY <1>17 DEF SessionKeyTaken
<1>18. ASSUME NEW w \in Workers, HandlerRaises(w) PROVE EnvelopeInv'
      BY <1>18 DEF HandlerRaises
<1>19. ASSUME NEW w \in Workers, NEW outcome \in Finished, FinishTask(w, outcome)
       PROVE  EnvelopeInv'
      BY <1>19 DEF FinishTask, Finished, Outcomes
<1>20. ASSUME NEW w \in Workers, RecordException(w) PROVE EnvelopeInv'
      BY <1>20 DEF RecordException, Fail
<1>21. ASSUME NEW w \in Workers, ReleaseLock(w) PROVE EnvelopeInv'
      BY <1>21 DEF ReleaseLock
<1>22. ASSUME NEW w \in Workers, Acknowledge(w) \/ Crash(w) \/ LoseChild(w)
       PROVE  EnvelopeInv'
  <2>1. CASE Acknowledge(w)
        BY <2>1 DEF Acknowledge, Leave
  <2>2. CASE Crash(w)
        BY <2>2 DEF Crash, Leave
  <2>3. CASE LoseChild(w)
        BY <2>3 DEF LoseChild, Leave
  <2> QED BY ONLY <1>22, <2>1, <2>2, <2>3
<1>23. ASSUME NEW r \in RunIds, Redeliver(r) PROVE EnvelopeInv'
      BY <1>23 DEF Redeliver
<1>24. ASSUME NEW k \in Keys, ExpireLock(k) PROVE EnvelopeInv'
      BY <1>24 DEF ExpireLock
<1> HIDE DEF rows, broker, clients, workers, faults, goto, EnvelopeInv, NeverCancelled,
             OneEnvelope, Busy, Sending, Executing, TypeInv, TypeOK, ReferencesInserted,
             Inserted
<1> QED
  BY <1>1, <1>2, <1>3, <1>4, <1>5, <1>6, <1>7, <1>8, <1>9, <1>10, <1>11, <1>12,
     <1>13, <1>14, <1>15, <1>16, <1>17, <1>18, <1>19, <1>20, <1>21, <1>22, <1>23, <1>24
     DEF Next, ClientStep, ClientCall, WorkerStep

-----------------------------------------------------------------------------
(* The refinement *)

\* What holds in every reachable state.
RefineInv == TypeInv /\ NoBatch /\ QuotaInv /\ EnvelopeInv

\* Without open batches the API shows every row as it is.
LEMMA ShownIsStatus ==
  ASSUME TypeInv, NoBatch
  PROVE  Shown = runStatus
BY DEF Shown, Visible, NoBatch, TypeInv, TypeOK, Statuses

\* The abstract count and uniqueness are the ones the code computes.
LEMMA SameRuns ==
  ASSUME TypeInv, NoBatch, NEW q
  PROVE  Lifecycle!RunsLike(q) = RunsOf(q.ws, q.type)
<1>1. Lifecycle!Created = Visible
      BY ShownIsStatus DEF Lifecycle!Created, Visible, NoBatch, Statuses
<1> QED BY <1>1 DEF Lifecycle!RunsLike, RunsOf

LEMMA SameIndex ==
  ASSUME TypeInv, NoBatch, NEW r, NEW q, IndexAllows(r, q)
  PROVE  Lifecycle!FreeFor(r, q)
BY SameRuns, ShownIsStatus DEF Lifecycle!FreeFor, IndexAllows, Active

LEMMA SameCardinality ==
  ASSUME NEW S
  PROVE  Lifecycle!Cardinality(S) = Cardinality(S)
BY DEF Lifecycle!Cardinality, Cardinality

LEMMA RefineInit == Init => Lifecycle!Init
BY DEF Init, Lifecycle!Init, Shown, Visible, Statuses

LEMMA RefineStep ==
  ASSUME RefineInv, RefineInv', [Next]_vars
  PROVE  [Lifecycle!Next]_Lifecycle!vars
<1>0. Shown = runStatus /\ Shown' = runStatus'
      <2>1. Shown = runStatus
            BY ShownIsStatus DEF RefineInv
      <2>2. Shown' = runStatus'
            BY DEF Shown, Visible, NoBatch, TypeInv, TypeOK, Statuses, RefineInv
      <2> QED BY <2>1, <2>2
<1> USE <1>0 DEF rows, broker, clients, workers, faults
<1>1. CASE UNCHANGED <<runStatus, request, redeliveries>>
      BY <1>1 DEF Lifecycle!vars
<1>2. ASSUME NEW c \in Clients, NEW r \in RunIds, InsertRun(c, r)
      PROVE  Lifecycle!Next
      <2>1. PICK q \in Requests : q = creq[c]
            BY <1>2 DEF InsertRun, RefineInv, TypeInv, ReferencesInserted
      <2>2. Lifecycle!Cardinality(Lifecycle!RunsLike(q)) < MonthlyLimit[q.type]
            BY <1>2, <2>1, SameRuns, SameCardinality
               DEF InsertRun, RefineInv, QuotaInv, CountsHold, QuotaLeft, MonthCount
      <2>3. Lifecycle!FreeFor(r, q)
            BY <1>2, <2>1, SameIndex DEF InsertRun, RefineInv
      <2>4. Lifecycle!Create(r, q)
            BY <1>2, <2>1, <2>2, <2>3
               DEF InsertRun, Lifecycle!Create, Lifecycle!Created, Lifecycle!become
      <2> QED BY <2>4 DEF Lifecycle!Next
<1>3. ASSUME NEW r \in RunIds, NEW s \in Lifecycle!Outcomes,
             runStatus[r] = "running" \/ (runStatus[r] = "queued" /\ s = "failed")
                \/ (redeliveries > 0 /\ runStatus[r] \in Lifecycle!Outcomes),
             runStatus' = [runStatus EXCEPT ![r] = s],
             UNCHANGED <<request, redeliveries>>
      PROVE  Lifecycle!Next
      <2>1. Lifecycle!Finish(r, s) \/ Lifecycle!Repeat(r, s)
            BY <1>3 DEF Lifecycle!Finish, Lifecycle!Repeat, Lifecycle!become,
               Lifecycle!Outcomes
      <2> QED BY <2>1 DEF Lifecycle!Next
<1>4. ASSUME NEW w \in Workers, wpc[w] # "idle"
      PROVE  /\ wrun[w] \in RunIds
             /\ runStatus[wrun[w]] \in {"queued", "running"} \cup Lifecycle!Outcomes
      BY <1>4 DEF RefineInv, EnvelopeInv, NeverCancelled, NoBatch, TypeInv, TypeOK,
         ReferencesInserted, Inserted, Lifecycle!Outcomes, Statuses
<1>5. ASSUME NEW w \in Workers, wpc[w] = "conflict", Fail(wrun[w], "WORKSPACE_LOCK_CONFLICT"),
             UNCHANGED redeliveries
      PROVE  Lifecycle!Next
      <2>1. redeliveries = 0 => runStatus[wrun[w]] = "queued"
            BY <1>5 DEF RefineInv, EnvelopeInv, OneEnvelope
      <2>2. redeliveries \in Nat
            BY DEF RefineInv, TypeInv, TypeOK
      <2>3. "failed" \in Lifecycle!Outcomes
            BY DEF Lifecycle!Outcomes
      <2>4. /\ runStatus' = [runStatus EXCEPT ![wrun[w]] = "failed"]
            /\ UNCHANGED <<request, redeliveries>>
            BY <1>5 DEF Fail
      <2>5. /\ wrun[w] \in RunIds
            /\ \/ runStatus[wrun[w]] \in {"running", "queued"}
               \/ redeliveries > 0 /\ runStatus[wrun[w]] \in Lifecycle!Outcomes
            BY <1>4, <1>5, <2>1, <2>2 DEF Lifecycle!Outcomes
      <2> QED BY <1>3, <2>3, <2>4, <2>5
<1>6. ASSUME NEW w \in Workers, FailConflict(w) PROVE [Lifecycle!Next]_Lifecycle!vars
      BY <1>5, <1>6 DEF FailConflict, Lifecycle!vars
<1>7. ASSUME NEW w \in Workers, wpc[w] \in Executing
      PROVE  \/ runStatus[wrun[w]] = "running"
             \/ redeliveries > 0 /\ runStatus[wrun[w]] \in Lifecycle!Outcomes
      <2>1. redeliveries = 0 => runStatus[wrun[w]] = "running"
            BY <1>7 DEF RefineInv, EnvelopeInv, OneEnvelope
      <2>2. redeliveries \in Nat /\ runStatus[wrun[w]] # "queued" /\ wpc[w] # "idle"
            BY <1>7 DEF RefineInv, EnvelopeInv, NeverCancelled, TypeInv, TypeOK, Executing
      <2> QED BY <1>4, <2>1, <2>2
<1>8. ASSUME NEW w \in Workers, RecordException(w) PROVE Lifecycle!Next
      <2>1. wpc[w] \in Executing /\ wpc[w] # "idle"
            BY <1>8 DEF RecordException, Executing
      <2> QED BY <1>3, <1>4, <1>7, <1>8, <2>1
              DEF RecordException, Fail, Lifecycle!Outcomes
<1>9. ASSUME NEW w \in Workers, NEW outcome \in Finished, FinishTask(w, outcome)
      PROVE  Lifecycle!Next
      <2>1. wpc[w] \in Executing /\ wpc[w] # "idle"
            BY <1>9 DEF FinishTask, Executing
      <2>2. outcome \in Lifecycle!Outcomes
            BY <1>9 DEF FinishTask, Outcomes, Lifecycle!Outcomes
      <2> QED BY <1>3, <1>4, <1>7, <1>9, <2>1, <2>2 DEF FinishTask
<1>10. ASSUME NEW w \in Workers, ClaimTask(w) PROVE [Lifecycle!Next]_Lifecycle!vars
      <2> DEFINE r == wrun[w]
      <2>1. r \in RunIds /\ runStatus[r] \in {"queued", "running"} \cup Lifecycle!Outcomes
            BY <1>4, <1>10 DEF ClaimTask
      <2>2. CASE runStatus[r] = "queued"
            BY <1>10, <2>1, <2>2
               DEF ClaimTask, Lifecycle!Next, Lifecycle!Start, Lifecycle!become
      <2>3. CASE runStatus[r] = "running"
            BY <1>10, <2>1, <2>3
               DEF ClaimTask, Lifecycle!vars, RefineInv, TypeInv, TypeOK
      <2>4. CASE runStatus[r] \in Lifecycle!Outcomes
            <3>1. redeliveries > 0
                  BY <1>10, <2>4 DEF ClaimTask, RefineInv, EnvelopeInv, OneEnvelope,
                     TypeInv, TypeOK, Lifecycle!Outcomes
            <3>2. Lifecycle!FreeFor(r, request[r])
                  BY <1>10, SameIndex DEF ClaimTask, Claimable, RefineInv
            <3>3. Lifecycle!Repeat(r, "running")
                  BY <1>10, <2>4, <3>1, <3>2
                     DEF ClaimTask, Lifecycle!Repeat, Lifecycle!become
            <3> QED BY <2>1, <3>3 DEF Lifecycle!Next
      <2> QED BY <2>1, <2>2, <2>3, <2>4
<1>11. ASSUME NEW r \in RunIds, Redeliver(r) PROVE Lifecycle!Next
      BY <1>11 DEF Redeliver, Lifecycle!Next, Lifecycle!Duplicate, RefineInv, TypeInv, TypeOK
<1>12. ASSUME NEW c \in Clients,
              \/ BatchCommit(c) \/ BatchAbort(c) \/ CancelWrite(c)
       PROVE  FALSE
      BY <1>12 DEF BatchCommit, BatchAbort, BatchEnd, CancelWrite, RefineInv, NoBatch,
         EnvelopeInv, NeverCancelled
<1>13. ASSUME NEW c \in Clients, NEW r \in RunIds, NEW q \in Requests,
              NEW sent \in BOOLEAN, BatchAdd(c, r, q, sent)
       PROVE  FALSE
      <2>1. cpc'[c] = "batching"
            BY <1>13 DEF BatchAdd, RefineInv, TypeInv, TypeOK
      <2> QED BY <2>1 DEF RefineInv, NoBatch
<1> QED
  BY <1>1, <1>2, <1>6, <1>8, <1>9, <1>10, <1>11, <1>12, <1>13
     DEF Next, vars, ClientStep, ClientCall, WorkerStep, CountQuota, RejectRun,
         EnqueueRun, CancelRead, Deliver, AcquireLock, LockConflict, ClaimRaises,
         CreateInvocation, SessionKeyTaken, HandlerRaises, ReleaseLock, Acknowledge,
         Crash, LoseChild, ExpireLock

\* Without cancellations and batches, the queue, the locks and the workers,
\* with their deaths and repeated deliveries, implement the life of a run that
\* RunLifecycle describes.
THEOREM ImplementsLifecycleHolds ==
  ASSUME IsFiniteSet(RunIds), BatchClients = {}, MaxCancels = 0
  PROVE  Spec => ImplementsLifecycle
<1>1. Init => RefineInv
      BY TypeInit, NoBatchInit, QuotaInit, EnvelopeInit DEF RefineInv
<1>2. RefineInv /\ [Next]_vars => RefineInv'
      BY TypeStep, NoBatchStep, QuotaStep, EnvelopeStep DEF RefineInv
<1>3. RefineInv /\ RefineInv' /\ [Next]_vars => [Lifecycle!Next]_Lifecycle!vars
      BY RefineStep
<1> QED BY <1>1, <1>2, <1>3, RefineInit, PTL DEF Spec, ImplementsLifecycle, Lifecycle!Spec
=============================================================================
