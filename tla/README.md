# Career OpenClaw: specifications and proofs

TLA+ models of the parts of this repository where several processes share
state, with TLC runs that check them on small instances and TLAPS proofs for
every value of the constants. Paths below are relative to the repository.

| model | what it is | TLC instance | proofs |
| --- | --- | --- | --- |
| `RunExecution` | creation, queue, locks, workers and faults of a run | `MCRunExecution`, `MCRuns*.cfg` | `RunExecutionProofs` |
| `RunLifecycle` | what the API promises about a run; `RunExecution` refines it | same | `RunExecutionProofs` |
| `ApplicationTracker` | applications, to-dos, timeline, frozen totals | `MCApplicationTracker`, `MCTracker.cfg` | `ApplicationTrackerProofs` |
| `ReportStore` | job reports, fit reports, their caches and chained runs | `MCReportStore`, `MCReports.cfg` | `ReportStoreProofs` |
| `SearchRun` | a discovery run: the agent's sessions and ledger, the gate, the transaction that stores jobs | `MCSearchRun`, `MCSearch.cfg` | `TaskProofs` |
| `JobCatalogue` | everyone who writes the table of jobs | `MCJobCatalogue`, `MCCatalogue.cfg` | `JobCatalogueProofs` |
| `PageFetch` | how a posting's text is read from the web; used by `JobCatalogue` | same | same |
| `Planner` | the daily rules, the user beside them, the counts of the week | `MCPlanner`, `MCPlanner.cfg` | `PlannerProofs` |
| `WorkspaceState` | first login, profiles, planner settings, search strategy | `MCWorkspaceState`, `MCWorkspace.cfg` | `WorkspaceStateProofs` |
| `ResumeTailor` | the tailoring pipeline against any answer of its models | `MCResumeTailor`, `MCResume*.cfg` | `TaskProofs` |
| `RunTracker` | the web client's view of runs in progress | `MCRunTracker`, `MCClient.cfg` | `RunTrackerProofs` |

`PROJECT.json` maps each definition to the lines it models, each hazard to the
properties that cover it, and each property to a faulty variant of the code
that breaks it (the operators named `...Mutant`).

```
tlc -config MCRunsCrash.cfg MCRunExecution.tla
tlapm RunExecutionProofs.tla
```

## 1. The system

A FastAPI service (`apps/api`), Celery workers (`apps/worker`) and a Celery
beat share a Postgres database and Redis (broker, locks, rate limits). A
Next.js client (`apps/web`) calls the API and polls runs.

| component | state it keeps | operations | what is hard | correct when | status |
| --- | --- | --- | --- | --- | --- |
| run execution (`routes/runs.py`, `routes/jobs.py`, `tasks/execute_task.py`, `redis/locks.py`) | `runs`, `tasks`, `agent_invocations`; broker queue; Redis locks | create, batch, cancel, deliver, lock, claim, finish, acknowledge | two requests counting one quota; cancel against claim; worker death; redelivery; a lock that lapses | one active agent run per workspace and type; quota; runs end | `RunExecution`, partly |
| application tracker (`routes/applications.py`, `repositories.py`, `transitions.py`, `weekly_review_service.py`) | `job_applications`, `application_actions`, `application_events`, `planner_day_logs`, `planner_reviews` | create, update, delete, transition, complete, reopen, snooze, dismiss, close the day, weekly review | handlers act on rows read before another commit; totals that never recompute | the timeline tells the history; to-dos follow their application; stored totals stay true | `ApplicationTracker`, partly |
| report store (`job_report_service.py`, `fit_report_service.py`, their tasks) | `job_reports`, `fit_reports`, the runs that write them | create, reuse, supersede, chain a fit report | the lock is per workspace, the report per job; four commits per task; profile and JD change meanwhile | one active version; it is never missing; the asked profile is scored; what is returned is what is shown | `ReportStore`, partly |
| search pipeline (`search_run.py`, `tool_ledger.py`, `validator.py`, `agent_tools`) | invocation, the run's files, verdicts, discovered jobs | invoke, continue, gate, persist | a session nobody waits for any more writes beside its successor; the pool is read twice; one transaction for all candidates | what is stored was vouched for; the run ends | `SearchRun`, partly |
| job import, boards, research (`job_ingest_service.py`, `search_run.py`, `research_run.py`, `company_source`) | `jobs`, `dead_urls`, `company_sources`, import runs, idempotency keys | import by URL or text, sync, register, research, archive | several commits around the network; unique keys left by a dead import; a look-up long before its insert | an import's run tells what came of it; nobody overwrites what another stored | `JobCatalogue`; research partly |
| page fetching (`jd_fetch/service.py`) | none | eleven tiers tried in order | a page of prose that passes every check and is not the posting | prose around an embed is stored only when the site answers 403 | `PageFetch` |
| planner (`domain/planner`, `planner_run.py`) | auto-generated to-dos | five daily rules, week strip, weekly statistics | idempotence only against rows read; days, weeks and windows that meet at a boundary | no duplicate; settled stays settled; every interview is thanked for; nothing counted twice | `Planner`, partly |
| first login, profiles, settings, strategy (`auth.py`, `routes/profile.py`, `routes/applications.py`, `reflect_run.py`) | users, workspaces, `candidate_profiles`, two JSON documents | provision, create, edit, delete, save, reflect | check-then-act; whole documents written over stale reads | one workspace; a profile left; no lost save or learning | `WorkspaceState`, partly |
| resume tailoring (`resume_tailor.py`) | the run's artifact | nine steps of a model, assembly, audit, one repair | any answer of the model; a repair that changes what the audit spoke of | a passing audit is true of the draft; no bullet is lost unreported | `ResumeTailor`, partly |
| rate limiter and cache (`redis/cache.py`) | Redis counters | `INCR`, `EXPIRE` | one race | | not modelled: `check_rate_limit` has no caller |
| run tracker of the client (`runTracker.ts`, `useTrackedRun.ts`, `RunToasts.tsx`, `FitButton.tsx`, `JobActions.tsx`) | a store in module scope, its timers, `sessionStorage` | start, poll, settle, forget, restore, sign in and out, reload | polls in flight while the slot or the account changes; a page that dies | a run's end is announced once; no button spins for ever | `RunTracker` |
| pages of the client, administration, reading endpoints, model clients, rendering, migrations, tools | logs, rows of users | queries, single-row updates, external services, one-shot operations | | | not modelled |

Interaction: a route commits rows and then sends an envelope; the worker
finds the rows by the ids in the envelope. Job reports chain fit reports;
searches, imports, board syncs and research share the table of jobs;
reflections share the strategy document, which searches read; the beat reads
applications and writes to-dos and reviews beside the API's own requests. The
modules meet at these tables: what is one step of a run in `RunExecution` is
the subject of `SearchRun`, `ReportStore` or `ResumeTailor`; what another
writer does to a shared table is there as an action of its own (`RivalStores`
in `SearchRun`, `Rivals` in `ReportStore`). `RunTracker` is the other end of
`RunExecution`: it sees a run's status through `GET /runs/{id}` only.

## 2. Run execution (`RunExecution.tla`)

A run has one task, so both go by the run's id.

| in the model | in the code |
| --- | --- |
| `runStatus`, `taskStatus`, `errorCode`, `request` | rows of `runs` and `tasks`; `uncommitted` inside batch_analyze's transaction |
| `rowLock`, `RowLockFree` | `workspaces ... FOR UPDATE`, and the key-share lock that inserting a run takes |
| `lock`, `LockKey` | `lock:workspace:<ws>:<type>[:<job>]` with a 1800 s TTL |
| `invoked` | `agent_invocations.session_key`, unique |
| `ready`, `unacked` | the queue, with `task_acks_late` |
| `CountQuota`, `InsertRun`, `RejectRun`, `EnqueueRun` | `create_run`: count under the row lock, insert against the partial unique index, commit, send |
| `BatchAdd`, `BatchCommit`, `BatchAbort` | `batch_analyze`: flush and send per job, one commit at the end |
| `CancelRead`, `CancelWrite` | `cancel_run`, whose UPDATE ignores what happened since its read |
| `Deliver` ... `Acknowledge` | `execute_task`, cut at each transaction, Redis command and broker operation |
| `Crash`, `LoseChild`, `Redeliver`, `ExpireLock` | worker death, prefork child death, visibility timeout, TTL |

Worth knowing before changing this code:

- A task that finds the lock held **fails** (`WORKSPACE_LOCK_CONFLICT`); it is
  not retried. After a worker's death its own lock can do that to the
  redelivered task.
- `MutualExclusion` holds only while no task outlives the TTL. Release deletes
  the key whoever owns it, so one overrun frees another task's lock. What
  survives overruns is what the database enforces: `ActiveRunUnique` (partial
  index) and `AgentSessionExclusive` (unique session key).
- An envelope of batch_analyze may arrive before its rows are committed: the
  worker then uses the lock without the job, finds nothing, and acknowledges.
- When a prefork child dies, its envelope is acknowledged and the run shows
  `running` for ever; hence `MaxLosses = 0` where `ActiveHasEnvelope` or
  `EveryRunFinishes` is checked.

**Runs.** `MCRunExecution` adds only symmetry and the limits of the quota.

| run | asks | instance |
| --- | --- | --- |
| `runs_crash` | Do locks exclude, does the quota hold, do run and task agree, does no active run lose its envelope? | 2 requests, 2 workers, 3 runs of an agent type and of `resume_tailor`, limit 2; one cancellation, one worker death, one redelivery |
| `runs_overrun` | What holds when tasks outlive locks, batches send early, sends fail and children die? | 1 batching request, 2 workers, 2 runs |
| `runs_live` | Does every active run end, is `RunLifecycle` implemented? | fair, 1 request, 2 workers, 2 runs, one worker death |

Two workers and two runs suffice for every conflict the code can have (one
lock, one index, one envelope between two parties); the third run of
`runs_crash` lets the quota of 2 bind. One redelivery lets each step run
twice for one envelope. Run ids are never reused, so a state where none is left
ends the behaviour: deadlock is not checked.

**Fairness** (`FairSpec`): a request that has begun ends (`WF` on
`ClientStep`); a worker that is alive goes on (handlers put timeouts on their
calls); the broker restores what nobody acknowledged; a key with a TTL expires.
Nobody has to make a request, raise or die. `BatchAbort` has none.

**Refinement.** `RunLifecycle` knows a run's status, its request, and whether
the broker has repeated an envelope. A run is created in one step within quota
and index, goes queued, running, outcome, and changes its outcome only once
`retrying`. The mapping shows the status of committed rows
(`status <- Shown`). `InsertRun` is `Create`; `ClaimTask` is `Start`, or
`Repeat` after a redelivery; everything without a row stutters. Cancellations
and batches are outside it: the first breaks the life cycle, the second the
quota.

**Proved.** `RunExecutionProofs` proves `Spec => []TypeOK` from `TypeInv`
(each reference in the broker, a request or a worker is to an inserted row),
then `ActiveRunUnique` for all constants. `MutualExclusion` is proved when
`~TasksMayOverrun` and `BatchClients = {}`: the strengthening says that a
worker between acquire and release owns the key under its task's own scope,
and that no other does. `QuotaRespected` is proved for finitely many runs
without batches: between `CountQuota` and `InsertRun` the row lock's owner is
the only one who can add a run of its workspace, so the count it read is an
upper bound still. The same module proves `Spec => ImplementsLifecycle`
(no batch, no cancellation): initial states map, every action maps to a step or
a stutter.
`RunFollowsTask` is inductive from `TypeInv`: every transaction but a
cancellation writes both rows. So is `AgentSessionExclusive` once it is added
that whoever drives a session has its key, which nobody gives back.
`ActiveHasEnvelope` is proved for `~TasksMayOverrun`, `~EnqueueMayFail`, no
batches and `MaxLosses = 0`: each run's envelope is in one place only (with the
request that sends it, in the queue, or with one worker), and a worker that is
done leaves a run that is not active; the repeated task whose claim raises
needs `ActiveRunUnique`.

## 3. Application tracker (`ApplicationTracker.tla`)

Handlers are READ COMMITTED transactions without row locks. `Begin...(c)` is
what handler `c` reads and decides, `Commit...(c)` what it writes, computed
from what it *read*; other requests commit in between. `Merge` is SQLAlchemy's
UPDATE: only columns whose value changed since the read are written. `Rollback`
is the request whose row was deleted meanwhile or whose insert meets a unique
constraint. `AddEvent` and `CreateTodo` read nothing that matters and are one
step. `Midnight` moves the workspace's local day.

| in the model | in the code |
| --- | --- |
| `app`, `todo`, `event` | rows of `job_applications`, `application_actions`, `application_events` |
| `born` | `created_at` of an event is its transaction's `now()`, so the timeline is ordered by when requests began |
| `closed`, `reviewed`, `frozen` | `planner_day_logs.done_est`, `planner_reviews`, and the to-dos counted in them |
| `req` | what each request in flight has read and will write |
| `stale`, `raced` | auxiliary: which requests were overtaken, whether one of those has committed |

`raced` separates two kinds of property. Unconditional ones hold under every
interleaving: `TypeOK` (with referential integrity), `CompletionAgrees`,
`DoneIsOnTimeline`, `OnlyUndoRevives`. The "serial" ones hold as long as no
request commits over what another committed since it read: `TimelineIsChain`
and `FrozenTotalsStand`. The code takes no lock and keeps no version column, so
the second kind cannot be had unconditionally. Two tabs completing one to-do
leave two timeline entries; a transition that was overtaken records the wrong
"from"; an undo that passes its check while the weekly review waits for its
narrative falsifies the review. Serial is not sequential: requests still
overlap, and these properties judge the guards of the handlers over any
history.

**Runs.** `tracker`: one application, one to-do, two concurrent requests, any
five requests, statuses `planned` and `rejected`, two days. One row of a kind
is enough: no handler relates two applications, and the to-dos a transition
retires are treated alike. `planned` is the deletable status and `rejected` a
closing one; the others differ only in `Forward`. Five requests let a to-do be
created, completed, its application closed and the completion undone.
The bound on requests ends every behaviour: deadlock is not
checked. Nothing here must eventually happen, so no fairness is stated.

**Proved**, for any number of rows and requests (`ApplicationTrackerProofs`):
`TypeOK`, `CompletionAgrees`, `DoneIsOnTimeline`, `OnlyUndoRevives`,
`TimelineIsChain` and `FrozenTotalsStand`. The
inductive invariant adds `RequestOK`, what a request in flight remembers, and
`CompletionsOwned`. The argument turns on `Merge`. A complete has read
`pending` with no `completed_at`, so it writes both columns; an undo has read
`done` with one, so it writes both; a snooze or dismissal has changed at most
the status, and never to `pending` or `done`; retirement writes the status to
`cancelled`. Any merge of these keeps status and `completed_at` in agreement.
An undo deletes only completions of its own to-do, and that to-do is pending
afterwards. `CompletionsOwned` (a completion names a to-do of the same
application) is needed for deletion, which removes the events of one
application and must not take those of another's to-do.

For the serial two, `Serial` says that what a request has read is still so
(`StillSo`) as long as nothing was committed since, and that until the first
commit over something newer the timeline is a chain and what the totals counted
is done on a day that is stored. Every event there is was then written by a
request that began earlier, so the next status change is the last of its
timeline and starts from the status the application has; what retires, a
completion or an edit takes is not done; and what an undo takes was done on a
day no total had counted, which no total has counted since.

## 4. Report store (`ReportStore.tla`)

A job report describes a job for everybody; a fit report compares it with one
candidate's profile and belongs to a workspace. Each has a cache (the newest
active row with the same hashes) and a supersession (`UPDATE ... SET status =
'superseded'` before the insert). A job report run may name a profile, and then
chains a fit report run behind itself.

| in the model | in the code |
| --- | --- |
| `report`, `fit` | rows by the number of the transaction that writes them, in order of *begin*: `created_at` is `now()`, so "newest" is by begin and not by commit |
| `jd`, `profile`, `touched` | `jobs.jd_text`, the fields of a profile that a fit report reads, its `updated_at`; a text stands for its hash |
| `run`, `result`, `broker` | a run with its input and outcome, `result_summary_json`, envelopes queued or unacknowledged |
| `work` | what the worker of a run holds between two transactions: a session that is open counts as its step |
| `AnalyseJob`, `Supersede`, `InsertJobReport` | `create_job_report`, cut where the model is called and where the UPDATE has found its rows |
| `ChainFitReport`, `SendChained`, `GiveUpChain` | `_chain_fit_report`: commit, send, or the except clause |
| `ResolveProfile`, `GenerateFit`, `InsertFitReport` | `handle_fit_report` and `create_fit_report`; `Bases` picks the job report |
| `Rivals`, `Takes`, `Refuse` | the lock on workspace, type and job, and the run that fails because it finds it held |
| `Crash`, `Redeliver` | a worker dies anywhere; the envelope comes back and the run starts again |
| `crossed`, `reverted`, `said`, `parent` | auxiliary: what the properties refer to |

Two of the properties carry an exception, each for something the code really
does and no text of the repository excludes:

- `crossed`. Two workspaces may report on one job at once. Under READ
  COMMITTED the second UPDATE does not see the row the first has not yet
  inserted, so both rows end active. `OneActiveReport` is about jobs where this
  has not happened; `ReportsStay` has no exception.
- `reverted`. `supersede_prior` of fit reports matches the hash of the profile,
  not its id. After an edit from A to B the row of A stays active beside that
  of B; when the profile goes back to A, the cache returns the old row while
  the inbox, which orders by `updated_at`, shows that of B.
  `ReturnedFitIsShown` is about profiles that never said a thing twice, and
  fails without the exception.

**Runs.** `reports`: two workspaces, one job, two profiles of one of them, two
requests and the runs they chain (three run ids), three reports, one change of
a JD or a profile, one worker death, and sends that may fail. One job is
enough for the interleavings (lock, cache and supersession are all keyed by the
job), and the proofs take any number. Two requests let workspaces cross, or a
repeated request meet the cache; the third report is what a death costs.
The bounds end every
behaviour, so deadlock is not checked; nothing here is about progress, which
`RunExecution` treats.

**Proved** (`ReportStoreProofs`), for all constants: `TypeOK`,
`OneActiveReport`, `ReportsStay`, `ChainRecordIsReal`, `AskedProfileScored` and
`ReturnedFitIsShown`. The inductive invariant is `Inv`:
`HeldAreRuns` (only inserted runs are executed or queued), `NumbersFresh` (the
number a worker holds names no row, and no other worker holds it),
`PriorIsOfJob` (what a transaction has superseded are rows of its own job) and
`PriorIsAll` (as long as the job is not `crossed`, they are *all* its active
rows, which is what makes the insert end with exactly one). `ReportsStay` needs
only the first three: whatever an insert retires, its own row replaces.
The next two rest on `RunsStand`, which every step has: of a run only the
status changes, and its envelope is given up together with `queued`. `ChainInv`
follows the chained run from its insert through the send into the result;
`ScoreInv` follows the profile from the transaction that resolved it to the row
that is returned, and needs that the number of a fit report under way names no
row and nobody else's, or an insert could replace the row another run returned.
For the last, `OneBusy` says that one worker at a time executes a run of a
kind, workspace and job, so that nothing is inserted behind a fit report under
way; `RowsInOrder` and `InOrder`, that a row which one of another text follows
does not hold what its profile says now, nor what a worker has read of it, and
that of one text one row at most is active. All of it but the last fails once a
profile goes back, which is where the exception comes from.

## 5. Disagreements

One is a run that TLC refutes, under a property that states the sentence.

| run | the text | the code |
| --- | --- | --- |
| `resume_loss` | `_assemble_resume_markdown`: bullets no plan references are deleted, and nothing else is lost silently | the writer's bullets are zipped with the plan's: when it returns fewer, planned bullets are deleted and nothing reports it |

The others are behaviours of the actions named, with no run of their own.

- *Runs.* The late acknowledgement is for a "safe retry on crash"
  (`celery_app.py`), but the redelivered task repeats attempt 1, finds its
  agent's session key taken and fails (`CreateInvocation`). A cancelled run is claimed and finished all the same (`CancelWrite`,
  `ClaimTask`). batch_analyze neither counts the monthly quota nor takes the
  lock that guards it (`BatchAdd`). A worker that takes a batch's envelope
  before the batch commits drops it, and the run stays queued (`ClaimRaises`).
- *Tracker.* An application moved back to `planned` by force can be deleted
  with its history; an undo gives a closed application a pending to-do, which
  `_ACTIONABLE_FROM` exists to prevent (`OnlyUndoRevives` names the undo as the
  only way).
- *Reports.* A batch that names no profile chains no fit report. A chained run
  whose send fails stays queued with None recorded beside it (`GiveUpChain`).
- *Search.* One conflicting URL undoes the transaction that stores the
  candidates, and the run succeeds with the ids of jobs that were never stored
  (`StoreJob`). A search that honestly finds nothing signs no event, because
  the pool's file does not exist to be hashed, and the gate turns it down
  (`LogNothing`, `EvidenceFails`).
- *Import.* A pasted import that dies after its first commit leaves its
  idempotency key, and the same text is refused from then on. When a site
  answers 403, the page behind a `gh_jid` is read through the Jina reader
  although the tier for embeds would never scrape it, and its prose is stored as
  the posting (`EmbeddedProseIsWalled` says that this is the only way).
- *Planner.* An application deleted between a sweep's read and its commit
  undoes the sweep of every workspace (`AbortSweep`).
- *Tailoring.* When a section's bullet is not found, `_assemble_resume_markdown`
  skips the clean-up "for that WHOLE experience" so as not to lose content; the
  clean-up of another experience with a bullet of the same text deletes it all
  the same (`RemoveLines`, the exception in `FailedSectionKeeps`). Two decisions on one capability, one putting it forward and one
  withholding it, make an audit nobody can pass. An exception in the repair
  pass discards a draft that was finished. The parallel steps run in pool
  threads, which do not inherit the context variable of the usage log: their
  rows carry no run and no workspace.
- *Client.* `runKey` says that one run per type and job may be active, as a
  unique index of the backend has it; the index is on workspace and type and
  leaves these types out, so two buttons of one job, in the list and in the
  pane, start two runs and the page forgets one (`Click`). Every failure of
  `get_current_user` is a 401 (`auth.py`, 64-115): keys that could not be
  fetched and an expired token too, of the user's own poll. `poll` takes each
  for "gone, or not ours to watch" and drops the run without a word, although
  its comment has passing failures retried (`TurnedAway`). It forgets the slot
  without the check made after a good answer: a late refusal of the previous
  account's poll drops the run that has replaced it (`Deliver`). A button's
  settled handler compares the slot and not the account, so the failure of a
  previous account's run shows under the next account's button.

## 6. Search (`SearchRun.tla`)

A run of `handle_search_run` from its request to its outcome, beside the
sessions of its agent. A session writes the run's files through the wrapper
scripts, each of which is cut where another session can come in between: lines,
hash, read of the ledger, append. The worker stops waiting for a session at its
timeout and nothing tells the gateway, so an abandoned session (`"cut"`) may go
on beside its successor and beside the gate.

| in the model | in the code |
| --- | --- |
| `pool`, `ledger`, `manifest`, `calls`, `fetched` | `candidate_pool.jsonl`, `tool_events.jsonl`, `output_manifest.json`, the trace |
| `hand` | what a wrapper call in progress has read |
| `key` | whether a signing key is configured |
| `Answered`, `TimeOut`, `BreakOff`, `Continue` | the HTTP call's endings, and the fresh sessions of the search depth |
| `FailedValidators`, `RunGate`, `Reject` | the validator gate; two of its validators cannot fail here |
| `BeginBatch` ... `CommitBatch` | `_persist_discovered_jobs`, one transaction that reads the pool a second time |
| `RivalStores` | another writer of `jobs`, which stores the same URL meanwhile |

The gate reads the pool, and the transaction reads it again: between the two
the file is nobody's. `VettedJobsOnly` and `LoneLedgerVerifies` therefore say
`Alone`, no abandoned session; without that conjunct TLC refutes both. While
`Alone` holds, the agent may do anything else: false ids, documents in place of
lines, junk, claims without candidates, manifests written many times.

**Run.** `search`: two sessions, two URLs, pools of two lines, ledgers of two
events, one rival. Two sessions are what a race needs; two events, a chain with
a link; two lines, a pool that grows after it was hashed. `RunEnds` assumes
that the worker takes its next step (`WF` on `Worker`: every wait of it has a
timeout) and nothing of the agent.

**Proved**: `VettedJobsOnly`, for any number of sessions, URLs, events and
rivals. The gate judges the files and the jobs are stored later, so the
invariant carries the verdict from the one to the other. `SessionInv`: a
session that is `"on"` is the one the worker waits for; hence from the gate to
the end no session is at work while `Alone` holds, and the files stand.
`StoreInv`: the verdicts are the ones the files deserve, nothing has been
stored before the gate, and each line still to be stored is the pool's. The
lemma `PassingPoolWasHashed` then gives the signed event. `LoneLedgerVerifies`
for any number of sessions and events: a wrapper call reads the ledger's end and
appends to it several steps later, so `LedgerInv` adds what `hand` holds in
between: while `Alone` holds, an event about to be appended (`Follows`) is
numbered by how many there are and names the last of them. The lemma
`FollowerExtends` shows that such an event keeps the chain, whichever id it
claims, and `SessionInv` that no second call is in progress.

Of `RunEnds` the part that is not about fairness is proved too
(`EndComesNearerHolds`): the worker always has something to go on with
(`NothingBlocks`: the session it waits for is on or over, the manifest can be
read or reported, a page that is fetched is a line's), each of its steps lowers
`Remaining`, a number, and neither the sessions nor other runs raise it. A search
thus takes `14 + 2 * MaxTurns + 2 * (MaxLines + 1)` steps at most. That a step
whose guard holds is taken is `WF`, and with TLC.

## 7. Jobs, boards and pages (`JobCatalogue.tla`, `PageFetch.tla`)

`jobs` belongs to no workspace. Imports by URL and by text, the sync of a
company's board before a search, the registration of boards after it, research
and the user's archive all write it, each cut where it commits and where it
waits for the network; a process may die between two commits. Links are
canonicalised (`Canonical`), so two links may be one URL. `PageFetch` is the
ladder of `fetch_jd_from_url` as a function of what the network may answer:
the first tier that applies decides, and a text is told apart by what the
checks make of it. `prose` is text that passes them all and is not the posting.

`RunTellsImport` relates an import's run, its answer and the rows;
`ActiveBoardIsIngested` an order of two commits; `StoredJobsKeep` what a writer
may do to a row it did not store. `EmbeddedProseIsWalled` is about a careers page
with a board inside, whose prose is no posting: an import that could load the
page never stores that prose, through whatever channel, as the comment at
`service.py` 711-721 promises; when the site answers 403, the reader's text of
the same page comes first and is stored (646-649). `walled` is an auxiliary
variable with the imports that did so.

Two writers that both find no record of a dead URL both insert it, and the
later one's transaction is undone: its import answers 500 and its run stays
queued (`RecordDead`). `knew` is what an import found on record when it began,
so that only a record made since can conflict.

**Run.** `catalogue`: one posting on one board, under two links and one pasted
text, two workspaces, two imports, one search, one research, one archive, one
death, every answer of the network. Two writers and one row make every conflict
of a look-up with an insert. The network's answers are not bounded. The
requests end every behaviour, so deadlock is not checked.

**Proved**: all four, for any number of postings, boards, imports, searches and
deaths. They rest on one lemma for every action, `GrowsBy`: a writer fills rows
that nobody filled, in its own name, and leaves the others to their finders.
With it each account can be followed through the steps of all the others:
`ImportAsTold` (an import in flight has one posting in mind and no row; only
one that was told "created" has a row) and `SyncAsStored` (what a sync is about
to mark active has been stored, and a board it remembers as active is
ingested). The case that needs the accounts is a look-up that found nothing,
long ago. `ProseOfEmbedIsWalled` decides the tiers: whatever the network
answers, for a posting behind an embed one before the page's own text applies,
and of those only the reader behind a 403 can give prose.
The assumption is that imports are no searches (`ImportsAreApart`).

## 8. Planner (`Planner.tla`)

The sweep of the beat for one workspace, in one transaction that reads
(`BeginSweep`) and inserts (`CommitSweep`) and locks nothing, with the five
rules as operators; what the user does meanwhile, a step each; the week strip
and the weekly statistics as functions of the rows. Time is a clock of ticks.
`overlapped` is auxiliary: two sweeps were in flight at once, as a redelivered
envelope makes possible. `NoDoubleNag` and `SettledIsSettled` speak of the rest:
there is no unique index behind the rules.

`ThankYouIsOwed` is a statement about windows. Interviews are thanked for
within 24 hours and the beat runs every 24, so the sweep after an interview is
the only one that will make the to-do: a boundary read strictly on both sides,
or a rest day that silences the rule, loses it for good. `StripCountsOnce` is a
statement about the calendar: a to-do may be overdue, undated, or put off past
the week by `Snooze` and still be open. `ReviewAgreesWithStats` relates two screens that
count the same rows by different queries.

**Run.** `planner`: one application, two sweeps, days of two ticks and weeks of
two days, thresholds of one day, six ticks, three requests, four to-dos. Two
ticks tell "at the beat" from "after it", and two days a week's end from its
middle; six ticks span a week boundary with a beat on each side. An interview
is logged one tick ahead, so that it falls on a beat, before it or after it;
the theorems hold for any lead. Applications are independent in every rule. The clock ends every behaviour, so deadlock is
not checked.

An event that is undone leaves a tombstone (`"retracted"`) in its place on the
timeline, which no rule reads, so that the other events keep their positions.

**Proved** (`PlannerProofs`): all five, for any calendar, thresholds and number
of applications, workers, to-dos and ticks. `Base` says what the rows are: a
to-do is completed from its completion on, its application is there, and a
sweep holds one open row for each piece of work. It gives `StripCountsOnce`
(days and weeks partition the time, however long they are) and
`ReviewAgreesWithStats`. The other three are about rows that are decided on at one
moment and inserted at a later one, so their invariants speak of the table and
of what the sweeps hold alike. `NagInv`: every row of the engine's, stored or
held, finds the older ones for its work settled (`Settled`). What
the user does in between (`UserStepEffects`) creates no row of the engine's and
reopens none that was not done; the only other writer would be a second sweep,
hence `overlapped`. `OwedInv`: for an interview that was logged ahead,
every beat within a day after it that is swept has a thank-you stored, and
every sweep in flight for such a beat has it in hand or finds it stored. It
holds with overlapping sweeps too. `NextBeatWithinADay` shows that
there is such a beat: this is where a rule that fires every 24 hours meets a
window of 24 hours. The order in which a sweep inserts its rows
(`SetToSeq`) is arbitrary, and nothing depends on it.

## 9. Workspace state (`WorkspaceState.tla`)

What one identity owns: its workspace, which its first requests provision as
they race; its profiles; the planner settings, a JSON document merged in memory
and written whole; the search strategy, another one, which reflections grow.
Requests are cut into what they read and what they commit. `served`, `saved`
and `applied` are auxiliary and say what the answers promised; `raced` collects
the documents that were written over a commit their writer had not read.
Neither document has a version, so `SettingsKept`, `LearningsKept` and the half
of `ProfilesKept` that counts profiles hold outside `raced` only, and TLC
refutes them without that disjunct. `OneWorkspace` needs no exception.

A patch file is flat, or a nested envelope that `normalize_strategy_patch_raw`
flattens; it may be missing, unreadable or invalid. `LearningsKept` says what
the document holds in terms of the patches recorded as applied: the union of
the lists, the later word on each category, the last searches proposed.

**Run.** `workspace`: two tabs and three reflections, five operations between
them, three saves, five patch files, 1.38 million states under symmetry. Two
tabs race; the third reflection lets a patch be applied over the work of two.

**Proved**: all four, for any number of
tabs, fields, profiles, reflections, patches and operations. For the first the invariant `OneHome` says that a transaction
in flight either provisions or works in a workspace that exists: the loser of
the race for the unique index is never answered. For the second, a save either
read the settings as they are, and then its merge is what `saved` becomes, or
marks `settings` as raced. For the third, one `Apply` adds to a document exactly
what its patch taught, and a run whose patch is recorded is done, so its patch
is never applied again and its files stay. For `ProfilesKept`, `ProfileInv`: the
rows have one name each, all given out already and none of them the name of a
request in flight, so an edit that replaces a row and a creation that appends one meet no namesake; and
a deletion that was not refused has counted a profile besides its target, which
is there still unless `raced` says otherwise.

## 10. Tailoring (`ResumeTailor.tla`)

The model behind each step is the adversary. A step takes any answer of a set
given as a constant and then repairs it as the code does: unknown capabilities
are dropped, missing decisions added, a strategy over its budget asked for once
more and then taken as it is, bullets looked up by their text. `_assemble_resume_markdown` is a loop, and here a step for
each turn of it: `Open` takes up a section, `Replace` looks one bullet up and
puts another in its place, `Close` clears the experience's bullets that nobody
quoted, unless one of the section's was not found, and `Assembled` ends it. The audit joins what the model says with what the code finds;
a repair pass re-enters the pipeline at the earliest step named, once. Any step
may raise.

`failures` is auxiliary: the experiences whose section had a bullet that was not
found, whether misquoted or replaced for another section already.
`FailedSectionKeeps` says that they lose nothing, with one exception, which the
code needs: bullets are deleted by text wherever it stands, so the clean-up of
another section deletes a text that both experiences have. TLC refutes the
property without it.

**Runs.** `resume` and `resume_loss`: two experiences that share a bullet, three
texts in four lines, one with a line break, three capabilities, six plans, four
strategies with at most one repeated entry (`MaxRepeats`), four verdicts, at most
two bullets written per plan. The plans hold a misquoted bullet, a second plan of
one experience, an unknown one, and two sections that quote the same bullet.
Texts are never part of one another (bound): the code matches by line, and a
bullet that occurs inside another's line is not covered.

**Proved**: `AuditHonest`, for every resume and all sets of answers. From the
strategy on, each requirement has a decision and nothing else has
(`StrategyCovers`), and a passing audit is about the plans and the document
beside it (`AuditIsCurrent`), which holds although a repair replaces both,
because the repair does not finish without another audit. `FailedSectionKeeps`, for
every resume and any answers: `SectionInv` keeps the books of the loop (`Ledger`),
the sections behind it being those in `failures` and those that were cleared; a
line that is gone is a bullet that one of the second does not quote.
`TaskProofs` is about this module and
`SearchRun` together, so the names of the specification here are
`TailorInit`, `TailorNext` and `TailorSpec`.

## 11. The client's run tracker (`RunTracker.tla`)

A button asks the API for a run and hands it to a store in module scope, which
polls the run until it ends and then tells the listeners. The store outlives
the button, the account (a sign-out does not reload the page) and, through
`sessionStorage`, the page. A callback of JavaScript is never interrupted, so
an action is what happens between two `await`s.

| in the model | in the code |
| --- | --- |
| `running`, `timers`, `stored` | the maps of `runTracker.ts`, and what `persist` last wrote |
| `polls` | polls waiting for an answer, with the account whose token they carry |
| `waiting` | `createRun` requests of buttons, not answered yet |
| `Click`, `Track`, `Miss` | `handleClick` of the three buttons, and `startTracking` |
| `Fire`, `Answer`, `Deliver` | `poll`, cut at its `await`; `get_run` with its check of the owner |
| `TurnedAway` | the 401 of `get_current_user`, which any poll may get, the owner's too |
| `Restorable`, `Rehydrate` | `rehydrateTracking` |
| `SignIn`, `SignOut`, `Reload`, `Age` | the effect of `RunToasts`, Clerk's session, a new page, the clock |
| `told` | how often the settled listeners were called for a run |
| `tracked`, `replaced`, `denied` | auxiliary: what the store has held, what gave way to a later run, what a refused poll dropped |

The store has one slot per run type and job, for whoever is signed in:
an account that starts a run in a slot pushes the other account's out.
`KeptUntilTold` counts four ways in which the page loses a run it has not
announced: the deadline, a later run of the slot, a refused poll of the slot,
and, under another account, a reload. That there is no fifth is what it says;
that a refusal may be a passing failure (section 5) is a defect it does not
excuse. `ToldOnce` and `BusyIsWatched` have no exception. A button reads the token when it is pressed, a poll when it leaves.

**Run.** `client`: two accounts, two slots, two runs, one change of account,
one reload. Two runs are what a replacement takes, and an old answer for a new
run; two slots, a storage written with one entry while another waits. A change
of account and a reload each come at every moment, also both. Clicks are
bounded, so deadlock is not checked. `SpinnersEnd` assumes that timers fire (`WF` on `Fire`), that requests
end in an answer or an error (`WF` on `Answer` or `Deliver`), and that the
clock reaches every deadline (`WF` on `Age`); nothing of users or the server's
runs.

**Proved** (`RunTrackerProofs`): `ToldOnce`, `BusyIsWatched` and
`KeptUntilTold`, for any number of accounts, slots, runs, switches and reloads.
`PageInv` says that what the store and the storage hold has not been told and
sits in its own slot only; so the step that tells a run is the last that can
see it, and an answer under way finds another entry or none. `KeepInv` says
that the storage has all that the store has, so a reload finds it, and that
until another account signs in every run is the user's own, so that the
reload gives it back.

## 12. Limits

- **Model-checked only**: `EveryRunFinishes`, `RunEnds` and `SpinnersEnd`: the
  prover handles neither fairness nor `ENABLED`. What of them is safety is proved: that a
  search has a bounded number of steps left (`EndComesNearerHolds`), that an active run has its
  envelope (`ActiveHasEnvelope`), that a busy button's run is watched
  (`BusyIsWatched`). Every other property of the
  passing runs is stated by a theorem, some of them under assumptions on the
  constants that section 2 names. `PlannedBulletsSurvive` is the one that
  `resume_loss` refutes.
- **Exceptions**: where the code takes no lock, the property says what holds
  outside the race and is no protection against the race itself, which TLC finds
  as soon as the exception is taken out. So `raced` (two tabs, sections 3 and
  9), `overlapped` (two sweeps), `crossed` and `reverted` (reports), the missing
  `Alone` (an abandoned session), a cancelled run (`RunFollowsTask`) and the
  bound `TasksMayOverrun`, which `runs_overrun` alone sets.
- **Bounds**, besides those named above: `MaxCancels`, `MaxCrashes`,
  `MaxLosses`, `MaxRedeliveries`, `RunIds`; `LastDay`, `MaxRequests`, `Targets`;
  `MaxReports`, `MaxEdits`. The proofs hold for all values of all of them.
- **Abstracted**: months (the quota counts one), budgets of time and money;
  calendar slots, the morning commitment, text fields of the tracker;
  delete_planned's bulk deletes are one statement: a to-do inserted between
  them would fail the delete by its foreign key, and that outcome (an error,
  nothing deleted) is not an action. Of the reports: research notes and the
  prompt version in the cache key, artifact files, tasks that outlive their
  lock. Of a search: prompts, intent and catalogue texts. Of the planner:
  the count of postponements, the funnel's alerts, capacity minutes. Of jobs: favourite and
  not-interested marks. Of the strategy: the hints rendered from it. Of
  authentication: the verification of tokens, which is library code.
- **Not modelled**, with the reasons in `PROJECT.json`: rate limiter and cache,
  reading endpoints, administration, model clients and usage log, rendering,
  pages of the client, migrations, developer tools. Of the run tracker: the
  development bypass, where runs belong to nobody, and a browser without
  storage.

## 13. Plan

1. Calendar slots in `ApplicationTracker`; marks in `JobCatalogue`, with
   the statements about them.
2. An abstract specification of the report store (for each job one report
   that is shown, replaced whole) and the proof that `ReportStore` implements
   it while no two runs write at once.
