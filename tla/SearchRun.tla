------------------------------- MODULE SearchRun -------------------------------
(***************************************************************************)
(* A discovery run: the worker translates the request, has an agent search *)
(* through the gateway, tops the search up in fresh sessions, puts what    *)
(* the agent left in the run's directory through the validator gate and    *)
(* stores the candidates as jobs.                                          *)
(*                                                                         *)
(* The agent writes the run's files through wrapper scripts that keep a    *)
(* ledger of signed events, each chained to the one before.  The worker    *)
(* stops waiting for a session at its timeout; nothing tells the gateway,  *)
(* so the session may go on writing beside its successor and beside the    *)
(* worker.  Between any two steps of one, the others move.                 *)
(*                                                                         *)
(* The sync of company boards before the search and the registration of    *)
(* boards after it are in JobCatalogue; envelope, lock and claim, and the  *)
(* worker's death, are in RunExecution.                                    *)
(*                                                                         *)
(* An operator whose name ends in Mutant is the faulty variant of the one  *)
(* below it: with it in place, the property it stands against must fail.   *)
(***************************************************************************)
EXTENDS Naturals, FiniteSets, Sequences

CONSTANTS
  Urls,          \* what candidates are told apart by
  Junk,          \* a line of the pool that is not a candidate record
  MaxTurns,      \* continuations of the search depth: 1 or 2
  Enough,        \* lines of the pool that end the search: 0.8 max_candidates
  MaxCalls,      \* wrapper calls that end it: max_tool_calls - 5; no agent makes more here
  Statuses,      \* of a manifest: "completed", "partial", "failed"
  Idle,          \* no wrapper call in progress
  MaxRivals,     \* bound: postings that other runs and imports store meanwhile
  MaxFetches,    \* bound: postings the agent fetches through the wrapper
  MaxLines,      \* bound: lines of the pool
  MaxEvents,     \* bound: events of the ledger
  MaxClaim       \* bound: candidates a manifest claims

Turns == 0 .. MaxTurns

VARIABLES
  at,            \* the step of handle_search_run
  turn,          \* the session invoked last; 0 is the run's own
  session,       \* what the gateway does with each session
  hand,          \* what the session's wrapper call has read so far
  key,           \* BOOLEAN: TOOL_LEDGER_SIGNING_KEY is set
  pool,          \* candidate_pool.jsonl
  ledger,        \* tool_events.jsonl
  manifest,      \* output_manifest.json
  calls,         \* lines of trace_events.jsonl
  fetched,       \* URLs of its career_fetch_source entries
  seen,          \* the manifest as the worker parsed it
  batch,         \* the transaction that stores the jobs
  invocation, billed, verdicts, ingested, outcomes, outcome,  \* the run's rows
  jobs, dead     \* tables shared with every other run

agents == <<session, hand>>
files  == <<pool, ledger, manifest, calls, fetched>>
rows   == <<invocation, billed, verdicts, ingested, outcomes, outcome>>
tables == <<jobs, dead>>
vars   == <<at, turn, agents, key, files, seen, batch, rows, tables>>

ASSUME BoundsAreNumbers ==
  /\ MaxTurns \in Nat /\ Enough \in Nat /\ MaxCalls \in Nat
  /\ MaxLines \in Nat /\ MaxEvents \in Nat /\ MaxClaim \in Nat
  /\ MaxRivals \in Nat /\ MaxFetches \in Nat
ASSUME StatusesAreStatuses == Statuses \subseteq {"completed", "partial", "failed"}
ASSUME JunkIsNoUrl == Junk \notin Urls

-----------------------------------------------------------------------------
(* The files of the run *)

NoPool == [form |-> "none", rows |-> <<>>]

Records(p) == {p.rows[i] : i \in 1 .. Len(p.rows)}

\* "true" is the invocation id that input.json holds, "claimed" one that the
\* agent made up.
Ids == {"true", "claimed"}

NoManifest == [status |-> "absent", id |-> "true", count |-> 0]
Unreadable == [status |-> "unreadable", id |-> "true", count |-> 0]
Manifests == [status : Statuses, id : Ids, count : 0 .. MaxClaim]

\* An event's hash of itself is its place in the file; hash is the pool's.
Kinds == {"candidate_log", "manifest_write"}
Places == 1 .. MaxEvents
NoEvent == 0

EventsOf(id) == {i \in 1 .. Len(ledger) : ledger[i].id = id}

\* In order of sequence number.
LastOf(S) ==
  {i \in S : \A k \in S :
     ledger[k].seq < ledger[i].seq \/ (ledger[k].seq = ledger[i].seq /\ k <= i)}

\* load_and_verify: numbered from 1 on, each naming its predecessor.
ChainHolds(id) ==
  LET S == EventsOf(id) IN
  /\ {ledger[i].seq : i \in S} = 1 .. Cardinality(S)
  /\ \A i \in S :
       IF ledger[i].seq = 1 THEN ledger[i].prev = NoEvent
       ELSE ledger[i].prev \in S /\ ledger[ledger[i].prev].seq = ledger[i].seq - 1

-----------------------------------------------------------------------------
(* The agent's sessions *)

Active(s) == session[s] \in {"on", "cut"}

\* career_fetch_source: the trace entry is written after a successful fetch.
FetchSource(s, u) ==
  /\ Active(s) /\ hand[s] = Idle
  /\ u \notin fetched /\ Cardinality(fetched) < MaxFetches /\ calls < MaxCalls
  /\ fetched' = fetched \cup {u}
  /\ calls' = calls + 1
  /\ UNCHANGED <<at, turn, agents, key, pool, ledger, manifest, seen, batch, rows, tables>>

\* The agent writes the pool itself, as one JSON document.
WriteDocument(s, u) ==
  /\ Active(s) /\ hand[s] = Idle
  /\ pool = NoPool
  /\ pool' = [form |-> "document", rows |-> <<u>>]
  /\ UNCHANGED <<at, turn, agents, key, ledger, manifest, calls, fetched, seen, batch, rows, tables>>

\* A line after a document makes the document a broken line.
Appended(u) ==
  IF pool.form = "document" THEN <<Junk, u>> ELSE Append(pool.rows, u)

\* career_log_candidates: the lines, then a trace entry, then a signed event.
LogCandidate(s, u) ==
  /\ Active(s) /\ hand[s] = Idle
  /\ Len(pool.rows) < MaxLines /\ calls < MaxCalls
  /\ pool' = [form |-> "lines", rows |-> Appended(u)]
  /\ calls' = calls + 1
  /\ hand' = [hand EXCEPT ![s] = [step |-> "logged"]]
  /\ UNCHANGED <<at, turn, session, key, ledger, manifest, fetched, seen, batch, rows, tables>>

\* With no candidate to log, the pool's file is not created, and hashing it
\* raises an exception that the wrapper swallows along with the event.
LogNothing(s) ==
  /\ Active(s) /\ hand[s] = Idle
  /\ calls < MaxCalls
  /\ calls' = calls + 1
  /\ hand' = [hand EXCEPT ![s] = IF pool = NoPool THEN Idle ELSE [step |-> "logged"]]
  /\ UNCHANGED <<at, turn, session, key, pool, ledger, manifest, fetched, seen, batch, rows, tables>>

HashPool(s) ==
  /\ Active(s) /\ hand[s] # Idle /\ hand[s].step = "logged"
  /\ key
  /\ hand' = [hand EXCEPT ![s] =
                [step |-> "unchained", id |-> "true", kind |-> "candidate_log", hash |-> pool.rows]]
  /\ UNCHANGED <<at, turn, session, key, files, seen, batch, rows, tables>>

\* Without a key, or without tool_events_path in the agent's call, no event.
LeaveUnsigned(s) ==
  /\ Active(s) /\ hand[s] # Idle /\ hand[s].step \in {"logged", "unchained"}
  /\ hand' = [hand EXCEPT ![s] = Idle]
  /\ UNCHANGED <<at, turn, session, key, files, seen, batch, rows, tables>>

\* append_signed_event: the events of the same invocation are read ...
PredecessorsMutant(id) == 1 .. Len(ledger)
Predecessors(id) == EventsOf(id)

ReadLedger(s) ==
  LET P == LastOf(Predecessors(hand[s].id)) IN
  /\ Active(s) /\ hand[s] # Idle /\ hand[s].step = "unchained"
  /\ key
  /\ hand' = [hand EXCEPT ![s] =
                [step |-> "chained", id |-> hand[s].id, kind |-> hand[s].kind, hash |-> hand[s].hash,
                 prev |-> IF P = {} THEN NoEvent ELSE CHOOSE i \in P : TRUE,
                 seq |-> IF P = {} THEN 1 ELSE ledger[CHOOSE i \in P : TRUE].seq + 1]]
  /\ UNCHANGED <<at, turn, session, key, files, seen, batch, rows, tables>>

\* ... then the event is appended.
AppendEvent(s) ==
  /\ Active(s) /\ hand[s] # Idle /\ hand[s].step = "chained"
  /\ Len(ledger) < MaxEvents
  /\ ledger' = Append(ledger,
       [id |-> hand[s].id, kind |-> hand[s].kind, hash |-> hand[s].hash,
        seq |-> hand[s].seq, prev |-> hand[s].prev])
  /\ hand' = [hand EXCEPT ![s] = Idle]
  /\ UNCHANGED <<at, turn, session, key, pool, manifest, calls, fetched, seen, batch, rows, tables>>

\* career_write_manifest: count is the agent's own.  The id is input.json's, or
\* the agent's if it gave no usable run and task ids.
WriteManifest(s, m) ==
  /\ Active(s) /\ hand[s] = Idle
  /\ manifest' = m
  /\ hand' = [hand EXCEPT ![s] =
                [step |-> "unchained", id |-> m.id, kind |-> "manifest_write", hash |-> <<>>]]
  /\ UNCHANGED <<at, turn, session, key, pool, ledger, calls, fetched, seen, batch, rows, tables>>

\* A status it does not know makes the wrapper leave an error in its place.
SpoilManifest(s) ==
  /\ Active(s) /\ hand[s] = Idle
  /\ manifest' = Unreadable
  /\ UNCHANGED <<at, turn, agents, key, pool, ledger, calls, fetched, seen, batch, rows, tables>>

Stop(s) ==
  /\ session[s] = "on" /\ hand[s] = Idle
  /\ session' = [session EXCEPT ![s] = "over"]
  /\ UNCHANGED <<at, turn, hand, key, files, seen, batch, rows, tables>>

-----------------------------------------------------------------------------
(* handle_search_run: before the agent *)

Review(code) ==
  /\ outcome' = [status |-> "needs_review", code |-> code]
  /\ at' = "done"

Proceed(from, to) ==
  /\ at = from
  /\ at' = to
  /\ UNCHANGED <<turn, agents, key, files, seen, batch, rows, tables>>

Quit(from, code) ==
  /\ at = from
  /\ Review(code)
  /\ UNCHANGED <<turn, agents, key, files, seen, batch,
                 invocation, billed, verdicts, ingested, outcomes, tables>>

\* A request for a search that a profile guides needs a profile that says
\* something; which profile that is, _load_profile decides.
ReadRequest ==
  \/ Proceed("request", "intent")
  \/ Quit("request", "INVALID_FRONTEND_INPUT")
  \/ Quit("request", "PROFILE_REQUIRED_FOR_PROFILE_GUIDED")

TranslateIntent ==
  \/ Proceed("intent", "prepare")
  \/ Quit("intent", "INTENT_BLOCKING_AMBIGUITY")
  \/ Quit("intent", "INTENT_TRANSLATION_FAILED")

\* The spec is written to input.json, then the invocation is inserted.
Prepare ==
  /\ at = "prepare"
  /\ invocation' = "pending"
  /\ at' = "invoke"
  /\ UNCHANGED <<turn, agents, key, files, seen, batch,
                 billed, verdicts, ingested, outcomes, outcome, tables>>

Invoke ==
  /\ at = "invoke"
  /\ invocation' = "running"
  /\ session' = [session EXCEPT ![0] = "on"]
  /\ at' = "waiting"
  /\ UNCHANGED <<turn, hand, key, files, seen, batch,
                 billed, verdicts, ingested, outcomes, outcome, tables>>

-----------------------------------------------------------------------------
(* The invocation's end, and continuations *)

\* HTTP 200: the session is over.  Its usage is stored before anything else.
Answered ==
  /\ at = "waiting" /\ session[turn] = "over"
  /\ billed' = billed \cup {turn}
  /\ invocation' = IF turn = 0 THEN "succeeded" ELSE invocation
  /\ at' = "topping_up"
  /\ UNCHANGED <<turn, agents, key, files, seen, batch, verdicts, ingested, outcomes, outcome, tables>>

\* The gateway may go on with a session whose caller has gone.
Abandon ==
  /\ at = "waiting" /\ session[turn] = "on"
  /\ \E end \in {"cut", "over"} : session' = [session EXCEPT ![turn] = end]
  /\ hand' = [hand EXCEPT ![turn] = IF session'[turn] = "over" THEN Idle ELSE @]
  /\ UNCHANGED <<turn, key, files, seen, batch, billed, verdicts, ingested, outcomes, tables>>

\* No answer within the timeout.
TimeOut ==
  /\ Abandon
  /\ IF turn = 0 THEN Review("AGENT_TIMEOUT") /\ invocation' = "failed"
     ELSE at' = "topping_up" /\ UNCHANGED <<invocation, outcome>>

\* A transport error, or an HTTP status other than 200.
BreakOff ==
  /\ Abandon
  /\ IF turn = 0 THEN Review("AGENT_EXIT_NONZERO") /\ invocation' = "failed"
     ELSE at' = "manifest" /\ UNCHANGED <<invocation, outcome>>

MayTopUp == turn < MaxTurns /\ Len(pool.rows) < Enough /\ calls < MaxCalls

\* A session of its own for each, while there is time left.
ContinueMutant ==
  /\ at = "topping_up" /\ MayTopUp
  /\ session' = [session EXCEPT ![turn] = "on"]
  /\ at' = "waiting"
  /\ UNCHANGED <<turn, hand, key, files, seen, batch, rows, tables>>
Continue ==
  /\ at = "topping_up" /\ MayTopUp
  /\ turn' = turn + 1
  /\ session' = [session EXCEPT ![turn + 1] = "on"]
  /\ at' = "waiting"
  /\ UNCHANGED <<hand, key, files, seen, batch, rows, tables>>

\* At its limits, or with less than a minute of the run's time left.
NoMoreTurns == Proceed("topping_up", "manifest")

-----------------------------------------------------------------------------
(* The validator gate *)

ReadManifest ==
  \/ manifest = NoManifest /\ Quit("manifest", "MANIFEST_NOT_FOUND")
  \/ manifest = Unreadable /\ Quit("manifest", "MANIFEST_PARSE_ERROR")
  \/ /\ at = "manifest" /\ manifest \in Manifests
     /\ seen' = manifest
     /\ at' = "normalize"
     /\ UNCHANGED <<turn, agents, key, files, batch, rows, tables>>

\* _canonicalize_discovery_artifact_paths makes the platform's path of the pool
\* an artifact whether the agent declared one or not; a document is rewritten
\* as lines, and a run that claims no candidates gets an empty file.
NormalizePool ==
  /\ at = "normalize"
  /\ pool' = IF pool.form = "document" \/ (pool.form = "none" /\ seen.count = 0)
             THEN [pool EXCEPT !.form = "lines"] ELSE pool
  /\ at' = "gate"
  /\ UNCHANGED <<turn, agents, key, ledger, manifest, calls, fetched, seen, batch, rows, tables>>

LoggedEvents ==
  IF key THEN {i \in EventsOf("true") : ledger[i].kind = "candidate_log"} ELSE {}

\* The last candidate_log event vouches for the pool as it is.
VouchesMutant == \E i \in LoggedEvents : TRUE
Vouches == \E i \in LastOf(LoggedEvents) : ledger[i].hash = pool.rows

SchemaFails == seen.status = "failed" \/ seen.id # "true"

\* The pool is the one artifact that is not optional.
ProvenanceFails == pool.form = "none" \/ Junk \in Records(pool)

\* Events of another invocation alone are no error here.
LedgerFails == ~ key \/ ledger = <<>> \/ ~ ChainHolds("true")

EvidenceFails ==
  seen.status # "failed" /\ (LoggedEvents = {} \/ (seen.count > 0 /\ ~ Vouches))

\* GatewayTransportValidator reads a file the HTTP runtime never writes, and
\* DiscoveryCountValidator only warns: neither fails.
FailedValidators ==
  {v \in {"schema", "provenance", "tool_ledger", "discovery_evidence"} :
     \/ v = "schema" /\ SchemaFails
     \/ v = "provenance" /\ ProvenanceFails
     \/ v = "tool_ledger" /\ LedgerFails
     \/ v = "discovery_evidence" /\ EvidenceFails}

\* The gate runs, and its results are committed.
RunGate ==
  /\ at = "gate"
  /\ verdicts' = FailedValidators
  /\ at' = "verdict"
  /\ UNCHANGED <<turn, agents, key, files, seen, batch,
                 invocation, billed, ingested, outcomes, outcome, tables>>

Reject == verdicts # {} /\ Quit("verdict", "VALIDATOR_GATE_FAILED")

\* The ledger is read again for agent_tool_events; a failure is only logged.
IngestToolEvents ==
  /\ at = "verdict" /\ verdicts = {}
  /\ at' = "persist"
  /\ \E stored \in {{}, EventsOf("true")} : ingested' = stored
  /\ UNCHANGED <<turn, agents, key, files, seen, batch,
                 invocation, billed, verdicts, outcomes, outcome, tables>>

-----------------------------------------------------------------------------
(* The candidates become jobs, in one transaction *)

NoBatch == [todo |-> <<>>, new |-> {}, ids |-> {}, dead |-> {}]

\* The pool is read once, as it is now.  A manifest that claims no candidates
\* stores none, whatever the pool holds.
BeginBatch ==
  /\ at = "persist"
  /\ batch' = IF seen.count = 0 THEN NoBatch ELSE [NoBatch EXCEPT !.todo = pool.rows]
  /\ at' = "storing"
  /\ UNCHANGED <<turn, agents, key, files, seen, rows, tables>>

Stored(u) == jobs[u] # "none" \/ u \in batch.new

\* A known job keeps its row, a known dead URL is passed over, and a line that
\* is no record too; for anything else the job's page is fetched.
TakeLine ==
  LET u == Head(batch.todo) IN
  /\ at = "storing" /\ batch.todo # <<>>
  /\ IF u = Junk \/ Stored(u) \/ u \in dead \cup batch.dead
     THEN /\ batch' = [batch EXCEPT !.todo = Tail(@),
                         !.ids = IF u # Junk /\ Stored(u) THEN @ \cup {u} ELSE @]
          /\ at' = at
     ELSE batch' = batch /\ at' = "fetching"
  /\ UNCHANGED <<turn, agents, key, files, seen, rows, tables>>

\* With its description the job is reportable, without it discovered: stored
\* either way.  If the URL was stored meanwhile, the unique constraint undoes
\* the whole transaction, and the ids taken so far are returned all the same.
StoreJob ==
  LET u == Head(batch.todo) IN
  /\ at = "fetching"
  /\ IF Stored(u)
     THEN batch' = [batch EXCEPT !.todo = <<>>, !.new = {}, !.dead = {}]
     ELSE batch' = [batch EXCEPT !.todo = Tail(@), !.new = @ \cup {u}, !.ids = @ \cup {u}]
  /\ at' = "storing"
  /\ UNCHANGED <<turn, agents, key, files, seen, rows, tables>>

\* The page is gone or the posting closed: the URL is remembered instead.
BuryUrl ==
  /\ at = "fetching"
  /\ batch' = [batch EXCEPT !.todo = Tail(@), !.dead = @ \cup {Head(batch.todo)}]
  /\ at' = "storing"
  /\ UNCHANGED <<turn, agents, key, files, seen, rows, tables>>

CommitBatch ==
  /\ at = "storing" /\ batch.todo = <<>>
  /\ jobs' = [u \in Urls |-> IF u \in batch.new THEN "ours" ELSE jobs[u]]
  /\ dead' = dead \cup batch.dead
  /\ batch' = [batch EXCEPT !.new = {}, !.dead = {}]
  /\ at' = "reconcile"
  /\ UNCHANGED <<turn, agents, key, files, seen, rows>>

\* _reconcile_fetch_outcomes: which of the fetched postings the agent kept.
Reconcile ==
  /\ at = "reconcile"
  /\ outcomes' = [u \in fetched |-> u \in Records(pool)]
  /\ at' = "close"
  /\ UNCHANGED <<turn, agents, key, files, seen, batch,
                 invocation, billed, verdicts, ingested, outcome, tables>>

\* The last transaction counts the pool's lines once more.
Succeed ==
  /\ at = "close"
  /\ outcome' = [status |-> "succeeded", count |-> Len(pool.rows),
                 reported |-> seen.count, jobs |-> batch.ids]
  /\ at' = "done"
  /\ UNCHANGED <<turn, agents, key, files, seen, batch,
                 invocation, billed, verdicts, ingested, outcomes, tables>>

\* Another run, an import or a board sync stores the same posting.  It waits
\* for this transaction if that has inserted the URL already.  What was stored
\* before this transaction began is as good as stored when it begins.
RivalStores(u) ==
  /\ at \in {"persist", "storing", "fetching"}
  /\ Cardinality({v \in Urls : jobs[v] = "theirs"}) < MaxRivals
  /\ ~ Stored(u)
  /\ jobs' = [jobs EXCEPT ![u] = "theirs"]
  /\ UNCHANGED <<at, turn, agents, key, files, seen, batch, rows, dead>>

-----------------------------------------------------------------------------
(* The system *)

Init ==
  /\ at = "request" /\ turn = 0
  /\ session = [s \in Turns |-> "off"] /\ hand = [s \in Turns |-> Idle]
  /\ key \in BOOLEAN
  /\ pool = NoPool /\ ledger = <<>> /\ manifest = NoManifest
  /\ calls = 0 /\ fetched = {}
  /\ seen = NoManifest /\ batch = NoBatch
  /\ invocation = "none" /\ billed = {} /\ verdicts = {} /\ ingested = {}
  /\ outcomes = <<>> /\ outcome = [status |-> "running"]
  /\ jobs = [u \in Urls |-> "none"] /\ dead = {}

Agent(s) ==
  \/ \E u \in Urls : FetchSource(s, u) \/ WriteDocument(s, u) \/ LogCandidate(s, u)
  \/ LogNothing(s) \/ HashPool(s) \/ LeaveUnsigned(s)
  \/ ReadLedger(s) \/ AppendEvent(s)
  \/ \E m \in Manifests : WriteManifest(s, m)
  \/ SpoilManifest(s) \/ Stop(s)

Worker ==
  \/ ReadRequest \/ TranslateIntent \/ Prepare \/ Invoke
  \/ Answered \/ TimeOut \/ BreakOff \/ Continue \/ NoMoreTurns
  \/ ReadManifest \/ NormalizePool \/ RunGate \/ Reject \/ IngestToolEvents
  \/ BeginBatch \/ TakeLine \/ StoreJob \/ BuryUrl \/ CommitBatch
  \/ Reconcile \/ Succeed

\* Nothing reads the run's files once it is done.
Next ==
  \/ Worker
  \/ at # "done" /\ \E s \in Turns : Agent(s)
  \/ \E u \in Urls : RivalStores(u)

\* The worker never waits without a timeout, so each of its steps is taken.
Spec == Init /\ [][Next]_vars /\ WF_vars(Worker)

-----------------------------------------------------------------------------
(* Properties *)

\* No session is still at work behind the worker's back.
Alone == \A s \in Turns : session[s] # "cut"

\* Whatever the agent writes, in whichever order and over however many turns,
\* a job the run stores comes from a pool that a signed candidate_log event
\* hashed, and from a run the gate let through (validator.py: otherwise no
\* writes to the jobs table) - as long as no abandoned session writes on.
VettedJobsOnly ==
  Alone =>
    \A u \in Urls :
      jobs[u] = "ours" \/ u \in batch.new =>
        /\ verdicts = {}
        /\ \E i \in LoggedEvents : u \in {ledger[i].hash[k] : k \in 1 .. Len(ledger[i].hash)}

\* Sessions that follow each other extend one chain: the ledger of a run without
\* an abandoned session verifies, whatever other ids its events claim, so the
\* gate's tool_ledger check never turns down what the wrappers wrote properly.
LoneLedgerVerifies == Alone => \A id \in Ids : ChainHolds(id)

\* A discovery run ends, whatever the agent does and however often it is topped
\* up: execute_task holds the workspace's lock until then.
RunEnds == <>(at = "done")

=============================================================================
