------------------------------ MODULE TaskProofs -------------------------------
(***************************************************************************)
(* What the worker's two longest tasks store, whatever their models say:   *)
(* VettedJobsOnly and LoneLedgerVerifies of a search, for any number of    *)
(* turns, URLs, events and rivals; AuditHonest and FailedSectionKeeps of   *)
(* a tailored resume, for every resume and any answers.                    *)
(*                                                                         *)
(* The search.  The gate reads the pool and the ledger, and the jobs are   *)
(* stored from the pool much later: what it said still holds then because  *)
(* no session is at work.  SessionInv says why (a session that is on is    *)
(* the one the worker waits for), StoreInv what is left of the verdicts at *)
(* each step.  The chain grows by a session that read its end and appends  *)
(* to it much later: LedgerInv says what its hand holds in between.        *)
(* Remaining counts down what the worker has yet to do.                    *)
(*                                                                         *)
(* The resume.  AuditInv says how far each step's repairs go: from         *)
(* strategy on every requirement has a decision and nothing else has, and  *)
(* an audit that stands speaks of the plans and the document that stand,   *)
(* since a repair changes both before it asks for the next one.            *)
(* SectionInv keeps the books of the assembly: what is gone is a bullet    *)
(* that a section which found all it quotes does not quote.                *)
(***************************************************************************)
EXTENDS SearchRun, ResumeTailor, SequenceTheorems, FiniteSetTheorems,
        WellFoundedInduction, TLAPS

-----------------------------------------------------------------------------
(* The search *)

Lines    == Urls \cup {Junk}
Early    == {"request", "intent", "prepare", "invoke"}
Storing  == {"storing", "fetching", "reconcile", "close"}
Judged   == {"verdict", "persist"} \cup Storing
Manifested == {"normalize", "gate"} \cup Judged

TypeInv ==
  /\ turn \in Turns
  /\ session \in [Turns -> {"off", "on", "cut", "over"}]
  /\ pool \in [form : {"none", "document", "lines"}, rows : Seq(Lines)]
  /\ batch \in [todo : Seq(Lines), new : SUBSET Lines, ids : SUBSET Lines, dead : SUBSET Lines]
  /\ jobs \in [Urls -> {"none", "ours", "theirs"}]
  /\ at \in Manifested => seen \in Manifests

\* The worker waits for the one session that is on; later ones have not begun.
SessionInv ==
  /\ at \in Early => turn = 0 /\ \A s \in Turns : session[s] = "off"
  /\ \A s \in Turns : session[s] = "on" => at = "waiting" /\ s = turn
  /\ \A s \in Turns : s > turn => session[s] = "off"

\* From the gate on the verdicts are those the files deserve, and the lines
\* still to be stored are the pool's.
StoreInv ==
  /\ at \in {"persist"} \cup Storing => verdicts = {}
  /\ at \notin Storing \cup {"done"} => batch.new = {} /\ \A u \in Urls : jobs[u] # "ours"
  /\ at = "fetching" => batch.todo # <<>>
  /\ Alone /\ at \in Judged => verdicts = FailedValidators
  /\ Alone /\ at \in {"storing", "fetching"} =>
       /\ batch.todo # <<>> => seen.count # 0
       /\ \A k \in 1 .. Len(batch.todo) : batch.todo[k] \in Records(pool)

Inv == TypeInv /\ SessionInv /\ StoreInv /\ VettedJobsOnly

-----------------------------------------------------------------------------
\* The verdicts depend on the files only.
LEMMA FilesDecide ==
  ASSUME UNCHANGED <<key, pool, ledger, seen>>
  PROVE  FailedValidators' = FailedValidators /\ LoggedEvents' = LoggedEvents
  BY DEF FailedValidators, SchemaFails, ProvenanceFails, LedgerFails, EvidenceFails,
         LoggedEvents, Vouches, LastOf, EventsOf, ChainHolds, Records

\* A passing gate has a signed event that hashed the pool as it is.
LEMMA PassingPoolWasHashed ==
  ASSUME FailedValidators = {}, seen \in Manifests, seen.count # 0, NEW u \in Records(pool)
  PROVE  \E i \in LoggedEvents : u \in {ledger[i].hash[k] : k \in 1 .. Len(ledger[i].hash)}
<1>1. ~EvidenceFails /\ ~SchemaFails
  BY DEF FailedValidators
<1>2. Vouches
  BY <1>1 DEF EvidenceFails, SchemaFails, Manifests
<1>3. PICK i \in LoggedEvents : ledger[i].hash = pool.rows
  BY <1>2 DEF Vouches, LastOf
<1> QED BY <1>3 DEF Records

-----------------------------------------------------------------------------
\* The steps of the sessions.  While no session is abandoned they all belong to
\* the turn the worker waits for, when there is nothing to store yet.
LEMMA AgentKeepsInv ==
  ASSUME Inv, at # "done", NEW s \in Turns, Agent(s)
  PROVE  Inv'
<1> USE DEF Inv
<1>1. /\ UNCHANGED <<at, turn, seen, batch, verdicts, jobs>>
      /\ session' = session \/ (session[s] = "on" /\ session' = [session EXCEPT ![s] = "over"])
      /\ Active(s)
  BY DEF Agent, FetchSource, WriteDocument, LogCandidate, LogNothing, HashPool, LeaveUnsigned,
         ReadLedger, AppendEvent, WriteManifest, SpoilManifest, Stop, Active, agents, files, rows, tables
<1>2. pool' \in [form : {"none", "document", "lines"}, rows : Seq(Lines)]
  <2>1. CASE pool' = pool
    BY <2>1 DEF TypeInv
  <2>2. ASSUME NEW u \in Urls, WriteDocument(s, u) \/ LogCandidate(s, u)
        PROVE  pool' \in [form : {"none", "document", "lines"}, rows : Seq(Lines)]
    <3>1. <<u>> \in Seq(Lines) /\ <<Junk, u>> \in Seq(Lines) /\ Append(pool.rows, u) \in Seq(Lines)
      BY DEF TypeInv, Lines
    <3>2. Appended(u) \in Seq(Lines)
      BY <3>1 DEF Appended
    <3>3. CASE WriteDocument(s, u)
      <4>1. pool' = [form |-> "document", rows |-> <<u>>]
        BY <3>3 DEF WriteDocument
      <4> QED BY <4>1, <3>1
    <3>4. CASE LogCandidate(s, u)
      <4>1. pool' = [form |-> "lines", rows |-> Appended(u)]
        BY <3>4 DEF LogCandidate
      <4> QED BY <4>1, <3>2
    <3> QED BY <2>2, <3>3, <3>4
  <2>3. CASE ~ \E u \in Urls : WriteDocument(s, u) \/ LogCandidate(s, u)
    BY <2>1, <2>3
       DEF Agent, FetchSource, LogNothing, HashPool, LeaveUnsigned, ReadLedger, AppendEvent,
           WriteManifest, SpoilManifest, Stop, files
  <2> QED BY <2>2, <2>3
<1>3. TypeInv'
  BY <1>1, <1>2 DEF TypeInv
<1>4. SessionInv'
  BY <1>1 DEF SessionInv, TypeInv
<1>5. Alone' => Alone
  BY <1>1 DEF Alone, TypeInv
<1>6. Alone => at = "waiting"
  BY <1>1 DEF Alone, Active, SessionInv
<1>7. StoreInv'
  BY <1>1, <1>5, <1>6 DEF StoreInv, Storing, Judged
<1>8. VettedJobsOnly'
  BY <1>1, <1>5, <1>6 DEF VettedJobsOnly, StoreInv, Storing
<1> QED BY <1>3, <1>4, <1>7, <1>8

\* The worker's steps up to the gate store nothing.
Before ==
  \/ ReadRequest \/ TranslateIntent \/ Prepare \/ Invoke
  \/ Answered \/ TimeOut \/ BreakOff \/ Continue \/ NoMoreTurns
  \/ ReadManifest \/ NormalizePool

LEMMA BeforeKeepsInv ==
  ASSUME Inv, Before
  PROVE  Inv'
<1> USE DEF Inv
<1>1. /\ UNCHANGED <<batch, jobs>>
      /\ at \notin Judged \cup {"done"} /\ at' \notin Judged
  BY DEF Before, ReadRequest, TranslateIntent, Prepare, Invoke, Answered, TimeOut, BreakOff, Abandon,
         Continue, NoMoreTurns, ReadManifest, NormalizePool, Proceed, Quit, Review, tables, Judged, Storing
<1>2. at' \in Manifested => seen' \in Manifests
  BY DEF Before, ReadRequest, TranslateIntent, Prepare, Invoke, Answered, TimeOut, BreakOff, Abandon,
         Continue, NoMoreTurns, ReadManifest, NormalizePool, Proceed, Quit, Review, Manifested, Judged,
         Storing, TypeInv
<1>3. pool' \in [form : {"none", "document", "lines"}, rows : Seq(Lines)]
  BY DEF Before, ReadRequest, TranslateIntent, Prepare, Invoke, Answered, TimeOut, BreakOff, Abandon,
         Continue, NoMoreTurns, ReadManifest, NormalizePool, Proceed, Quit, Review, files, TypeInv
<1>4. turn' \in Turns /\ session' \in [Turns -> {"off", "on", "cut", "over"}] /\ SessionInv'
  <2>1. CASE ReadRequest \/ TranslateIntent \/ Prepare \/ NoMoreTurns \/ ReadManifest \/ NormalizePool
    <3>1. UNCHANGED <<turn, session>> /\ at # "waiting" /\ at' # "waiting" /\ (at' \in Early => at \in Early)
      BY <2>1 DEF ReadRequest, TranslateIntent, Prepare, NoMoreTurns, ReadManifest, NormalizePool,
                  Proceed, Quit, Review, agents, Early
    <3> QED BY <3>1 DEF TypeInv, SessionInv
  <2>2. CASE Invoke
    <3>1. at = "invoke" /\ at' = "waiting" /\ turn' = turn /\ session' = [session EXCEPT ![0] = "on"]
      BY <2>2 DEF Invoke
    <3>2. turn = 0 /\ \A s \in Turns : session[s] = "off"
      BY <3>1 DEF SessionInv, Early
    <3> QED BY <3>1, <3>2, BoundsAreNumbers DEF TypeInv, SessionInv, Early, Turns
  <2>3. CASE Answered
    <3>1. UNCHANGED <<turn, session>> /\ session[turn] = "over" /\ at' = "topping_up"
      BY <2>3 DEF Answered, agents
    <3> QED BY <3>1 DEF TypeInv, SessionInv, Early
  <2>4. CASE TimeOut \/ BreakOff
    <3>1. PICK end \in {"cut", "over"} : session' = [session EXCEPT ![turn] = end]
      BY <2>4 DEF TimeOut, BreakOff, Abandon
    <3>2. turn' = turn /\ at' \in {"done", "topping_up", "manifest"}
      BY <2>4 DEF TimeOut, BreakOff, Abandon, Review
    <3> QED BY <3>1, <3>2 DEF TypeInv, SessionInv, Early, Turns
  <2>5. CASE Continue
    <3>1. /\ at = "topping_up" /\ at' = "waiting" /\ turn < MaxTurns
          /\ turn' = turn + 1 /\ session' = [session EXCEPT ![turn + 1] = "on"]
      BY <2>5 DEF Continue, MayTopUp
    <3>2. turn + 1 \in Turns
      BY <3>1, BoundsAreNumbers DEF TypeInv, Turns
    <3> QED BY <3>1, <3>2 DEF TypeInv, SessionInv, Early, Turns
  <2> QED BY <2>1, <2>2, <2>3, <2>4, <2>5 DEF Before
<1>5. TypeInv'
  BY <1>1, <1>2, <1>3, <1>4 DEF TypeInv
<1>6. StoreInv'
  BY <1>1 DEF StoreInv, Judged, Storing
<1>7. VettedJobsOnly'
  BY <1>1 DEF VettedJobsOnly, StoreInv, Judged, Storing
<1> QED BY <1>4, <1>5, <1>6, <1>7

\* From the gate to the end the files stay as they were judged.
After ==
  \/ RunGate \/ Reject \/ IngestToolEvents \/ BeginBatch \/ TakeLine
  \/ StoreJob \/ BuryUrl \/ CommitBatch \/ Reconcile \/ Succeed

LEMMA AfterKeepsInv ==
  ASSUME Inv, After
  PROVE  Inv'
<1> USE DEF Inv
<1>1. /\ UNCHANGED <<turn, session, key, pool, ledger, seen>>
      /\ at \in Judged \cup {"gate"} /\ at' \in Judged \cup {"done"}
  BY DEF After, RunGate, Reject, IngestToolEvents, BeginBatch, TakeLine, StoreJob, BuryUrl,
         CommitBatch, Reconcile, Succeed, Quit, Review, agents, files, Judged, Storing
<1>2. (Alone' <=> Alone) /\ FailedValidators' = FailedValidators /\ LoggedEvents' = LoggedEvents
        /\ Records(pool)' = Records(pool)
  BY <1>1, FilesDecide DEF Alone, Records
<1>3. SessionInv'
  BY <1>1 DEF SessionInv, Early, Judged, Storing
<1>4. seen \in Manifests
  BY <1>1 DEF TypeInv, Manifested
<1>5. ASSUME NEW b \in [todo : Seq(Lines), new : SUBSET Lines, ids : SUBSET Lines, dead : SUBSET Lines],
             b.todo # <<>>
      PROVE  /\ Head(b.todo) \in Lines /\ Tail(b.todo) \in Seq(Lines)
             /\ Head(b.todo) = b.todo[1] /\ 1 \in 1 .. Len(b.todo)
             /\ \A k \in 1 .. Len(Tail(b.todo)) :
                  Tail(b.todo)[k] = b.todo[k + 1] /\ k + 1 \in 1 .. Len(b.todo)
  <2>1. b.todo \in Seq(Lines)
    OBVIOUS
  <2>2. Len(b.todo) \in Nat /\ Len(b.todo) > 0
    BY <2>1, <1>5, EmptySeq
  <2>3. Len(Tail(b.todo)) = Len(b.todo) - 1
    BY <2>1, <1>5
  <2> QED BY <2>1, <2>2, <2>3, <1>5
<1>14. batch \in [todo : Seq(Lines), new : SUBSET Lines, ids : SUBSET Lines, dead : SUBSET Lines]
  BY DEF TypeInv
<1>15. ASSUME batch.todo # <<>>
      PROVE  /\ Head(batch.todo) \in Lines /\ Tail(batch.todo) \in Seq(Lines)
             /\ Head(batch.todo) = batch.todo[1] /\ 1 \in 1 .. Len(batch.todo)
             /\ \A k \in 1 .. Len(Tail(batch.todo)) :
                  Tail(batch.todo)[k] = batch.todo[k + 1] /\ k + 1 \in 1 .. Len(batch.todo)
  BY <1>14, <1>15, <1>5
<1>6. CASE RunGate \/ Reject \/ IngestToolEvents
  <2>1. UNCHANGED <<batch, jobs>> /\ at \notin Storing \cup {"done"}
    BY <1>6 DEF RunGate, Reject, IngestToolEvents, Quit, tables, Storing
  <2>2. /\ at' \in {"verdict", "persist"} \cup {"done"}
        /\ at' = "verdict" => verdicts' = FailedValidators
        /\ at' = "persist" => at = "verdict" /\ verdicts = {} /\ verdicts' = verdicts
    BY <1>6 DEF RunGate, Reject, IngestToolEvents, Quit, Review
  <2>3. TypeInv'
    BY <1>1, <1>4, <2>1 DEF TypeInv
  <2>4. StoreInv'
    BY <1>2, <2>1, <2>2 DEF StoreInv, Judged, Storing
  <2>5. VettedJobsOnly'
    BY <2>1 DEF VettedJobsOnly, StoreInv
  <2> QED BY <1>3, <2>3, <2>4, <2>5
<1>7. CASE BeginBatch
  <2>1. /\ at = "persist" /\ at' = "storing" /\ UNCHANGED <<jobs, verdicts>>
        /\ batch' = IF seen.count = 0 THEN NoBatch ELSE [NoBatch EXCEPT !.todo = pool.rows]
    BY <1>7 DEF BeginBatch, rows, tables
  <2>2. /\ batch' \in [todo : Seq(Lines), new : SUBSET Lines, ids : SUBSET Lines, dead : SUBSET Lines]
        /\ batch'.new = {}
        /\ batch'.todo # <<>> => seen.count # 0 /\ batch'.todo = pool.rows
    BY <2>1 DEF NoBatch, TypeInv
  <2>3. \A k \in 1 .. Len(batch'.todo) : batch'.todo[k] \in Records(pool)
    <3>1. CASE batch'.todo = <<>>
      BY <3>1
    <3>2. CASE batch'.todo # <<>>
      BY <3>2, <2>2 DEF Records
    <3> QED BY <3>1, <3>2
  <2>4. TypeInv'
    BY <1>1, <1>4, <2>1, <2>2 DEF TypeInv
  <2>5. StoreInv'
    BY <1>1, <1>2, <2>1, <2>2, <2>3 DEF StoreInv, Judged, Storing
  <2>6. VettedJobsOnly'
    BY <2>1, <2>2 DEF VettedJobsOnly, StoreInv, Storing
  <2> QED BY <1>3, <2>4, <2>5, <2>6
<1>8. CASE TakeLine
  <2>1. /\ at = "storing" /\ batch.todo # <<>> /\ UNCHANGED <<jobs, verdicts>>
        /\ at' \in {"storing", "fetching"} /\ (at' = "fetching" => batch' = batch)
    BY <1>8 DEF TakeLine, rows, tables
  <2>2. /\ batch' \in [todo : Seq(Lines), new : SUBSET Lines, ids : SUBSET Lines, dead : SUBSET Lines]
        /\ batch'.new = batch.new
        /\ batch' = batch \/ batch'.todo = Tail(batch.todo)
    <3>1. CASE batch' = batch
      BY <3>1, <1>14
    <3>2. CASE batch' # batch
      <4>1. PICK I \in {batch.ids, batch.ids \cup {Head(batch.todo)}} :
              batch' = [batch EXCEPT !.todo = Tail(@), !.ids = I]
        BY <3>2, <1>8 DEF TakeLine
      <4>2. I \in SUBSET Lines
        BY <1>14, <1>15, <2>1
      <4> QED BY <4>1, <4>2, <1>14, <1>15, <2>1
    <3> QED BY <3>1, <3>2
  <2>3. TypeInv'
    BY <1>1, <1>4, <2>1, <2>2 DEF TypeInv
  <2>4. Alone => \A k \in 1 .. Len(batch'.todo) : batch'.todo[k] \in Records(pool)
    BY <1>15, <2>1, <2>2 DEF StoreInv
  <2>5. StoreInv'
    BY <1>1, <1>2, <2>1, <2>2, <2>4 DEF StoreInv, Judged, Storing
  <2>6. VettedJobsOnly'
    BY <1>1, <1>2, <2>1, <2>2 DEF VettedJobsOnly
  <2> QED BY <1>3, <2>3, <2>5, <2>6
<1>9. CASE StoreJob
  <2> DEFINE u == Head(batch.todo)
  <2>1. /\ at = "fetching" /\ at' = "storing" /\ batch.todo # <<>> /\ UNCHANGED <<jobs, verdicts>>
        /\ batch' = IF Stored(u) THEN [batch EXCEPT !.todo = <<>>, !.new = {}, !.dead = {}]
                    ELSE [batch EXCEPT !.todo = Tail(@), !.new = @ \cup {u}, !.ids = @ \cup {u}]
    BY <1>9 DEF StoreJob, rows, tables, StoreInv
  <2>2. /\ batch' \in [todo : Seq(Lines), new : SUBSET Lines, ids : SUBSET Lines, dead : SUBSET Lines]
        /\ batch'.new \subseteq batch.new \cup {u}
        /\ batch'.todo \in {<<>>, Tail(batch.todo)}
    <3>1. CASE Stored(u)
      <4>1. batch' = [batch EXCEPT !.todo = <<>>, !.new = {}, !.dead = {}] /\ <<>> \in Seq(Lines)
        BY <3>1, <2>1
      <4> QED BY <4>1, <1>14
    <3>2. CASE ~ Stored(u)
      <4>1. batch' = [batch EXCEPT !.todo = Tail(@), !.new = @ \cup {u}, !.ids = @ \cup {u}]
        BY <3>2, <2>1
      <4>2. u \in Lines /\ Tail(batch.todo) \in Seq(Lines)
        BY <1>15, <2>1
      <4>3. batch.new \cup {u} \in SUBSET Lines /\ batch.ids \cup {u} \in SUBSET Lines
        BY <4>2, <1>14
      <4> HIDE DEF u
      <4>4. batch' \in [todo : Seq(Lines), new : SUBSET Lines, ids : SUBSET Lines, dead : SUBSET Lines]
        BY <4>1, <4>2, <4>3, <1>14
      <4>5. batch'.new = batch.new \cup {u} /\ batch'.todo = Tail(batch.todo)
        BY <4>1, <1>14
      <4> QED BY <4>4, <4>5
    <3> QED BY <3>1, <3>2
  <2>3. TypeInv'
    BY <1>1, <1>4, <2>1, <2>2 DEF TypeInv
  <2>4. Alone => /\ \A k \in 1 .. Len(batch'.todo) : batch'.todo[k] \in Records(pool)
                 /\ u \in Records(pool) /\ seen.count # 0
    BY <1>15, <2>1, <2>2 DEF StoreInv
  <2>5. StoreInv'
    BY <1>1, <1>2, <2>1, <2>4 DEF StoreInv, Judged, Storing
  <2>6. Alone => verdicts = {} /\ FailedValidators = {}
    BY <2>1 DEF StoreInv, Judged, Storing
  <2>7. Alone => \E i \in LoggedEvents : u \in {ledger[i].hash[k] : k \in 1 .. Len(ledger[i].hash)}
    BY <1>4, <2>4, <2>6, PassingPoolWasHashed
  <2>8. VettedJobsOnly'
    BY <1>1, <1>2, <2>1, <2>2, <2>6, <2>7 DEF VettedJobsOnly
  <2> QED BY <1>3, <2>3, <2>5, <2>8
<1>10. CASE BuryUrl
  <2>1. /\ at = "fetching" /\ at' = "storing" /\ batch.todo # <<>> /\ UNCHANGED <<jobs, verdicts>>
        /\ batch' = [batch EXCEPT !.todo = Tail(@), !.dead = @ \cup {Head(batch.todo)}]
    BY <1>10 DEF BuryUrl, rows, tables, StoreInv
  <2>2. /\ batch' \in [todo : Seq(Lines), new : SUBSET Lines, ids : SUBSET Lines, dead : SUBSET Lines]
        /\ batch'.new = batch.new /\ batch'.todo = Tail(batch.todo)
    BY <1>14, <1>15, <2>1
  <2>3. TypeInv'
    BY <1>1, <1>4, <2>1, <2>2 DEF TypeInv
  <2>4. Alone => \A k \in 1 .. Len(batch'.todo) : batch'.todo[k] \in Records(pool)
    BY <1>15, <2>1, <2>2 DEF StoreInv
  <2>5. StoreInv'
    BY <1>1, <1>2, <2>1, <2>4 DEF StoreInv, Judged, Storing
  <2>6. VettedJobsOnly'
    BY <1>1, <1>2, <2>1, <2>2 DEF VettedJobsOnly
  <2> QED BY <1>3, <2>3, <2>5, <2>6
<1>11. CASE CommitBatch \/ Reconcile \/ Succeed
  <2>1. /\ at \in {"storing", "reconcile", "close"} /\ at' \in {"reconcile", "close", "done"}
        /\ verdicts' = verdicts
    BY <1>11 DEF CommitBatch, Reconcile, Succeed, rows
  <2>2. /\ batch' \in [todo : Seq(Lines), new : SUBSET Lines, ids : SUBSET Lines, dead : SUBSET Lines]
        /\ jobs' \in [Urls -> {"none", "ours", "theirs"}]
        /\ \A u \in Urls : jobs'[u] = "ours" \/ u \in batch'.new => jobs[u] = "ours" \/ u \in batch.new
    <3>1. CASE CommitBatch
      <4>1. PICK new \in SUBSET Lines : new = batch.new
        BY DEF TypeInv
      <4>2. /\ batch' = [batch EXCEPT !.new = {}, !.dead = {}]
            /\ jobs' = [u \in Urls |-> IF u \in new THEN "ours" ELSE jobs[u]]
        BY <3>1, <4>1 DEF CommitBatch
      <4>3. batch' \in [todo : Seq(Lines), new : SUBSET Lines, ids : SUBSET Lines, dead : SUBSET Lines]
            /\ batch'.new = {}
        BY <4>2 DEF TypeInv
      <4>4. jobs' \in [Urls -> {"none", "ours", "theirs"}]
        BY <4>2 DEF TypeInv
      <4> QED BY <4>1, <4>2, <4>3, <4>4
    <3>2. CASE batch' = batch /\ jobs' = jobs
      BY <3>2 DEF TypeInv
    <3> QED BY <1>11, <3>1, <3>2 DEF Reconcile, Succeed, tables
  <2>3. TypeInv'
    BY <1>1, <1>4, <2>1, <2>2 DEF TypeInv
  <2>4. StoreInv'
    BY <1>1, <1>2, <2>1 DEF StoreInv, Judged, Storing
  <2>5. VettedJobsOnly'
    BY <1>1, <1>2, <2>1, <2>2 DEF VettedJobsOnly
  <2> QED BY <1>3, <2>3, <2>4, <2>5
<1> QED BY <1>6, <1>7, <1>8, <1>9, <1>10, <1>11 DEF After

LEMMA RivalKeepsInv ==
  ASSUME Inv, NEW u \in Urls, RivalStores(u)
  PROVE  Inv'
<1> USE DEF Inv
<1>1. /\ UNCHANGED <<at, turn, session, key, pool, ledger, seen, batch, verdicts>>
      /\ jobs' = [jobs EXCEPT ![u] = "theirs"]
  BY DEF RivalStores, agents, files, rows
<1>2. (Alone' <=> Alone) /\ FailedValidators' = FailedValidators /\ LoggedEvents' = LoggedEvents
        /\ Records(pool)' = Records(pool)
  BY <1>1, FilesDecide DEF Alone, Records
<1>3. /\ jobs' \in [Urls -> {"none", "ours", "theirs"}]
      /\ \A v \in Urls : jobs'[v] = "ours" => jobs[v] = "ours"
  BY <1>1 DEF TypeInv
<1>4. TypeInv' /\ SessionInv'
  BY <1>1, <1>3 DEF TypeInv, SessionInv
<1>5. StoreInv'
  BY <1>1, <1>2, <1>3 DEF StoreInv
<1>6. VettedJobsOnly'
  BY <1>1, <1>2, <1>3 DEF VettedJobsOnly
<1> QED BY <1>4, <1>5, <1>6

-----------------------------------------------------------------------------
\* From the gate to the last row, no session that is still awaited is at work,
\* and the verdicts are those the files deserve.
THEOREM InvHolds == Spec => []Inv
<1>1. Init => Inv
  <2> SUFFICES ASSUME Init PROVE Inv
    OBVIOUS
  <2>1. TypeInv
    BY BoundsAreNumbers
       DEF Init, TypeInv, NoPool, NoBatch, Turns, Manifested, Judged, Storing
  <2>2. SessionInv
    BY DEF Init, SessionInv
  <2>3. StoreInv /\ VettedJobsOnly
    BY DEF Init, StoreInv, VettedJobsOnly, NoBatch, Judged, Storing
  <2> QED BY <2>1, <2>2, <2>3 DEF Inv
<1>2. Inv /\ [Next]_vars => Inv'
  <2> SUFFICES ASSUME Inv, [Next]_vars PROVE Inv'
    OBVIOUS
  <2>1. CASE Before \/ After
    BY <2>1, BeforeKeepsInv, AfterKeepsInv
  <2>2. CASE at # "done" /\ \E s \in Turns : Agent(s)
    BY <2>2, AgentKeepsInv
  <2>3. CASE \E u \in Urls : RivalStores(u)
    BY <2>3, RivalKeepsInv
  <2>4. CASE UNCHANGED vars
    <3>1. FailedValidators' = FailedValidators /\ LoggedEvents' = LoggedEvents
      BY <2>4, FilesDecide DEF vars, files
    <3> QED BY <2>4, <3>1
            DEF Inv, TypeInv, SessionInv, StoreInv, VettedJobsOnly, Alone, Records,
                vars, agents, files, rows, tables
  <2> QED BY <2>1, <2>2, <2>3, <2>4 DEF Next, Worker, Before, After
<1> QED BY <1>1, <1>2, PTL DEF Spec

\* A job the run stores was in a pool that a signed event hashed, and its run
\* passed the gate, as long as no abandoned session writes on (validator.py,
\* _persist_discovered_jobs).
THEOREM VettedJobsOnlyHolds == Spec => []VettedJobsOnly
<1>1. Inv => VettedJobsOnly
  BY DEF Inv
<1> QED BY <1>1, InvHolds, PTL

-----------------------------------------------------------------------------
(* The ledger *)

Entries == [id : Ids, kind : Kinds, hash : Seq(Lines), seq : Nat, prev : Nat]

\* A call in progress belongs to a session at work, and carries what its event
\* will hold.
Grounded(s) ==
  hand[s] # Idle =>
    /\ session[s] \in {"on", "cut"}
    /\ hand[s].step \in {"unchained", "chained"} =>
         hand[s].id \in Ids /\ hand[s].kind \in Kinds /\ hand[s].hash \in Seq(Lines)
    /\ hand[s].step = "chained" => hand[s].seq \in Nat /\ hand[s].prev \in Nat

\* A chain whose events stand in the file in their order.
Growing(id) ==
  /\ ChainHolds(id)
  /\ \A i, k \in EventsOf(id) : i < k => ledger[i].seq < ledger[k].seq

\* An event to be appended names the last one there is.
Follows(e) ==
  LET n == Cardinality(EventsOf(e.id)) IN
  /\ e.seq = n + 1
  /\ n = 0 => e.prev = NoEvent
  /\ n # 0 => e.prev \in EventsOf(e.id) /\ ledger[e.prev].seq = n

LedgerInv ==
  /\ ledger \in Seq(Entries)
  /\ hand = [s \in Turns |-> hand[s]]
  /\ \A s \in Turns : Grounded(s)
  /\ Alone => \A id \in Ids : Growing(id)
  /\ Alone => \A s \in Turns : hand[s] # Idle /\ hand[s].step = "chained" => Follows(hand[s])

\* The events of an invocation are finitely many, and numbered.
LEMMA EventsAreCountable ==
  ASSUME ledger \in Seq(Entries), NEW id
  PROVE  /\ EventsOf(id) \subseteq 1 .. Len(ledger) /\ Len(ledger) \in Nat
         /\ IsFiniteSet(EventsOf(id)) /\ Cardinality(EventsOf(id)) \in Nat
         /\ Cardinality(EventsOf(id)) = 0 <=> EventsOf(id) = {}
         /\ \A i \in EventsOf(id) : ledger[i].seq \in Nat
<1>0. Len(ledger) \in Nat
  OBVIOUS
<1>1. EventsOf(id) \in SUBSET (1 .. Len(ledger))
  BY Zenon DEF EventsOf
<1>2. IsFiniteSet(EventsOf(id))
  <2>1. IsFiniteSet(1 .. Len(ledger))
    BY <1>0, FS_Interval
  <2> QED BY <1>1, <2>1, FS_Subset
<1>3. Cardinality(EventsOf(id)) \in Nat /\ (Cardinality(EventsOf(id)) = 0 <=> EventsOf(id) = {})
  BY <1>2, FS_CardinalityType, FS_EmptySet
<1>4. \A i \in EventsOf(id) : ledger[i].seq \in Nat
  <2>1. \A i \in 1 .. Len(ledger) : ledger[i] \in Entries
    OBVIOUS
  <2> QED BY <1>1, <2>1 DEF Entries
<1> QED BY <1>0, <1>1, <1>2, <1>3, <1>4

LEMMA CountOf ==
  ASSUME ledger \in Seq(Entries), NEW id
  PROVE  \E S \in SUBSET Nat, n \in Nat : S = EventsOf(id) /\ n = Cardinality(EventsOf(id))
<1>1. EventsOf(id) \subseteq 1 .. Len(ledger) /\ Cardinality(EventsOf(id)) \in Nat
  BY EventsAreCountable
<1>2. EventsOf(id) \in SUBSET Nat
  BY <1>1
<1> QED BY <1>1, <1>2, Zenon

\* The last event is the one numbered by how many there are.
LEMMA LastIsCounted ==
  ASSUME ledger \in Seq(Entries), NEW id, Growing(id), EventsOf(id) # {}
  PROVE  /\ LastOf(EventsOf(id)) # {}
         /\ \A i \in LastOf(EventsOf(id)) : i \in EventsOf(id) /\ ledger[i].seq = Cardinality(EventsOf(id))
<1>0. PICK S \in SUBSET Nat, n \in Nat : S = EventsOf(id) /\ n = Cardinality(EventsOf(id))
  BY CountOf
<1>1. n # 0 /\ \A i \in S : ledger[i].seq \in Nat
  BY <1>0, EventsAreCountable
<1>2. {ledger[i].seq : i \in S} = 1 .. n
  BY <1>0 DEF Growing, ChainHolds
<1>3. \A i, k \in S : i < k => ledger[i].seq < ledger[k].seq
  BY <1>0 DEF Growing
<1>4. \A i \in S : ledger[i].seq <= n
  <2>1. ASSUME NEW i \in S PROVE ledger[i].seq <= n
    <3>1. ledger[i].seq \in 1 .. n
      BY <1>2
    <3> QED BY <3>1
  <2> QED BY <2>1
<1>5. PICK l \in S : ledger[l].seq = n
  <2>1. n \in {ledger[i].seq : i \in S}
    BY <1>1, <1>2
  <2> QED BY <2>1
<1>6. \A k \in S : ledger[k].seq < ledger[l].seq \/ (ledger[k].seq = ledger[l].seq /\ k <= l)
  BY <1>1, <1>3, <1>4, <1>5
<1>7. l \in LastOf(S)
  BY <1>6 DEF LastOf
<1>8. \A i \in LastOf(S) : i \in S /\ ledger[i].seq = n
  <2>1. ASSUME NEW i \in LastOf(S)
        PROVE  i \in S /\ ledger[i].seq = n
    <3>1. i \in S /\ (ledger[l].seq < ledger[i].seq \/ ledger[l].seq = ledger[i].seq)
      BY <2>1 DEF LastOf
    <3>2. ledger[i].seq \in Nat /\ ledger[i].seq <= n
      BY <3>1, <1>1, <1>4
    <3> QED BY <1>5, <3>1, <3>2
  <2> QED BY <2>1
<1> QED BY <1>0, <1>7, <1>8

\* An event that follows the chain extends it, and leaves the others.
LEMMA FollowerExtends ==
  ASSUME ledger \in Seq(Entries), \A id \in Ids : Growing(id),
         NEW e \in Entries, Follows(e), ledger' = Append(ledger, e)
  PROVE  \A id \in Ids : Growing(id)'
<1>0. PICK N \in Nat : N = Len(ledger) + 1 /\ Len(ledger) \in Nat
  OBVIOUS
<1>1. /\ Len(ledger') = N /\ ledger'[N] = e
      /\ \A i \in 1 .. Len(ledger) : ledger'[i] = ledger[i]
  BY <1>0
<1> TAKE id \in Ids
<1>8. PICK S \in SUBSET Nat, n \in Nat : S = EventsOf(id) /\ n = Cardinality(EventsOf(id))
  BY CountOf
<1>9. \A x \in 1 .. n : x \in 1 .. (n + 1) /\ x < n + 1
  OBVIOUS
<1>2. /\ S \subseteq 1 .. Len(ledger) /\ IsFiniteSet(S)
      /\ \A i \in S : ledger[i].seq \in Nat
  BY <1>8, EventsAreCountable
<1>3. EventsOf(id)' = IF e.id = id THEN S \cup {N} ELSE S
  BY <1>0, <1>1, <1>8 DEF EventsOf
<1>4. /\ {ledger[i].seq : i \in S} = 1 .. n
      /\ \A i \in S : IF ledger[i].seq = 1 THEN ledger[i].prev = NoEvent
                      ELSE ledger[i].prev \in S /\ ledger[ledger[i].prev].seq = ledger[i].seq - 1
      /\ \A i, k \in S : i < k => ledger[i].seq < ledger[k].seq
  BY <1>8 DEF Growing, ChainHolds
<1>5. \A i \in S : ledger'[i] = ledger[i] /\ i < N /\ i \in Nat
  <2>1. ASSUME NEW i \in S PROVE ledger'[i] = ledger[i] /\ i < N /\ i \in Nat
    <3>1. i \in 1 .. Len(ledger)
      BY <1>2
    <3> QED BY <1>0, <1>1, <3>1
  <2> QED BY <2>1
<1>6. CASE e.id # id
  <2>1. EventsOf(id)' = S
    BY <1>3, <1>6
  <2>2. {ledger'[i].seq : i \in S} = 1 .. n
    BY <1>4, <1>5
  <2>3. /\ \A i \in S : IF ledger'[i].seq = 1 THEN ledger'[i].prev = NoEvent
                       ELSE ledger'[i].prev \in S /\ ledger'[ledger'[i].prev].seq = ledger'[i].seq - 1
        /\ \A i, k \in S : i < k => ledger'[i].seq < ledger'[k].seq
    BY <1>4, <1>5
  <2> QED BY <1>8, <2>1, <2>2, <2>3 DEF Growing, ChainHolds
<1>7. CASE e.id = id
  <2>1. /\ EventsOf(id)' = S \cup {N} /\ N \notin S
    BY <1>3, <1>5, <1>7
  <2>2. Cardinality(S \cup {N}) = n + 1
    BY <1>8, <1>2, <2>1, FS_AddElement
  <2>3. /\ e.seq = n + 1
        /\ n = 0 => e.prev = NoEvent
        /\ n # 0 => e.prev \in S /\ ledger[e.prev].seq = n
    BY <1>8, <1>7 DEF Follows
  <2>0. PICK T \in SUBSET Nat : T = S \cup {N}
    OBVIOUS
  <2>4. ledger'[N].seq = n + 1 /\ ledger'[N].prev = e.prev
    BY <1>1, <2>3
  <2>6. /\ \A i \in S : ledger'[i].seq \in 1 .. n
        /\ \A j \in 1 .. n : \E i \in S : ledger'[i].seq = j
    <3>1. /\ \A i \in S : ledger[i].seq \in 1 .. n
          /\ \A j \in 1 .. n : \E i \in S : ledger[i].seq = j
      BY <1>4
    <3> QED BY <1>5, <3>1
  <2>5. {ledger'[i].seq : i \in T} = 1 .. (n + 1)
    <3>1. ASSUME NEW i \in T PROVE ledger'[i].seq \in 1 .. (n + 1)
      <4>1. CASE i \in S
        <5>1. PICK x \in 1 .. n : x = ledger'[i].seq
          BY <4>1, <2>6
        <5>2. x \in 1 .. (n + 1)
          BY <1>9, <5>1
        <5> QED BY Zenon, <5>1, <5>2
      <4>2. CASE i = N
        BY <4>2, <2>4
      <4> QED BY <2>0, <4>1, <4>2
    <3>2. ASSUME NEW j \in 1 .. (n + 1) PROVE \E i \in T : ledger'[i].seq = j
      <4>1. CASE j = n + 1
        BY <4>1, <2>0, <2>4
      <4>2. CASE j \in 1 .. n
        BY <4>2, <2>0, <2>6
      <4>3. j = n + 1 \/ j \in 1 .. n
        OBVIOUS
      <4> QED BY <4>1, <4>2, <4>3
    <3> QED BY <3>1, <3>2
  <2>7. \A i \in T : IF ledger'[i].seq = 1 THEN ledger'[i].prev = NoEvent
                    ELSE ledger'[i].prev \in T /\ ledger'[ledger'[i].prev].seq = ledger'[i].seq - 1
    <3>1. ASSUME NEW i \in S
          PROVE  IF ledger'[i].seq = 1 THEN ledger'[i].prev = NoEvent
                 ELSE ledger'[i].prev \in T /\ ledger'[ledger'[i].prev].seq = ledger'[i].seq - 1
      BY <1>4, <1>5, <2>0
    <3>2. IF ledger'[N].seq = 1 THEN ledger'[N].prev = NoEvent
          ELSE ledger'[N].prev \in T /\ ledger'[ledger'[N].prev].seq = ledger'[N].seq - 1
      <4>1. CASE n = 0
        BY <4>1, <2>0, <2>3, <2>4
      <4>2. CASE n # 0
        <5>1. e.prev \in S /\ ledger'[e.prev].seq = n
          BY <4>2, <1>5, <2>3
        <5>2. n + 1 # 1 /\ (n + 1) - 1 = n
          BY <4>2
        <5>3. e.prev \in T
          BY <5>1, <2>0
        <5> QED BY <5>1, <5>2, <5>3, <2>4
      <4> QED BY <4>1, <4>2
    <3> QED BY <3>1, <3>2, <2>0
  <2>8. \A i, k \in T : i < k => ledger'[i].seq < ledger'[k].seq
    <3>1. \A i, k \in S : i < k => ledger'[i].seq < ledger'[k].seq
      BY <1>4, <1>5
    <3>2. \A i \in S : ledger'[i].seq < ledger'[N].seq
      <4>1. ASSUME NEW i \in S PROVE ledger'[i].seq < n + 1
        <5>1. PICK x \in 1 .. n : x = ledger'[i].seq
          BY <2>6
        <5>2. x < n + 1
          BY <1>9, <5>1
        <5> QED BY Zenon, <5>1, <5>2
      <4> QED BY <2>4, <4>1
    <3>3. \A i \in S : ~ N < i
      BY <1>5
    <3>4. ~ N < N
      OBVIOUS
    <3> QED BY <2>0, <3>1, <3>2, <3>3, <3>4
  <2> QED BY <1>8, <2>0, <2>1, <2>2, <2>5, <2>7, <2>8 DEF Growing, ChainHolds
<1> QED BY <1>6, <1>7

\* What does not touch the ledger, the calls or the sessions.
LEMMA SameLedger ==
  ASSUME LedgerInv, UNCHANGED <<ledger, hand, session>>
  PROVE  LedgerInv'
  BY DEF LedgerInv, Grounded, Growing, ChainHolds, EventsOf, Follows, Alone

\* Chains depend on the ledger only.
LEMMA SameChains ==
  ASSUME UNCHANGED ledger
  PROVE  \A id \in Ids : Growing(id)' <=> Growing(id)
  BY DEF Growing, ChainHolds, EventsOf

\* A wrapper call goes a step further.  While no session is abandoned, no other
\* call is in progress.
LEMMA CallMoves ==
  ASSUME Inv, LedgerInv, NEW s \in Turns, Active(s), NEW h,
         session' = session, hand' = [hand EXCEPT ![s] = h],
         ledger' \in Seq(Entries),
         Alone => \A id \in Ids : Growing(id)',
         h # Idle =>
           /\ h.step \in {"unchained", "chained"} =>
                h.id \in Ids /\ h.kind \in Kinds /\ h.hash \in Seq(Lines)
           /\ h.step = "chained" => h.seq \in Nat /\ h.prev \in Nat,
         Alone /\ h # Idle /\ h.step = "chained" => Follows(h)'
  PROVE  LedgerInv'
<1>1. /\ hand' = [t \in Turns |-> hand'[t]]
      /\ hand'[s] = h
      /\ \A t \in Turns : t # s => hand'[t] = hand[t]
  BY DEF LedgerInv
<1>2. \A t \in Turns : Grounded(t)'
  <2>1. Grounded(s)'
    BY <1>1 DEF Grounded, Active
  <2>2. ASSUME NEW t \in Turns, t # s PROVE Grounded(t)'
    BY <1>1, <2>2 DEF Grounded, LedgerInv
  <2> QED BY <2>1, <2>2
<1>3. Alone' <=> Alone
  BY DEF Alone
<1>4. Alone => \A t \in Turns : t # s => hand[t] = Idle
  BY DEF Alone, Inv, SessionInv, LedgerInv, Grounded, Active
<1>5. Alone => \A t \in Turns : hand'[t] # Idle /\ hand'[t].step = "chained" => Follows(hand[t])'
  <2>1. ASSUME Alone, NEW t \in Turns, hand'[t] # Idle, hand'[t].step = "chained"
        PROVE  t = s
    BY <1>1, <1>4, <2>1
  <2>2. Alone /\ hand'[s] # Idle /\ hand'[s].step = "chained" => Follows(hand[s])'
    BY <1>1 DEF Follows
  <2> QED BY <2>1, <2>2
<1> QED BY <1>1, <1>2, <1>3, <1>5 DEF LedgerInv

LEMMA AgentKeepsLedger ==
  ASSUME Inv, LedgerInv, NEW s \in Turns, Agent(s)
  PROVE  LedgerInv'
<1>1. CASE UNCHANGED <<ledger, hand, session>>
  BY <1>1, SameLedger
<1>2. CASE ledger' = ledger /\ session' = session /\ Active(s)
           /\ \E h : hand' = [hand EXCEPT ![s] = h]
                     /\ (h = Idle \/ h = [step |-> "logged"])
  <2>1. PICK h : hand' = [hand EXCEPT ![s] = h] /\ (h = Idle \/ h = [step |-> "logged"])
    BY <1>2
  <2>2. h # Idle => h.step = "logged"
    BY <2>1
  <2>3. ledger' \in Seq(Entries) /\ (Alone => \A id \in Ids : Growing(id)')
    BY <1>2, SameChains DEF LedgerInv
  <2> QED BY <1>2, <2>1, <2>2, <2>3, CallMoves
<1>3. CASE HashPool(s) \/ \E m \in Manifests : WriteManifest(s, m)
  <2>1. PICK i \in Ids, k \in Kinds, l \in Seq(Lines) :
          hand' = [hand EXCEPT ![s] = [step |-> "unchained", id |-> i, kind |-> k, hash |-> l]]
    <3>1. CASE HashPool(s)
      BY <3>1 DEF HashPool, Inv, TypeInv, Ids, Kinds
    <3>2. ASSUME NEW m \in Manifests, WriteManifest(s, m)
          PROVE  \E i \in Ids, k \in Kinds, l \in Seq(Lines) :
                   hand' = [hand EXCEPT ![s] = [step |-> "unchained", id |-> i, kind |-> k, hash |-> l]]
      <4>1. m.id \in Ids /\ "manifest_write" \in Kinds /\ <<>> \in Seq(Lines)
        BY DEF Manifests, Kinds
      <4> QED BY <3>2, <4>1 DEF WriteManifest
    <3> QED BY <1>3, <3>1, <3>2
  <2>2. PICK h : h = [step |-> "unchained", id |-> i, kind |-> k, hash |-> l]
    OBVIOUS
  <2>3. h.step = "unchained" /\ h.id = i /\ h.kind = k /\ h.hash = l
    BY <2>2
  <2>4. ledger' = ledger /\ session' = session /\ Active(s)
    BY <1>3 DEF HashPool, WriteManifest, files
  <2>5. ledger' \in Seq(Entries) /\ (Alone => \A id \in Ids : Growing(id)')
    BY <2>4, SameChains DEF LedgerInv
  <2> QED BY <2>1, <2>2, <2>3, <2>4, <2>5, CallMoves
<1>4. CASE ReadLedger(s)
  <2>1. PICK P : P = LastOf(EventsOf(hand[s].id))
    OBVIOUS
  <2>2. PICK h : h = [step |-> "chained", id |-> hand[s].id, kind |-> hand[s].kind, hash |-> hand[s].hash,
                      prev |-> IF P = {} THEN NoEvent ELSE CHOOSE i \in P : TRUE,
                      seq |-> IF P = {} THEN 1 ELSE ledger[CHOOSE i \in P : TRUE].seq + 1]
    OBVIOUS
  <2>3. /\ hand' = [hand EXCEPT ![s] = h]
        /\ ledger' = ledger /\ session' = session /\ Active(s)
        /\ hand[s] # Idle /\ hand[s].step = "unchained"
    BY <1>4, <2>1, <2>2 DEF ReadLedger, Predecessors, files
  <2>4. hand[s].id \in Ids /\ hand[s].kind \in Kinds /\ hand[s].hash \in Seq(Lines)
    BY <2>3 DEF LedgerInv, Grounded
  <2>5. /\ h.step = "chained" /\ h.id = hand[s].id /\ h.kind = hand[s].kind /\ h.hash = hand[s].hash
        /\ P = {} => h.prev = 0 /\ h.seq = 1
        /\ P # {} => h.prev \in P /\ h.seq = ledger[h.prev].seq + 1
    <3>1. P # {} => (CHOOSE i \in P : TRUE) \in P
      OBVIOUS
    <3> QED BY <2>2, <3>1 DEF NoEvent
  <2>6. P \subseteq EventsOf(h.id)
    BY <2>1, <2>5 DEF LastOf
  <2>7. h.seq \in Nat /\ h.prev \in Nat
    <3>1. \A i \in EventsOf(h.id) : i \in Nat /\ ledger[i].seq \in Nat
      BY EventsAreCountable DEF LedgerInv
    <3> QED BY <2>5, <2>6, <3>1
  <2>8. Alone => Follows(h)
    <3> SUFFICES ASSUME Alone PROVE Follows(h)
      OBVIOUS
    <3>1. Growing(h.id) /\ ledger \in Seq(Entries)
      BY <2>4, <2>5 DEF LedgerInv
    <3>2. CASE EventsOf(h.id) = {}
      <4>1. Cardinality(EventsOf(h.id)) = 0
        BY <3>1, <3>2, EventsAreCountable
      <4> QED BY <2>5, <2>6, <3>2, <4>1 DEF Follows, NoEvent
    <3>3. CASE EventsOf(h.id) # {}
      <4>1. P # {} /\ \A i \in P : i \in EventsOf(h.id) /\ ledger[i].seq = Cardinality(EventsOf(h.id))
        BY <2>1, <2>5, <3>1, <3>3, LastIsCounted
      <4>2. Cardinality(EventsOf(h.id)) # 0
        BY <3>1, <3>3, EventsAreCountable
      <4> QED BY <2>5, <4>1, <4>2 DEF Follows
    <3> QED BY <3>2, <3>3
  <2>9. Alone => Follows(h)'
    BY <2>3, <2>8 DEF Follows, EventsOf
  <2>10. ledger' \in Seq(Entries) /\ (Alone => \A id \in Ids : Growing(id)')
    BY <2>3, SameChains DEF LedgerInv
  <2> QED BY <2>3, <2>4, <2>5, <2>7, <2>9, <2>10, CallMoves
<1>5. CASE AppendEvent(s)
  <2>1. PICK e : e = [id |-> hand[s].id, kind |-> hand[s].kind, hash |-> hand[s].hash,
                      seq |-> hand[s].seq, prev |-> hand[s].prev]
    OBVIOUS
  <2>2. /\ ledger' = Append(ledger, e) /\ hand' = [hand EXCEPT ![s] = Idle]
        /\ session' = session /\ Active(s)
        /\ hand[s] # Idle /\ hand[s].step = "chained"
    BY <1>5, <2>1 DEF AppendEvent
  <2>3. e \in Entries
    BY <2>1, <2>2 DEF LedgerInv, Grounded, Entries
  <2>4. ledger' \in Seq(Entries)
    BY <2>2, <2>3 DEF LedgerInv
  <2>5. Alone => Follows(e)
    <3>1. e.id = hand[s].id /\ e.seq = hand[s].seq /\ e.prev = hand[s].prev
      BY <2>1
    <3> QED BY <2>2, <3>1 DEF LedgerInv, Follows
  <2>6. Alone => \A id \in Ids : Growing(id)'
    BY <2>2, <2>3, <2>5, FollowerExtends DEF LedgerInv
  <2> QED BY <2>2, <2>4, <2>6, CallMoves
<1>6. CASE Stop(s)
  <2>1. /\ ledger' = ledger /\ hand' = hand /\ hand[s] = Idle
        /\ session[s] = "on" /\ session' = [session EXCEPT ![s] = "over"]
    BY <1>6 DEF Stop, files
  <2>2. Alone' => Alone
    BY <2>1 DEF Alone, Inv, TypeInv
  <2>3. \A t \in Turns : Grounded(t)'
    BY <2>1 DEF Grounded, LedgerInv, Inv, TypeInv
  <2>4. \A id \in Ids : Growing(id)' <=> Growing(id)
    BY <2>1, SameChains
  <2>5. \A t \in Turns : Follows(hand[t])' <=> Follows(hand[t])
    BY <2>1 DEF Follows, EventsOf
  <2> QED BY <2>1, <2>2, <2>3, <2>4, <2>5 DEF LedgerInv
<1> QED
  BY <1>1, <1>2, <1>3, <1>4, <1>5, <1>6
     DEF Agent, FetchSource, WriteDocument, LogCandidate, LogNothing, LeaveUnsigned, SpoilManifest,
         agents, files

\* The worker starts a session that has no call in progress, or abandons the
\* one it waited for.
LEMMA WorkerKeepsLedger ==
  ASSUME Inv, LedgerInv, Worker
  PROVE  LedgerInv'
<1>1. CASE UNCHANGED <<ledger, hand, session>>
  BY <1>1, SameLedger
<1>2. CASE Invoke \/ Continue
  <2>1. PICK t \in Turns : /\ session[t] = "off" /\ session' = [session EXCEPT ![t] = "on"]
                          /\ ledger' = ledger /\ hand' = hand
    <3>1. CASE Invoke
      BY <3>1 DEF Invoke, Inv, SessionInv, TypeInv, Early, Turns, files, BoundsAreNumbers
    <3>2. CASE Continue
      <4>1. turn + 1 \in Turns /\ turn + 1 > turn
        BY <3>2, BoundsAreNumbers DEF Continue, MayTopUp, Inv, TypeInv, Turns
      <4> QED BY <3>2, <4>1 DEF Continue, Inv, SessionInv, files
    <3> QED BY <1>2, <3>1, <3>2
  <2>2. Alone' => Alone
    BY <2>1 DEF Alone, Inv, TypeInv
  <2>3. \A u \in Turns : Grounded(u)'
    BY <2>1 DEF Grounded, LedgerInv, Inv, TypeInv
  <2>4. \A id \in Ids : Growing(id)' <=> Growing(id)
    BY <2>1, SameChains
  <2>5. \A u \in Turns : Follows(hand[u])' <=> Follows(hand[u])
    BY <2>1 DEF Follows, EventsOf
  <2> QED BY <2>1, <2>2, <2>3, <2>4, <2>5 DEF LedgerInv
<1>3. CASE Abandon
  <2>1. PICK end \in {"cut", "over"} :
          /\ session[turn] = "on" /\ session' = [session EXCEPT ![turn] = end]
          /\ ledger' = ledger
          /\ hand' = [hand EXCEPT ![turn] = IF session'[turn] = "over" THEN Idle ELSE @]
    BY <1>3 DEF Abandon, files
  <2>2. /\ turn \in Turns
        /\ hand' = [u \in Turns |-> hand'[u]]
        /\ \A u \in Turns : hand'[u] = Idle \/ hand'[u] = hand[u]
        /\ end = "over" => hand'[turn] = Idle
        /\ \A u \in Turns : session'[u] = IF u = turn THEN end ELSE session[u]
    BY <2>1 DEF LedgerInv, Inv, TypeInv
  <2>3. Alone' => Alone
    BY <2>1, <2>2 DEF Alone
  <2>4. \A u \in Turns : Grounded(u)'
    BY <2>2 DEF Grounded, LedgerInv
  <2>5. \A id \in Ids : Growing(id)' <=> Growing(id)
    BY <2>1, SameChains
  <2>6. \A u \in Turns : hand'[u] # Idle => (Follows(hand[u])' <=> Follows(hand[u]))
    <3>1. ASSUME NEW u \in Turns, hand'[u] = hand[u]
          PROVE  Follows(hand[u])' <=> Follows(hand[u])
      BY <2>1, <3>1 DEF Follows, EventsOf
    <3> QED BY <2>2, <3>1
  <2> QED BY <2>1, <2>2, <2>3, <2>4, <2>5, <2>6 DEF LedgerInv
<1> QED
  BY <1>1, <1>2, <1>3
     DEF Worker, ReadRequest, TranslateIntent, Prepare, Answered, TimeOut, BreakOff, NoMoreTurns,
         ReadManifest, NormalizePool, RunGate, Reject, IngestToolEvents, BeginBatch, TakeLine, StoreJob,
         BuryUrl, CommitBatch, Reconcile, Succeed, Proceed, Quit, agents, files

\* Sessions that follow each other extend one chain, whatever ids their events
\* claim (tool_ledger.py: append_signed_event, load_and_verify).
THEOREM LoneLedgerVerifiesHolds == Spec => []LoneLedgerVerifies
<1>1. Init => LedgerInv
  <2> SUFFICES ASSUME Init PROVE LedgerInv
    OBVIOUS
  <2>1. ledger = <<>> /\ hand = [s \in Turns |-> Idle]
    BY DEF Init
  <2>2. \A id : EventsOf(id) = {}
    BY <2>1 DEF EventsOf
  <2>3. \A id \in Ids : Growing(id)
    <3>1. Cardinality({}) = 0 /\ 1 .. 0 = {}
      BY FS_EmptySet
    <3> QED BY <2>2, <3>1 DEF Growing, ChainHolds
  <2>4. ledger \in Seq(Entries)
    BY <2>1
  <2> QED BY <2>1, <2>3, <2>4 DEF LedgerInv, Grounded
<1>2. Inv /\ LedgerInv /\ [Next]_vars => LedgerInv'
  <2> SUFFICES ASSUME Inv, LedgerInv, [Next]_vars PROVE LedgerInv'
    OBVIOUS
  <2>1. ASSUME NEW s \in Turns, Agent(s) PROVE LedgerInv'
    BY <2>1, AgentKeepsLedger
  <2>2. CASE Worker
    BY <2>2, WorkerKeepsLedger
  <2>3. CASE UNCHANGED <<ledger, hand, session>>
    BY <2>3, SameLedger
  <2>4. \A u \in Urls : RivalStores(u) => UNCHANGED <<ledger, hand, session>>
    BY DEF RivalStores, agents, files
  <2>5. vars' = vars => UNCHANGED <<ledger, hand, session>>
    BY DEF vars, agents, files
  <2> QED BY <2>1, <2>2, <2>3, <2>4, <2>5 DEF Next
<1>3. LedgerInv => LoneLedgerVerifies
  BY DEF LedgerInv, LoneLedgerVerifies, Growing
<1> QED BY <1>1, <1>2, <1>3, InvHolds, PTL DEF Spec

-----------------------------------------------------------------------------
(* The search ends: its worker has a bounded number of steps to take *)

\* The steps to the end, but for what is taken for each line and each turn.
Stage ==
  [request |-> 14, intent |-> 13, prepare |-> 12, invoke |-> 11, waiting |-> 10,
   topping_up |-> 9, manifest |-> 8, normalize |-> 7, gate |-> 6, verdict |-> 5,
   persist |-> 4, storing |-> 3, fetching |-> 2, reconcile |-> 2, close |-> 1, done |-> 0]

\* From step a and turn t, with n lines of the transaction still to store.
Ahead(a, t, n) ==
  LET linesAhead == IF a \in {"storing", "fetching"} THEN n
                    ELSE IF a \in {"reconcile", "close", "done"} THEN 0 ELSE MaxLines + 1
      turnsAhead == IF a \in Early \cup {"waiting", "topping_up"} THEN MaxTurns - t ELSE 0
  IN  Stage[a] + 2 * linesAhead + 2 * turnsAhead
Remaining == Ahead(at, turn, Len(batch.todo))

\* Wherever the worker is, it has something to go on with: the session it waits
\* for may be timed out or has answered, the manifest can be read or reported,
\* and a page that is fetched is the page of a line.
NothingBlocks ==
  /\ at \in DOMAIN Stage
  /\ at = "waiting" => session[turn] \in {"on", "over"}
  /\ manifest \in Manifests \cup {NoManifest, Unreadable}
  /\ at = "fetching" => batch.todo # <<>>

PoolIsShort == Len(pool.rows) <= MaxLines + 1

EndInv == NothingBlocks /\ PoolIsShort

LEMMA AheadAt ==
  ASSUME NEW t \in 0 .. MaxTurns, NEW n \in Nat
  PROVE  LET l == 2 * (MaxLines + 1)
             u == 2 * (MaxTurns - t) IN
         /\ l \in Nat /\ u \in Nat
         /\ Ahead("request", t, n) = 14 + l + u /\ Ahead("intent", t, n) = 13 + l + u
         /\ Ahead("prepare", t, n) = 12 + l + u /\ Ahead("invoke", t, n) = 11 + l + u
         /\ Ahead("waiting", t, n) = 10 + l + u /\ Ahead("topping_up", t, n) = 9 + l + u
         /\ Ahead("manifest", t, n) = 8 + l     /\ Ahead("normalize", t, n) = 7 + l
         /\ Ahead("gate", t, n) = 6 + l         /\ Ahead("verdict", t, n) = 5 + l
         /\ Ahead("persist", t, n) = 4 + l
         /\ Ahead("storing", t, n) = 3 + 2 * n  /\ Ahead("fetching", t, n) = 2 + 2 * n
         /\ Ahead("reconcile", t, n) = 2        /\ Ahead("close", t, n) = 1
         /\ Ahead("done", t, n) = 0
<1>1. MaxLines \in Nat /\ MaxTurns \in Nat
  BY BoundsAreNumbers
<1> QED BY <1>1 DEF Ahead, Stage, Early

\* The steps that neither take up a line nor begin a turn.
Onward ==
  {<<"request", "intent">>, <<"request", "done">>, <<"intent", "prepare">>, <<"intent", "done">>,
   <<"prepare", "invoke">>, <<"invoke", "waiting">>,
   <<"waiting", "topping_up">>, <<"waiting", "manifest">>, <<"waiting", "done">>,
   <<"topping_up", "manifest">>, <<"manifest", "normalize">>, <<"manifest", "done">>,
   <<"normalize", "gate">>, <<"gate", "verdict">>, <<"verdict", "persist">>, <<"verdict", "done">>,
   <<"storing", "reconcile">>, <<"reconcile", "close">>, <<"close", "done">>}

LEMMA OnwardIsNearer ==
  ASSUME NEW t \in 0 .. MaxTurns, NEW n \in Nat, NEW a, NEW b, <<a, b>> \in Onward
  PROVE  Ahead(b, t, n) < Ahead(a, t, n)
<1>1. PICK l \in Nat, u \in Nat : l = 2 * (MaxLines + 1) /\ u = 2 * (MaxTurns - t)
  BY AheadAt
<1>2. /\ Ahead("request", t, n) = 14 + l + u /\ Ahead("intent", t, n) = 13 + l + u
      /\ Ahead("prepare", t, n) = 12 + l + u /\ Ahead("invoke", t, n) = 11 + l + u
      /\ Ahead("waiting", t, n) = 10 + l + u /\ Ahead("topping_up", t, n) = 9 + l + u
      /\ Ahead("manifest", t, n) = 8 + l     /\ Ahead("normalize", t, n) = 7 + l
      /\ Ahead("gate", t, n) = 6 + l         /\ Ahead("verdict", t, n) = 5 + l
      /\ Ahead("persist", t, n) = 4 + l      /\ Ahead("storing", t, n) = 3 + 2 * n
      /\ Ahead("reconcile", t, n) = 2        /\ Ahead("close", t, n) = 1
      /\ Ahead("done", t, n) = 0
  BY <1>1, AheadAt
<1>3. ASSUME <<a, b>> = <<"storing", "reconcile">> PROVE Ahead(b, t, n) < Ahead(a, t, n)
  BY <1>2, <1>3
<1>4. ASSUME <<a, b>> # <<"storing", "reconcile">> PROVE Ahead(b, t, n) < Ahead(a, t, n)
  <2>1. CASE b = "done"
    BY <1>1, <1>2, <1>4, <2>1 DEF Onward
  <2>2. CASE b # "done"
    BY <1>1, <1>2, <1>4, <2>2 DEF Onward
  <2> QED BY <2>1, <2>2
<1> QED BY <1>3, <1>4

LEMMA RemainingIsNat ==
  ASSUME Inv, EndInv
  PROVE  Remaining \in Nat
<1>1. turn \in 0 .. MaxTurns /\ Len(batch.todo) \in Nat
  BY DEF Inv, TypeInv, Turns
<1>2. at \in DOMAIN Stage
  BY DEF EndInv, NothingBlocks
<1>3. Stage[at] \in Nat
  BY <1>2 DEF Stage
<1>4. MaxLines + 1 \in Nat /\ MaxTurns - turn \in Nat
  BY <1>1, BoundsAreNumbers
<1>5. \A i \in Nat, j \in Nat, k \in Nat : i + 2 * j + 2 * k \in Nat
  OBVIOUS
<1> QED BY <1>1, <1>3, <1>4, <1>5 DEF Remaining, Ahead

\* Neither the sessions nor another run give the worker more to do.
LEMMA AgentKeepsEndInv ==
  ASSUME Inv, EndInv, NEW s \in Turns, Agent(s)
  PROVE  EndInv' /\ Remaining' = Remaining
<1>1. /\ UNCHANGED <<at, turn, batch>>
      /\ session' = session \/ session' = [session EXCEPT ![s] = "over"]
  BY DEF Agent, FetchSource, WriteDocument, LogCandidate, LogNothing, HashPool, LeaveUnsigned,
         ReadLedger, AppendEvent, WriteManifest, SpoilManifest, Stop, agents, files
<1>2. manifest' = manifest \/ manifest' \in Manifests \cup {Unreadable}
  BY DEF Agent, FetchSource, WriteDocument, LogCandidate, LogNothing, HashPool, LeaveUnsigned,
         ReadLedger, AppendEvent, WriteManifest, SpoilManifest, Stop, files
<1>3. PoolIsShort'
  <2>1. CASE pool' = pool
    BY <2>1 DEF EndInv, PoolIsShort
  <2>2. ASSUME NEW u \in Urls, WriteDocument(s, u) PROVE PoolIsShort'
    <3>1. pool'.rows = <<u>>
      BY <2>2 DEF WriteDocument
    <3> QED BY <3>1, BoundsAreNumbers DEF PoolIsShort
  <2>3. ASSUME NEW u \in Urls, LogCandidate(s, u) PROVE PoolIsShort'
    <3>1. pool'.rows = Appended(u) /\ Len(pool.rows) < MaxLines
      BY <2>3 DEF LogCandidate
    <3>2. pool.rows \in Seq(Lines)
      BY DEF Inv, TypeInv
    <3>3. Len(Append(pool.rows, u)) = Len(pool.rows) + 1 /\ Len(pool.rows) \in Nat
      BY <3>2 DEF Lines
    <3>4. Len(Appended(u)) <= MaxLines + 1
      BY <3>1, <3>3, BoundsAreNumbers DEF Appended
    <3> QED BY <3>1, <3>4 DEF PoolIsShort
  <2> QED BY <2>1, <2>2, <2>3
          DEF Agent, FetchSource, LogNothing, HashPool, LeaveUnsigned, ReadLedger, AppendEvent,
              WriteManifest, SpoilManifest, Stop, files
<1>4. NothingBlocks'
  BY <1>1, <1>2 DEF EndInv, NothingBlocks, Inv, TypeInv
<1>5. Remaining' = Remaining
  BY <1>1 DEF Remaining
<1> QED BY <1>3, <1>4, <1>5 DEF EndInv

\* Each step of the worker's brings the end nearer.
LEMMA WorkerComesNearer ==
  ASSUME Inv, EndInv, Worker
  PROVE  EndInv' /\ Remaining' < Remaining
<1> DEFINE n == Len(batch.todo)
<1>1. /\ MaxTurns \in Nat /\ MaxLines \in Nat
      /\ turn \in 0 .. MaxTurns /\ n \in Nat /\ Len(pool.rows) \in Nat
  BY BoundsAreNumbers DEF Inv, TypeInv, Turns
<1>2. session \in [Turns -> {"off", "on", "cut", "over"}] /\ turn \in Turns
  BY DEF Inv, TypeInv
<1>3. Remaining = Ahead(at, turn, n)
  BY DEF Remaining
<1> HIDE DEF n
<1>4. ASSUME UNCHANGED <<turn, batch>> PROVE Remaining' = Ahead(at', turn, n)
  BY <1>4 DEF Remaining, n
<1>5. ASSUME UNCHANGED <<turn, session, pool, manifest, batch>>,
             \/ at = "request" /\ at' \in {"intent", "done"}
             \/ at = "intent" /\ at' \in {"prepare", "done"}
             \/ at = "prepare" /\ at' = "invoke"
             \/ at = "topping_up" /\ at' = "manifest"
      PROVE  EndInv' /\ Remaining' < Remaining
  <2>1. <<at, at'>> \in Onward
    BY <1>5 DEF Onward
  <2>2. Remaining' < Remaining
    BY <2>1, <1>1, <1>3, <1>4, <1>5, OnwardIsNearer
  <2>3. at' \in DOMAIN Stage \ {"waiting", "fetching"}
    BY <1>5 DEF Stage
  <2> QED BY <1>5, <2>2, <2>3 DEF EndInv, NothingBlocks, PoolIsShort
<1>6. CASE ReadRequest \/ TranslateIntent \/ Prepare \/ NoMoreTurns
  <2>1. UNCHANGED <<turn, session, pool, manifest, batch>>
    BY <1>6 DEF ReadRequest, TranslateIntent, Prepare, NoMoreTurns, Proceed, Quit, agents, files
  <2>2. \/ at = "request" /\ at' \in {"intent", "done"}
        \/ at = "intent" /\ at' \in {"prepare", "done"}
        \/ at = "prepare" /\ at' = "invoke"
        \/ at = "topping_up" /\ at' = "manifest"
    BY <1>6 DEF ReadRequest, TranslateIntent, Prepare, NoMoreTurns, Proceed, Quit, Review
  <2> QED BY <2>1, <2>2, <1>5
<1>7. CASE Invoke
  <2>1. /\ at = "invoke" /\ at' = "waiting" /\ session' = [session EXCEPT ![0] = "on"]
        /\ UNCHANGED <<turn, pool, manifest, batch>>
    BY <1>7 DEF Invoke, files
  <2>2. turn = 0
    BY <2>1 DEF Inv, SessionInv, Early
  <2>3. session'[turn'] = "on" /\ at' \in DOMAIN Stage
    BY <2>1, <2>2, <1>2 DEF Stage
  <2>4. Remaining' < Remaining
    BY <2>1, <1>1, <1>3, <1>4, AheadAt
  <2> QED BY <2>1, <2>3, <2>4 DEF EndInv, NothingBlocks, PoolIsShort
<1>8. CASE Continue
  <2>1. /\ at = "topping_up" /\ at' = "waiting" /\ turn < MaxTurns /\ turn' = turn + 1
        /\ session' = [session EXCEPT ![turn + 1] = "on"]
        /\ UNCHANGED <<pool, manifest, batch>>
    BY <1>8 DEF Continue, MayTopUp, files
  <2>2. turn + 1 \in 0 .. MaxTurns
    BY <2>1, <1>1
  <2>3. session'[turn'] = "on" /\ at' \in DOMAIN Stage
    BY <2>1, <2>2, <1>2 DEF Stage, Turns
  <2>4. Remaining' = Ahead("waiting", turn + 1, n)
    BY <2>1 DEF Remaining, n
  <2>5. /\ Ahead("waiting", turn + 1, n) = 10 + 2 * (MaxLines + 1) + 2 * (MaxTurns - (turn + 1))
        /\ Ahead("topping_up", turn, n) = 9 + 2 * (MaxLines + 1) + 2 * (MaxTurns - turn)
    BY <2>2, <1>1, AheadAt
  <2>6. Remaining' < Remaining
    BY <2>1, <2>4, <2>5, <1>1, <1>3
  <2> QED BY <2>1, <2>3, <2>6 DEF EndInv, NothingBlocks, PoolIsShort
<1>9. CASE Answered \/ TimeOut \/ BreakOff
  <2>1. /\ at = "waiting" /\ at' \in {"topping_up", "manifest", "done"}
        /\ UNCHANGED <<turn, pool, manifest, batch>>
    BY <1>9 DEF Answered, TimeOut, BreakOff, Abandon, Review, files
  <2>2. <<at, at'>> \in Onward
    BY <2>1 DEF Onward
  <2>3. Remaining' < Remaining
    BY <2>1, <2>2, <1>1, <1>3, <1>4, OnwardIsNearer
  <2>4. at' \in DOMAIN Stage \ {"waiting", "fetching"}
    BY <2>1 DEF Stage
  <2> QED BY <2>1, <2>3, <2>4 DEF EndInv, NothingBlocks, PoolIsShort
<1>10. CASE ReadManifest \/ NormalizePool \/ RunGate \/ Reject \/ IngestToolEvents
  <2>1. UNCHANGED <<turn, manifest, batch>> /\ pool'.rows = pool.rows
    BY <1>10 DEF ReadManifest, NormalizePool, RunGate, Reject, IngestToolEvents, Quit, files, Inv, TypeInv
  <2>2. \/ at = "manifest" /\ at' \in {"normalize", "done"}
        \/ at = "normalize" /\ at' = "gate"
        \/ at = "gate" /\ at' = "verdict"
        \/ at = "verdict" /\ at' \in {"persist", "done"}
    BY <1>10 DEF ReadManifest, NormalizePool, RunGate, Reject, IngestToolEvents, Quit, Review
  <2>3. <<at, at'>> \in Onward
    BY <2>2 DEF Onward
  <2>4. Remaining' < Remaining
    BY <2>1, <2>3, <1>1, <1>3, <1>4, OnwardIsNearer
  <2>5. at' \in DOMAIN Stage \ {"waiting", "fetching"}
    BY <2>2 DEF Stage
  <2> QED BY <2>1, <2>4, <2>5 DEF EndInv, NothingBlocks, PoolIsShort
<1>11. CASE BeginBatch
  <2>1. /\ at = "persist" /\ at' = "storing" /\ UNCHANGED <<turn, manifest, pool>>
        /\ batch'.todo \in {<<>>, pool.rows}
    BY <1>11 DEF BeginBatch, NoBatch, files
  <2>2. PICK k \in Nat : k <= MaxLines + 1 /\ Len(batch'.todo) = k
    BY <2>1, <1>1 DEF EndInv, PoolIsShort
  <2>3. Remaining' = Ahead("storing", turn, k)
    BY <2>1, <2>2 DEF Remaining
  <2>4. Ahead("storing", turn, k) = 3 + 2 * k /\ Ahead("persist", turn, n) = 4 + 2 * (MaxLines + 1)
    BY <2>2, <1>1, AheadAt
  <2>5. Remaining' < Remaining
    BY <2>1, <2>2, <2>3, <2>4, <1>1, <1>3
  <2> QED BY <2>1, <2>5 DEF EndInv, NothingBlocks, PoolIsShort, Stage
<1>12. CASE TakeLine \/ StoreJob \/ BuryUrl
  <2>1. UNCHANGED <<turn, manifest, pool>>
    BY <1>12 DEF TakeLine, StoreJob, BuryUrl, files
  <2>2. batch.todo # <<>> /\ batch.todo \in Seq(Lines)
    BY <1>12 DEF TakeLine, StoreJob, BuryUrl, EndInv, NothingBlocks, Inv, TypeInv
  <2>3. \/ at = "storing" /\ at' = "fetching" /\ batch'.todo = batch.todo
        \/ /\ at \in {"storing", "fetching"} /\ at' = "storing"
           /\ batch'.todo \in {<<>>, Tail(batch.todo)}
    BY <1>12 DEF TakeLine, StoreJob, BuryUrl, Inv, TypeInv
  <2>4. n >= 1 /\ Len(Tail(batch.todo)) = n - 1 /\ Len(<<>>) = 0
    BY <2>2 DEF n
  <2>5. PICK k \in Nat : /\ Len(batch'.todo) = k
                         /\ \/ at = "storing" /\ at' = "fetching" /\ k = n
                            \/ at \in {"storing", "fetching"} /\ at' = "storing" /\ k < n
    BY <2>3, <2>4, <1>1 DEF n
  <2>6. Remaining' = Ahead(at', turn, k)
    BY <2>1, <2>5 DEF Remaining
  <2>7. /\ Ahead("storing", turn, k) = 3 + 2 * k /\ Ahead("fetching", turn, k) = 2 + 2 * k
        /\ Ahead("storing", turn, n) = 3 + 2 * n /\ Ahead("fetching", turn, n) = 2 + 2 * n
    BY <2>5, <1>1, AheadAt
  <2>8. Remaining' < Remaining
    BY <2>5, <2>6, <2>7, <1>1, <1>3
  <2> QED BY <2>1, <2>2, <2>3, <2>8 DEF EndInv, NothingBlocks, PoolIsShort, Stage
<1>13. CASE CommitBatch \/ Reconcile \/ Succeed
  <2>1. UNCHANGED <<turn, manifest, pool>>
    BY <1>13 DEF CommitBatch, Reconcile, Succeed, files
  <2>2. batch'.todo = batch.todo
    BY <1>13 DEF CommitBatch, Reconcile, Succeed, Inv, TypeInv
  <2>3. \/ at = "storing" /\ at' = "reconcile"
        \/ at = "reconcile" /\ at' = "close"
        \/ at = "close" /\ at' = "done"
    BY <1>13 DEF CommitBatch, Reconcile, Succeed
  <2>4. Remaining' = Ahead(at', turn, n)
    BY <2>1, <2>2 DEF Remaining, n
  <2>5. <<at, at'>> \in Onward
    BY <2>3 DEF Onward
  <2>6. Remaining' < Remaining
    BY <2>4, <2>5, <1>1, <1>3, OnwardIsNearer
  <2> QED BY <2>1, <2>3, <2>6 DEF EndInv, NothingBlocks, PoolIsShort, Stage
<1> QED BY <1>6, <1>7, <1>8, <1>9, <1>10, <1>11, <1>12, <1>13 DEF Worker

\* What a run's end rests on: whatever the agent and the other runs do, the
\* worker always has a step to take, each one brings the end nearer, and nothing
\* else moves it (handle_search_run).
EndComesNearer ==
  [][IF Worker THEN Remaining' < Remaining ELSE Remaining' = Remaining]_vars

THEOREM EndComesNearerHolds ==
  Spec => [](NothingBlocks /\ Remaining \in Nat) /\ EndComesNearer
<1>1. Init => EndInv
  <2> SUFFICES ASSUME Init PROVE EndInv
    OBVIOUS
  <2>1. at = "request" /\ manifest = NoManifest /\ pool.rows = <<>>
    BY DEF Init, NoPool
  <2> QED BY <2>1, BoundsAreNumbers DEF EndInv, NothingBlocks, PoolIsShort, Stage
<1>2. Inv /\ EndInv /\ [Next]_vars =>
        EndInv' /\ [IF Worker THEN Remaining' < Remaining ELSE Remaining' = Remaining]_vars
  <2> SUFFICES ASSUME Inv, EndInv, [Next]_vars
               PROVE  /\ EndInv'
                      /\ [IF Worker THEN Remaining' < Remaining ELSE Remaining' = Remaining]_vars
    OBVIOUS
  <2>1. CASE Worker
    BY <2>1, WorkerComesNearer
  <2>2. ASSUME NEW s \in Turns, Agent(s) PROVE EndInv' /\ Remaining' = Remaining
    BY <2>2, AgentKeepsEndInv
  <2>3. ASSUME UNCHANGED <<at, turn, session, manifest, pool, batch>>
        PROVE  EndInv' /\ Remaining' = Remaining
    BY <2>3 DEF EndInv, NothingBlocks, PoolIsShort, Remaining
  <2>4. \A u \in Urls : RivalStores(u) => UNCHANGED <<at, turn, session, manifest, pool, batch>>
    BY DEF RivalStores, agents, files
  <2>5. vars' = vars => UNCHANGED <<at, turn, session, manifest, pool, batch>>
    BY DEF vars, agents, files
  <2> QED BY <2>1, <2>2, <2>3, <2>4, <2>5 DEF Next
<1>3. Inv /\ EndInv => NothingBlocks /\ Remaining \in Nat
  BY RemainingIsNat DEF EndInv
<1> QED BY <1>1, <1>2, <1>3, InvHolds, PTL DEF Spec, EndComesNearer

-----------------------------------------------------------------------------
(* The resume: a passing audit is true of the draft *)

AfterStrategy == {"planning", "writing", "assembling", "auditing", "audited", "done"}

\* The strategy in force decides on the requirements and on nothing else.
StrategyCovers ==
  step \in AfterStrategy =>
    /\ strategy.decided \subseteq Capabilities \X Decisions
    /\ Decided(Decisions) = required

\* A passing audit is about the plans and the document beside it.
AuditIsCurrent ==
  step \in {"audited", "done"} /\ audit.passed =>
    ~Untraceable(plans) /\ unresolved = <<>>

\* Requirements are capabilities.
RequirementsAreCapabilities ==
  step \in AfterStrategy \cup {"facts", "matching", "strategy"} => required \subseteq Capabilities

AuditInv == RequirementsAreCapabilities /\ StrategyCovers /\ AuditIsCurrent

\* Sanitizing leaves one decision at least on each requirement and none on
\* anything else.
LEMMA SanitizedCovers ==
  ASSUME NEW s \in Strategies, NEW reqs, reqs \subseteq Capabilities
  PROVE  /\ Sanitized(s, reqs).decided \subseteq Capabilities \X Decisions
         /\ {d[1] : d \in {d \in Sanitized(s, reqs).decided : d[2] \in Decisions}} = reqs
<1> DEFINE known == {d \in s.decided : d[1] \in reqs}
           added == {<<c, "omit_honest_gap">> : c \in {c \in reqs : \A d \in known : d[1] # c}}
<1>0. s.decided \subseteq Capabilities \X Decisions
  BY StrategiesAreStrategies
<1>1. Sanitized(s, reqs).decided = known \cup added
  BY StrategiesAreStrategies DEF Sanitized
<1>2. known \cup added \subseteq Capabilities \X Decisions
  BY <1>0 DEF Decisions
<1>3. ASSUME NEW d \in known \cup added PROVE d[1] \in reqs
  BY <1>0
<1>4. ASSUME NEW c \in reqs PROVE \E d \in known \cup added : d[1] = c /\ d[2] \in Decisions
  <2>1. CASE \E d \in known : d[1] = c
    BY <2>1, <1>0
  <2>2. CASE \A d \in known : d[1] # c
    <3>1. <<c, "omit_honest_gap">> \in added
      BY <2>2
    <3>2. <<c, "omit_honest_gap">>[1] = c /\ <<c, "omit_honest_gap">>[2] \in Decisions
      BY DEF Decisions
    <3> QED BY <3>1, <3>2
  <2> QED BY <2>1, <2>2
<1> QED BY <1>1, <1>2, <1>3, <1>4

THEOREM AuditInvHolds == TailorSpec => []AuditInv
<1>1. TailorInit => AuditInv
  BY DEF TailorInit, AuditInv, RequirementsAreCapabilities, StrategyCovers, AuditIsCurrent, AfterStrategy
<1>2. AuditInv /\ [TailorNext]_tailorVars => AuditInv'
  <2> SUFFICES ASSUME AuditInv, [TailorNext]_tailorVars PROVE AuditInv'
    OBVIOUS
  <2> USE DEF AuditInv, RequirementsAreCapabilities, StrategyCovers, AuditIsCurrent, AfterStrategy, assembly
  <2>1. CASE Load \/ (\E t \in DOMAIN threads : Return(t)) \/ Join
    BY <2>1 DEF Load, Return, Join, evidence, draft
  <2>2. CASE AnalyseWorkstreams
    BY <2>2 , RequirementsAreSets DEF AnalyseWorkstreams, draft
  <2>3. CASE ExtractFacts \/ Match
    BY <2>3 DEF ExtractFacts, Match, draft
  <2>4. CASE Strategise
    <3>1. PICK s \in Strategies : strategy' = Sanitized(s, required)
      BY <2>4 DEF Strategise
    <3>2. required \subseteq Capabilities /\ required' = required /\ step' = "planning"
      BY <2>4 DEF Strategise, evidence
    <3>3. StrategyCovers'
      BY <3>1, <3>2, SanitizedCovers DEF Decided
    <3> QED BY <3>2, <3>3
  <2>5. CASE Plan
    BY <2>5 DEF Plan, evidence, Decided
  <2>6. CASE Write
    BY <2>6 DEF Write, evidence, Decided
  <2>10. CASE (\E e \in left : Open(e)) \/ Replace \/ Close \/ Assembled
    <3>1. UNCHANGED <<evidence, strategy, plans>> /\ step = "assembling" /\ step' \in {step, "auditing"}
      BY <2>10 DEF Open, Replace, Close, Assembled, draft
    <3> QED BY <3>1 DEF evidence, Decided
  <2>7. CASE Audit
    <3>1. PICK verdict \in Verdicts : audit' = Audited(verdict, plans, unresolved)
      BY <2>7 DEF Audit
    <3>2. step = "auditing" /\ step' = "audited" /\ UNCHANGED <<evidence, strategy, plans, unresolved>>
      BY <2>7 DEF Audit
    <3>3. audit'.passed => ~Untraceable(plans) /\ unresolved = <<>>
      BY <3>1 DEF Audited
    <3>4. Untraceable(plans)' <=> Untraceable(plans)
      BY <3>2 DEF Untraceable, Decided, Withheld
    <3> QED BY <3>2, <3>3, <3>4 DEF evidence, Decided
  <2>8. CASE Repair
    BY <2>8 DEF Repair, evidence, draft, Decided
  <2>9. CASE Finish \/ Raise \/ UNCHANGED tailorVars
    <3>1. UNCHANGED <<evidence, strategy, draft>> /\ step' \in {step, "done", "failed"}
            /\ (step' = "done" => step \in {"audited", "done"})
      BY <2>9 DEF Finish, Raise, tailorVars
    <3>2. (Untraceable(plans)' <=> Untraceable(plans)) /\ Decided(Decisions)' = Decided(Decisions)
      BY <3>1 DEF Untraceable, Decided, Withheld, draft
    <3> QED BY <3>1, <3>2 DEF evidence, draft
  <2> QED BY <2>1, <2>2, <2>3, <2>4, <2>5, <2>6, <2>7, <2>8, <2>9, <2>10 DEF TailorNext
<1> QED BY <1>1, <1>2, PTL DEF TailorSpec

\* What a stored draft with a passing audit claims is what its strategy put
\* forward and withholds nothing, after a repair too (_step_audit,
\* _check_claim_traceability).
THEOREM AuditHonestHolds == TailorSpec => []AuditHonest
<1>1. AuditInv => AuditHonest
  <2> SUFFICES ASSUME AuditInv, step = "done", audit.passed
               PROVE  /\ required \subseteq Decided(Decisions)
                      /\ Decided(PutForward) \subseteq Served(plans)
                      /\ Served(plans) \subseteq required \ Withheld
                      /\ unresolved = <<>>
    BY DEF AuditHonest
  <2>1. Decided(Decisions) = required /\ ~Untraceable(plans) /\ unresolved = <<>>
    BY DEF AuditInv, StrategyCovers, AuditIsCurrent, AfterStrategy
  <2> QED BY <2>1 DEF Untraceable
<1> QED BY <1>1, AuditInvHolds, PTL

-----------------------------------------------------------------------------
(* Assembly loses nothing it is not sure of *)

\* The experiences whose sections are behind us and were cleaned up.
Cleared == {e \in Touched \cap Experiences : /\ e \notin left \cup failures
                                             /\ section = None \/ section.exp # e}

\* What is gone is a bullet that a section cleaned up does not quote.
Ledger ==
  /\ left \subseteq Touched /\ failures \subseteq (Touched \cap Experiences) \ left
  /\ DOMAIN document = {"kept", "new"}
  /\ \A k \in DOMAIN Document \ document.kept : \E e \in Cleared : Document[k] \in Bullets[e] \ Covered(e)
  /\ section # None =>
       /\ section \in [exp : Experiences, next : Nat, failed : BOOLEAN]
       /\ section.exp \in Touched \ left
       /\ section.exp \in failures <=> section.failed

AssemblyInv == step \in {"assembling", "auditing", "audited", "done"} => Ledger
IdleInv     == step # "assembling" => section = None
SectionInv  == AssemblyInv /\ IdleInv

\* Assembling a document keeps its books, whatever the order of the sections.
LEMMA LedgerKept ==
  ASSUME Ledger, (\E e \in left : Open(e)) \/ Replace \/ Close
  PROVE  Ledger'
<1> DEFINE Lost(e) == Bullets[e] \ Covered(e)
<1>0. /\ UNCHANGED <<plans, written>>
      /\ \A e : Covered(e)' = Covered(e)
      /\ Touched' = Touched
  <2>1. UNCHANGED <<plans, written>>
    BY DEF Open, Replace, Close, draft
  <2> QED BY <2>1 DEF Covered, Pairs, Quoted, PlanOf, PlansOf, Touched
<1>1. /\ left \subseteq Touched /\ failures \subseteq (Touched \cap Experiences) \ left
      /\ DOMAIN document = {"kept", "new"}
      /\ \A k \in DOMAIN Document \ document.kept : \E e \in Cleared : Document[k] \in Lost(e)
      /\ section # None =>
           /\ section \in [exp : Experiences, next : Nat, failed : BOOLEAN]
           /\ section.exp \in Touched \ left
           /\ section.exp \in failures <=> section.failed
  BY DEF Ledger
\* A step that cleans nothing leaves the sections cleaned up as they are.
<1>2. ASSUME Cleared \subseteq Cleared', DOMAIN document' = {"kept", "new"},
             document'.kept = document.kept
      PROVE  \A k \in DOMAIN Document \ document'.kept : \E e \in Cleared' : Document[k] \in (Bullets[e] \ Covered(e)')
  BY <1>0, <1>1, <1>2
<1>3. ASSUME NEW e \in left, Open(e)
      PROVE  Ledger'
  <2>1. /\ section = None /\ left' = left \ {e} /\ UNCHANGED <<document, failures>>
        /\ section' = IF e \in Experiences THEN [exp |-> e, next |-> 1, failed |-> FALSE] ELSE None
    BY <1>3 DEF Open, draft
  <2>2. e \in Touched \ left' /\ e \notin failures
    BY <1>1, <2>1
  <2>3. ASSUME section' # None
        PROVE  /\ section' \in [exp : Experiences, next : Nat, failed : BOOLEAN]
               /\ section'.exp = e /\ section'.failed = FALSE
    <3>1. section' = [exp |-> e, next |-> 1, failed |-> FALSE] /\ e \in Experiences
      BY <2>1, <2>3
    <3> QED BY ONLY <3>1
  <2>4. Cleared \subseteq Cleared'
    BY <1>0, <2>1, <2>3 DEF Cleared
  <2> QED BY <1>0, <1>1, <1>2, <2>1, <2>2, <2>3, <2>4 DEF Ledger
<1>4. ASSUME Replace
      PROVE  Ledger'
  <2> DEFINE e == section.exp
             text == Quoted(e, section.next)
             here == Standing(document, text)
  <2>1. /\ section \in [exp : Experiences, next : Nat, failed : BOOLEAN]
        /\ e \in Touched \ left /\ (e \in failures <=> section.failed)
        /\ left' = left
    BY <1>1, <1>4 DEF Replace
  <2>2. PICK f, n : section' = [exp |-> e, next |-> n, failed |-> f] /\ n \in Nat /\ f \in BOOLEAN
                      /\ (f <=> section.failed \/ here = {})
                      /\ failures' = IF here = {} THEN failures \cup {e} ELSE failures
    <3>1. section.next + 1 \in Nat /\ section.failed \in BOOLEAN
      BY <2>1
    <3>2. CASE here = {}
      <4>1. section' = [section EXCEPT !.next = @ + 1, !.failed = TRUE] /\ failures' = failures \cup {e}
        BY <1>4, <3>2 DEF Replace
      <4>2. section' = [exp |-> e, next |-> section.next + 1, failed |-> TRUE]
        BY <2>1, <4>1
      <4> QED BY <3>1, <3>2, <4>1, <4>2
    <3>3. CASE here # {}
      <4>1. section' = [section EXCEPT !.next = @ + 1] /\ failures' = failures
        BY <1>4, <3>3 DEF Replace
      <4>2. section' = [exp |-> e, next |-> section.next + 1, failed |-> section.failed]
        BY <2>1, <4>1
      <4> QED BY <3>1, <3>3, <4>1, <4>2
    <3> QED BY <3>2, <3>3
  <2>3. document'.kept = document.kept /\ DOMAIN document' = {"kept", "new"}
    BY <1>1, <1>4 DEF Replace
  <2>4. Cleared \subseteq Cleared'
    <3>1. section'.exp = e /\ section # None
      BY <1>4, <2>2 DEF Replace
    <3> QED BY <1>0, <2>1, <2>2, <3>1 DEF Cleared
  <2>5. section' \in [exp : Experiences, next : Nat, failed : BOOLEAN]
    BY <2>1, <2>2
  <2>6. section'.exp = e /\ (section'.exp \in failures' <=> section'.failed)
    BY <2>1, <2>2
  <2>7. failures' \subseteq (Touched' \cap Experiences) \ left'
    BY <1>0, <1>1, <2>1, <2>2
  <2> QED BY <1>0, <1>1, <1>2, <2>1, <2>3, <2>4, <2>5, <2>6, <2>7 DEF Ledger
<1>5. ASSUME Close
      PROVE  Ledger'
  <2>1. /\ section \in [exp : Experiences, next : Nat, failed : BOOLEAN]
        /\ section.exp \in Touched \ left
        /\ (section.exp \in failures <=> section.failed)
        /\ section' = None /\ UNCHANGED <<left, failures>>
        /\ document' = Cleaned(document, section)
    BY <1>1, <1>5 DEF Close
  <2>2. Cleared \subseteq Cleared'
    BY <1>0, <2>1 DEF Cleared
  <2>3. CASE section.failed
    <3>1. document' = document
      BY <2>1, <2>3 DEF Cleaned
    <3> QED BY <1>0, <1>1, <1>2, <2>1, <2>2, <3>1 DEF Ledger
  <2>4. CASE ~ section.failed
    <3>1. PICK e : e = section.exp
      OBVIOUS
    <3>2. document' = RemoveLines(document, Lost(e))
      BY <2>1, <2>4, <3>1 DEF Cleaned
    <3>3. /\ DOMAIN document' = {"kept", "new"}
          /\ \A k \in document.kept \ document'.kept : Document[k] \in Lost(e)
      BY <1>1, <3>2 DEF RemoveLines
    <3>4. e \in Cleared'
      BY <1>0, <2>1, <2>4, <3>1 DEF Cleared
    <3>5. \A k \in DOMAIN Document \ document'.kept : \E f \in Cleared' : Document[k] \in (Bullets[f] \ Covered(f)')
      BY <1>0, <1>1, <2>2, <3>3, <3>4
    <3> QED BY <1>0, <1>1, <2>1, <3>3, <3>5 DEF Ledger
  <2> QED BY <2>3, <2>4
<1> QED BY <1>3, <1>4, <1>5

\* Nothing but the assembly and the writing before it touches the books.
LEMMA SectionStep ==
  ASSUME SectionInv, [TailorNext]_tailorVars
  PROVE  SectionInv'
<1> DEFINE Books == <<plans, assembly, document>>
           Running == {"assembling", "auditing", "audited", "done"}
<1> USE DEF SectionInv
<1>1. ASSUME UNCHANGED Books, step' \in Running => step \in Running, step' = "assembling" \/ section = None
      PROVE  SectionInv'
  <2>1. UNCHANGED <<plans, written, left, section, failures, document>>
    BY <1>1 DEF assembly
  <2>2. Touched' = Touched /\ \A e : Covered(e)' = Covered(e)
    BY <2>1 DEF Covered, Pairs, Quoted, PlanOf, PlansOf, Touched
  <2>3. Ledger => Ledger'
    <3>1. Cleared' = Cleared
      BY <2>1, <2>2 DEF Cleared
    <3> QED BY <2>1, <2>2, <3>1 DEF Ledger
  <2> QED BY <1>1, <2>1, <2>3 DEF AssemblyInv, IdleInv
<1>2. CASE Load \/ (\E t \in DOMAIN threads : Return(t)) \/ Join
  BY <1>1, <1>2 DEF IdleInv, Load, Return, Join, draft, assembly
<1>3. CASE AnalyseWorkstreams \/ ExtractFacts \/ Match
  BY <1>1, <1>3 DEF IdleInv, AnalyseWorkstreams, ExtractFacts, Match, draft, assembly
<1>4. CASE Strategise
  BY <1>1, <1>4 DEF IdleInv, Strategise, draft, assembly
<1>5. CASE Plan
  BY <1>5 DEF Plan, assembly, AssemblyInv, IdleInv
<1>6. CASE Write
  <2>1. /\ step = "writing" /\ step' = "assembling" /\ UNCHANGED <<plans, section>>
        /\ left' = Touched /\ document' = Original /\ failures' = {}
    BY <1>6 DEF Write
  <2>2. Touched' = Touched /\ section' = None
    BY <2>1 DEF Touched, IdleInv
  <2>3. Ledger'
    BY <2>1, <2>2 DEF Ledger, Original
  <2> QED BY <2>1, <2>3 DEF AssemblyInv, IdleInv
<1>7. CASE (\E e \in left : Open(e)) \/ Replace \/ Close
  <2>1. step = "assembling" /\ step' = step
    BY <1>7 DEF Open, Replace, Close
  <2>2. Ledger
    BY <2>1 DEF AssemblyInv
  <2>3. Ledger'
    BY <1>7, <2>2, LedgerKept
  <2> QED BY <2>1, <2>3 DEF AssemblyInv, IdleInv
<1>8. CASE Assembled
  BY <1>1, <1>8 DEF Assembled, draft
<1>9. CASE Audit
  BY <1>1, <1>9 DEF IdleInv, Audit
<1>10. CASE Repair
  BY <1>1, <1>10 DEF IdleInv, Repair, draft
<1>11. CASE Finish
  BY <1>1, <1>11 DEF IdleInv, Finish, draft
<1>12. CASE Raise
  BY <1>1, <1>12 DEF IdleInv, Raise, draft
<1>13. CASE UNCHANGED tailorVars
  BY <1>1, <1>13 DEF IdleInv, tailorVars, draft
<1> QED
  BY <1>2, <1>3, <1>4, <1>5, <1>6, <1>7, <1>8, <1>9, <1>10, <1>11, <1>12, <1>13 DEF TailorNext

THEOREM SectionInvHolds == TailorSpec => []SectionInv
<1>1. TailorInit => SectionInv
  BY DEF TailorInit, SectionInv, AssemblyInv, IdleInv
<1> QED BY <1>1, SectionStep, PTL DEF TailorSpec

\* Whatever the models quote, merge, double or leave out: an experience whose
\* section has a bullet that was not found loses none, through the repair too,
\* except a text that another experience has as well and whose section, which
\* found all it quotes, does not quote it (_assemble_resume_markdown,
\* section_had_failure).
THEOREM FailedSectionKeepsHolds == TailorSpec => []FailedSectionKeeps
<1>1. SectionInv => FailedSectionKeeps
  <2> SUFFICES ASSUME SectionInv, step = "done", NEW e \in failures, NEW t \in Bullets[e], ~ Shows(document, t)
               PROVE  \E f \in (Touched \cap Experiences) \ failures : t \in Bullets[f] \ Covered(f)
    BY DEF FailedSectionKeeps
  <2>1. Ledger
    BY DEF SectionInv, AssemblyInv
  <2>2. e \in Experiences
    BY <2>1 DEF Ledger
  <2>3. PICK k \in DOMAIN Document : Document[k] = t
    <3>1. t \in Texts
      BY <2>2 DEF Texts
    <3> QED BY <3>1, ResumeIsWhole DEF ToSet
  <2>4. k \notin document.kept
    BY <2>3 DEF Shows
  <2> QED BY <2>1, <2>3, <2>4 DEF Ledger, Cleared
<1> QED BY <1>1, SectionInvHolds, PTL
=============================================================================
