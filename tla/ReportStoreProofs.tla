--------------------------- MODULE ReportStoreProofs ---------------------------
(***************************************************************************)
(* Proofs about ReportStore, for every set of workspaces, jobs, profiles   *)
(* and runs and for all bounds.  The inductive invariant says that a       *)
(* transaction which writes a job report has a number of its own, under    *)
(* which no row exists yet; that the rows it superseded are of its job;    *)
(* and that they are all the active rows of the job, as long as no two     *)
(* transactions of the job superseded at the same time.  More say what a   *)
(* worker at each step has: ChainInv whose run it chained, ScoreInv whose  *)
(* profile it scores and that its fit report has a free number, ShownInv   *)
(* that fit reports come in the order in which their profile was read.     *)
(***************************************************************************)
EXTENDS ReportStore, TLAPS

HasNumber(r) == At(r, "analysing") \/ At(r, "superseding")

\* Whatever a worker or the broker holds is a run.
HeldAreRuns ==
  /\ broker \subseteq Runs
  /\ \A r \in RunIds : work[r] # Idle =>
       r \in Runs /\ (At(r, "chained") => work[r].chained \in Runs)

NumbersFresh ==
  /\ \A n \in Numbers : n > begun => report[n] = NoRow
  /\ \A r \in RunIds : HasNumber(r) => work[r].n <= begun /\ report[work[r].n] = NoRow
  /\ \A r, s \in RunIds :
       HasNumber(r) /\ HasNumber(s) /\ work[r].n = work[s].n => r = s

PriorIsOfJob ==
  \A r \in RunIds : At(r, "superseding") =>
    \A m \in work[r].prior : report[m] # NoRow /\ report[m].job = run[r].job

PriorIsAll ==
  \A r \in RunIds : At(r, "superseding") /\ run[r].job \notin crossed =>
    /\ ActiveReports(run[r].job) \subseteq work[r].prior
    /\ \A s \in RunIds : At(s, "superseding") /\ run[s].job = run[r].job => s = r

Inv == TypeOK /\ HeldAreRuns /\ NumbersFresh /\ PriorIsOfJob /\ PriorIsAll /\ OneActiveReport

-----------------------------------------------------------------------------
(* Work in hand *)

\* What a worker at each step holds.
LEMMA WorkAt ==
  ASSUME NEW w \in Works, w # Idle
  PROVE  /\ w.step = "analysing" => w.n \in Numbers /\ w.jd \in Texts
         /\ w.step = "superseding" =>
              w.n \in Numbers /\ w.jd \in Texts /\ w.prior \in SUBSET Numbers
         /\ w.step = "reported" => w.report \in Numbers
         /\ w.step = "chained" => w.report \in Numbers /\ w.chained \in RunIds
         /\ w.step = "replying" => w.report \in Numbers /\ w.chained \in RunIds \cup {NoRun}
         /\ w.step = "profiled" => w.profile \in Profiles /\ w.text \in Texts
         /\ w.step = "generating" =>
              /\ w.n \in Numbers /\ w.base \in Numbers
              /\ w.profile \in Profiles /\ w.text \in Texts
  BY DEF Works

\* Marking rows superseded keeps them rows.
LEMMA SupersededReports ==
  ASSUME NEW S, report \in [Numbers -> ReportRows \cup {NoRow}],
         \A m \in S : m \in Numbers => report[m] # NoRow
  PROVE  Superseded(report, S) \in [Numbers -> ReportRows \cup {NoRow}]
  BY DEF Superseded, ReportRows

LEMMA SupersededFits ==
  ASSUME NEW S, fit \in [Numbers -> FitRows \cup {NoRow}],
         \A m \in S : m \in Numbers => fit[m] # NoRow
  PROVE  Superseded(fit, S) \in [Numbers -> FitRows \cup {NoRow}]
  BY DEF Superseded, FitRows

-----------------------------------------------------------------------------
(* Types *)

\* A run's row with another status is a run's row.
LEMMA StatusOfRun ==
  ASSUME TypeOK, NEW r \in Runs,
         NEW st \in {"queued", "running", "succeeded", "failed"}
  PROVE  [run EXCEPT ![r].status = st] \in [RunIds -> RunRows \cup {NoRow}]
<1>1. r \in RunIds /\ run[r] \in RunRows
  BY DEF TypeOK, Runs
<1>2. [run[r] EXCEPT !.status = st] \in RunRows
  BY <1>1 DEF RunRows
<1> QED
  BY <1>1, <1>2 DEF TypeOK

\* A request, or a chained run.
LEMMA NewRunType ==
  ASSUME TypeOK, NEW r \in RunIds, NEW row \in RunRows, NewRun(r, row)
  PROVE  run' \in [RunIds -> RunRows \cup {NoRow}]
BY DEF TypeOK, NewRun

\* Every request inserts a row of the table.
LEMMA RequestAsks ==
  ASSUME TypeOK, NEW r \in RunIds, Request(r)
  PROVE  Ask(r) /\ \E row \in RunRows : NewRun(r, row)
<1>1. ASSUME NEW j \in Jobs, NEW ws \in Workspaces, NEW force \in BOOLEAN,
             PostJobReport(r, ws, j, force)
      PROVE  Ask(r) /\ \E row \in RunRows : NewRun(r, row)
  <2>1. [kind |-> "job_report", ws |-> ws, job |-> j, base |-> NoReport,
         profile |-> NoProfile, force |-> force, batch |-> FALSE,
         status |-> "queued"] \in RunRows
    BY DEF RunRows
  <2> QED
    BY <1>1, <2>1 DEF PostJobReport, Ask, NewRun
<1>2. ASSUME NEW j \in Jobs, NEW ws \in Workspaces, NEW force \in BOOLEAN,
             NEW n \in Numbers \cup {NoReport}, NEW p \in Profiles \cup {NoProfile},
             PostFitReport(r, ws, j, n, p, force)
      PROVE  Ask(r) /\ \E row \in RunRows : NewRun(r, row)
  <2>1. [kind |-> "fit_report", ws |-> ws, job |-> j, base |-> n, profile |-> p,
         force |-> force, batch |-> FALSE, status |-> "queued"] \in RunRows
    BY DEF RunRows
  <2> QED
    BY <1>2, <2>1 DEF PostFitReport, Ask, NewRun
<1>3. ASSUME NEW j \in Jobs, NEW p \in Profiles \cup {NoProfile}, BatchAnalyze(r, j, p)
      PROVE  Ask(r) /\ \E row \in RunRows : NewRun(r, row)
  <2>1. PICK q \in BatchKinds(j) :
          run' = [run EXCEPT ![r] =
            [kind |-> q[1], ws |-> Finder[j], job |-> j, base |-> q[2], profile |-> p,
             force |-> FALSE, batch |-> TRUE, status |-> "queued"]]
    BY <1>3 DEF BatchAnalyze
  <2>2. q[1] \in {"job_report", "fit_report"} /\ q[2] \in Numbers \cup {NoReport}
    BY <2>1 DEF BatchKinds, Newest, ActiveReports
  <2>3. [kind |-> q[1], ws |-> Finder[j], job |-> j, base |-> q[2], profile |-> p,
         force |-> FALSE, batch |-> TRUE, status |-> "queued"] \in RunRows
    BY <2>2, FinderIsFinder DEF RunRows
  <2> QED
    BY <1>3, <2>1, <2>3 DEF BatchAnalyze, Ask, NewRun
<1> QED
  BY <1>1, <1>2, <1>3 DEF Request

LEMMA RequestType ==
  ASSUME TypeOK, NEW r \in RunIds, Request(r)
  PROVE  TypeOK'
<1>1. Ask(r)
  BY RequestAsks
<1>2. run' \in [RunIds -> RunRows \cup {NoRow}]
  BY RequestAsks, NewRunType
<1>3. broker' \subseteq RunIds
  BY <1>1 DEF Ask, TypeOK
<1> QED
  BY <1>1, <1>2, <1>3 DEF Ask, TypeOK, tables, stored, counts, past

LEMMA EditType ==
  ASSUME TypeOK, Edit
  PROVE  TypeOK'
<1>1. ASSUME NEW j \in Jobs, Archive(j)
      PROVE  TypeOK'
  BY <1>1 DEF Archive, TypeOK, stored, queue, past
<1>2. ASSUME NEW j \in Jobs, NEW t \in Texts, UpdateJD(j, t)
      PROVE  TypeOK'
  <2>1. PICK promoted \in {TRUE, reportable[j]} :
          reportable' = [reportable EXCEPT ![j] = promoted]
    BY <1>2 DEF UpdateJD
  <2>2. reportable \in [Jobs -> BOOLEAN]
    BY DEF TypeOK
  <2>3. reportable[j] \in BOOLEAN
    BY <2>2, Zenon
  <2>4. promoted \in BOOLEAN
    BY <2>3, Zenon
  <2>5. reportable' \in [Jobs -> BOOLEAN]
    BY <2>1, <2>2, <2>4, Zenon
  <2>6. jd' \in [Jobs -> Texts] /\ edits' \in Nat
    BY <1>2 DEF UpdateJD, TypeOK
  <2> QED
    BY <1>2, <2>5, <2>6 DEF UpdateJD, TypeOK, stored, queue, past
<1>3. ASSUME NEW p \in Profiles, DeleteProfile(p)
      PROVE  TypeOK'
  BY <1>3 DEF DeleteProfile, TypeOK, stored, queue, past
<1>4. ASSUME NEW p \in Profiles, NEW t \in Texts, UpdateProfile(p, t)
      PROVE  TypeOK'
  <2>1. /\ profile' \in [Profiles -> Texts \cup {Gone}] /\ touched' \in [Profiles -> Nat]
        /\ reverted' \subseteq Profiles /\ said' \in [Profiles -> SUBSET Texts]
        /\ edits' \in Nat
    BY <1>4 DEF UpdateProfile, TypeOK
  <2> QED
    BY <1>4, <2>1 DEF UpdateProfile, TypeOK, stored, queue
<1> QED
  BY <1>1, <1>2, <1>3, <1>4 DEF Edit

\* A worker that changes what it has at hand, and nothing else but its run's
\* status and the number of transactions.
LEMMA WorkType ==
  ASSUME TypeOK, NEW r \in RunIds, NEW w \in Works,
         work' = [work EXCEPT ![r] = w],
         run' \in [RunIds -> RunRows \cup {NoRow}], broker' \subseteq RunIds,
         begun' \in 0 .. MaxReports, crashes' \in Nat, crossed' \subseteq Jobs,
         result' \in [RunIds -> Results \cup {NoRow}],
         report' \in [Numbers -> ReportRows \cup {NoRow}],
         fit' \in [Numbers -> FitRows \cup {NoRow}],
         parent' \in [RunIds -> RunIds \cup {NoRun}],
         UNCHANGED <<tables, edits, reverted, said>>
  PROVE  TypeOK'
BY DEF TypeOK, tables

LEMMA FailType ==
  ASSUME TypeOK, NEW r \in Runs, Fail(r)
  PROVE  TypeOK'
<1>1. r \in RunIds
  BY DEF Runs
<1>2. run' \in [RunIds -> RunRows \cup {NoRow}]
  BY StatusOfRun DEF Fail
<1>3. Idle \in Works
  BY DEF Works
<1> QED
  BY <1>1, <1>2, <1>3, WorkType DEF Fail, TypeOK, tables, stored, counts, past

LEMMA QueueStepType ==
  ASSUME TypeOK, HeldAreRuns, NEW r \in RunIds,
         Refuse(r) \/ Succeed(r) \/ Crash(r) \/ Redeliver(r)
  PROVE  TypeOK'
<1>1. CASE Refuse(r)
  <2>1. run' \in [RunIds -> RunRows \cup {NoRow}]
    BY <1>1, StatusOfRun DEF Refuse, HeldAreRuns
  <2> QED
    BY <1>1, <2>1 DEF Refuse, TypeOK, tables, stored, counts, past
<1>2. CASE Succeed(r)
  <2>1. r \in Runs /\ work[r] # Idle /\ work[r].step = "replying"
    BY <1>2 DEF Succeed, At, HeldAreRuns
  <2>2. run' \in [RunIds -> RunRows \cup {NoRow}]
    BY <1>2, <2>1, StatusOfRun DEF Succeed
  <2>3. work[r].report \in Numbers /\ work[r].chained \in RunIds \cup {NoRun}
    BY <2>1, WorkAt DEF TypeOK
  <2>4. [report |-> work[r].report, chained |-> work[r].chained] \in Results
    BY <2>3 DEF Results
  <2>5. result' \in [RunIds -> Results \cup {NoRow}]
    BY <1>2, <2>4 DEF Succeed, TypeOK
  <2>6. Idle \in Works
    BY DEF Works
  <2> QED
    BY <1>2, <2>2, <2>5, <2>6, WorkType DEF Succeed, TypeOK, tables, stored, counts, past
<1>3. CASE Crash(r)
  <2>1. [step |-> "dead"] \in Works
    BY DEF Works
  <2> QED
    BY <1>3, <2>1, WorkType DEF Crash, TypeOK, tables, stored, queue, past
<1>4. CASE Redeliver(r)
  <2>1. Idle \in Works
    BY DEF Works
  <2> QED
    BY <1>4, <2>1, WorkType DEF Redeliver, TypeOK, tables, stored, queue, counts, past
<1> QED
  BY <1>1, <1>2, <1>3, <1>4

LEMMA JobReportStepType ==
  ASSUME TypeOK, HeldAreRuns, PriorIsOfJob, NEW r \in RunIds, JobReportStep(r)
  PROVE  TypeOK'
<1>1. CASE FailJobReport(r)
  <2>1. r \in Runs
    BY <1>1 DEF FailJobReport, Takes, Delivered, At, HeldAreRuns
  <2> QED
    BY <1>1, <2>1, FailType DEF FailJobReport
<1>2. CASE ReuseJobReport(r)
  <2>1. r \in Runs
    BY <1>2 DEF ReuseJobReport, Takes, Delivered, HeldAreRuns
  <2>2. PICK n \in Numbers : work' = [work EXCEPT ![r] = Reported(r, n)]
    BY <1>2 DEF ReuseJobReport, Newest, CachedReports, ActiveReports
  <2>3. Reported(r, n) \in Works
    BY DEF Reported, Replying, Works
  <2>4. run' \in [RunIds -> RunRows \cup {NoRow}]
    BY <1>2, <2>1, StatusOfRun DEF ReuseJobReport, Running
  <2> QED
    BY <1>2, <2>2, <2>3, <2>4, WorkType DEF ReuseJobReport, TypeOK, tables, stored, counts, past
<1>3. CASE AnalyseJob(r)
  <2>1. r \in Runs
    BY <1>3 DEF AnalyseJob, Takes, Delivered, HeldAreRuns
  <2>2. begun + 1 \in Numbers /\ begun' \in 0 .. MaxReports
    BY <1>3, BoundsAreNumbers DEF AnalyseJob, TypeOK, Numbers
  <2>3. jd[run[r].job] \in Texts
    BY <2>1 DEF TypeOK, Runs, RunRows
  <2>4. [step |-> "analysing", n |-> begun + 1, jd |-> jd[run[r].job]] \in Works
    BY <2>2, <2>3 DEF Works
  <2>5. run' \in [RunIds -> RunRows \cup {NoRow}]
    BY <1>3, <2>1, StatusOfRun DEF AnalyseJob, Running
  <2> QED
    BY <1>3, <2>2, <2>4, <2>5, WorkType DEF AnalyseJob, TypeOK, tables, stored, past
<1>4. CASE Supersede(r)
  <2>1. r \in Runs /\ work[r] # Idle /\ work[r].step = "analysing"
    BY <1>4 DEF Supersede, At, HeldAreRuns
  <2>2. work[r].n \in Numbers /\ work[r].jd \in Texts
    BY <2>1, WorkAt DEF TypeOK
  <2>3. PriorReports(r) \in SUBSET Numbers
    BY DEF PriorReports, ActiveReports
  <2>4. [step |-> "superseding", n |-> work[r].n, jd |-> work[r].jd,
         prior |-> PriorReports(r)] \in Works
    BY <2>2, <2>3 DEF Works
  <2>5. crossed' \subseteq Jobs
    BY <1>4, <2>1 DEF Supersede, TypeOK, Runs, RunRows
  <2> QED
    BY <1>4, <2>4, <2>5, WorkType DEF Supersede, TypeOK, tables, stored, queue, counts
<1>5. CASE InsertJobReport(r)
  <2>1. r \in Runs /\ work[r] # Idle /\ work[r].step = "superseding"
    BY <1>5 DEF InsertJobReport, At, HeldAreRuns
  <2>2. work[r].n \in Numbers /\ work[r].jd \in Texts
    BY <2>1, WorkAt DEF TypeOK
  <2>3. Superseded(report, work[r].prior) \in [Numbers -> ReportRows \cup {NoRow}]
    BY <1>5, <2>1, SupersededReports DEF TypeOK, PriorIsOfJob, At
  <2>4. [job |-> run[r].job, jd |-> work[r].jd, status |-> "active"] \in ReportRows
    BY <2>1, <2>2 DEF ReportRows, Runs, TypeOK, RunRows
  <2>5. report' \in [Numbers -> ReportRows \cup {NoRow}]
    BY <1>5, <2>3, <2>4 DEF InsertJobReport
  <2>6. Reported(r, work[r].n) \in Works
    BY <2>2 DEF Reported, Replying, Works
  <2> QED
    BY <1>5, <2>5, <2>6, WorkType DEF InsertJobReport, TypeOK, tables, queue, counts, past
<1>6. ASSUME NEW f \in RunIds, ChainFitReport(r, f)
      PROVE  TypeOK'
  <2>1. r \in Runs /\ work[r] # Idle /\ work[r].step = "reported"
    BY <1>6 DEF ChainFitReport, At, HeldAreRuns
  <2>2. work[r].report \in Numbers
    BY <2>1, WorkAt DEF TypeOK
  <2> DEFINE row == [kind |-> "fit_report", ws |-> run[r].ws, job |-> run[r].job,
                     base |-> work[r].report, profile |-> run[r].profile, force |-> FALSE,
                     batch |-> FALSE, status |-> "queued"]
  <2>3. row \in RunRows
    BY <2>1, <2>2 DEF Runs, TypeOK, RunRows
  <2>4. run' \in [RunIds -> RunRows \cup {NoRow}]
    BY <1>6, <2>3, NewRunType DEF ChainFitReport
  <2>5. [step |-> "chained", report |-> work[r].report, chained |-> f] \in Works
    BY <2>2 DEF Works
  <2>6. parent' \in [RunIds -> RunIds \cup {NoRun}]
    BY <1>6 DEF ChainFitReport, TypeOK
  <2> QED
    BY <1>6, <2>4, <2>5, <2>6, WorkType DEF ChainFitReport, TypeOK, tables, stored, counts
<1>7. CASE SendChained(r) \/ GiveUpChain(r)
  <2>1. /\ work[r] # Idle /\ work[r].step \in {"reported", "chained"}
        /\ SendChained(r) => work[r].step = "chained"
    BY <1>7 DEF SendChained, GiveUpChain, At
  <2>2. work[r].report \in Numbers /\ (SendChained(r) => work[r].chained \in RunIds)
    BY <2>1, WorkAt DEF TypeOK
  <2>3. CASE SendChained(r)
    <3>1. Replying(work[r].report, work[r].chained) \in Works
      BY <2>2, <2>3 DEF Replying, Works
    <3>2. broker' \subseteq RunIds
      BY <2>2, <2>3 DEF SendChained, TypeOK
    <3> QED
      BY <2>3, <3>1, <3>2, WorkType DEF SendChained, TypeOK, tables, stored, counts, past
  <2>4. CASE GiveUpChain(r)
    <3>1. Replying(work[r].report, NoRun) \in Works
      BY <2>2 DEF Replying, Works
    <3> QED
      BY <2>4, <3>1, WorkType DEF GiveUpChain, TypeOK, tables, stored, queue, counts, past
  <2> QED
    BY <1>7, <2>3, <2>4
<1> QED
  BY <1>1, <1>2, <1>3, <1>4, <1>5, <1>6, <1>7 DEF JobReportStep

LEMMA FitReportStepType ==
  ASSUME TypeOK, HeldAreRuns, NEW r \in RunIds, FitReportStep(r)
  PROVE  TypeOK'
<1>1. r \in Runs
  BY DEF FitReportStep, ResolveProfile, ReuseFitReport, GenerateFit, FailFitReport,
         InsertFitReport, Takes, Delivered, At, HeldAreRuns
<1>2. run[r] \in RunRows
  BY <1>1 DEF Runs, TypeOK
<1>3. Bases(r) \subseteq Numbers
  BY <1>2 DEF Bases, Newest, ActiveReports, RunRows
<1>4. CASE ResolveProfile(r)
  <2>1. PICK p \in Resolved(r) :
          work' = [work EXCEPT ![r] = [step |-> "profiled", profile |-> p, text |-> profile[p]]]
    BY <1>4 DEF ResolveProfile
  <2>2. p \in Profiles /\ profile[p] \in Texts
    BY <2>1 DEF Resolved, Defaults, Living, TypeOK
  <2>3. [step |-> "profiled", profile |-> p, text |-> profile[p]] \in Works
    BY <2>2 DEF Works
  <2>4. run' \in [RunIds -> RunRows \cup {NoRow}]
    BY <1>1, <1>4, StatusOfRun DEF ResolveProfile, Running
  <2> QED
    BY <1>4, <2>1, <2>3, <2>4, WorkType DEF ResolveProfile, TypeOK, tables, stored, counts, past
<1>5. CASE ReuseFitReport(r)
  <2>1. PICK n \in Numbers : work' = [work EXCEPT ![r] = Replying(n, NoRun)]
    BY <1>5 DEF ReuseFitReport, Newest, CachedFits, ActiveFits
  <2>2. Replying(n, NoRun) \in Works
    BY DEF Replying, Works
  <2> QED
    BY <1>5, <2>1, <2>2, WorkType DEF ReuseFitReport, TypeOK, tables, stored, queue, counts, past
<1>6. CASE GenerateFit(r)
  <2>1. PICK b \in Bases(r) :
          work' = [work EXCEPT ![r] =
                     [step |-> "generating", n |-> begun + 1, base |-> b,
                      profile |-> work[r].profile, text |-> work[r].text]]
    BY <1>6 DEF GenerateFit
  <2>2. work[r].profile \in Profiles /\ work[r].text \in Texts
    BY <1>6, WorkAt DEF GenerateFit, At, TypeOK
  <2>3. begun + 1 \in Numbers /\ begun' \in 0 .. MaxReports
    BY <1>6, BoundsAreNumbers DEF GenerateFit, TypeOK, Numbers
  <2>4. [step |-> "generating", n |-> begun + 1, base |-> b,
         profile |-> work[r].profile, text |-> work[r].text] \in Works
    BY <1>3, <2>1, <2>2, <2>3 DEF Works
  <2> QED
    BY <1>6, <2>1, <2>3, <2>4, WorkType DEF GenerateFit, TypeOK, tables, stored, queue, past
<1>7. CASE FailFitReport(r)
  BY <1>1, <1>7, FailType DEF FailFitReport
<1>8. CASE InsertFitReport(r)
  <2>1. /\ work[r].n \in Numbers /\ work[r].base \in Numbers
        /\ work[r].profile \in Profiles /\ work[r].text \in Texts
    BY <1>8, WorkAt DEF InsertFitReport, At, TypeOK
  <2>2. Superseded(fit, PriorFits(r)) \in [Numbers -> FitRows \cup {NoRow}]
    BY SupersededFits DEF TypeOK, PriorFits, ActiveFits
  <2>3. [ws |-> run[r].ws, job |-> run[r].job, base |-> work[r].base,
         profile |-> work[r].profile, text |-> work[r].text, status |-> "active"] \in FitRows
    BY <1>2, <2>1 DEF FitRows, RunRows
  <2>4. fit' \in [Numbers -> FitRows \cup {NoRow}]
    BY <1>8, <2>2, <2>3 DEF InsertFitReport
  <2>5. Replying(work[r].n, NoRun) \in Works
    BY <2>1 DEF Replying, Works
  <2> QED
    BY <1>8, <2>4, <2>5, WorkType DEF InsertFitReport, TypeOK, tables, queue, counts, past
<1> QED
  BY <1>4, <1>5, <1>6, <1>7, <1>8 DEF FitReportStep

-----------------------------------------------------------------------------
(* Runs and numbers *)

\* A run stays, and stays about its job.
RunsKeep == \A s \in Runs : s \in Runs' /\ run'[s].job = run[s].job

LEMMA NewRunKeeps ==
  ASSUME TypeOK, NEW r \in RunIds, NEW row \in RunRows, NewRun(r, row)
  PROVE  RunsKeep /\ r \in Runs'
BY RowsAreRows DEF RunsKeep, NewRun, Runs, TypeOK

LEMMA StatusKeeps ==
  ASSUME TypeOK, NEW r \in Runs, NEW st \in {"queued", "running", "succeeded", "failed"},
         run' = [run EXCEPT ![r].status = st]
  PROVE  RunsKeep
<1>1. r \in RunIds /\ run[r] \in RunRows
  BY DEF TypeOK, Runs
<1>2. [run[r] EXCEPT !.status = st] \in RunRows
  BY <1>1 DEF RunRows
<1>3. [run[r] EXCEPT !.status = st].job = run[r].job
  BY <1>1 DEF RunRows
<1> QED
  BY <1>1, <1>2, <1>3, RowsAreRows DEF RunsKeep, Runs, TypeOK

\* The parts of the invariant beyond the types.
Rest == HeldAreRuns /\ NumbersFresh /\ PriorIsOfJob /\ PriorIsAll /\ OneActiveReport

\* A step that writes no job report and gives no worker a number.
LEMMA QuietKeeps ==
  ASSUME Inv, RunsKeep, broker' \subseteq Runs', begun' \in Nat, begun <= begun',
         UNCHANGED <<report, crossed>>,
         \A s \in RunIds : work'[s] # Idle /\ work'[s] # work[s] =>
           /\ s \in Runs
           /\ work'[s].step \notin {"analysing", "superseding"}
           /\ work'[s].step = "chained" => work'[s].chained \in Runs'
  PROVE  Rest'
<1> USE DEF Inv
<1>1. ASSUME NEW s \in RunIds, HasNumber(s)'
      PROVE  HasNumber(s) /\ work'[s] = work[s] /\ s \in Runs
  BY <1>1 DEF HasNumber, At, HeldAreRuns
<1>2. HeldAreRuns'
  BY DEF HeldAreRuns, RunsKeep, At
<1>3. NumbersFresh'
  <2>1. \A n \in Numbers : n > begun' => report'[n] = NoRow
    BY DEF NumbersFresh, TypeOK, Numbers
  <2>2. ASSUME NEW s \in RunIds, HasNumber(s)'
        PROVE  work'[s].n <= begun' /\ report'[work'[s].n] = NoRow
    <3>1. work[s] # Idle /\ work[s].step \in {"analysing", "superseding"} /\ work'[s] = work[s]
      BY <2>2, <1>1 DEF HasNumber, At
    <3>2. work[s].n \in Numbers
      BY <3>1, WorkAt DEF TypeOK
    <3>3. work[s].n <= begun /\ report[work[s].n] = NoRow
      BY <2>2, <1>1 DEF NumbersFresh
    <3> QED
      BY <3>1, <3>2, <3>3 DEF TypeOK, Numbers
  <2>3. ASSUME NEW s \in RunIds, NEW t \in RunIds, HasNumber(s)', HasNumber(t)',
               work'[s].n = work'[t].n
        PROVE  s = t
    BY <2>3, <1>1 DEF NumbersFresh
  <2> QED
    BY <2>1, <2>2, <2>3 DEF NumbersFresh
<1>4. ASSUME NEW s \in RunIds, At(s, "superseding")'
      PROVE  /\ At(s, "superseding") /\ work'[s] = work[s]
             /\ s \in Runs /\ run'[s].job = run[s].job
  BY <1>4, <1>1 DEF HasNumber, At, RunsKeep
<1>5. PriorIsOfJob'
  BY <1>4 DEF PriorIsOfJob
<1>6. \A j : ActiveReports(j)' = ActiveReports(j)
  BY DEF ActiveReports
<1>7. PriorIsAll'
  <2> SUFFICES ASSUME NEW s \in RunIds, At(s, "superseding")', run'[s].job \notin crossed'
               PROVE  /\ ActiveReports(run[s].job)' \subseteq work'[s].prior
                      /\ \A t \in RunIds :
                           At(t, "superseding")' /\ run'[t].job = run'[s].job => t = s
    BY <1>4, <1>6 DEF PriorIsAll
  <2> QED
    BY <1>4, <1>6 DEF PriorIsAll
<1>8. OneActiveReport'
  BY <1>6 DEF OneActiveReport
<1> QED
  BY <1>2, <1>3, <1>5, <1>7, <1>8 DEF Rest

\* The same, when one worker moved.
LEMMA QuietWorkKeeps ==
  ASSUME Inv, RunsKeep, NEW r \in Runs, NEW w,
         work' = [work EXCEPT ![r] = w],
         w # Idle => w.step \notin {"analysing", "superseding", "chained"},
         broker' \subseteq broker \cup Runs, begun' \in Nat, begun <= begun',
         UNCHANGED <<report, crossed>>
  PROVE  Rest'
<1>1. broker' \subseteq Runs'
  BY DEF Inv, HeldAreRuns, RunsKeep
<1>2. \A s \in RunIds : work'[s] # Idle /\ work'[s] # work[s] =>
         s = r /\ work'[s] = w
  BY DEF Inv, TypeOK
<1> QED
  BY <1>1, <1>2, QuietKeeps

\* The same, when one worker ended its run or lost it.
LEMMA IdleKeeps ==
  ASSUME Inv, RunsKeep, NEW r \in Runs, work' = [work EXCEPT ![r] = Idle],
         broker' \subseteq broker \cup Runs, UNCHANGED <<begun, report, crossed>>
  PROVE  Rest'
<1>1. begun' \in Nat /\ begun <= begun'
  BY BoundsAreNumbers DEF Inv, TypeOK
<1>2. broker' \subseteq Runs'
  BY DEF Inv, HeldAreRuns, RunsKeep
<1>3. \A s \in RunIds : work'[s] # Idle => work'[s] = work[s]
  BY DEF Inv, TypeOK
<1> QED
  BY <1>1, <1>2, <1>3, QuietKeeps

-----------------------------------------------------------------------------
(* The steps *)

LEMMA RequestKeeps ==
  ASSUME Inv, NEW r \in RunIds, Request(r)
  PROVE  Rest'
<1>1. TypeOK /\ Ask(r)
  BY RequestAsks DEF Inv
<1>2. RunsKeep /\ r \in Runs'
  BY <1>1, RequestAsks, NewRunKeeps
<1>3. broker' \subseteq Runs'
  BY <1>1, <1>2 DEF Ask, Inv, HeldAreRuns, RunsKeep
<1>4. begun' = begun /\ UNCHANGED <<report, crossed, work>>
  BY <1>1 DEF Ask, stored, counts, past
<1>5. begun \in Nat
  BY BoundsAreNumbers DEF Inv, TypeOK
<1> QED
  BY <1>2, <1>3, <1>4, <1>5, QuietKeeps

LEMMA EditKeeps ==
  ASSUME Inv, Edit
  PROVE  Rest'
<1>1. UNCHANGED <<report, crossed, work, run, broker, begun>>
  BY DEF Edit, Archive, UpdateJD, DeleteProfile, UpdateProfile, stored, queue, past
<1>2. RunsKeep /\ broker' \subseteq Runs'
  BY <1>1 DEF RunsKeep, Runs, Inv, HeldAreRuns
<1>3. begun \in Nat
  BY BoundsAreNumbers DEF Inv, TypeOK
<1> QED
  BY <1>1, <1>2, <1>3, QuietKeeps

LEMMA FailKeeps ==
  ASSUME Inv, NEW r \in Runs, Fail(r)
  PROVE  Rest'
<1>1. RunsKeep
  BY StatusKeeps DEF Fail, Inv
<1>2. /\ broker' \subseteq broker \cup Runs
      /\ work' = [work EXCEPT ![r] = Idle]
      /\ UNCHANGED <<begun, report, crossed>>
  BY DEF Fail, stored, counts, past
<1> QED
  BY <1>1, <1>2, IdleKeeps

LEMMA QueueStepKeeps ==
  ASSUME Inv, NEW r \in RunIds, Refuse(r) \/ Succeed(r) \/ Crash(r) \/ Redeliver(r)
  PROVE  Rest'
<1>1. r \in Runs
  BY DEF Inv, HeldAreRuns, Refuse, Succeed, Crash, Redeliver, At
<1>2. begun \in Nat
  BY BoundsAreNumbers DEF Inv, TypeOK
<1>3. CASE Refuse(r)
  <2>1. RunsKeep
    BY <1>1, <1>3, StatusKeeps DEF Refuse, Inv
  <2>2. broker' \subseteq Runs'
    BY <1>3, <2>1 DEF Refuse, Inv, HeldAreRuns, RunsKeep
  <2> QED
    BY <1>2, <1>3, <2>1, <2>2, QuietKeeps DEF Refuse, stored, counts, past
<1>4. CASE Succeed(r)
  <2>1. RunsKeep
    BY <1>1, <1>4, StatusKeeps DEF Succeed, Inv
  <2>2. /\ broker' \subseteq broker \cup Runs
        /\ work' = [work EXCEPT ![r] = Idle]
        /\ UNCHANGED <<begun, report, crossed>>
    BY <1>4 DEF Succeed, stored, counts, past
  <2> QED
    BY <1>1, <2>1, <2>2, IdleKeeps
<1>5. CASE Crash(r) \/ Redeliver(r)
  <2>1. RunsKeep
    BY <1>5 DEF Crash, Redeliver, queue, RunsKeep, Runs
  <2>2. UNCHANGED <<broker, begun, report, crossed>>
    BY <1>5 DEF Crash, Redeliver, queue, stored, counts, past
  <2>3. CASE Crash(r)
    <3>1. PICK w : w = [step |-> "dead"]
      OBVIOUS
    <3>2. work' = [work EXCEPT ![r] = w] /\ w.step = "dead"
      BY <2>3, <3>1 DEF Crash
    <3>3. broker' \subseteq broker \cup Runs /\ begun' \in Nat /\ begun <= begun'
      BY <1>2, <2>2
    <3>4. report' = report /\ crossed' = crossed
      BY <2>2
    <3> QED
      BY <1>1, <2>1, <3>2, <3>3, <3>4, QuietWorkKeeps
  <2>4. CASE Redeliver(r)
    <3>1. work' = [work EXCEPT ![r] = Idle]
      BY <2>4 DEF Redeliver
    <3> QED
      BY <1>1, <2>1, <2>2, <3>1, IdleKeeps
  <2> QED
    BY <1>5, <2>3, <2>4
<1> QED
  BY <1>3, <1>4, <1>5

LEMMA FitReportStepKeeps ==
  ASSUME Inv, NEW r \in RunIds, FitReportStep(r)
  PROVE  Rest'
<1>1. r \in Runs
  BY DEF FitReportStep, ResolveProfile, ReuseFitReport, GenerateFit, FailFitReport,
         InsertFitReport, Takes, Delivered, At, HeldAreRuns, Inv
<1>2. begun \in Nat
  BY BoundsAreNumbers DEF Inv, TypeOK
<1>3. CASE FailFitReport(r)
  BY <1>1, <1>3, FailKeeps DEF FailFitReport
<1>4. CASE ResolveProfile(r)
  <2>1. RunsKeep
    BY <1>1, <1>4, StatusKeeps DEF ResolveProfile, Running, Inv
  <2>2. UNCHANGED <<broker, begun, report, crossed>>
    BY <1>4 DEF ResolveProfile, stored, counts, past
  <2>3. PICK p : work' = [work EXCEPT ![r] =
                            [step |-> "profiled", profile |-> p, text |-> profile[p]]]
    BY <1>4 DEF ResolveProfile
  <2>4. PICK w : w = [step |-> "profiled", profile |-> p, text |-> profile[p]]
    OBVIOUS
  <2>5. work' = [work EXCEPT ![r] = w] /\ w.step = "profiled"
    BY <2>3, <2>4
  <2>6. broker' \subseteq broker \cup Runs /\ begun' \in Nat /\ begun <= begun'
    BY <1>2, <2>2
  <2>7. report' = report /\ crossed' = crossed
    BY <2>2
  <2> QED
    BY <1>1, <2>1, <2>5, <2>6, <2>7, QuietWorkKeeps
<1>5. CASE ReuseFitReport(r) \/ GenerateFit(r) \/ InsertFitReport(r)
  <2>1. RunsKeep
    BY <1>5 DEF ReuseFitReport, GenerateFit, InsertFitReport, queue, RunsKeep, Runs
  <2>2. /\ UNCHANGED <<broker, report, crossed>>
        /\ begun' \in Nat /\ begun <= begun'
    BY <1>2, <1>5 DEF ReuseFitReport, GenerateFit, InsertFitReport, queue, stored, counts, past
  <2>3. \A n : Replying(n, NoRun).step = "replying"
    BY DEF Replying
  <2>4. CASE ReuseFitReport(r)
    <3>1. PICK n : work' = [work EXCEPT ![r] = Replying(n, NoRun)]
      BY <2>4 DEF ReuseFitReport
    <3> QED
      BY <1>1, <2>1, <2>2, <2>3, <3>1, QuietWorkKeeps
  <2>5. CASE InsertFitReport(r)
    <3>1. PICK n : n = work[r].n
      OBVIOUS
    <3>2. work' = [work EXCEPT ![r] = Replying(n, NoRun)]
      BY <2>5, <3>1 DEF InsertFitReport
    <3> QED
      BY <1>1, <2>1, <2>2, <2>3, <3>2, QuietWorkKeeps
  <2>6. CASE GenerateFit(r)
    <3>1. PICK b : work' = [work EXCEPT ![r] =
                     [step |-> "generating", n |-> begun + 1, base |-> b,
                      profile |-> work[r].profile, text |-> work[r].text]]
      BY <2>6 DEF GenerateFit
    <3>2. PICK w : w = [step |-> "generating", n |-> begun + 1, base |-> b,
                        profile |-> work[r].profile, text |-> work[r].text]
      OBVIOUS
    <3>3. work' = [work EXCEPT ![r] = w] /\ w.step = "generating"
      BY <3>1, <3>2
    <3> QED
      BY <1>1, <2>1, <2>2, <3>3, QuietWorkKeeps
  <2> QED
    BY <1>5, <2>4, <2>5, <2>6
<1> QED
  BY <1>3, <1>4, <1>5 DEF FitReportStep

\* The first step of supersede_prior: no other worker of the job is at it, or
\* the job counts as crossed from now on.
LEMMA SupersedeKeeps ==
  ASSUME Inv, NEW r \in RunIds, Supersede(r)
  PROVE  Rest'
<1> DEFINE j == run[r].job
<1> USE DEF Inv
<1>1. PICK w : w = [step |-> "superseding", n |-> work[r].n, jd |-> work[r].jd,
                    prior |-> PriorReports(r)]
  OBVIOUS
<1>2. /\ work' = [work EXCEPT ![r] = w]
      /\ w.step = "superseding" /\ w.n = work[r].n /\ w.prior = ActiveReports(j)
  BY <1>1 DEF Supersede, PriorReports
<1>3. /\ UNCHANGED <<report, run, broker, begun>>
      /\ r \in Runs /\ HasNumber(r)
      /\ crossed \subseteq crossed'
  BY DEF Supersede, tables, stored, queue, counts, HeldAreRuns, At, HasNumber
<1>4. Runs' = Runs /\ (\A i : ActiveReports(i)' = ActiveReports(i))
  BY <1>3 DEF Runs, ActiveReports
<1>5. work'[r] = w /\ (\A s \in RunIds : s # r => work'[s] = work[s])
  BY <1>2 DEF TypeOK
<1>6. HeldAreRuns'
  <2>1. ASSUME NEW s \in RunIds, work'[s] # Idle
        PROVE  s \in Runs' /\ (At(s, "chained")' => work'[s].chained \in Runs')
    BY <2>1, <1>2, <1>3, <1>4, <1>5 DEF HeldAreRuns, At
  <2> QED
    BY <2>1, <1>3, <1>4 DEF HeldAreRuns
<1>7. \A s \in RunIds : HasNumber(s)' => HasNumber(s) /\ work'[s].n = work[s].n
  BY <1>2, <1>3, <1>5 DEF HasNumber, At
<1>8. NumbersFresh'
  BY <1>3, <1>7 DEF NumbersFresh
<1>9. ASSUME NEW s \in RunIds, At(s, "superseding")'
      PROVE  s # r => At(s, "superseding") /\ work'[s] = work[s]
  BY <1>9, <1>5 DEF At
<1>10. PriorIsOfJob'
  <2>1. ASSUME NEW s \in RunIds, At(s, "superseding")', NEW m \in work'[s].prior
        PROVE  report[m] # NoRow /\ report[m].job = run[s].job
    <3>1. CASE s = r
      BY <2>1, <3>1, <1>2, <1>5 DEF ActiveReports
    <3>2. CASE s # r
      BY <2>1, <3>2, <1>9 DEF PriorIsOfJob
    <3> QED
      BY <3>1, <3>2
  <2> QED
    BY <2>1, <1>3 DEF PriorIsOfJob
<1>11. ASSUME NEW s \in RunIds, s # r, At(s, "superseding")', run[s].job = j
       PROVE  j \in crossed'
  <2>1. s \in Runs \ {r} /\ At(s, "superseding")
    BY <1>9, <1>11 DEF HeldAreRuns, At
  <2> QED
    BY <2>1, <1>11 DEF Supersede
<1>12. PriorIsAll'
  <2>1. ASSUME NEW s \in RunIds, At(s, "superseding")', run[s].job \notin crossed'
        PROVE  /\ ActiveReports(run[s].job) \subseteq work'[s].prior
               /\ \A t \in RunIds : At(t, "superseding")' /\ run[t].job = run[s].job => t = s
    <3>1. CASE s = r
      BY <2>1, <3>1, <1>2, <1>5, <1>11
    <3>2. CASE s # r
      <4>1. At(s, "superseding") /\ work'[s] = work[s] /\ run[s].job \notin crossed
        BY <2>1, <3>2, <1>3, <1>9
      <4>2. run[s].job # j
        BY <2>1, <3>2, <1>11
      <4> QED
        BY <2>1, <4>1, <4>2, <1>9 DEF PriorIsAll
    <3> QED
      BY <3>1, <3>2
  <2> QED
    BY <2>1, <1>3, <1>4 DEF PriorIsAll
<1>13. OneActiveReport'
  BY <1>3, <1>4 DEF OneActiveReport
<1> QED
  BY <1>6, <1>8, <1>10, <1>12, <1>13 DEF Rest

\* A report's transaction begins and takes the next number.
LEMMA AnalyseKeeps ==
  ASSUME Inv, NEW r \in RunIds, AnalyseJob(r)
  PROVE  Rest'
<1> USE DEF Inv
<1>1. r \in Runs /\ work[r] = Idle
  BY DEF AnalyseJob, Takes, Delivered, HeldAreRuns
<1>2. RunsKeep
  BY <1>1, StatusKeeps DEF AnalyseJob, Running
<1>3. PICK w : w = [step |-> "analysing", n |-> begun + 1, jd |-> jd[run[r].job]]
  OBVIOUS
<1>4. /\ work' = [work EXCEPT ![r] = w]
      /\ w.step = "analysing" /\ w.n = begun + 1
      /\ UNCHANGED <<report, broker, crossed>>
      /\ begun' = begun + 1
  BY <1>3 DEF AnalyseJob, stored, past
<1>5. begun \in Nat /\ begun + 1 \in Numbers
  BY BoundsAreNumbers DEF AnalyseJob, TypeOK, Numbers
<1>6. work'[r] = w /\ (\A s \in RunIds : s # r => work'[s] = work[s])
  BY <1>4 DEF TypeOK
<1>7. HeldAreRuns'
  BY <1>1, <1>2, <1>4, <1>6 DEF HeldAreRuns, RunsKeep, At
<1>8. ASSUME NEW s \in RunIds, s # r, HasNumber(s)'
      PROVE  /\ HasNumber(s) /\ work'[s] = work[s]
             /\ work[s].n \in Numbers /\ work[s].n <= begun /\ report[work[s].n] = NoRow
  <2>1. HasNumber(s) /\ work'[s] = work[s]
    BY <1>6, <1>8 DEF HasNumber, At
  <2>2. work[s] # Idle /\ work[s].step \in {"analysing", "superseding"}
    BY <2>1 DEF HasNumber, At
  <2> QED
    BY <2>1, <2>2, WorkAt DEF NumbersFresh, TypeOK
<1>9. report[begun + 1] = NoRow
  BY <1>5 DEF NumbersFresh
<1>10. NumbersFresh'
  <2>1. \A n \in Numbers : n > begun' => report'[n] = NoRow
    BY <1>4, <1>5 DEF NumbersFresh, Numbers
  <2>2. ASSUME NEW s \in RunIds, HasNumber(s)'
        PROVE  work'[s].n <= begun' /\ report'[work'[s].n] = NoRow
    <3>1. CASE s = r
      BY <3>1, <1>4, <1>5, <1>6, <1>9
    <3>2. CASE s # r
      BY <2>2, <3>2, <1>4, <1>5, <1>8 DEF Numbers
    <3> QED
      BY <3>1, <3>2
  <2>3. ASSUME NEW s \in RunIds, NEW t \in RunIds, HasNumber(s)', HasNumber(t)',
               work'[s].n = work'[t].n
        PROVE  s = t
    <3>1. \A q \in RunIds : q # r /\ HasNumber(q)' => work'[q].n # begun + 1
      BY <1>5, <1>8 DEF Numbers
    <3>2. CASE s = r \/ t = r
      BY <2>3, <3>1, <3>2, <1>4, <1>6
    <3>3. CASE s # r /\ t # r
      BY <2>3, <3>3, <1>8 DEF NumbersFresh
    <3> QED
      BY <3>2, <3>3
  <2> QED
    BY <2>1, <2>2, <2>3 DEF NumbersFresh
<1>11. ASSUME NEW s \in RunIds, At(s, "superseding")'
       PROVE  /\ At(s, "superseding") /\ work'[s] = work[s]
              /\ s \in Runs /\ run'[s].job = run[s].job
  <2>1. s # r
    BY <1>4, <1>6, <1>11 DEF At
  <2> QED
    BY <2>1, <1>2, <1>6, <1>11 DEF At, HeldAreRuns, RunsKeep
<1>12. \A j : ActiveReports(j)' = ActiveReports(j)
  BY <1>4 DEF ActiveReports
<1>13. PriorIsOfJob'
  BY <1>4, <1>11 DEF PriorIsOfJob
<1>14. PriorIsAll'
  <2> SUFFICES ASSUME NEW s \in RunIds, At(s, "superseding")', run'[s].job \notin crossed'
               PROVE  /\ ActiveReports(run[s].job)' \subseteq work'[s].prior
                      /\ \A t \in RunIds :
                           At(t, "superseding")' /\ run'[t].job = run'[s].job => t = s
    BY <1>11 DEF PriorIsAll
  <2> QED
    BY <1>4, <1>11, <1>12 DEF PriorIsAll
<1>15. OneActiveReport'
  BY <1>4, <1>12 DEF OneActiveReport
<1> QED
  BY <1>7, <1>10, <1>13, <1>14, <1>15 DEF Rest

\* What the commit of a job report does to the rows: those it superseded are no
\* longer active, its own is, and no other job notices.
LEMMA InsertedRows ==
  ASSUME Inv, NEW r \in RunIds, InsertJobReport(r),
         NEW n, n = work[r].n, NEW prior, prior = work[r].prior
  PROVE  /\ r \in Runs /\ n \in Numbers /\ n <= begun /\ report[n] = NoRow
         /\ prior \subseteq Numbers
         /\ report'[n] # NoRow /\ report'[n].job = run[r].job /\ report'[n].status = "active"
         /\ \A m \in prior :
              /\ report[m] # NoRow /\ report[m].job = run[r].job
              /\ report'[m] # NoRow /\ report'[m].job = run[r].job
              /\ report'[m].status = "superseded"
         /\ \A m \in Numbers : m # n /\ m \notin prior => report'[m] = report[m]
<1> USE DEF Inv
<1>1. /\ r \in Runs /\ At(r, "superseding") /\ HasNumber(r)
      /\ work[r] # Idle /\ work[r].step = "superseding"
  BY DEF InsertJobReport, At, HasNumber, HeldAreRuns
<1>2. n \in Numbers /\ work[r].jd \in Texts /\ prior \subseteq Numbers
  BY <1>1, WorkAt DEF TypeOK
<1>3. n <= begun /\ report[n] = NoRow
  BY <1>1 DEF NumbersFresh
<1>4. \A m \in prior : report[m] # NoRow /\ report[m].job = run[r].job
  BY <1>1 DEF PriorIsOfJob
<1> DEFINE new == [job |-> run[r].job, jd |-> work[r].jd, status |-> "active"]
<1>5. report' = [Superseded(report, prior) EXCEPT ![n] = new]
  BY DEF InsertJobReport
<1>6. new \in ReportRows
  BY <1>1, <1>2 DEF ReportRows, Runs, TypeOK, RunRows
<1>7. report'[n] = new
  BY <1>2, <1>5 DEF Superseded
<1>8. \A m \in Numbers : m # n => report'[m] =
        IF m \in prior THEN [report[m] EXCEPT !.status = "superseded"] ELSE report[m]
  BY <1>5 DEF Superseded
<1>9. ASSUME NEW m \in prior
      PROVE  /\ report'[m] \in ReportRows /\ report'[m].job = run[r].job
             /\ report'[m].status = "superseded"
  <2>1. m \in Numbers /\ m # n /\ report[m] \in ReportRows /\ report[m].job = run[r].job
    BY <1>2, <1>3, <1>4 DEF TypeOK
  <2>2. report'[m] = [report[m] EXCEPT !.status = "superseded"]
    BY <1>8, <2>1
  <2> QED
    BY <2>1, <2>2 DEF ReportRows
<1>10. report'[n] # NoRow /\ report'[n].job = run[r].job /\ report'[n].status = "active"
  BY <1>6, <1>7, RowsAreRows
<1>11. \A m \in prior : report'[m] # NoRow
  BY <1>9, RowsAreRows
<1>12. \A m \in Numbers : m # n /\ m \notin prior => report'[m] = report[m]
  BY <1>8
<1> HIDE DEF new, Inv
<1> QED
  BY <1>1, <1>2, <1>3, <1>4, <1>9, <1>10, <1>11, <1>12

LEMMA InsertedActive ==
  ASSUME Inv, NEW r \in RunIds, InsertJobReport(r)
  PROVE  /\ ActiveReports(run[r].job)' =
              (ActiveReports(run[r].job) \ work[r].prior) \cup {work[r].n}
         /\ \A i : i # run[r].job => ActiveReports(i)' = ActiveReports(i)
<1>1. PICK n, prior : n = work[r].n /\ prior = work[r].prior
  OBVIOUS
<1>2. /\ n \in Numbers /\ report[n] = NoRow /\ prior \subseteq Numbers
      /\ report'[n] # NoRow /\ report'[n].job = run[r].job /\ report'[n].status = "active"
      /\ \A m \in prior :
           /\ report[m].job = run[r].job
           /\ report'[m].job = run[r].job /\ report'[m].status = "superseded"
      /\ \A m \in Numbers : m # n /\ m \notin prior => report'[m] = report[m]
  BY <1>1, InsertedRows
<1>3. ActiveReports(run[r].job)' = (ActiveReports(run[r].job) \ prior) \cup {n}
  <2>1. \A m \in Numbers : m \in ActiveReports(run[r].job)'
          <=> report'[m] # NoRow /\ report'[m].job = run[r].job /\ report'[m].status = "active"
    BY DEF ActiveReports, InsertJobReport, queue
  <2>2. \A m \in Numbers : m \in ActiveReports(run[r].job)
          <=> report[m] # NoRow /\ report[m].job = run[r].job /\ report[m].status = "active"
    BY DEF ActiveReports
  <2>3. ActiveReports(run[r].job)' \subseteq Numbers /\ ActiveReports(run[r].job) \subseteq Numbers
    BY DEF ActiveReports
  <2>4. \A m \in Numbers : m \in ActiveReports(run[r].job)'
          <=> m \in (ActiveReports(run[r].job) \ prior) \cup {n}
    BY <1>2, <2>1, <2>2
  <2> QED
    BY <1>2, <2>3, <2>4
<1>4. ASSUME NEW i, i # run[r].job
      PROVE  ActiveReports(i)' = ActiveReports(i)
  <2>1. \A m \in Numbers : m \in ActiveReports(i)'
          <=> report'[m] # NoRow /\ report'[m].job = i /\ report'[m].status = "active"
    BY DEF ActiveReports
  <2>2. \A m \in Numbers : m \in ActiveReports(i)
          <=> report[m] # NoRow /\ report[m].job = i /\ report[m].status = "active"
    BY DEF ActiveReports
  <2>3. ActiveReports(i)' \subseteq Numbers /\ ActiveReports(i) \subseteq Numbers
    BY DEF ActiveReports
  <2>4. \A m \in Numbers : m \in ActiveReports(i)' <=> m \in ActiveReports(i)
    BY <1>2, <1>4, <2>1, <2>2
  <2> QED
    BY <2>3, <2>4
<1> QED
  BY <1>1, <1>3, <1>4

LEMMA InsertKeeps ==
  ASSUME Inv, NEW r \in RunIds, InsertJobReport(r)
  PROVE  Rest'
<1> DEFINE j == run[r].job
<1> USE DEF Inv
<1>1. PICK n, prior : n = work[r].n /\ prior = work[r].prior
  OBVIOUS
<1>2. PICK w : w = Reported(r, n)
  OBVIOUS
<1>3. /\ w.step \in {"replying", "reported"}
      /\ work' = [work EXCEPT ![r] = w]
      /\ UNCHANGED <<run, broker, begun, crossed>>
      /\ At(r, "superseding") /\ HasNumber(r)
  BY <1>1, <1>2 DEF InsertJobReport, Reported, Replying, queue, counts, past, At, HasNumber
<1>4. work'[r] = w /\ (\A s \in RunIds : s # r => work'[s] = work[s]) /\ Runs' = Runs
  BY <1>3 DEF TypeOK, Runs
<1>5. /\ r \in Runs /\ n \in Numbers /\ n <= begun /\ report[n] = NoRow
      /\ \A m \in prior :
           /\ report[m] # NoRow /\ report[m].job = j
           /\ report'[m] # NoRow /\ report'[m].job = j
      /\ \A m \in Numbers : m # n /\ m \notin prior => report'[m] = report[m]
  BY <1>1, InsertedRows
<1>6. HeldAreRuns'
  BY <1>3, <1>4, <1>5 DEF HeldAreRuns, At
<1>7. ASSUME NEW s \in RunIds, HasNumber(s)'
      PROVE  /\ s # r /\ HasNumber(s) /\ work'[s] = work[s]
             /\ work[s].n # n /\ work[s].n \in Numbers
             /\ work[s].n <= begun /\ report[work[s].n] = NoRow
  <2>1. s # r /\ HasNumber(s) /\ work'[s] = work[s]
    BY <1>3, <1>4, <1>7 DEF HasNumber, At
  <2>2. work[s] # Idle /\ work[s].step \in {"analysing", "superseding"}
    BY <2>1 DEF HasNumber, At
  <2> QED
    BY <1>1, <1>3, <2>1, <2>2, WorkAt DEF NumbersFresh, TypeOK
<1>8. NumbersFresh'
  <2>1. \A m \in Numbers : report[m] = NoRow /\ m # n => report'[m] = NoRow
    BY <1>5
  <2>2. \A m \in Numbers : m > begun => m # n
    BY <1>5, BoundsAreNumbers DEF TypeOK, Numbers
  <2>3. \A m \in Numbers : m > begun' => report'[m] = NoRow
    BY <1>3, <2>1, <2>2 DEF NumbersFresh
  <2>4. \A s \in RunIds : HasNumber(s)' => work'[s].n <= begun' /\ report'[work'[s].n] = NoRow
    BY <1>3, <1>7, <2>1
  <2>5. \A s, t \in RunIds :
          HasNumber(s)' /\ HasNumber(t)' /\ work'[s].n = work'[t].n => s = t
    BY <1>7 DEF NumbersFresh
  <2> QED
    BY <2>3, <2>4, <2>5 DEF NumbersFresh
<1>9. ASSUME NEW s \in RunIds, At(s, "superseding")'
      PROVE  s # r /\ At(s, "superseding") /\ work'[s] = work[s]
  BY <1>3, <1>4, <1>9 DEF At
<1>10. PriorIsOfJob'
  <2>1. ASSUME NEW s \in RunIds, At(s, "superseding")', NEW m \in work'[s].prior
        PROVE  report'[m] # NoRow /\ report'[m].job = run[s].job
    <3>1. /\ m \in Numbers /\ report[m] # NoRow /\ report[m].job = run[s].job
      <4>1. work[s] # Idle /\ work[s].step = "superseding"
        BY <2>1, <1>9 DEF At
      <4> QED
        BY <2>1, <1>9, <4>1, WorkAt DEF PriorIsOfJob, TypeOK
    <3> QED
      BY <1>5, <3>1
  <2> QED
    BY <2>1, <1>3 DEF PriorIsOfJob
<1>11. PriorIsAll'
  <2>1. ASSUME NEW s \in RunIds, At(s, "superseding")', run[s].job \notin crossed
        PROVE  /\ ActiveReports(run[s].job)' \subseteq work'[s].prior
               /\ \A t \in RunIds : At(t, "superseding")' /\ run[t].job = run[s].job => t = s
    <3>1. s # r /\ At(s, "superseding") /\ work'[s] = work[s]
      BY <2>1, <1>9
    <3>2. run[s].job # j
      BY <2>1, <3>1, <1>3 DEF PriorIsAll
    <3>3. ActiveReports(run[s].job)' = ActiveReports(run[s].job)
      <4>1. PICK i : i = run[s].job
        OBVIOUS
      <4>2. ActiveReports(i)' = ActiveReports(i)
        BY <3>2, <4>1, InsertedActive
      <4> QED
        BY <1>3, <4>1, <4>2 DEF ActiveReports
    <3> QED
      BY <2>1, <3>1, <3>3, <1>9 DEF PriorIsAll
  <2>2. \A s \in RunIds : run'[s].job = run[s].job
    BY <1>3
  <2> QED
    BY <2>1, <2>2, <1>3 DEF PriorIsAll
<1>12. OneActiveReport'
  <2>1. ASSUME NEW i \in Jobs \ crossed, NEW m \in ActiveReports(i)', NEW k \in ActiveReports(i)'
        PROVE  m = k
    <3>1. CASE i = j
      <4>1. ActiveReports(j) \subseteq prior
        BY <2>1, <3>1, <1>1, <1>3 DEF PriorIsAll
      <4>2. ActiveReports(j)' = (ActiveReports(j) \ prior) \cup {n}
        BY <1>1, InsertedActive
      <4>3. ActiveReports(i)' = ActiveReports(j)'
        BY <3>1, <1>3 DEF ActiveReports
      <4> QED
        BY <2>1, <4>1, <4>2, <4>3
    <3>2. CASE i # j
      <4>1. ActiveReports(i)' = ActiveReports(i)
        BY <3>2, InsertedActive
      <4> QED
        BY <2>1, <4>1 DEF OneActiveReport
    <3> QED
      BY <3>1, <3>2
  <2> QED
    BY <2>1, <1>3 DEF OneActiveReport
<1> QED
  BY <1>6, <1>8, <1>10, <1>11, <1>12 DEF Rest

LEMMA JobReportStepKeeps ==
  ASSUME Inv, NEW r \in RunIds, JobReportStep(r)
  PROVE  Rest'
<1>1. r \in Runs
  BY DEF JobReportStep, FailJobReport, ReuseJobReport, AnalyseJob, Supersede,
         InsertJobReport, ChainFitReport, SendChained, GiveUpChain,
         Takes, Delivered, At, HeldAreRuns, Inv
<1>2. begun \in Nat
  BY BoundsAreNumbers DEF Inv, TypeOK
<1>3. CASE FailJobReport(r)
  BY <1>1, <1>3, FailKeeps DEF FailJobReport
<1>4. CASE ReuseJobReport(r)
  <2>1. RunsKeep
    BY <1>1, <1>4, StatusKeeps DEF ReuseJobReport, Running, Inv
  <2>2. /\ broker' \subseteq broker \cup Runs /\ begun' \in Nat /\ begun <= begun'
        /\ report' = report /\ crossed' = crossed
    BY <1>2, <1>4 DEF ReuseJobReport, stored, counts, past
  <2>3. PICK n : work' = [work EXCEPT ![r] = Reported(r, n)]
    BY <1>4 DEF ReuseJobReport
  <2>4. PICK w : w = Reported(r, n)
    OBVIOUS
  <2>5. work' = [work EXCEPT ![r] = w] /\ w.step \in {"reported", "replying"}
    BY <2>3, <2>4 DEF Reported, Replying
  <2> QED
    BY <1>1, <2>1, <2>2, <2>5, QuietWorkKeeps
<1>5. CASE AnalyseJob(r)
  BY <1>5, AnalyseKeeps
<1>6. CASE Supersede(r)
  BY <1>6, SupersedeKeeps
<1>7. CASE InsertJobReport(r)
  BY <1>7, InsertKeeps
<1>8. ASSUME NEW f \in RunIds, ChainFitReport(r, f)
      PROVE  Rest'
  <2>1. work[r] # Idle /\ work[r].step = "reported" /\ work[r].report \in Numbers
    BY <1>8, WorkAt DEF ChainFitReport, At, Inv, TypeOK
  <2> DEFINE row == [kind |-> "fit_report", ws |-> run[r].ws, job |-> run[r].job,
                     base |-> work[r].report, profile |-> run[r].profile, force |-> FALSE,
                     batch |-> FALSE, status |-> "queued"]
  <2>2. row \in RunRows
    BY <1>1, <2>1 DEF Runs, Inv, TypeOK, RunRows
  <2>3. RunsKeep /\ f \in Runs'
    BY <1>8, <2>2, NewRunKeeps DEF ChainFitReport, Inv
  <2>4. PICK w : w = [step |-> "chained", report |-> work[r].report, chained |-> f]
    OBVIOUS
  <2>5. /\ work' = [work EXCEPT ![r] = w]
        /\ w.step = "chained" /\ w.chained = f
        /\ UNCHANGED <<broker, begun, report, crossed>>
    BY <1>8, <2>4 DEF ChainFitReport, stored, counts
  <2>6. \A s \in RunIds : work'[s] # Idle /\ work'[s] # work[s] => s = r /\ work'[s] = w
    BY <2>5 DEF Inv, TypeOK
  <2>7. broker' \subseteq Runs' /\ begun' \in Nat /\ begun <= begun'
    BY <1>2, <2>3, <2>5 DEF Inv, HeldAreRuns, RunsKeep
  <2>8. \A s \in RunIds : work'[s] # Idle /\ work'[s] # work[s] =>
          /\ s \in Runs
          /\ work'[s].step \notin {"analysing", "superseding"}
          /\ work'[s].step = "chained" => work'[s].chained \in Runs'
    BY <1>1, <2>3, <2>5, <2>6
  <2> QED
    BY <2>3, <2>5, <2>7, <2>8, QuietKeeps
<1>9. CASE SendChained(r) \/ GiveUpChain(r)
  <2>1. RunsKeep
    BY <1>9 DEF SendChained, GiveUpChain, queue, RunsKeep, Runs
  <2>2. /\ begun' \in Nat /\ begun <= begun'
        /\ report' = report /\ crossed' = crossed
    BY <1>2, <1>9 DEF SendChained, GiveUpChain, stored, counts, past
  <2>3. broker' \subseteq broker \cup Runs
    BY <1>1, <1>9 DEF SendChained, GiveUpChain, queue, Inv, HeldAreRuns, Runs, At
  <2>4. PICK n, f : work' = [work EXCEPT ![r] = Replying(n, f)]
    <3>1. CASE SendChained(r)
      BY <3>1 DEF SendChained
    <3>2. CASE GiveUpChain(r)
      BY <3>2 DEF GiveUpChain
    <3> QED
      BY <1>9, <3>1, <3>2
  <2>5. PICK w : w = Replying(n, f)
    OBVIOUS
  <2>6. work' = [work EXCEPT ![r] = w] /\ w.step = "replying"
    BY <2>4, <2>5 DEF Replying
  <2> QED
    BY <1>1, <2>1, <2>2, <2>3, <2>6, QuietWorkKeeps
<1> QED
  BY <1>3, <1>4, <1>5, <1>6, <1>7, <1>8, <1>9 DEF JobReportStep

-----------------------------------------------------------------------------
(* The theorems *)

LEMMA Initially ==
  ASSUME Init
  PROVE  Inv
<1>1. TypeOK
  <2>1. PICK t \in Texts : jd = [j \in Jobs |-> t] /\ profile = [p \in Profiles |-> t]
    BY DEF Init
  <2>2. /\ report \in [Numbers -> ReportRows \cup {NoRow}]
        /\ fit \in [Numbers -> FitRows \cup {NoRow}]
        /\ run \in [RunIds -> RunRows \cup {NoRow}]
        /\ result \in [RunIds -> Results \cup {NoRow}]
        /\ work \in [RunIds -> Works]
        /\ parent \in [RunIds -> RunIds \cup {NoRun}]
    BY DEF Init, Works
  <2>3. jd \in [Jobs -> Texts] /\ profile \in [Profiles -> Texts \cup {Gone}]
        /\ said \in [Profiles -> SUBSET Texts]
    BY <2>1 DEF Init
  <2> QED
    BY <2>2, <2>3, BoundsAreNumbers DEF Init, TypeOK
<1>2. HeldAreRuns /\ NumbersFresh /\ PriorIsOfJob /\ PriorIsAll
  BY DEF Init, HeldAreRuns, NumbersFresh, PriorIsOfJob, PriorIsAll, HasNumber, At
<1>3. OneActiveReport
  BY DEF Init, OneActiveReport, ActiveReports
<1> QED
  BY <1>1, <1>2, <1>3 DEF Inv

LEMMA StepKeepsInv ==
  ASSUME Inv, [Next]_vars
  PROVE  Inv'
<1>1. TypeOK /\ HeldAreRuns /\ PriorIsOfJob
  BY DEF Inv
<1>2. CASE Edit
  BY <1>1, <1>2, EditType, EditKeeps DEF Inv, Rest
<1>3. ASSUME NEW r \in RunIds, Request(r)
      PROVE  Inv'
  BY <1>1, <1>3, RequestType, RequestKeeps DEF Inv, Rest
<1>4. ASSUME NEW r \in RunIds, JobReportStep(r)
      PROVE  Inv'
  BY <1>1, <1>4, JobReportStepType, JobReportStepKeeps DEF Inv, Rest
<1>5. ASSUME NEW r \in RunIds, FitReportStep(r)
      PROVE  Inv'
  BY <1>1, <1>5, FitReportStepType, FitReportStepKeeps DEF Inv, Rest
<1>6. ASSUME NEW r \in RunIds, Refuse(r) \/ Succeed(r) \/ Crash(r) \/ Redeliver(r)
      PROVE  Inv'
  BY <1>1, <1>6, QueueStepType, QueueStepKeeps DEF Inv, Rest
<1>7. CASE UNCHANGED vars
  BY <1>7 DEF Inv, TypeOK, HeldAreRuns, NumbersFresh, PriorIsOfJob, PriorIsAll,
              OneActiveReport, ActiveReports, HasNumber, At, Runs,
              vars, tables, stored, queue, counts, past
<1> QED
  BY <1>2, <1>3, <1>4, <1>5, <1>6, <1>7 DEF Next

THEOREM InvHolds == Spec => []Inv
<1>1. Init => Inv
  BY Initially
<1>2. Inv /\ [Next]_vars => Inv'
  BY StepKeepsInv
<1> QED
  BY <1>1, <1>2, PTL DEF Spec

\* Type correctness, of the tables and of whatever a worker has at hand.
THEOREM TypeOKHolds == Spec => []TypeOK
<1>1. Inv => TypeOK
  BY DEF Inv
<1> QED
  BY <1>1, InvHolds, PTL

\* A job that no two transactions superseded at once has one active report at
\* most, for any number of workspaces, runs, deaths and edits.
THEOREM OneActiveReportHolds == Spec => []OneActiveReport
<1>1. Inv => OneActiveReport
  BY DEF Inv
<1> QED
  BY <1>1, InvHolds, PTL

ReportsStayStep == \A j \in Jobs : ActiveReports(j) # {} => ActiveReports(j)' # {}

LEMMA StepKeepsReports ==
  ASSUME Inv, [Next]_vars
  PROVE  ReportsStayStep
<1>1. CASE report' = report
  BY <1>1 DEF ReportsStayStep, ActiveReports
<1>2. ASSUME NEW r \in RunIds, InsertJobReport(r)
      PROVE  ReportsStayStep
  <2>1. ASSUME NEW j \in Jobs, ActiveReports(j) # {}
        PROVE  ActiveReports(j)' # {}
    <3>1. CASE j = run[r].job
      <4>1. ActiveReports(j)' = ActiveReports(run[r].job)'
        BY <1>2, <3>1 DEF InsertJobReport, queue
      <4> QED
        BY <1>2, <4>1, InsertedActive
    <3>2. CASE j # run[r].job
      <4>1. ActiveReports(j)' = ActiveReports(j)
        BY <1>2, <3>2, InsertedActive
      <4> QED
        BY <2>1, <4>1
    <3> QED
      BY <3>1, <3>2
  <2> QED
    BY <2>1 DEF ReportsStayStep
<1>3. CASE Edit
  BY <1>1, <1>3 DEF Edit, Archive, UpdateJD, DeleteProfile, UpdateProfile, stored
<1>4. ASSUME NEW r \in RunIds, Request(r)
      PROVE  ReportsStayStep
  BY <1>1, <1>4 DEF Request, PostJobReport, PostFitReport, BatchAnalyze, Ask, stored
<1>5. ASSUME NEW r \in RunIds, JobReportStep(r)
      PROVE  ReportsStayStep
  <2>1. CASE InsertJobReport(r)
    BY <1>2, <2>1
  <2>2. CASE FailJobReport(r) \/ ReuseJobReport(r) \/ AnalyseJob(r) \/ Supersede(r)
    BY <1>1, <2>2 DEF FailJobReport, Fail, ReuseJobReport, AnalyseJob, Supersede, stored
  <2>3. ASSUME NEW f \in RunIds, ChainFitReport(r, f)
        PROVE  ReportsStayStep
    BY <1>1, <2>3 DEF ChainFitReport, stored
  <2>4. CASE SendChained(r) \/ GiveUpChain(r)
    BY <1>1, <2>4 DEF SendChained, GiveUpChain, stored
  <2> QED
    BY <1>5, <2>1, <2>2, <2>3, <2>4 DEF JobReportStep
<1>6. ASSUME NEW r \in RunIds, FitReportStep(r)
      PROVE  ReportsStayStep
  BY <1>1, <1>6 DEF FitReportStep, ResolveProfile, ReuseFitReport, GenerateFit,
                    FailFitReport, Fail, InsertFitReport, stored
<1>7. ASSUME NEW r \in RunIds, Refuse(r) \/ Succeed(r) \/ Crash(r) \/ Redeliver(r)
      PROVE  ReportsStayStep
  BY <1>1, <1>7 DEF Refuse, Succeed, Crash, Redeliver, stored
<1>8. CASE UNCHANGED vars
  BY <1>1, <1>8 DEF vars, stored
<1> QED
  BY <1>3, <1>4, <1>5, <1>6, <1>7, <1>8 DEF Next

\* A job that has an active report keeps having one, even when transactions
\* cross: each supersedes only what it then replaces by its own row.
THEOREM ReportsStayHolds == Spec => ReportsStay
<1>1. Inv /\ [Next]_vars =>
        [\A j \in Jobs : ActiveReports(j) # {} => ActiveReports(j)' # {}]_vars
  BY StepKeepsReports DEF ReportsStayStep
<1> QED
  BY <1>1, InvHolds, PTL DEF Spec, ReportsStay

-----------------------------------------------------------------------------
(* The chain *)

\* A run stays, nothing of it but its status changes, and its envelope is not
\* given up while it is queued.
Sent(f) == run[f].status = "queued" => f \in broker

RunsStand ==
  \A s \in Runs :
    /\ s \in Runs' /\ parent'[s] = parent[s]
    /\ run'[s].kind = run[s].kind /\ run'[s].ws = run[s].ws /\ run'[s].job = run[s].job
    /\ run'[s].base = run[s].base /\ run'[s].profile = run[s].profile
    /\ Sent(s) => Sent(s)'

LEMMA StatusStands ==
  ASSUME TypeOK, NEW r \in Runs, NEW st \in {"running", "succeeded", "failed"},
         run' = [run EXCEPT ![r].status = st], broker \ {r} \subseteq broker',
         parent' = parent
  PROVE  RunsStand
<1>1. r \in RunIds /\ run[r] \in RunRows
  BY DEF TypeOK, Runs
<1> DEFINE row == [run[r] EXCEPT !.status = st]
<1>2. row \in RunRows
  BY <1>1 DEF RunRows
<1>3. /\ row.kind = run[r].kind /\ row.ws = run[r].ws /\ row.job = run[r].job
      /\ row.base = run[r].base /\ row.profile = run[r].profile /\ row.status = st
  BY <1>1 DEF RunRows
<1>4. run'[r] = row /\ \A s \in RunIds \ {r} : run'[s] = run[s]
  BY <1>1 DEF TypeOK
<1>5. row # NoRow
  BY <1>2, RowsAreRows
<1> HIDE DEF row
<1> QED
  BY <1>1, <1>3, <1>4, <1>5 DEF RunsStand, Runs, Sent

LEMMA NewRunStands ==
  ASSUME TypeOK, NEW r \in RunIds, NEW row \in RunRows, NewRun(r, row),
         broker \subseteq broker', \A s \in RunIds \ {r} : parent'[s] = parent[s]
  PROVE  RunsStand
BY RowsAreRows DEF RunsStand, NewRun, Runs, TypeOK, Sent

LEMMA SameRunsStand ==
  ASSUME UNCHANGED <<run, parent>>, broker \subseteq broker'
  PROVE  RunsStand
BY DEF RunsStand, Runs, Sent

LEMMA StepStands ==
  ASSUME Inv, [Next]_vars
  PROVE  RunsStand
<1> USE DEF Inv
<1>1. CASE Edit
  BY <1>1, SameRunsStand DEF Edit, Archive, UpdateJD, DeleteProfile, UpdateProfile,
     queue, past
<1>2. ASSUME NEW r \in RunIds, Request(r)
      PROVE  RunsStand
  BY <1>2, RequestAsks, NewRunStands DEF Ask, past
<1>3. ASSUME NEW r \in Runs, Fail(r)
      PROVE  RunsStand
  BY <1>3, StatusStands DEF Fail, past
<1>4. ASSUME NEW r \in RunIds,
             FailJobReport(r) \/ FailFitReport(r)
      PROVE  RunsStand
  BY <1>3, <1>4 DEF FailJobReport, FailFitReport, Takes, Delivered, At, HeldAreRuns
<1>5. ASSUME NEW r \in RunIds,
             ReuseJobReport(r) \/ AnalyseJob(r) \/ ResolveProfile(r)
      PROVE  RunsStand
  <2>1. r \in Runs
    BY <1>5 DEF ReuseJobReport, AnalyseJob, ResolveProfile, Takes, Delivered, HeldAreRuns
  <2>2. run' = [run EXCEPT ![r].status = "running"] /\ UNCHANGED <<broker, parent>>
    BY <1>5 DEF ReuseJobReport, AnalyseJob, ResolveProfile, Running, past
  <2> QED
    BY <2>1, <2>2, StatusStands
<1>6. ASSUME NEW r \in RunIds, Refuse(r) \/ Succeed(r)
      PROVE  RunsStand
  <2>1. r \in Runs
    BY <1>6 DEF Refuse, Succeed, At, HeldAreRuns
  <2>2. CASE Refuse(r)
    BY <2>1, <2>2, StatusStands DEF Refuse, past
  <2>3. CASE Succeed(r)
    BY <2>1, <2>3, StatusStands DEF Succeed, past
  <2> QED
    BY <1>6, <2>2, <2>3
<1>7. ASSUME NEW r \in RunIds,
             \/ Supersede(r) \/ InsertJobReport(r) \/ SendChained(r) \/ GiveUpChain(r)
             \/ ReuseFitReport(r) \/ GenerateFit(r) \/ InsertFitReport(r)
             \/ Crash(r) \/ Redeliver(r)
      PROVE  RunsStand
  <2>1. UNCHANGED <<run, parent>> /\ broker \subseteq broker'
    BY <1>7 DEF Supersede, InsertJobReport, SendChained, GiveUpChain, ReuseFitReport,
       GenerateFit, InsertFitReport, Crash, Redeliver, queue, past
  <2> QED
    BY <2>1, SameRunsStand
<1>8. ASSUME NEW r \in RunIds, NEW f \in RunIds, ChainFitReport(r, f)
      PROVE  RunsStand
  <2>1. r \in Runs /\ work[r] # Idle /\ work[r].step = "reported"
    BY <1>8 DEF ChainFitReport, At, HeldAreRuns
  <2>2. work[r].report \in Numbers
    BY <2>1, WorkAt DEF TypeOK
  <2> DEFINE row == [kind |-> "fit_report", ws |-> run[r].ws, job |-> run[r].job,
                     base |-> work[r].report, profile |-> run[r].profile, force |-> FALSE,
                     batch |-> FALSE, status |-> "queued"]
  <2>3. row \in RunRows
    BY <2>1, <2>2 DEF Runs, TypeOK, RunRows
  <2>4. NewRun(f, row)
    BY <1>8 DEF ChainFitReport
  <2>5. broker \subseteq broker' /\ \A s \in RunIds \ {f} : parent'[s] = parent[s]
    BY <1>8 DEF ChainFitReport, TypeOK
  <2> QED
    BY <2>3, <2>4, <2>5, NewRunStands
<1>9. CASE UNCHANGED vars
  BY <1>9, SameRunsStand DEF vars, queue, past
<1> QED
  BY <1>1, <1>2, <1>4, <1>5, <1>6, <1>7, <1>8, <1>9
     DEF Next, JobReportStep, FitReportStep

\* f is the fit report run that run r chained for its report n.
ChainedBy(r, n, f) ==
  /\ r \in Runs /\ f \in Runs /\ parent[f] = r
  /\ run[f].base = n /\ run[f].profile = run[r].profile /\ run[f].job = run[r].job

\* What a run records of a chain.
Records(r, w) == w.chained # NoRun => ChainedBy(r, w.report, w.chained) /\ Sent(w.chained)

ChainInv ==
  /\ \A r \in RunIds : At(r, "chained") => ChainedBy(r, work[r].report, work[r].chained)
  /\ \A r \in RunIds : At(r, "replying") => Records(r, work[r])
  /\ \A r \in RunIds : result[r] # NoRow => Records(r, result[r])

\* A chain of runs that stand is a chain still.
LEMMA ChainStands ==
  ASSUME RunsStand
  PROVE  /\ \A r, n, f : ChainedBy(r, n, f) => ChainedBy(r, n, f)'
         /\ \A r, w : Records(r, w) => Records(r, w)'
BY DEF RunsStand, ChainedBy, Records

\* A step that records no chain.
LEMMA ChainQuiet ==
  ASSUME Inv, ChainInv, RunsStand, result' = result,
         \A s \in RunIds : work'[s] # work[s] /\ work'[s] # Idle =>
           /\ work'[s].step # "chained"
           /\ work'[s].step = "replying" => work'[s].chained = NoRun
  PROVE  ChainInv'
<1>1. ASSUME NEW s \in RunIds, At(s, "chained")'
      PROVE  ChainedBy(s, work[s].report, work[s].chained)' /\ work'[s] = work[s]
  BY <1>1, ChainStands DEF ChainInv, At
<1>2. ASSUME NEW s \in RunIds, At(s, "replying")'
      PROVE  Records(s, work[s])'
  BY <1>2, ChainStands DEF ChainInv, At, Records
<1>3. ASSUME NEW s \in RunIds, result'[s] # NoRow
      PROVE  Records(s, result[s])'
  BY <1>3, ChainStands DEF ChainInv, Records
<1> QED
  BY <1>1, <1>2, <1>3 DEF ChainInv

LEMMA ChainStep ==
  ASSUME Inv, ChainInv, [Next]_vars
  PROVE  ChainInv'
<1> USE DEF Inv
<1>1. RunsStand
  BY StepStands
<1>2. ASSUME result' = result, NEW r \in RunIds, NEW w, work' = [work EXCEPT ![r] = w],
             w # Idle => w.step # "chained" /\ (w.step = "replying" => w.chained = NoRun)
      PROVE  ChainInv'
  <2>1. \A s \in RunIds : work'[s] # work[s] => s = r /\ work'[s] = w
    BY <1>2 DEF TypeOK
  <2> QED
    BY <1>1, <1>2, <2>1, ChainQuiet
<1>3. ASSUME result' = result, work' = work
      PROVE  ChainInv'
  BY <1>1, <1>3, ChainQuiet
<1>4. ASSUME NEW r \in RunIds, JobReportStep(r)
      PROVE  ChainInv'
  <2>1. ASSUME NEW n, work' = [work EXCEPT ![r] = Reported(r, n)], result' = result
        PROVE  ChainInv'
    <3>1. PICK w : w = Reported(r, n)
      OBVIOUS
    <3>2. w.step # "chained" /\ (w.step = "replying" => w.chained = NoRun)
      BY <3>1 DEF Reported, Replying
    <3> QED
      BY <1>2, <2>1, <3>1, <3>2
  <2>2. CASE FailJobReport(r)
    BY <1>2, <2>2 DEF FailJobReport, Fail
  <2>3. CASE ReuseJobReport(r)
    BY <2>1, <2>3 DEF ReuseJobReport
  <2>4. CASE AnalyseJob(r)
    <3>1. PICK w : w = [step |-> "analysing", n |-> begun + 1, jd |-> jd[run[r].job]]
      OBVIOUS
    <3> QED
      BY <1>2, <2>4, <3>1 DEF AnalyseJob
  <2>5. CASE Supersede(r)
    <3>1. PICK w : w = [step |-> "superseding", n |-> work[r].n, jd |-> work[r].jd,
                        prior |-> PriorReports(r)]
      OBVIOUS
    <3> QED
      BY <1>2, <2>5, <3>1 DEF Supersede, queue
  <2>6. CASE InsertJobReport(r)
    BY <2>1, <2>6 DEF InsertJobReport, queue
  <2>7. ASSUME NEW f \in RunIds, ChainFitReport(r, f)
        PROVE  ChainInv'
    <3>1. /\ r \in Runs /\ result' = result /\ run[f] = NoRow
          /\ work[r].step = "reported" /\ work[r].report \in Numbers
      BY <2>7, WorkAt DEF ChainFitReport, NewRun, At, HeldAreRuns, TypeOK
    <3> DEFINE row == [kind |-> "fit_report", ws |-> run[r].ws, job |-> run[r].job,
                       base |-> work[r].report, profile |-> run[r].profile, force |-> FALSE,
                       batch |-> FALSE, status |-> "queued"]
    <3>2. row \in RunRows
      BY <3>1 DEF Runs, TypeOK, RunRows
    <3>3. r # f /\ run'[f] = row /\ run'[r] = run[r] /\ parent'[f] = r
      BY <2>7, <3>1 DEF ChainFitReport, NewRun, Runs, TypeOK
    <3>4. PICK w : w = [step |-> "chained", report |-> work[r].report, chained |-> f]
      OBVIOUS
    <3>5. /\ w.step = "chained" /\ w.report = work[r].report /\ w.chained = f
          /\ work'[r] = w /\ \A s \in RunIds \ {r} : work'[s] = work[s]
      BY <2>7, <3>4 DEF ChainFitReport, TypeOK
    <3>6. ChainedBy(r, w.report, w.chained)'
      BY <3>1, <3>2, <3>3, <3>5, RowsAreRows DEF ChainedBy, Runs
    <3>7. ASSUME NEW s \in RunIds, At(s, "chained")'
          PROVE  ChainedBy(s, work[s].report, work[s].chained)'
      BY <1>1, <3>5, <3>6, <3>7, ChainStands DEF ChainInv, At, ChainedBy
    <3>8. ASSUME NEW s \in RunIds, At(s, "replying")'
          PROVE  Records(s, work[s])'
      BY <1>1, <3>5, <3>8, ChainStands DEF ChainInv, At, Records
    <3>9. ASSUME NEW s \in RunIds, result'[s] # NoRow
          PROVE  Records(s, result[s])'
      BY <1>1, <3>1, <3>9, ChainStands DEF ChainInv, Records
    <3> QED
      BY <3>7, <3>8, <3>9 DEF ChainInv
  <2>8. CASE SendChained(r)
    <3>1. /\ work[r] # Idle /\ work[r].step = "chained"
          /\ ChainedBy(r, work[r].report, work[r].chained)
          /\ result' = result /\ broker' = broker \cup {work[r].chained}
      BY <2>8 DEF SendChained, At, ChainInv
    <3>2. PICK w : w = Replying(work[r].report, work[r].chained)
      OBVIOUS
    <3>3. /\ w.step = "replying" /\ w.report = work[r].report /\ w.chained = work[r].chained
          /\ work'[r] = w /\ \A s \in RunIds \ {r} : work'[s] = work[s]
      BY <2>8, <3>2 DEF SendChained, Replying, TypeOK
    <3>4. ChainedBy(r, w.report, w.chained)' /\ Sent(w.chained)'
      BY <1>1, <3>1, <3>3, ChainStands DEF Sent, ChainedBy
    <3>5. ASSUME NEW s \in RunIds, At(s, "chained")'
          PROVE  ChainedBy(s, work[s].report, work[s].chained)'
      BY <1>1, <3>3, <3>5, ChainStands DEF ChainInv, At, ChainedBy
    <3>6. ASSUME NEW s \in RunIds, At(s, "replying")'
          PROVE  Records(s, work[s])'
      BY <1>1, <3>3, <3>4, <3>6, ChainStands DEF ChainInv, At, Records
    <3>7. ASSUME NEW s \in RunIds, result'[s] # NoRow
          PROVE  Records(s, result[s])'
      BY <1>1, <3>1, <3>7, ChainStands DEF ChainInv, Records
    <3> QED
      BY <3>5, <3>6, <3>7 DEF ChainInv
  <2>9. CASE GiveUpChain(r)
    <3>1. PICK w : w = Replying(work[r].report, NoRun)
      OBVIOUS
    <3> QED
      BY <1>2, <2>9, <3>1 DEF GiveUpChain, Replying, queue
  <2> QED
    BY <1>4, <2>2, <2>3, <2>4, <2>5, <2>6, <2>7, <2>8, <2>9 DEF JobReportStep
<1>5. ASSUME NEW r \in RunIds, FitReportStep(r)
      PROVE  ChainInv'
  <2>1. ASSUME NEW n, work' = [work EXCEPT ![r] = Replying(n, NoRun)], result' = result
        PROVE  ChainInv'
    <3>1. PICK w : w = Replying(n, NoRun)
      OBVIOUS
    <3> QED
      BY <1>2, <2>1, <3>1 DEF Replying
  <2>2. CASE ResolveProfile(r)
    <3>1. PICK p : work' = [work EXCEPT ![r] =
                              [step |-> "profiled", profile |-> p, text |-> profile[p]]]
      BY <2>2 DEF ResolveProfile
    <3>2. PICK w : w = [step |-> "profiled", profile |-> p, text |-> profile[p]]
      OBVIOUS
    <3> QED
      BY <1>2, <2>2, <3>1, <3>2 DEF ResolveProfile
  <2>3. CASE ReuseFitReport(r)
    BY <2>1, <2>3 DEF ReuseFitReport, queue
  <2>4. CASE GenerateFit(r)
    <3>1. PICK b : work' = [work EXCEPT ![r] =
                     [step |-> "generating", n |-> begun + 1, base |-> b,
                      profile |-> work[r].profile, text |-> work[r].text]]
      BY <2>4 DEF GenerateFit
    <3>2. PICK w : w = [step |-> "generating", n |-> begun + 1, base |-> b,
                        profile |-> work[r].profile, text |-> work[r].text]
      OBVIOUS
    <3> QED
      BY <1>2, <2>4, <3>1, <3>2 DEF GenerateFit, queue
  <2>5. CASE FailFitReport(r)
    BY <1>2, <2>5 DEF FailFitReport, Fail
  <2>6. CASE InsertFitReport(r)
    BY <2>1, <2>6 DEF InsertFitReport, queue
  <2> QED
    BY <1>5, <2>2, <2>3, <2>4, <2>5, <2>6 DEF FitReportStep
<1>6. ASSUME NEW r \in RunIds, Succeed(r)
      PROVE  ChainInv'
  <2>1. PICK w : w = [report |-> work[r].report, chained |-> work[r].chained]
    OBVIOUS
  <2>2. /\ At(r, "replying") /\ w.report = work[r].report /\ w.chained = work[r].chained
        /\ result'[r] = w /\ \A s \in RunIds \ {r} : result'[s] = result[s]
        /\ work'[r] = Idle /\ \A s \in RunIds \ {r} : work'[s] = work[s]
    BY <1>6, <2>1 DEF Succeed, TypeOK
  <2>3. Records(r, w)'
    <3>1. Records(r, w)
      BY <2>2 DEF ChainInv, Records
    <3> QED
      BY <1>1, <3>1, ChainStands
  <2>4. ASSUME NEW s \in RunIds, At(s, "chained")'
        PROVE  ChainedBy(s, work[s].report, work[s].chained)'
    BY <1>1, <2>2, <2>4, ChainStands DEF ChainInv, At, ChainedBy
  <2>5. ASSUME NEW s \in RunIds, At(s, "replying")'
        PROVE  Records(s, work[s])'
    BY <1>1, <2>2, <2>5, ChainStands DEF ChainInv, At, Records
  <2>6. ASSUME NEW s \in RunIds, result'[s] # NoRow
        PROVE  Records(s, result[s])'
    BY <1>1, <2>2, <2>3, <2>6, ChainStands DEF ChainInv, Records
  <2> QED
    BY <2>4, <2>5, <2>6 DEF ChainInv
<1>7. ASSUME NEW r \in RunIds, Crash(r)
      PROVE  ChainInv'
  <2>1. PICK w : w = [step |-> "dead"]
    OBVIOUS
  <2> QED
    BY <1>2, <1>7, <2>1 DEF Crash, queue
<1>8. ASSUME NEW r \in RunIds, Refuse(r) \/ Redeliver(r)
      PROVE  ChainInv'
  BY <1>2, <1>3, <1>8 DEF Refuse, Redeliver, queue
<1>9. CASE Edit \/ \E r \in RunIds : Request(r)
  <2>1. result' = result /\ work' = work
    BY <1>9, RequestAsks DEF Ask, Edit, Archive, UpdateJD, DeleteProfile, UpdateProfile, queue
  <2> QED
    BY <1>3, <2>1
<1>10. CASE UNCHANGED vars
  BY <1>3, <1>10 DEF vars, queue
<1> QED
  BY <1>4, <1>5, <1>6, <1>7, <1>8, <1>9, <1>10 DEF Next

\* A finished job report run records a run it chained, for its report, profile
\* and job, whose envelope was sent; however many sends fail and workers die.
THEOREM ChainRecordIsRealHolds == Spec => []ChainRecordIsReal
<1>1. Init => ChainInv
  BY DEF Init, ChainInv, At
<1>2. Inv /\ ChainInv /\ [Next]_vars => ChainInv'
  BY ChainStep
<1>3. ChainInv => ChainRecordIsReal
  BY DEF ChainInv, ChainRecordIsReal, Records, ChainedBy, Sent, Runs
<1> QED
  BY <1>1, <1>2, <1>3, InvHolds, PTL DEF Spec

-----------------------------------------------------------------------------
(* The profile that is scored *)

\* Row n is a fit report of run r's workspace and job, for the profile asked.
Serves(r, p) == Owner[p] = run[r].ws /\ run[r].profile \in {NoProfile, p}

Scores(r, n) ==
  /\ r \in Runs /\ n \in Numbers
  /\ run[r].kind = "fit_report" =>
       /\ fit[n] # NoRow
       /\ fit[n].ws = run[r].ws /\ fit[n].job = run[r].job
       /\ Serves(r, fit[n].profile)

\* Each handler works on its own kind of run; one that writes a fit report has
\* a number of its own, under which there is no row.
StepsFit ==
  \A r \in RunIds :
    /\ work[r] # Idle /\ work[r].step \in {"analysing", "superseding", "reported", "chained"}
         => run[r].kind = "job_report"
    /\ work[r] # Idle /\ work[r].step \in {"profiled", "generating"}
         => run[r].kind = "fit_report" /\ Serves(r, work[r].profile)

FitNumbersFresh ==
  /\ \A n \in Numbers : n > begun => fit[n] = NoRow
  /\ \A r \in RunIds : At(r, "generating") => work[r].n <= begun /\ fit[work[r].n] = NoRow
  /\ \A r, s \in RunIds :
       At(r, "generating") /\ At(s, "generating") /\ work[r].n = work[s].n => r = s

ScoreInv ==
  /\ StepsFit /\ FitNumbersFresh
  /\ \A r \in RunIds : At(r, "replying") => Scores(r, work[r].report)
  /\ \A r \in RunIds : result[r] # NoRow => Scores(r, result[r].report)

\* Fit reports stay, and nothing of them but their status changes.
FitsStand ==
  \A n \in Numbers : fit[n] # NoRow =>
    /\ fit'[n] # NoRow /\ fit'[n].ws = fit[n].ws /\ fit'[n].job = fit[n].job
    /\ fit'[n].profile = fit[n].profile /\ fit'[n].text = fit[n].text

LEMMA ScoreStands ==
  ASSUME RunsStand, FitsStand
  PROVE  /\ \A r \in Runs : \A p : Serves(r, p) => Serves(r, p)'
         /\ \A r, n : Scores(r, n) => Scores(r, n)'
BY DEF RunsStand, FitsStand, Scores, Serves

\* What a worker may have at hand that no number goes with.
Fitting(r, w) ==
  /\ r \in Runs /\ w.step # "generating"
  /\ w.step \in {"analysing", "superseding", "reported", "chained"}
       => run[r].kind = "job_report"
  /\ w.step = "profiled" => run[r].kind = "fit_report" /\ Serves(r, w.profile)
  /\ w.step = "replying" => Scores(r, w.report)

\* A step that writes no fit report, and gives no worker a number for one.
LEMMA ScoreQuiet ==
  ASSUME Inv, ScoreInv, RunsStand, fit' = fit, begun' \in Nat, begun <= begun',
         result' = result,
         \A s \in RunIds : work'[s] # work[s] /\ work'[s] # Idle => Fitting(s, work'[s])
  PROVE  ScoreInv'
<1> USE DEF Inv
<1>1. FitsStand
  BY DEF FitsStand
<1>2. \A s \in RunIds : work'[s] = work[s] \/ work'[s] = Idle \/ Fitting(s, work'[s])
  OBVIOUS
<1>3. \A s \in RunIds : work[s] # Idle => s \in Runs
  BY DEF HeldAreRuns
<1>4. StepsFit'
  <2>1. ASSUME NEW s \in RunIds, work'[s] # Idle,
               work'[s].step \in {"analysing", "superseding", "reported", "chained"}
        PROVE  run'[s].kind = "job_report"
    <3>1. s \in Runs /\ run[s].kind = "job_report"
      BY <1>2, <1>3, <2>1 DEF ScoreInv, StepsFit, Fitting
    <3> QED
      BY <3>1 DEF RunsStand
  <2>2. ASSUME NEW s \in RunIds, work'[s] # Idle, work'[s].step \in {"profiled", "generating"}
        PROVE  run'[s].kind = "fit_report" /\ Serves(s, work[s].profile)'
    <3>1. PICK p : p = work'[s].profile
      OBVIOUS
    <3>2. s \in Runs /\ run[s].kind = "fit_report" /\ Serves(s, p)
      BY <1>2, <1>3, <2>2, <3>1 DEF ScoreInv, StepsFit, Fitting
    <3>3. run'[s].kind = "fit_report" /\ Serves(s, p)'
      BY <1>1, <3>2, ScoreStands DEF RunsStand
    <3> QED
      BY <3>1, <3>3
  <2> QED
    BY <2>1, <2>2 DEF StepsFit
<1>5. FitNumbersFresh'
  <2>1. ASSUME NEW s \in RunIds, At(s, "generating")'
        PROVE  At(s, "generating") /\ work'[s] = work[s] /\ work[s].n \in Numbers
    <3>1. work[s] # Idle /\ work[s].step = "generating" /\ work'[s] = work[s]
      BY <1>2, <2>1 DEF At, Fitting
    <3> QED
      BY <3>1, WorkAt DEF At, TypeOK
  <2>2. \A n \in Numbers : n > begun' => n > begun
    BY BoundsAreNumbers DEF TypeOK, Numbers
  <2>3. ASSUME NEW s \in RunIds, At(s, "generating")'
        PROVE  work'[s].n <= begun' /\ fit'[work'[s].n] = NoRow
    <3>1. work[s].n <= begun /\ fit[work[s].n] = NoRow /\ work[s].n \in Numbers
      BY <2>1, <2>3 DEF ScoreInv, FitNumbersFresh
    <3>2. work[s].n <= begun'
      BY <3>1, BoundsAreNumbers DEF TypeOK, Numbers
    <3> QED
      BY <2>1, <2>3, <3>1, <3>2
  <2>4. \A n \in Numbers : n > begun' => fit'[n] = NoRow
    BY <2>2 DEF ScoreInv, FitNumbersFresh
  <2>5. ASSUME NEW s \in RunIds, NEW t \in RunIds, At(s, "generating")', At(t, "generating")',
               work'[s].n = work'[t].n
        PROVE  s = t
    BY <2>1, <2>5 DEF ScoreInv, FitNumbersFresh
  <2> QED
    BY <2>3, <2>4, <2>5 DEF FitNumbersFresh
<1>6. ASSUME NEW s \in RunIds, At(s, "replying")'
      PROVE  Scores(s, work[s].report)'
  <2>1. PICK n : n = work'[s].report
    OBVIOUS
  <2>2. Scores(s, n)
    BY <1>2, <1>6, <2>1 DEF ScoreInv, At, Fitting
  <2> QED
    BY <1>1, <2>1, <2>2, ScoreStands DEF Scores
<1>7. ASSUME NEW s \in RunIds, result'[s] # NoRow
      PROVE  Scores(s, result[s].report)'
  <2>1. PICK n : n = result[s].report
    OBVIOUS
  <2>2. Scores(s, n)'
    BY <1>1, <1>7, <2>1, ScoreStands DEF ScoreInv
  <2> QED
    BY <2>1, <2>2 DEF Scores
<1> QED
  BY <1>4, <1>5, <1>6, <1>7 DEF ScoreInv

LEMMA ScoreGenerate ==
  ASSUME Inv, ScoreInv, RunsStand, NEW r \in RunIds, GenerateFit(r)
  PROVE  ScoreInv'
<1> USE DEF Inv
<1>1. PICK b : work' = [work EXCEPT ![r] =
                 [step |-> "generating", n |-> begun + 1, base |-> b,
                  profile |-> work[r].profile, text |-> work[r].text]]
  BY DEF GenerateFit
<1>2. PICK w : w = [step |-> "generating", n |-> begun + 1, base |-> b,
                    profile |-> work[r].profile, text |-> work[r].text]
  OBVIOUS
<1>3. /\ w.step = "generating" /\ w.n = begun + 1 /\ w.profile = work[r].profile
      /\ work'[r] = w /\ \A s \in RunIds \ {r} : work'[s] = work[s]
  BY <1>1, <1>2 DEF TypeOK
<1>4. /\ work[r] # Idle /\ work[r].step = "profiled" /\ r \in Runs
      /\ UNCHANGED <<fit, run, result>> /\ begun' = begun + 1 /\ begun < MaxReports
      /\ begun \in Nat
  BY BoundsAreNumbers DEF GenerateFit, At, HeldAreRuns, stored, queue, TypeOK
<1>5. FitsStand /\ \A s : Runs' = Runs
  BY <1>4 DEF FitsStand, Runs
<1>6. StepsFit'
  <2>1. run[r].kind = "fit_report" /\ Serves(r, w.profile)
    BY <1>3, <1>4 DEF ScoreInv, StepsFit
  <2>2. Serves(r, w.profile)'
    BY <1>4, <2>1 DEF Serves
  <2> QED
    BY <1>3, <1>4, <2>1, <2>2 DEF ScoreInv, StepsFit, Serves
<1>7. FitNumbersFresh'
  <2>1. ASSUME NEW s \in RunIds \ {r}, At(s, "generating")'
        PROVE  /\ At(s, "generating") /\ work'[s] = work[s] /\ work[s].n \in Numbers
               /\ work[s].n <= begun /\ fit[work[s].n] = NoRow
    <3>1. work[s] # Idle /\ work[s].step = "generating" /\ work'[s] = work[s]
      BY <1>3, <2>1 DEF At
    <3>2. At(s, "generating") /\ work[s].n \in Numbers
      BY <3>1, WorkAt DEF At, TypeOK
    <3> QED
      BY <3>1, <3>2 DEF ScoreInv, FitNumbersFresh
  <2>2. begun + 1 \in Numbers /\ fit[begun + 1] = NoRow
    BY <1>4, BoundsAreNumbers DEF ScoreInv, FitNumbersFresh, Numbers
  <2>3. \A n \in Numbers : n > begun' => fit'[n] = NoRow
    BY <1>4 DEF ScoreInv, FitNumbersFresh, Numbers
  <2>4. ASSUME NEW s \in RunIds, At(s, "generating")'
        PROVE  work'[s].n <= begun' /\ fit'[work'[s].n] = NoRow
    <3>1. CASE s = r
      BY <1>3, <1>4, <2>2, <3>1
    <3>2. CASE s # r
      <4>1. /\ work'[s].n = work[s].n /\ work[s].n \in Numbers /\ work[s].n <= begun
            /\ fit[work[s].n] = NoRow
        BY <2>1, <2>4, <3>2
      <4>2. work[s].n <= begun + 1
        BY <1>4, <4>1 DEF Numbers
      <4> QED
        BY <1>4, <4>1, <4>2
    <3> QED
      BY <3>1, <3>2
  <2>5. ASSUME NEW s \in RunIds \ {r}, At(s, "generating")'
        PROVE  work'[s].n # w.n
    BY <1>3, <1>4, <2>1, <2>5 DEF Numbers
  <2>6. ASSUME NEW s \in RunIds, NEW t \in RunIds, At(s, "generating")', At(t, "generating")',
               work'[s].n = work'[t].n
        PROVE  s = t
    BY <1>3, <2>1, <2>5, <2>6 DEF ScoreInv, FitNumbersFresh
  <2> QED
    BY <2>3, <2>4, <2>6 DEF FitNumbersFresh
<1>8. ASSUME NEW s \in RunIds, At(s, "replying")'
      PROVE  Scores(s, work[s].report)'
  <2>1. work'[s] = work[s] /\ Scores(s, work[s].report)
    BY <1>3, <1>8 DEF ScoreInv, At
  <2> QED
    BY <1>4, <1>5, <2>1 DEF Scores, Serves
<1>9. ASSUME NEW s \in RunIds, result'[s] # NoRow
      PROVE  Scores(s, result[s].report)'
  BY <1>4, <1>5, <1>9 DEF ScoreInv, Scores, Serves
<1> QED
  BY <1>6, <1>7, <1>8, <1>9 DEF ScoreInv

\* What the insert makes of the rows.
LEMMA InsertedFits ==
  ASSUME Inv, ScoreInv, NEW r \in RunIds, InsertFitReport(r),
         NEW n, n = work[r].n
  PROVE  /\ r \in Runs /\ n \in Numbers /\ n <= begun /\ fit[n] = NoRow /\ FitsStand
         /\ fit'[n] # NoRow /\ fit'[n].ws = run[r].ws /\ fit'[n].job = run[r].job
         /\ fit'[n].profile = work[r].profile
         /\ \A m \in Numbers \ {n} : fit[m] = NoRow => fit'[m] = NoRow
<1> USE DEF Inv
<1>1. work[r] # Idle /\ work[r].step = "generating" /\ r \in Runs
  BY DEF InsertFitReport, At, HeldAreRuns
<1>2. n \in Numbers /\ work[r].base \in Numbers /\ work[r].profile \in Profiles
        /\ work[r].text \in Texts
  BY <1>1, WorkAt DEF TypeOK
<1>3. n <= begun /\ fit[n] = NoRow
  BY <1>1 DEF ScoreInv, FitNumbersFresh, At
<1> DEFINE row == [ws |-> run[r].ws, job |-> run[r].job, base |-> work[r].base,
                   profile |-> work[r].profile, text |-> work[r].text, status |-> "active"]
           old == Superseded(fit, PriorFits(r))
<1>4. row \in FitRows
  BY <1>1, <1>2 DEF FitRows, Runs, TypeOK, RunRows
<1>5. old \in [Numbers -> FitRows \cup {NoRow}]
  BY SupersededFits DEF TypeOK, PriorFits, ActiveFits
<1>6. fit' = [old EXCEPT ![n] = row]
  BY DEF InsertFitReport
<1>7. ASSUME NEW m \in Numbers
      PROVE  /\ fit[m] = NoRow => old[m] = NoRow
             /\ fit[m] # NoRow => /\ old[m] # NoRow /\ old[m].ws = fit[m].ws
                                  /\ old[m].job = fit[m].job /\ old[m].profile = fit[m].profile
                                  /\ old[m].text = fit[m].text
  <2>1. m \in PriorFits(r) => fit[m] # NoRow
    BY DEF PriorFits, ActiveFits
  <2>2. fit[m] # NoRow => fit[m] \in FitRows
    BY DEF TypeOK
  <2>3. old[m] = IF m \in PriorFits(r) THEN [fit[m] EXCEPT !.status = "superseded"] ELSE fit[m]
    BY DEF Superseded
  <2>4. old[m] \in FitRows => old[m] # NoRow
    BY RowsAreRows
  <2>5. fit[m] \in FitRows => [fit[m] EXCEPT !.status = "superseded"] \in FitRows
    BY DEF FitRows
  <2> QED
    BY <2>1, <2>2, <2>3, <2>4, <2>5 DEF FitRows
<1>8. fit'[n] = row /\ \A m \in Numbers \ {n} : fit'[m] = old[m]
  BY <1>2, <1>5, <1>6
<1>9. fit'[n] # NoRow
  BY <1>4, <1>8, RowsAreRows
<1>10. FitsStand
  BY <1>3, <1>7, <1>8 DEF FitsStand
<1> QED
  BY <1>1, <1>2, <1>3, <1>7, <1>8, <1>9, <1>10

LEMMA ScoreInsert ==
  ASSUME Inv, ScoreInv, RunsStand, NEW r \in RunIds, InsertFitReport(r)
  PROVE  ScoreInv'
<1> USE DEF Inv
<1>1. PICK n, p : n = work[r].n /\ p = work[r].profile
  OBVIOUS
<1>2. PICK w : w = Replying(n, NoRun)
  OBVIOUS
<1>3. /\ w.step = "replying" /\ w.report = n
      /\ work'[r] = w /\ \A s \in RunIds \ {r} : work'[s] = work[s]
      /\ UNCHANGED <<run, result, begun>> /\ Runs' = Runs
      /\ work[r] # Idle /\ work[r].step = "generating"
  BY <1>1, <1>2 DEF InsertFitReport, Replying, queue, counts, At, TypeOK, Runs
<1>4. /\ r \in Runs /\ n \in Numbers /\ n <= begun /\ fit[n] = NoRow /\ FitsStand
      /\ fit'[n] # NoRow /\ fit'[n].ws = run[r].ws /\ fit'[n].job = run[r].job
      /\ fit'[n].profile = p
      /\ \A m \in Numbers \ {n} : fit[m] = NoRow => fit'[m] = NoRow
  BY <1>1, InsertedFits
<1>5. Serves(r, p)
  BY <1>1, <1>3 DEF ScoreInv, StepsFit
<1>6. Scores(r, n)'
  BY <1>3, <1>4, <1>5 DEF Scores, Serves
<1>7. StepsFit'
  BY <1>3 DEF ScoreInv, StepsFit, Serves
<1>8. FitNumbersFresh'
  <2>1. ASSUME NEW s \in RunIds, At(s, "generating")'
        PROVE  /\ s # r /\ At(s, "generating") /\ work'[s] = work[s]
               /\ work[s].n # n /\ work[s].n \in Numbers
    <3>1. s # r /\ work[s] # Idle /\ work[s].step = "generating" /\ work'[s] = work[s]
      BY <1>3, <2>1 DEF At
    <3>2. At(s, "generating") /\ At(r, "generating") /\ work[s].n \in Numbers
      BY <1>3, <3>1, WorkAt DEF At, TypeOK
    <3> QED
      BY <1>1, <3>1, <3>2 DEF ScoreInv, FitNumbersFresh
  <2>2. \A m \in Numbers : m > begun' => m # n /\ fit[m] = NoRow
    BY <1>3, <1>4, BoundsAreNumbers DEF ScoreInv, FitNumbersFresh, Numbers, TypeOK
  <2>3. ASSUME NEW s \in RunIds, At(s, "generating")'
        PROVE  work'[s].n <= begun' /\ fit'[work'[s].n] = NoRow
    BY <1>3, <1>4, <2>1, <2>3 DEF ScoreInv, FitNumbersFresh
  <2>4. ASSUME NEW s \in RunIds, NEW t \in RunIds, At(s, "generating")', At(t, "generating")',
               work'[s].n = work'[t].n
        PROVE  s = t
    BY <2>1, <2>4 DEF ScoreInv, FitNumbersFresh
  <2> QED
    BY <1>4, <2>2, <2>3, <2>4 DEF FitNumbersFresh
<1>9. ASSUME NEW s \in RunIds, At(s, "replying")'
      PROVE  Scores(s, work[s].report)'
  <2>1. CASE s = r
    BY <1>3, <1>6, <2>1 DEF Scores
  <2>2. CASE s # r
    <3>1. PICK m : m = work[s].report
      OBVIOUS
    <3>2. work'[s] = work[s] /\ Scores(s, m)
      BY <1>3, <1>9, <2>2, <3>1 DEF ScoreInv, At
    <3>3. Scores(s, m)'
      BY <1>4, <3>2, ScoreStands
    <3> QED
      BY <3>1, <3>2, <3>3 DEF Scores
  <2> QED
    BY <2>1, <2>2
<1>10. ASSUME NEW s \in RunIds, result'[s] # NoRow
       PROVE  Scores(s, result[s].report)'
  <2>1. PICK m : m = result[s].report
    OBVIOUS
  <2>2. Scores(s, m)'
    BY <1>3, <1>4, <1>10, <2>1, ScoreStands DEF ScoreInv
  <2> QED
    BY <1>3, <2>1, <2>2 DEF Scores
<1> QED
  BY <1>7, <1>8, <1>9, <1>10 DEF ScoreInv

LEMMA ScoreStep ==
  ASSUME Inv, ScoreInv, [Next]_vars
  PROVE  ScoreInv'
<1> USE DEF Inv
<1>1. RunsStand /\ begun \in Nat
  BY StepStands, BoundsAreNumbers DEF TypeOK
<1>2. ASSUME UNCHANGED <<fit, result>>, begun' \in {begun, begun + 1},
             NEW r \in RunIds, NEW w, work' = [work EXCEPT ![r] = w],
             w # Idle => Fitting(r, w)
      PROVE  ScoreInv'
  <2>1. \A s \in RunIds : work'[s] # work[s] => s = r /\ work'[s] = w
    BY <1>2 DEF TypeOK
  <2>2. begun' \in Nat /\ begun <= begun'
    BY <1>1, <1>2
  <2> QED
    BY <1>1, <1>2, <2>1, <2>2, ScoreQuiet
<1>3. ASSUME UNCHANGED <<fit, result, work, begun>>
      PROVE  ScoreInv'
  BY <1>1, <1>3, ScoreQuiet
<1>4. ASSUME NEW r \in RunIds, JobReportStep(r)
      PROVE  ScoreInv'
  <2>1. r \in Runs /\ run[r].kind = "job_report"
    BY <1>4 DEF JobReportStep, FailJobReport, ReuseJobReport, AnalyseJob, Supersede,
       InsertJobReport, ChainFitReport, SendChained, GiveUpChain, Takes, Delivered, At,
       HeldAreRuns, ScoreInv, StepsFit
  <2>2. ASSUME NEW n \in Numbers, work' = [work EXCEPT ![r] = Reported(r, n)],
               UNCHANGED <<fit, result, begun>>
        PROVE  ScoreInv'
    <3>1. PICK w : w = Reported(r, n)
      OBVIOUS
    <3>2. Fitting(r, w)
      BY <2>1, <3>1 DEF Reported, Replying, Fitting, Scores
    <3> QED
      BY <1>2, <2>2, <3>1, <3>2
  <2>3. CASE FailJobReport(r)
    BY <1>2, <2>3 DEF FailJobReport, Fail, stored, counts
  <2>4. CASE ReuseJobReport(r)
    <3>1. PICK n \in Numbers : work' = [work EXCEPT ![r] = Reported(r, n)]
      BY <2>4 DEF ReuseJobReport, Newest, CachedReports, ActiveReports
    <3> QED
      BY <2>2, <2>4, <3>1 DEF ReuseJobReport, stored, counts
  <2>5. CASE AnalyseJob(r)
    <3>1. PICK w : w = [step |-> "analysing", n |-> begun + 1, jd |-> jd[run[r].job]]
      OBVIOUS
    <3>2. Fitting(r, w)
      BY <2>1, <3>1 DEF Fitting
    <3> QED
      BY <1>2, <2>5, <3>1, <3>2 DEF AnalyseJob, stored
  <2>6. CASE Supersede(r)
    <3>1. PICK w : w = [step |-> "superseding", n |-> work[r].n, jd |-> work[r].jd,
                        prior |-> PriorReports(r)]
      OBVIOUS
    <3>2. Fitting(r, w)
      BY <2>1, <3>1 DEF Fitting
    <3> QED
      BY <1>2, <2>6, <3>1, <3>2 DEF Supersede, stored, queue, counts
  <2>7. CASE InsertJobReport(r)
    <3>1. work[r].n \in Numbers
      BY <2>7, WorkAt DEF InsertJobReport, At, TypeOK
    <3> QED
      BY <2>2, <2>7, <3>1 DEF InsertJobReport, queue, counts
  <2>8. ASSUME NEW f \in RunIds, ChainFitReport(r, f)
        PROVE  ScoreInv'
    <3>1. PICK w : w = [step |-> "chained", report |-> work[r].report, chained |-> f]
      OBVIOUS
    <3>2. Fitting(r, w)
      BY <2>1, <3>1 DEF Fitting
    <3> QED
      BY <1>2, <2>8, <3>1, <3>2 DEF ChainFitReport, stored, counts
  <2>9. CASE SendChained(r) \/ GiveUpChain(r)
    <3>1. work[r].report \in Numbers
      BY <2>9, WorkAt DEF SendChained, GiveUpChain, At, TypeOK
    <3>2. PICK f : work' = [work EXCEPT ![r] = Replying(work[r].report, f)]
      <4>1. CASE SendChained(r)
        BY <4>1 DEF SendChained
      <4>2. CASE GiveUpChain(r)
        BY <4>2 DEF GiveUpChain
      <4> QED
        BY <2>9, <4>1, <4>2
    <3>3. PICK w : w = Replying(work[r].report, f)
      OBVIOUS
    <3>4. Fitting(r, w)
      BY <2>1, <3>1, <3>3 DEF Fitting, Replying, Scores
    <3> QED
      BY <1>2, <2>9, <3>2, <3>3, <3>4 DEF SendChained, GiveUpChain, stored, queue, counts
  <2> QED
    BY <1>4, <2>3, <2>4, <2>5, <2>6, <2>7, <2>8, <2>9 DEF JobReportStep
<1>5. ASSUME NEW r \in RunIds, FitReportStep(r)
      PROVE  ScoreInv'
  <2>1. r \in Runs /\ run[r].kind = "fit_report" /\ run[r] \in RunRows
    BY <1>5 DEF FitReportStep, ResolveProfile, ReuseFitReport, GenerateFit, FailFitReport,
       InsertFitReport, Takes, Delivered, At, HeldAreRuns, ScoreInv, StepsFit, Runs, TypeOK
  <2>2. CASE ResolveProfile(r)
    <3>1. PICK p \in Resolved(r) : work' = [work EXCEPT ![r] =
                              [step |-> "profiled", profile |-> p, text |-> profile[p]]]
      BY <2>2 DEF ResolveProfile
    <3>2. PICK w : w = [step |-> "profiled", profile |-> p, text |-> profile[p]]
      OBVIOUS
    <3>3. Serves(r, p)
      BY <3>1 DEF Resolved, Defaults, Living, Serves
    <3>4. Fitting(r, w)
      BY <2>1, <3>2, <3>3 DEF Fitting
    <3> QED
      BY <1>2, <2>2, <3>1, <3>2, <3>4 DEF ResolveProfile, stored, counts
  <2>3. CASE ReuseFitReport(r)
    <3>1. PICK b : \E n \in Newest(CachedFits(r, b)) :
                      work' = [work EXCEPT ![r] = Replying(n, NoRun)]
      BY <2>3 DEF ReuseFitReport
    <3>2. PICK n \in CachedFits(r, b) : work' = [work EXCEPT ![r] = Replying(n, NoRun)]
      BY <3>1 DEF Newest
    <3>3. PICK w : w = Replying(n, NoRun)
      OBVIOUS
    <3>4. Serves(r, work[r].profile)
      BY <2>3 DEF ReuseFitReport, At, ScoreInv, StepsFit
    <3>5. Scores(r, n)
      BY <2>1, <3>2, <3>4 DEF CachedFits, ActiveFits, Scores
    <3>6. Fitting(r, w)
      BY <2>1, <3>3, <3>5 DEF Fitting, Replying
    <3> QED
      BY <1>2, <2>3, <3>2, <3>3, <3>6 DEF ReuseFitReport, stored, queue, counts
  <2>4. CASE GenerateFit(r)
    BY <1>1, <2>4, ScoreGenerate
  <2>5. CASE FailFitReport(r)
    BY <1>2, <2>5 DEF FailFitReport, Fail, stored, counts
  <2>6. CASE InsertFitReport(r)
    BY <1>1, <2>6, ScoreInsert
  <2> QED
    BY <1>5, <2>2, <2>3, <2>4, <2>5, <2>6 DEF FitReportStep
<1>6. ASSUME NEW r \in RunIds, Succeed(r)
      PROVE  ScoreInv'
  <2>1. PICK w : w = [report |-> work[r].report, chained |-> work[r].chained]
    OBVIOUS
  <2>2. /\ At(r, "replying") /\ w.report = work[r].report
        /\ result'[r] = w /\ \A s \in RunIds \ {r} : result'[s] = result[s]
        /\ work'[r] = Idle /\ \A s \in RunIds \ {r} : work'[s] = work[s]
        /\ UNCHANGED <<fit, begun>>
    BY <1>6, <2>1 DEF Succeed, TypeOK, stored, counts
  <2>3. Scores(r, w.report)
    BY <2>2 DEF ScoreInv
  <2>4. FitsStand
    BY <2>2 DEF FitsStand
  <2>5. \A s \in RunIds : work'[s] # Idle => work'[s] = work[s] /\ s \in Runs
    BY <2>2 DEF HeldAreRuns
  <2>6. \A s \in Runs : run'[s].kind = run[s].kind
    BY <1>1 DEF RunsStand
  <2>7. StepsFit'
    <3>1. ASSUME NEW s \in RunIds, work'[s] # Idle, work'[s].step \in {"profiled", "generating"}
          PROVE  run'[s].kind = "fit_report" /\ Serves(s, work[s].profile)'
      <4>1. PICK p : p = work'[s].profile
        OBVIOUS
      <4>2. s \in Runs /\ run[s].kind = "fit_report" /\ Serves(s, p)
        BY <2>5, <3>1, <4>1 DEF ScoreInv, StepsFit
      <4>3. run'[s].kind = "fit_report" /\ Serves(s, p)'
        BY <1>1, <2>4, <2>6, <4>2, ScoreStands
      <4> QED
        BY <4>1, <4>3
    <3> QED
      BY <2>5, <2>6, <3>1 DEF ScoreInv, StepsFit
  <2>8. FitNumbersFresh'
    <3>1. \A s \in RunIds : At(s, "generating")' => At(s, "generating") /\ work'[s] = work[s]
      BY <2>5 DEF At
    <3> QED
      BY <2>2, <3>1 DEF ScoreInv, FitNumbersFresh
  <2>9. ASSUME NEW s \in RunIds, At(s, "replying")'
        PROVE  Scores(s, work[s].report)'
    <3>1. PICK n : n = work'[s].report
      OBVIOUS
    <3>2. Scores(s, n)
      BY <2>5, <2>9, <3>1 DEF ScoreInv, At
    <3>3. Scores(s, n)'
      BY <1>1, <2>4, <3>2, ScoreStands
    <3> QED
      BY <3>1, <3>3 DEF Scores
  <2>10. ASSUME NEW s \in RunIds, result'[s] # NoRow
         PROVE  Scores(s, result[s].report)'
    <3>1. PICK n : n = result'[s].report
      OBVIOUS
    <3>2. Scores(s, n)
      BY <2>2, <2>3, <2>10, <3>1 DEF ScoreInv
    <3>3. Scores(s, n)'
      BY <1>1, <2>4, <3>2, ScoreStands
    <3> QED
      BY <3>1, <3>3 DEF Scores
  <2> QED
    BY <2>7, <2>8, <2>9, <2>10 DEF ScoreInv
<1>7. ASSUME NEW r \in RunIds, Crash(r)
      PROVE  ScoreInv'
  <2>1. PICK w : w = [step |-> "dead"]
    OBVIOUS
  <2>2. Fitting(r, w)
    BY <1>7, <2>1 DEF Fitting, Crash, HeldAreRuns
  <2> QED
    BY <1>2, <1>7, <2>1, <2>2 DEF Crash, stored, queue
<1>8. ASSUME NEW r \in RunIds, Redeliver(r)
      PROVE  ScoreInv'
  BY <1>2, <1>8 DEF Redeliver, stored, queue, counts
<1>9. CASE Edit \/ \E r \in RunIds : Request(r) \/ Refuse(r)
  <2>1. UNCHANGED <<fit, result, work, begun>>
    BY <1>9, RequestAsks DEF Ask, Refuse, Edit, Archive, UpdateJD, DeleteProfile, UpdateProfile,
       stored, queue, counts
  <2> QED
    BY <1>3, <2>1
<1>10. CASE UNCHANGED vars
  BY <1>3, <1>10 DEF vars, stored, queue, counts
<1> QED
  BY <1>4, <1>5, <1>6, <1>7, <1>8, <1>9, <1>10 DEF Next

\* A fit report run scores the profile it names, of its own workspace and for
\* its own job, whatever is edited or deleted meanwhile.
THEOREM AskedProfileScoredHolds == Spec => []AskedProfileScored
<1>1. Init => ScoreInv
  BY DEF Init, ScoreInv, StepsFit, FitNumbersFresh, At
<1>2. Inv /\ ScoreInv /\ [Next]_vars => ScoreInv'
  BY ScoreStep
<1>3. ScoreInv => AskedProfileScored
  BY DEF ScoreInv, AskedProfileScored, Scores, Serves, Runs
<1> QED
  BY <1>1, <1>2, <1>3, InvHolds, PTL DEF Spec

-----------------------------------------------------------------------------
(* The fit report on display *)

\* One worker at a time executes a run of a kind, workspace and job.
Busy(r) == work[r] # Idle /\ work[r].step # "dead"
SameKey(r, s) ==
  run[r].kind = run[s].kind /\ run[r].ws = run[s].ws /\ run[r].job = run[s].job

OneBusy == \A r, s \in RunIds : Busy(r) /\ Busy(s) /\ SameKey(r, s) => r = s

LEMMA OneBusyQuiet ==
  ASSUME Inv, OneBusy, RunsStand, \A s \in RunIds : Busy(s)' => Busy(s)
  PROVE  OneBusy'
<1>1. \A s \in RunIds : Busy(s) => s \in Runs
  BY DEF Busy, Inv, HeldAreRuns
<1> QED
  BY <1>1 DEF OneBusy, SameKey, RunsStand

LEMMA OneBusyTaken ==
  ASSUME Inv, OneBusy, RunsStand, NEW r \in RunIds, r \in Runs,
         \A s \in Rivals(r) : At(s, "dead"),
         \A s \in RunIds \ {r} : work'[s] = work[s]
  PROVE  OneBusy'
<1>1. \A s \in RunIds \ {r} : Busy(s)' => Busy(s) /\ s \in Runs
  BY DEF Busy, Inv, HeldAreRuns
<1>2. \A s \in Runs \ {r} : Busy(s) => ~ SameKey(s, r) /\ ~ SameKey(r, s)
  BY DEF Rivals, Busy, At, SameKey
<1>3. \A s, t \in Runs : SameKey(s, t)' => SameKey(s, t)
  BY DEF SameKey, RunsStand
<1> QED
  BY <1>1, <1>2, <1>3 DEF OneBusy

LEMMA OneBusyStep ==
  ASSUME Inv, OneBusy, [Next]_vars
  PROVE  OneBusy'
<1> USE DEF Inv
<1>1. RunsStand
  BY StepStands
<1>2. ASSUME NEW r \in RunIds, work' = [work EXCEPT ![r] = Idle]
      PROVE  OneBusy'
  <2>1. \A s \in RunIds : Busy(s)' => Busy(s)
    BY <1>2 DEF Busy, TypeOK
  <2> QED
    BY <1>1, <2>1, OneBusyQuiet
<1>3. ASSUME NEW r \in RunIds, NEW w, Busy(r), work' = [work EXCEPT ![r] = w]
      PROVE  OneBusy'
  <2>1. \A s \in RunIds : Busy(s)' => Busy(s)
    BY <1>3 DEF Busy, TypeOK
  <2> QED
    BY <1>1, <2>1, OneBusyQuiet
<1>4. ASSUME work' = work
      PROVE  OneBusy'
  BY <1>1, <1>4, OneBusyQuiet DEF Busy
<1>5. ASSUME NEW r \in RunIds, NEW kind, Takes(r, kind), NEW w, work' = [work EXCEPT ![r] = w]
      PROVE  OneBusy'
  <2>1. r \in Runs /\ (\A s \in Rivals(r) : At(s, "dead"))
        /\ \A s \in RunIds \ {r} : work'[s] = work[s]
    BY <1>5 DEF Takes, Delivered, HeldAreRuns, TypeOK
  <2> QED
    BY <1>1, <2>1, OneBusyTaken
<1>6. ASSUME NEW r \in RunIds, JobReportStep(r)
      PROVE  OneBusy'
  <2>1. CASE FailJobReport(r)
    BY <1>2, <2>1 DEF FailJobReport, Fail
  <2>2. CASE ReuseJobReport(r)
    <3>1. PICK w : work' = [work EXCEPT ![r] = w]
      BY <2>2 DEF ReuseJobReport
    <3> QED
      BY <1>5, <2>2, <3>1 DEF ReuseJobReport
  <2>3. CASE AnalyseJob(r)
    <3>1. PICK w : work' = [work EXCEPT ![r] = w]
      BY <2>3 DEF AnalyseJob
    <3> QED
      BY <1>5, <2>3, <3>1 DEF AnalyseJob
  <2>4. CASE Supersede(r) \/ InsertJobReport(r) \/ SendChained(r) \/ GiveUpChain(r)
               \/ \E f \in RunIds : ChainFitReport(r, f)
    <3>1. Busy(r)
      BY <2>4 DEF Supersede, InsertJobReport, SendChained, GiveUpChain, ChainFitReport, At, Busy
    <3>2. PICK w : work' = [work EXCEPT ![r] = w]
      <4>1. CASE Supersede(r)
        BY <4>1 DEF Supersede
      <4>2. CASE InsertJobReport(r)
        BY <4>2 DEF InsertJobReport
      <4>3. CASE SendChained(r)
        BY <4>3 DEF SendChained
      <4>4. CASE GiveUpChain(r)
        BY <4>4 DEF GiveUpChain
      <4>5. ASSUME NEW f \in RunIds, ChainFitReport(r, f)
            PROVE  \E w : work' = [work EXCEPT ![r] = w]
        BY <4>5 DEF ChainFitReport
      <4> QED
        BY <2>4, <4>1, <4>2, <4>3, <4>4, <4>5
    <3> QED
      BY <1>3, <3>1, <3>2
  <2> QED
    BY <1>6, <2>1, <2>2, <2>3, <2>4 DEF JobReportStep
<1>7. ASSUME NEW r \in RunIds, FitReportStep(r)
      PROVE  OneBusy'
  <2>1. CASE FailFitReport(r)
    BY <1>2, <2>1 DEF FailFitReport, Fail
  <2>2. CASE ResolveProfile(r)
    <3>1. PICK w : work' = [work EXCEPT ![r] = w]
      BY <2>2 DEF ResolveProfile
    <3> QED
      BY <1>5, <2>2, <3>1 DEF ResolveProfile
  <2>3. CASE ReuseFitReport(r) \/ GenerateFit(r) \/ InsertFitReport(r)
    <3>1. Busy(r)
      BY <2>3 DEF ReuseFitReport, GenerateFit, InsertFitReport, At, Busy
    <3>2. PICK w : work' = [work EXCEPT ![r] = w]
      <4>1. CASE ReuseFitReport(r)
        BY <4>1 DEF ReuseFitReport
      <4>2. CASE GenerateFit(r)
        BY <4>2 DEF GenerateFit
      <4>3. CASE InsertFitReport(r)
        BY <4>3 DEF InsertFitReport
      <4> QED
        BY <2>3, <4>1, <4>2, <4>3
    <3> QED
      BY <1>3, <3>1, <3>2
  <2> QED
    BY <1>7, <2>1, <2>2, <2>3 DEF FitReportStep
<1>8. ASSUME NEW r \in RunIds, Succeed(r) \/ Redeliver(r)
      PROVE  OneBusy'
  BY <1>2, <1>8 DEF Succeed, Redeliver
<1>9. ASSUME NEW r \in RunIds, Crash(r)
      PROVE  OneBusy'
  <2>1. PICK w : work' = [work EXCEPT ![r] = w]
    BY <1>9 DEF Crash
  <2> QED
    BY <1>3, <1>9, <2>1 DEF Crash, Busy, At
<1>10. CASE Edit \/ \E r \in RunIds : Request(r) \/ Refuse(r)
  <2>1. work' = work
    BY <1>10, RequestAsks DEF Ask, Refuse, Edit, Archive, UpdateJD, DeleteProfile,
       UpdateProfile, queue
  <2> QED
    BY <1>4, <2>1
<1>11. CASE UNCHANGED vars
  BY <1>4, <1>11 DEF vars
<1> QED
  BY <1>6, <1>7, <1>8, <1>9, <1>10, <1>11 DEF Next

\* Fit report n is of run r's workspace and job; two are of one profile.
Of(r, n) == fit[n] # NoRow /\ fit[n].ws = run[r].ws /\ fit[n].job = run[r].job
Alike(m, n) ==
  /\ fit[m] # NoRow /\ fit[n] # NoRow
  /\ fit[m].ws = fit[n].ws /\ fit[m].job = fit[n].job /\ fit[m].profile = fit[n].profile

\* A row holds what its profile once said, and one that another row with
\* another text follows does not hold what the profile says now, unless the
\* profile went back; and of one text one row at most is active.
RowsInOrder ==
  /\ \A p \in Profiles : profile[p] \in Texts => profile[p] \in said[p]
  /\ \A n \in Numbers : fit[n] # NoRow => fit[n].text \in said[fit[n].profile]
  /\ \A m, n \in Numbers :
       m < n /\ Alike(m, n) /\ fit[m].text # fit[n].text /\ fit[m].profile \notin reverted
         => profile[fit[m].profile] # fit[m].text
  /\ \A m, n \in Numbers :
       /\ Alike(m, n) /\ fit[m].text = fit[n].text
       /\ fit[m].status = "active" /\ fit[n].status = "active"
       => m = n

\* The same of a profile that was read: the rows of its text are the newest.
ReadLast(r, w) ==
  w.step \in {"profiled", "generating"} =>
    /\ w.profile \in Profiles /\ w.text \in said[w.profile]
    /\ w.profile \notin reverted =>
         /\ \A n \in Numbers :
              Of(r, n) /\ fit[n].profile = w.profile /\ fit[n].text # w.text
                => profile[w.profile] # fit[n].text
         /\ \A m, n \in Numbers :
              /\ m < n /\ Of(r, m) /\ Of(r, n)
              /\ fit[m].profile = w.profile /\ fit[n].profile = w.profile
              /\ fit[m].text = w.text
              => fit[n].text = w.text

NumberedLast(r, w) ==
  w.step = "generating" => \A n \in Numbers : Of(r, n) => n < w.n

ReturnsLast(r, w) ==
  w.step = "replying" /\ run[r].kind = "fit_report" =>
    /\ w.report \in ActiveFits(run[r].ws, run[r].job)
    /\ \/ fit[w.report].profile \in reverted
       \/ \A k \in ActiveFits(run[r].ws, run[r].job) :
            fit[k].profile = fit[w.report].profile => k <= w.report

InOrder(r, w) == ReadLast(r, w) /\ NumberedLast(r, w) /\ ReturnsLast(r, w)

ShownInv == RowsInOrder /\ \A r \in RunIds : work[r] # Idle => InOrder(r, work[r])

LEMMA InOrderStands ==
  ASSUME RunsStand, UNCHANGED <<fit, profile, reverted, said>>,
         NEW r \in Runs, NEW w, InOrder(r, w)
  PROVE  InOrder(r, w)'
BY DEF RunsStand, InOrder, ReadLast, NumberedLast, ReturnsLast, Of, ActiveFits

\* A step that changes no row and no profile.
LEMMA ShownQuiet ==
  ASSUME Inv, ShownInv, RunsStand, UNCHANGED <<fit, profile, reverted, said>>,
         \A s \in RunIds : work'[s] # work[s] /\ work'[s] # Idle =>
           s \in Runs /\ InOrder(s, work'[s])
  PROVE  ShownInv'
<1>1. RowsInOrder'
  BY DEF ShownInv, RowsInOrder, Alike
<1>2. ASSUME NEW s \in RunIds, work'[s] # Idle
      PROVE  InOrder(s, work[s])'
  <2>1. PICK w : w = work'[s]
    OBVIOUS
  <2>2. s \in Runs /\ InOrder(s, w)
    BY <1>2, <2>1 DEF ShownInv, Inv, HeldAreRuns
  <2>3. InOrder(s, w)'
    BY <2>2, InOrderStands
  <2> QED
    BY <2>1, <2>3 DEF InOrder, ReadLast, NumberedLast, ReturnsLast
<1> QED
  BY <1>1, <1>2 DEF ShownInv

LEMMA ShownDelete ==
  ASSUME Inv, ShownInv, NEW p \in Profiles, DeleteProfile(p)
  PROVE  ShownInv'
<1> USE DEF Inv
<1>1. /\ UNCHANGED <<fit, run, work, said, reverted>>
      /\ profile'[p] = Gone /\ \A q \in Profiles \ {p} : profile'[q] = profile[q]
  BY DEF DeleteProfile, stored, queue, past, TypeOK
<1>2. \A n \in Numbers : fit[n] # NoRow =>
        fit[n].text \in Texts /\ fit[n].text # Gone /\ fit[n].profile \in Profiles
  <2>1. \A n \in Numbers : fit[n] # NoRow => fit[n] \in FitRows
    BY DEF TypeOK
  <2> QED
    BY <2>1, NoValues DEF FitRows
<1>3. RowsInOrder'
  BY <1>1, <1>2, NoValues DEF ShownInv, RowsInOrder, Alike
<1>4. ASSUME NEW s \in RunIds, work'[s] # Idle
      PROVE  InOrder(s, work[s])'
  <2>1. InOrder(s, work[s]) /\ work'[s] = work[s]
    BY <1>1, <1>4 DEF ShownInv
  <2>2. ReadLast(s, work[s])'
    BY <1>1, <1>2, <2>1 DEF InOrder, ReadLast, Of
  <2>3. NumberedLast(s, work[s])' /\ ReturnsLast(s, work[s])'
    BY <1>1, <2>1 DEF InOrder, NumberedLast, ReturnsLast, Of, ActiveFits
  <2> QED
    BY <2>2, <2>3 DEF InOrder
<1> QED
  BY <1>3, <1>4 DEF ShownInv

LEMMA ShownUpdate ==
  ASSUME Inv, ShownInv, NEW p \in Profiles, NEW t \in Texts, UpdateProfile(p, t)
  PROVE  ShownInv'
<1> USE DEF Inv
<1>1. /\ UNCHANGED <<fit, run, work>> /\ reverted \subseteq reverted'
      /\ profile'[p] = t /\ \A q \in Profiles \ {p} : profile'[q] = profile[q]
      /\ \A q \in Profiles : said[q] \subseteq said'[q]
      /\ t \in said'[p]
      /\ p \notin reverted' => t = profile[p] \/ t \notin said[p]
  BY DEF UpdateProfile, stored, queue, TypeOK
<1>2. \A n \in Numbers : fit[n] # NoRow => fit[n].profile \in Profiles
  <2>1. \A n \in Numbers : fit[n] # NoRow => fit[n] \in FitRows
    BY DEF TypeOK
  <2> QED
    BY <2>1 DEF FitRows
<1>3. \A q \in Profiles : \A u \in said[q] :
        q \notin reverted' /\ profile[q] # u => profile'[q] # u
  BY <1>1
<1>4. RowsInOrder'
  BY <1>1, <1>2, <1>3 DEF ShownInv, RowsInOrder, Alike
<1>5. ASSUME NEW s \in RunIds, work'[s] # Idle
      PROVE  InOrder(s, work[s])'
  <2>1. InOrder(s, work[s]) /\ work'[s] = work[s]
    BY <1>1, <1>5 DEF ShownInv
  <2>2. ReadLast(s, work[s])'
    BY <1>1, <1>2, <1>3, <2>1 DEF ShownInv, RowsInOrder, InOrder, ReadLast, Of
  <2>3. NumberedLast(s, work[s])' /\ ReturnsLast(s, work[s])'
    BY <1>1, <2>1 DEF InOrder, NumberedLast, ReturnsLast, Of, ActiveFits
  <2> QED
    BY <2>2, <2>3 DEF InOrder
<1> QED
  BY <1>4, <1>5 DEF ShownInv

\* What a worker reads or decides keeps the order.
LEMMA ResolvedInOrder ==
  ASSUME Inv, ShownInv, NEW r \in Runs, NEW p \in Resolved(r), NEW w,
         w = [step |-> "profiled", profile |-> p, text |-> profile[p]]
  PROVE  InOrder(r, w)
<1> USE DEF Inv
<1>1. p \in Profiles /\ profile[p] \in Texts
  BY DEF Resolved, Defaults, Living, TypeOK
<1>2. w.step = "profiled" /\ w.profile = p /\ w.text = profile[p]
  OBVIOUS
<1>3. p \notin reverted => \A m, n \in Numbers :
        /\ m < n /\ Of(r, m) /\ Of(r, n) /\ fit[m].profile = p /\ fit[n].profile = p
        /\ fit[m].text = profile[p]
        => fit[n].text = profile[p]
  BY DEF ShownInv, RowsInOrder, Alike, Of
<1> QED
  BY <1>1, <1>2, <1>3 DEF ShownInv, RowsInOrder, InOrder, ReadLast, NumberedLast, ReturnsLast

LEMMA ReusedInOrder ==
  ASSUME Inv, ShownInv, NEW r \in Runs, At(r, "profiled"),
         NEW b, NEW n \in Newest(CachedFits(r, b)), NEW w, w = Replying(n, NoRun)
  PROVE  InOrder(r, w)
<1>1. w.step = "replying" /\ w.report = n
  BY DEF Replying
<1>2. PICK p, t : p = work[r].profile /\ t = work[r].text
  OBVIOUS
<1>3. /\ n \in ActiveFits(run[r].ws, run[r].job) /\ n \in Numbers /\ Of(r, n)
      /\ fit[n].profile = p /\ fit[n].text = t
  BY <1>2 DEF Newest, CachedFits, ActiveFits, Of
<1>4. ASSUME p \notin reverted, NEW k \in ActiveFits(run[r].ws, run[r].job),
             fit[k].profile = p, ~ (k <= n)
      PROVE  FALSE
  <2>1. k \in Numbers /\ Of(r, k) /\ n < k
    BY <1>3, <1>4 DEF ActiveFits, Of, Numbers
  <2>2. r \in RunIds /\ work[r] # Idle /\ work[r].step = "profiled"
    BY DEF At, Runs
  <2>3. fit[k].text = t
    BY <1>2, <1>3, <1>4, <2>1, <2>2 DEF ShownInv, InOrder, ReadLast
  <2>4. Alike(n, k) /\ fit[n].status = "active" /\ fit[k].status = "active"
    BY <1>3, <1>4, <2>1 DEF Alike, Of, ActiveFits
  <2>5. n = k
    BY <1>3, <2>1, <2>3, <2>4 DEF ShownInv, RowsInOrder
  <2> QED
    BY <2>1, <2>5 DEF Numbers
<1> QED
  BY <1>1, <1>3, <1>4 DEF InOrder, ReadLast, NumberedLast, ReturnsLast

LEMMA GeneratedInOrder ==
  ASSUME Inv, ScoreInv, ShownInv, NEW r \in Runs, At(r, "profiled"), NEW b, NEW w,
         w = [step |-> "generating", n |-> begun + 1, base |-> b,
              profile |-> work[r].profile, text |-> work[r].text]
  PROVE  InOrder(r, w)
<1> USE DEF Inv
<1>1. /\ w.step = "generating" /\ w.n = begun + 1
      /\ w.profile = work[r].profile /\ w.text = work[r].text
  OBVIOUS
<1>2. r \in RunIds /\ work[r] # Idle /\ work[r].step = "profiled"
  BY DEF At, Runs
<1>3. ReadLast(r, w)
  BY <1>1, <1>2 DEF ShownInv, InOrder, ReadLast
<1>4. NumberedLast(r, w)
  <2>1. \A n \in Numbers : fit[n] # NoRow => ~ (n > begun)
    BY DEF ScoreInv, FitNumbersFresh
  <2>2. begun \in Nat
    BY BoundsAreNumbers DEF TypeOK
  <2> QED
    BY <1>1, <2>1, <2>2 DEF NumberedLast, Of, Numbers
<1> QED
  BY <1>1, <1>3, <1>4 DEF InOrder, ReturnsLast

\* The status of the rows after an insert.
LEMMA InsertedStatus ==
  ASSUME Inv, ScoreInv, NEW r \in RunIds, InsertFitReport(r),
         NEW n, n = work[r].n
  PROVE  /\ fit'[n].text = work[r].text /\ fit'[n].status = "active"
         /\ \A m \in Numbers \ {n} : fit[m] # NoRow =>
              fit'[m].status = IF m \in PriorFits(r) THEN "superseded" ELSE fit[m].status
<1> USE DEF Inv
<1>1. n \in Numbers
  BY InsertedFits
<1> DEFINE row == [ws |-> run[r].ws, job |-> run[r].job, base |-> work[r].base,
                   profile |-> work[r].profile, text |-> work[r].text, status |-> "active"]
           old == Superseded(fit, PriorFits(r))
<1>2. old \in [Numbers -> FitRows \cup {NoRow}]
  BY SupersededFits DEF TypeOK, PriorFits, ActiveFits
<1>3. fit' = [old EXCEPT ![n] = row]
  BY DEF InsertFitReport
<1>4. fit'[n] = row /\ \A m \in Numbers \ {n} : fit'[m] = old[m]
  BY <1>1, <1>2, <1>3
<1>5. ASSUME NEW m \in Numbers, fit[m] # NoRow
      PROVE  old[m].status = IF m \in PriorFits(r) THEN "superseded" ELSE fit[m].status
  <2>1. fit[m] \in FitRows
    BY <1>5 DEF TypeOK
  <2>2. old[m] = IF m \in PriorFits(r) THEN [fit[m] EXCEPT !.status = "superseded"] ELSE fit[m]
    BY DEF Superseded
  <2> QED
    BY <2>1, <2>2 DEF FitRows
<1> QED
  BY <1>4, <1>5

LEMMA ShownInsert ==
  ASSUME Inv, ScoreInv, OneBusy, ShownInv, NEW r \in RunIds, InsertFitReport(r)
  PROVE  ShownInv'
<1> USE DEF Inv
<1>1. PICK n, p, t : n = work[r].n /\ p = work[r].profile /\ t = work[r].text
  OBVIOUS
<1>2. /\ r \in Runs /\ n \in Numbers /\ fit[n] = NoRow /\ FitsStand
      /\ fit'[n] # NoRow /\ fit'[n].ws = run[r].ws /\ fit'[n].job = run[r].job
      /\ fit'[n].profile = p
      /\ \A m \in Numbers \ {n} : fit[m] = NoRow => fit'[m] = NoRow
  BY <1>1, InsertedFits
<1>3. /\ fit'[n].text = t /\ fit'[n].status = "active"
      /\ \A m \in Numbers \ {n} : fit[m] # NoRow =>
           fit'[m].status = IF m \in PriorFits(r) THEN "superseded" ELSE fit[m].status
  BY <1>1, InsertedStatus
<1>4. /\ UNCHANGED <<run, profile, reverted, said>>
      /\ work[r] # Idle /\ work[r].step = "generating"
      /\ \A s \in RunIds \ {r} : work'[s] = work[s]
  BY DEF InsertFitReport, tables, queue, past, At, TypeOK
<1>5. /\ p \in Profiles /\ t \in said[p]
      /\ \A m \in Numbers : Of(r, m) => m < n
      /\ p \notin reverted => \A m \in Numbers :
           Of(r, m) /\ fit[m].profile = p /\ fit[m].text # t => profile[p] # fit[m].text
  BY <1>1, <1>4 DEF ShownInv, InOrder, ReadLast, NumberedLast
<1>6. ASSUME NEW m \in Numbers \ {n}, fit'[m] # NoRow
      PROVE  /\ fit[m] # NoRow
             /\ fit'[m].ws = fit[m].ws /\ fit'[m].job = fit[m].job
             /\ fit'[m].profile = fit[m].profile /\ fit'[m].text = fit[m].text
             /\ fit'[m].status = "active" => fit[m].status = "active" /\ m \notin PriorFits(r)
  BY <1>2, <1>3, <1>6 DEF FitsStand
<1>7. RowsInOrder'
  <2>1. \A q \in Profiles : profile'[q] \in Texts => profile'[q] \in said'[q]
    BY <1>4 DEF ShownInv, RowsInOrder
  <2>2. \A m \in Numbers : fit'[m] # NoRow => fit'[m].text \in said'[fit'[m].profile]
    BY <1>2, <1>3, <1>4, <1>5, <1>6 DEF ShownInv, RowsInOrder
  <2>3. ASSUME NEW m \in Numbers, NEW k \in Numbers, m < k, Alike(m, k)',
               fit'[m].text # fit'[k].text, fit'[m].profile \notin reverted'
        PROVE  profile'[fit'[m].profile] # fit'[m].text
    <3>1. CASE m # n /\ k # n
      <4>1. Alike(m, k)
        BY <1>6, <2>3, <3>1 DEF Alike
      <4> QED
        BY <1>4, <1>6, <2>3, <3>1, <4>1 DEF ShownInv, RowsInOrder, Alike
    <3>2. CASE m = n
      <4>1. k # n
        BY <2>3, <3>2 DEF Numbers
      <4>2. Of(r, k)
        BY <1>2, <1>6, <2>3, <3>2, <4>1 DEF Alike, Of
      <4> QED
        BY <1>5, <2>3, <3>2, <4>2 DEF Numbers
    <3>3. CASE k = n /\ m # n
      <4>1. Of(r, m) /\ fit[m].profile = p /\ fit[m].text # t /\ p \notin reverted
        BY <1>2, <1>3, <1>4, <1>6, <2>3, <3>3 DEF Alike, Of
      <4> QED
        BY <1>4, <1>5, <1>6, <2>3, <3>3, <4>1 DEF Alike
    <3> QED
      BY <3>1, <3>2, <3>3
  <2>4. ASSUME NEW m \in Numbers \ {n}, Alike(m, n)', fit'[m].text = fit'[n].text,
               fit'[m].status = "active"
        PROVE  FALSE
    <3>1. /\ fit[m] # NoRow /\ fit[m].ws = run[r].ws /\ fit[m].job = run[r].job
          /\ fit[m].profile = p /\ fit[m].text = t /\ fit[m].status = "active"
          /\ m \notin PriorFits(r)
      BY <1>2, <1>3, <1>6, <2>4 DEF Alike
    <3> QED
      BY <1>1, <3>1 DEF PriorFits, ActiveFits
  <2>5. ASSUME NEW m \in Numbers, NEW k \in Numbers, Alike(m, k)', fit'[m].text = fit'[k].text,
               fit'[m].status = "active", fit'[k].status = "active"
        PROVE  m = k
    <3>1. CASE m # n /\ k # n
      <4>1. Alike(m, k) /\ fit[m].text = fit[k].text
            /\ fit[m].status = "active" /\ fit[k].status = "active"
        BY <1>6, <2>5, <3>1 DEF Alike
      <4> QED
        BY <4>1 DEF ShownInv, RowsInOrder
    <3>2. CASE m = n \/ k = n
      BY <2>4, <2>5, <3>2 DEF Alike
    <3> QED
      BY <3>1, <3>2
  <2> QED
    BY <2>1, <2>2, <2>3, <2>5 DEF RowsInOrder
<1>8. InOrder(r, work[r])'
  <2>1. PICK w : w = Replying(n, NoRun)
    OBVIOUS
  <2>2. work'[r] = w /\ w.step = "replying" /\ w.report = n
    BY <1>1, <2>1 DEF InsertFitReport, Replying, TypeOK
  <2>3. n \in ActiveFits(run[r].ws, run[r].job)'
    BY <1>2, <1>3, <1>4 DEF ActiveFits
  <2>4. \A k \in ActiveFits(run[r].ws, run[r].job)' : k <= n
    <3>1. ASSUME NEW k \in ActiveFits(run[r].ws, run[r].job)', k # n
          PROVE  k <= n
      <4>1. k \in Numbers /\ Of(r, k)
        BY <1>4, <1>6, <3>1 DEF ActiveFits, Of
      <4> QED
        BY <1>2, <1>5, <4>1 DEF Numbers
    <3> QED
      BY <1>2, <3>1 DEF Numbers
  <2> QED
    BY <2>2, <2>3, <2>4 DEF InOrder, ReadLast, NumberedLast, ReturnsLast
<1>9. ASSUME NEW s \in RunIds \ {r}, work'[s] # Idle
      PROVE  InOrder(s, work[s])'
  <2>1. PICK w : w = work'[s]
    OBVIOUS
  <2>2. w = work[s] /\ InOrder(s, w) /\ s \in Runs
    BY <1>4, <1>9, <2>1 DEF ShownInv, HeldAreRuns
  <2>3. CASE \/ w.step \in {"profiled", "generating"}
             \/ w.step = "replying" /\ run[s].kind = "fit_report"
    <3>1. run[s].kind = "fit_report" /\ run[r].kind = "fit_report" /\ Busy(s) /\ Busy(r)
      BY <1>4, <1>9, <2>1, <2>2, <2>3 DEF Busy, ScoreInv, StepsFit
    <3>2. run[s].ws # run[r].ws \/ run[s].job # run[r].job
      BY <3>1 DEF OneBusy, SameKey
    <3>3. ASSUME NEW m \in Numbers
          PROVE  /\ Of(s, m)' <=> Of(s, m)
                 /\ Of(s, m) => /\ fit'[m].profile = fit[m].profile /\ fit'[m].text = fit[m].text
                                /\ fit'[m].status = fit[m].status
      <4>1. CASE m = n
        BY <1>2, <1>4, <3>2, <4>1 DEF Of
      <4>2. CASE m # n
        <5>1. Of(s, m) => m \notin PriorFits(r)
          BY <3>2 DEF Of, PriorFits, ActiveFits
        <5> QED
          BY <1>2, <1>3, <1>4, <1>6, <4>2, <5>1 DEF Of, FitsStand
      <4> QED
        BY <4>1, <4>2
    <3>4. ActiveFits(run[s].ws, run[s].job)' = ActiveFits(run[s].ws, run[s].job)
      <4>1. \A m \in Numbers : m \in ActiveFits(run[s].ws, run[s].job)
              <=> Of(s, m) /\ fit[m].status = "active"
        BY DEF ActiveFits, Of
      <4>2. \A m \in Numbers : m \in ActiveFits(run[s].ws, run[s].job)'
              <=> Of(s, m)' /\ fit'[m].status = "active"
        BY DEF ActiveFits, Of
      <4>3. ActiveFits(run[s].ws, run[s].job) \subseteq Numbers
            /\ ActiveFits(run[s].ws, run[s].job)' \subseteq Numbers
        BY DEF ActiveFits
      <4> QED
        BY <3>3, <4>1, <4>2, <4>3
    <3>5. \A m \in ActiveFits(run[s].ws, run[s].job) : m \in Numbers /\ Of(s, m)
      BY DEF ActiveFits, Of
    <3>6. ReadLast(s, w)'
      BY <1>4, <2>2, <3>3 DEF InOrder, ReadLast
    <3>7. NumberedLast(s, w)'
      BY <2>2, <3>3 DEF InOrder, NumberedLast
    <3>8. ReturnsLast(s, w)'
      BY <1>4, <2>2, <3>3, <3>4, <3>5 DEF InOrder, ReturnsLast
    <3> QED
      BY <2>1, <3>6, <3>7, <3>8 DEF InOrder, ReadLast, NumberedLast, ReturnsLast
  <2>4. CASE /\ w.step \notin {"profiled", "generating"}
             /\ ~ (w.step = "replying" /\ run[s].kind = "fit_report")
    <3>1. w.step \notin {"profiled", "generating"}
      BY <2>4
    <3>2. ~ (w.step = "replying" /\ run'[s].kind = "fit_report")
      BY <1>4, <2>4
    <3>3. ReadLast(s, w)' /\ NumberedLast(s, w)' /\ ReturnsLast(s, w)'
      BY <3>1, <3>2 DEF ReadLast, NumberedLast, ReturnsLast
    <3> QED
      BY <2>1, <3>3 DEF InOrder, ReadLast, NumberedLast, ReturnsLast
  <2> QED
    BY <2>3, <2>4
<1> QED
  BY <1>7, <1>8, <1>9 DEF ShownInv

LEMMA ShownStep ==
  ASSUME Inv, ScoreInv, OneBusy, ShownInv, [Next]_vars
  PROVE  ShownInv'
<1> USE DEF Inv
<1>1. RunsStand
  BY StepStands
<1>2. ASSUME UNCHANGED <<fit, profile, reverted, said>>, NEW r \in RunIds, NEW w,
             work' = [work EXCEPT ![r] = w], w # Idle => r \in Runs /\ InOrder(r, w)
      PROVE  ShownInv'
  <2>1. \A s \in RunIds : work'[s] # work[s] => s = r /\ work'[s] = w
    BY <1>2 DEF TypeOK
  <2> QED
    BY <1>1, <1>2, <2>1, ShownQuiet
<1>3. ASSUME UNCHANGED <<fit, profile, reverted, said, work>>
      PROVE  ShownInv'
  BY <1>1, <1>3, ShownQuiet
<1>4. ASSUME NEW r \in RunIds, JobReportStep(r)
      PROVE  ShownInv'
  <2>1. r \in Runs /\ run[r].kind = "job_report"
    BY <1>4 DEF JobReportStep, FailJobReport, ReuseJobReport, AnalyseJob, Supersede,
       InsertJobReport, ChainFitReport, SendChained, GiveUpChain, Takes, Delivered, At,
       HeldAreRuns, ScoreInv, StepsFit
  <2>2. ASSUME NEW w, w.step \notin {"profiled", "generating"}
        PROVE  InOrder(r, w)
    BY <2>1, <2>2 DEF InOrder, ReadLast, NumberedLast, ReturnsLast
  <2>3. ASSUME NEW n, work' = [work EXCEPT ![r] = Reported(r, n)],
               UNCHANGED <<fit, profile, reverted, said>>
        PROVE  ShownInv'
    <3>1. PICK w : w = Reported(r, n)
      OBVIOUS
    <3>2. w.step \notin {"profiled", "generating"}
      BY <3>1 DEF Reported, Replying
    <3> QED
      BY <1>2, <2>1, <2>2, <2>3, <3>1, <3>2
  <2>4. CASE FailJobReport(r)
    BY <1>2, <2>4 DEF FailJobReport, Fail, stored, tables, past
  <2>5. CASE ReuseJobReport(r)
    BY <2>3, <2>5 DEF ReuseJobReport, stored, tables, past
  <2>6. CASE AnalyseJob(r)
    <3>1. PICK w : w = [step |-> "analysing", n |-> begun + 1, jd |-> jd[run[r].job]]
      OBVIOUS
    <3>2. w.step \notin {"profiled", "generating"}
      BY <3>1
    <3>3. InOrder(r, w)
      BY <2>2, <3>2
    <3> QED
      BY <1>2, <2>1, <2>6, <3>1, <3>3 DEF AnalyseJob, stored, tables, past
  <2>7. CASE Supersede(r)
    <3>1. PICK w : w = [step |-> "superseding", n |-> work[r].n, jd |-> work[r].jd,
                        prior |-> PriorReports(r)]
      OBVIOUS
    <3>2. w.step \notin {"profiled", "generating"}
      BY <3>1
    <3>3. InOrder(r, w)
      BY <2>2, <3>2
    <3> QED
      BY <1>2, <2>1, <2>7, <3>1, <3>3 DEF Supersede, stored, tables
  <2>8. CASE InsertJobReport(r)
    BY <2>3, <2>8 DEF InsertJobReport, tables, past
  <2>9. ASSUME NEW f \in RunIds, ChainFitReport(r, f)
        PROVE  ShownInv'
    <3>1. PICK w : w = [step |-> "chained", report |-> work[r].report, chained |-> f]
      OBVIOUS
    <3>2. w.step \notin {"profiled", "generating"}
      BY <3>1
    <3>3. InOrder(r, w)
      BY <2>2, <3>2
    <3> QED
      BY <1>2, <2>1, <2>9, <3>1, <3>3 DEF ChainFitReport, stored, tables
  <2>10. CASE SendChained(r) \/ GiveUpChain(r)
    <3>1. PICK f : work' = [work EXCEPT ![r] = Replying(work[r].report, f)]
      <4>1. CASE SendChained(r)
        BY <4>1 DEF SendChained
      <4>2. CASE GiveUpChain(r)
        BY <4>2 DEF GiveUpChain
      <4> QED
        BY <2>10, <4>1, <4>2
    <3>2. PICK w : w = Replying(work[r].report, f)
      OBVIOUS
    <3>3. w.step \notin {"profiled", "generating"}
      BY <3>2 DEF Replying
    <3> QED
      BY <1>2, <2>1, <2>2, <2>10, <3>1, <3>2, <3>3 DEF SendChained, GiveUpChain,
         stored, tables, past
  <2> QED
    BY <1>4, <2>4, <2>5, <2>6, <2>7, <2>8, <2>9, <2>10 DEF JobReportStep
<1>5. ASSUME NEW r \in RunIds, FitReportStep(r)
      PROVE  ShownInv'
  <2>1. r \in Runs
    BY <1>5 DEF FitReportStep, ResolveProfile, ReuseFitReport, GenerateFit, FailFitReport,
       InsertFitReport, Takes, Delivered, At, HeldAreRuns, Runs
  <2>2. CASE ResolveProfile(r)
    <3>1. PICK p \in Resolved(r) : work' = [work EXCEPT ![r] =
                              [step |-> "profiled", profile |-> p, text |-> profile[p]]]
      BY <2>2 DEF ResolveProfile
    <3>2. PICK w : w = [step |-> "profiled", profile |-> p, text |-> profile[p]]
      OBVIOUS
    <3>3. InOrder(r, w)
      BY <2>1, <3>2, ResolvedInOrder
    <3> QED
      BY <1>2, <2>1, <2>2, <3>1, <3>2, <3>3 DEF ResolveProfile, stored, tables, past
  <2>3. CASE ReuseFitReport(r)
    <3>1. At(r, "profiled")
      BY <2>3 DEF ReuseFitReport
    <3>2. PICK b : \E n \in Newest(CachedFits(r, b)) :
                      work' = [work EXCEPT ![r] = Replying(n, NoRun)]
      BY <2>3 DEF ReuseFitReport
    <3>3. PICK n \in Newest(CachedFits(r, b)) : work' = [work EXCEPT ![r] = Replying(n, NoRun)]
      BY <3>2
    <3>4. PICK w : w = Replying(n, NoRun)
      OBVIOUS
    <3>5. InOrder(r, w)
      BY <2>1, <3>1, <3>4, ReusedInOrder
    <3> QED
      BY <1>2, <2>1, <2>3, <3>3, <3>4, <3>5 DEF ReuseFitReport, stored, tables, past
  <2>4. CASE GenerateFit(r)
    <3>1. At(r, "profiled")
      BY <2>4 DEF GenerateFit
    <3>2. PICK b : work' = [work EXCEPT ![r] =
                     [step |-> "generating", n |-> begun + 1, base |-> b,
                      profile |-> work[r].profile, text |-> work[r].text]]
      BY <2>4 DEF GenerateFit
    <3>3. PICK w : w = [step |-> "generating", n |-> begun + 1, base |-> b,
                        profile |-> work[r].profile, text |-> work[r].text]
      OBVIOUS
    <3>4. InOrder(r, w)
      BY <2>1, <3>1, <3>3, GeneratedInOrder
    <3> QED
      BY <1>2, <2>1, <2>4, <3>2, <3>3, <3>4 DEF GenerateFit, stored, tables, past
  <2>5. CASE FailFitReport(r)
    BY <1>2, <2>5 DEF FailFitReport, Fail, stored, tables, past
  <2>6. CASE InsertFitReport(r)
    BY <2>6, ShownInsert
  <2> QED
    BY <1>5, <2>2, <2>3, <2>4, <2>5, <2>6 DEF FitReportStep
<1>6. ASSUME NEW r \in RunIds, Succeed(r) \/ Redeliver(r)
      PROVE  ShownInv'
  BY <1>2, <1>6 DEF Succeed, Redeliver, stored, tables, past
<1>7. ASSUME NEW r \in RunIds, Crash(r)
      PROVE  ShownInv'
  <2>1. PICK w : w = [step |-> "dead"]
    OBVIOUS
  <2>2. r \in Runs /\ InOrder(r, w)
    BY <1>7, <2>1 DEF Crash, HeldAreRuns, InOrder, ReadLast, NumberedLast, ReturnsLast
  <2> QED
    BY <1>2, <1>7, <2>1, <2>2 DEF Crash, stored, tables, past
<1>8. CASE \E j \in Jobs : Archive(j) \/ \E t \in Texts : UpdateJD(j, t)
  <2>1. UNCHANGED <<fit, profile, reverted, said, work>>
    BY <1>8 DEF Archive, UpdateJD, stored, past
  <2> QED
    BY <1>3, <2>1
<1>9. CASE \E p \in Profiles : DeleteProfile(p) \/ \E t \in Texts : UpdateProfile(p, t)
  BY <1>9, ShownDelete, ShownUpdate
<1>10. CASE \E r \in RunIds : Request(r) \/ Refuse(r)
  <2>1. UNCHANGED <<fit, profile, reverted, said, work>>
    BY <1>10, RequestAsks DEF Ask, Refuse, stored, tables, past
  <2> QED
    BY <1>3, <2>1
<1>11. CASE UNCHANGED vars
  BY <1>3, <1>11 DEF vars, stored, tables, past
<1> QED
  BY <1>4, <1>5, <1>6, <1>7, <1>8, <1>9, <1>10, <1>11 DEF Next, Edit

\* A run succeeds in no other step.
LEMMA OnlySucceed ==
  ASSUME Inv, ScoreInv, [Next]_vars, NEW r \in Runs,
         run[r].status # "succeeded", run'[r].status = "succeeded"
  PROVE  Succeed(r)
<1> USE DEF Inv
<1>1. r \in RunIds /\ run[r] # NoRow /\ run[r] \in RunRows
  BY DEF Runs, TypeOK
<1>2. ASSUME NEW s \in RunIds, NEW st \in {"running", "failed"},
             run' = [run EXCEPT ![s].status = st]
      PROVE  FALSE
  <2>1. CASE s = r
    <3>1. run'[r] = [run[r] EXCEPT !.status = st]
      BY <1>1, <1>2, <2>1 DEF TypeOK
    <3>2. run'[r].status = st
      BY <1>1, <3>1 DEF RunRows
    <3> QED
      BY <1>2, <3>2
  <2>2. CASE s # r
    BY <1>1, <1>2, <2>2 DEF TypeOK
  <2> QED
    BY <2>1, <2>2
<1>3. ASSUME run' = run
      PROVE  FALSE
  BY <1>3
<1>4. ASSUME NEW f \in RunIds, run[f] = NoRow, NEW row, run' = [run EXCEPT ![f] = row]
      PROVE  FALSE
  BY <1>1, <1>4 DEF TypeOK
<1>5. ASSUME NEW s \in RunIds, JobReportStep(s)
      PROVE  FALSE
  <2>1. CASE FailJobReport(s) \/ ReuseJobReport(s) \/ AnalyseJob(s)
    BY <1>2, <1>5, <2>1 DEF FailJobReport, Fail, ReuseJobReport, AnalyseJob, Running
  <2>2. CASE Supersede(s) \/ InsertJobReport(s) \/ SendChained(s) \/ GiveUpChain(s)
    BY <1>3, <2>2 DEF Supersede, InsertJobReport, SendChained, GiveUpChain, queue
  <2>3. ASSUME NEW f \in RunIds, ChainFitReport(s, f)
        PROVE  FALSE
    <3>1. PICK row : NewRun(f, row)
      BY <2>3 DEF ChainFitReport
    <3> QED
      BY <1>4, <3>1 DEF NewRun
  <2> QED
    BY <1>5, <2>1, <2>2, <2>3 DEF JobReportStep
<1>6. ASSUME NEW s \in RunIds, FitReportStep(s)
      PROVE  FALSE
  <2>1. CASE FailFitReport(s) \/ ResolveProfile(s)
    BY <1>2, <1>6, <2>1 DEF FailFitReport, Fail, ResolveProfile, Running
  <2>2. CASE ReuseFitReport(s) \/ GenerateFit(s) \/ InsertFitReport(s)
    BY <1>3, <2>2 DEF ReuseFitReport, GenerateFit, InsertFitReport, queue
  <2> QED
    BY <1>6, <2>1, <2>2 DEF FitReportStep
<1>7. ASSUME NEW s \in RunIds, Crash(s) \/ Redeliver(s)
      PROVE  FALSE
  BY <1>3, <1>7 DEF Crash, Redeliver, queue
<1>8. ASSUME NEW s \in RunIds, Refuse(s)
      PROVE  FALSE
  BY <1>2, <1>8 DEF Refuse
<1>9. ASSUME NEW s \in RunIds, Request(s)
      PROVE  FALSE
  <2>1. PICK row : NewRun(s, row)
    BY <1>9, RequestAsks
  <2> QED
    BY <1>4, <2>1 DEF NewRun
<1>10. CASE Edit
  BY <1>3, <1>10 DEF Edit, Archive, UpdateJD, DeleteProfile, UpdateProfile, queue
<1>11. CASE UNCHANGED vars
  BY <1>3, <1>11 DEF vars, queue
<1>12. ASSUME NEW s \in RunIds, Succeed(s), s # r
       PROVE  FALSE
  BY <1>1, <1>12 DEF Succeed, TypeOK
<1> QED
  BY <1>5, <1>6, <1>7, <1>8, <1>9, <1>10, <1>11, <1>12 DEF Next

LEMMA ReturnedStep ==
  ASSUME Inv, ScoreInv, ShownInv, [Next]_vars, NEW r \in Runs, run[r].kind = "fit_report",
         run[r].status # "succeeded", run'[r].status = "succeeded",
         NEW n, n = result'[r].report
  PROVE  \/ fit[n].profile \in reverted
         \/ n \in Newest({k \in ActiveFits(run[r].ws, run[r].job) :
                            fit[k].profile = fit[n].profile})
<1>1. Succeed(r) /\ r \in RunIds
  BY OnlySucceed DEF Runs
<1>2. work[r] # Idle /\ work[r].step = "replying" /\ n = work[r].report
  BY <1>1 DEF Succeed, At, Inv, TypeOK
<1>3. ReturnsLast(r, work[r])
  BY <1>1, <1>2 DEF ShownInv, InOrder
<1> QED
  BY <1>2, <1>3 DEF ReturnsLast, Newest

\* A fit report run returns what the inbox shows for its job and profile, unless
\* the profile went back to a text it had before: of each text one row is
\* active, and the lock keeps rows in the order in which the texts were read.
THEOREM ReturnedFitIsShownHolds == Spec => ReturnedFitIsShown
<1>1. ASSUME Init
      PROVE  ScoreInv /\ OneBusy /\ ShownInv
  <2>1. \A r \in RunIds : work[r] = Idle
    BY <1>1 DEF Init
  <2>2. \A n \in Numbers : fit[n] = NoRow
    BY <1>1 DEF Init
  <2>3. \A p \in Profiles : said[p] = {profile[p]}
    BY <1>1 DEF Init
  <2>4. ScoreInv
    BY <1>1 DEF Init, ScoreInv, StepsFit, FitNumbersFresh, At
  <2>5. OneBusy
    BY <2>1 DEF OneBusy, Busy
  <2>6. RowsInOrder
    BY <2>2, <2>3 DEF RowsInOrder, Alike
  <2> QED
    BY <2>1, <2>4, <2>5, <2>6 DEF ShownInv
<1>2. Inv /\ ScoreInv /\ OneBusy /\ ShownInv /\ [Next]_vars
        => ScoreInv' /\ OneBusy' /\ ShownInv'
  BY ScoreStep, OneBusyStep, ShownStep
<1>3. Inv /\ ScoreInv /\ ShownInv /\ [Next]_vars
        => [\A r \in Runs :
              /\ run[r].kind = "fit_report"
              /\ run[r].status # "succeeded" /\ run'[r].status = "succeeded"
              => LET n == result'[r].report IN
                 \/ fit[n].profile \in reverted
                 \/ n \in Newest({k \in ActiveFits(run[r].ws, run[r].job) :
                                    fit[k].profile = fit[n].profile})]_vars
  BY ReturnedStep
<1> QED
  BY <1>1, <1>2, <1>3, InvHolds, PTL DEF Spec, ReturnedFitIsShown

=============================================================================
