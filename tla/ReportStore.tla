------------------------------ MODULE ReportStore ------------------------------
(***************************************************************************)
(* The job reports and fit reports that worker tasks write, and the fit    *)
(* report run that a job report run chains behind itself.  A job report is *)
(* global to the job, a fit report private to a workspace; of each a newer *)
(* version supersedes the older ones and a cache returns what is current.  *)
(*                                                                         *)
(* Each step of a handler is a transaction or what happens between two; a  *)
(* transaction that calls the language model is split, since others commit *)
(* meanwhile (READ COMMITTED).  A report is named by the number of its     *)
(* transaction, in order of begin: created_at and updated_at are now(),    *)
(* which is when the transaction began, not when it committed.             *)
(*                                                                         *)
(* The queue and the lock are those of RunExecution with no task outliving *)
(* its lock.  Research notes and the prompt version, further parts of the  *)
(* cache key, are left out.                                                *)
(*                                                                         *)
(* An operator whose name ends in Mutant is the faulty variant of the one  *)
(* below it: with it in place, the property it stands against must fail.   *)
(***************************************************************************)
EXTENDS Naturals, FiniteSets

CONSTANTS
  Workspaces, Jobs, Profiles,
  Finder,        \* [Jobs -> Workspaces]: whose run discovered the job
  Owner,         \* [Profiles -> Workspaces]
  Texts,         \* what a JD or a profile says, as its hash tells it
  RunIds,        \* the ids new runs draw from
  NoRow, Gone, NoProfile, NoRun, Idle,
  SendMayFail,   \* BOOLEAN: send_task of a chained run may raise
  MaxRequests,   \* bound: requests for a run
  MaxReports,    \* bound: transactions that write a report
  MaxEdits,      \* bound: changes of a JD or a profile
  MaxCrashes     \* bound: deaths of a worker

VARIABLES
  jd, reportable,    \* jobs.jd_text, jobs.status = "reportable"
  profile, touched,  \* candidate_profiles: what it says, when it was updated
  report, fit,       \* job_reports, fit_reports
  run,               \* runs, with the outcome of their task
  result,            \* runs.result_summary_json
  broker,            \* runs whose envelope is queued or not acknowledged
  work,              \* what the worker that executes a run has at hand
  begun, edits, crashes,
  crossed,           \* jobs of which two transactions superseded at once
  reverted,          \* profiles that said something a second time
  said,              \* what each profile has said so far
  parent             \* the job report run that chained a run

tables == <<jd, reportable, profile, touched>>
stored == <<report, fit>>
queue  == <<run, result, broker>>
counts == <<begun, edits, crashes>>
past   == <<crossed, reverted, said, parent>>
vars   == <<tables, stored, queue, work, counts, past>>

ASSUME FinderIsFinder == Finder \in [Jobs -> Workspaces]
ASSUME OwnerIsOwner == Owner \in [Profiles -> Workspaces]
ASSUME NoValues == NoProfile \notin Profiles /\ NoRun \notin RunIds /\ Gone \notin Texts
ASSUME BoundsAreNumbers ==
  MaxRequests \in Nat /\ MaxReports \in Nat /\ MaxEdits \in Nat /\ MaxCrashes \in Nat
ASSUME SwitchIsBoolean == SendMayFail \in BOOLEAN

-----------------------------------------------------------------------------
(* The rows *)

Numbers == 1 .. MaxReports
NoReport == 0

ReportRows == [job : Jobs, jd : Texts, status : {"active", "superseded"}]
FitRows ==
  [ws : Workspaces, job : Jobs, base : Numbers, profile : Profiles, text : Texts,
   status : {"active", "superseded"}]

\* base is the input's job_report_id; profile the input's profile_id or, for a
\* job report, its auto_fit_profile_id.
RunRows ==
  [kind : {"job_report", "fit_report"}, ws : Workspaces, job : Jobs,
   base : Numbers \cup {NoReport}, profile : Profiles \cup {NoProfile},
   force : BOOLEAN, batch : BOOLEAN,
   status : {"queued", "running", "succeeded", "failed"}]

ASSUME RowsAreRows == NoRow \notin ReportRows \cup FitRows \cup RunRows

Runs == {r \in RunIds : run[r] # NoRow}

ActiveReports(j) ==
  {n \in Numbers : report[n] # NoRow /\ report[n].job = j /\ report[n].status = "active"}

ActiveFits(ws, j) ==
  {n \in Numbers :
     fit[n] # NoRow /\ fit[n].ws = ws /\ fit[n].job = j /\ fit[n].status = "active"}

\* ORDER BY created_at DESC LIMIT 1.
Newest(S) == {n \in S : \A k \in S : k <= n}

Superseded(rows, S) == [n \in Numbers |->
  IF n \in S THEN [rows[n] EXCEPT !.status = "superseded"] ELSE rows[n]]

Living(ws) == {p \in Profiles : Owner[p] = ws /\ profile[p] # Gone}

\* The most recently updated profile of the workspace.
Defaults(ws) == {p \in Living(ws) : \A q \in Living(ws) : touched[q] <= touched[p]}

-----------------------------------------------------------------------------
(* Requests *)

NewRun(r, row) ==
  /\ run[r] = NoRow
  /\ run' = [run EXCEPT ![r] = row]

\* One of the requests the bound allows; the caller fills in the row.
Ask(r) ==
  /\ Cardinality({s \in Runs : parent[s] = NoRun}) < MaxRequests
  /\ run[r] = NoRow
  /\ broker' = broker \cup {r}
  /\ UNCHANGED <<tables, stored, result, work, counts, past>>

\* POST /runs and batch_analyze check who owns the profile.
MayName(ws, p) == p = NoProfile \/ p \in Living(ws)

PostJobReport(r, ws, j, forced) ==
  /\ Ask(r)
  /\ run' = [run EXCEPT ![r] =
       [kind |-> "job_report", ws |-> ws, job |-> j, base |-> NoReport,
        profile |-> NoProfile, force |-> forced, batch |-> FALSE, status |-> "queued"]]

PostFitReport(r, ws, j, n, p, forced) ==
  /\ MayName(ws, p)
  /\ n # NoReport => report[n] # NoRow
  /\ Ask(r)
  /\ run' = [run EXCEPT ![r] =
       [kind |-> "fit_report", ws |-> ws, job |-> j, base |-> n, profile |-> p,
        force |-> forced, batch |-> FALSE, status |-> "queued"]]

\* What a batch asks for: a fit report on the newest job report, or that first.
BatchKinds(j) ==
  IF ActiveReports(j) = {} THEN {<<"job_report", NoReport>>}
  ELSE {<<"fit_report", n>> : n \in Newest(ActiveReports(j))}

\* One job of POST /jobs/batch-analyze, which serves the jobs that a run of the
\* workspace discovered.
BatchAnalyze(r, j, p) ==
  /\ MayName(Finder[j], p)
  /\ Ask(r)
  /\ \E q \in BatchKinds(j) :
       run' = [run EXCEPT ![r] =
         [kind |-> q[1], ws |-> Finder[j], job |-> j, base |-> q[2], profile |-> p,
          force |-> FALSE, batch |-> TRUE, status |-> "queued"]]

\* A research run backfills the JD it read, and promotes the job unless another
\* one has its company and title.
UpdateJD(j, t) ==
  /\ edits < MaxEdits
  /\ jd[j] # t
  /\ jd' = [jd EXCEPT ![j] = t]
  /\ \E promoted \in {TRUE, reportable[j]} :
       reportable' = [reportable EXCEPT ![j] = promoted]
  /\ edits' = edits + 1
  /\ UNCHANGED <<profile, touched, stored, queue, work, begun, crashes, past>>

Archive(j) ==
  /\ edits < MaxEdits
  /\ reportable[j]
  /\ reportable' = [reportable EXCEPT ![j] = FALSE]
  /\ edits' = edits + 1
  /\ UNCHANGED <<jd, profile, touched, stored, queue, work, begun, crashes, past>>

\* What a fit report does not read may change too: t is the same then.
UpdateProfile(p, t) ==
  /\ edits < MaxEdits
  /\ profile[p] # Gone
  /\ profile' = [profile EXCEPT ![p] = t]
  /\ edits' = edits + 1
  /\ touched' = [touched EXCEPT ![p] = edits + 1]
  /\ reverted' = IF t \in said[p] \ {profile[p]} THEN reverted \cup {p} ELSE reverted
  /\ said' = [said EXCEPT ![p] = @ \cup {t}]
  /\ UNCHANGED <<jd, reportable, stored, queue, work, begun, crashes, crossed, parent>>

DeleteProfile(p) ==
  /\ edits < MaxEdits
  /\ p \in Living(Owner[p])
  /\ Cardinality(Living(Owner[p])) > 1
  /\ profile' = [profile EXCEPT ![p] = Gone]
  /\ edits' = edits + 1
  /\ UNCHANGED <<jd, reportable, touched, stored, queue, work, begun, crashes, past>>

-----------------------------------------------------------------------------
(* A worker takes a run, and ends it *)

At(r, step) == work[r] # Idle /\ work[r].step = step

\* The runs whose worker has the lock that run r needs; that of a dead worker
\* lapses at some time before its run is delivered again.
Rivals(r) ==
  {s \in Runs \ {r} :
     /\ work[s] # Idle
     /\ run[s].kind = run[r].kind /\ run[s].ws = run[r].ws /\ run[s].job = run[r].job}

Delivered(r, kind) == r \in broker /\ work[r] = Idle /\ run[r].kind = kind

Takes(r, kind) == Delivered(r, kind) /\ \A s \in Rivals(r) : At(s, "dead")

Refuse(r) ==
  /\ r \in broker /\ work[r] = Idle
  /\ Rivals(r) # {}
  /\ run' = [run EXCEPT ![r].status = "failed"]
  /\ broker' = broker \ {r}
  /\ UNCHANGED <<tables, stored, result, work, counts, past>>

Running(r) == run' = [run EXCEPT ![r].status = "running"]

Fail(r) ==
  /\ run' = [run EXCEPT ![r].status = "failed"]
  /\ broker' = broker \ {r}
  /\ work' = [work EXCEPT ![r] = Idle]
  /\ UNCHANGED <<tables, stored, result, counts, past>>

\* The last transaction of both handlers.
Succeed(r) ==
  /\ At(r, "replying")
  /\ run' = [run EXCEPT ![r].status = "succeeded"]
  /\ result' = [result EXCEPT ![r] =
                  [report |-> work[r].report, chained |-> work[r].chained]]
  /\ broker' = broker \ {r}
  /\ work' = [work EXCEPT ![r] = Idle]
  /\ UNCHANGED <<tables, stored, counts, past>>

Replying(n, f) == [step |-> "replying", report |-> n, chained |-> f]

\* The worker dies; the broker delivers the envelope again.
Crash(r) ==
  /\ crashes < MaxCrashes
  /\ work[r] # Idle /\ ~ At(r, "dead")
  /\ crashes' = crashes + 1
  /\ work' = [work EXCEPT ![r] = [step |-> "dead"]]
  /\ UNCHANGED <<tables, stored, queue, begun, edits, past>>

Redeliver(r) ==
  /\ At(r, "dead")
  /\ work' = [work EXCEPT ![r] = Idle]
  /\ UNCHANGED <<tables, stored, queue, counts, past>>

-----------------------------------------------------------------------------
(* job_report *)

\* After the report: the chain, if the run names a profile for it.
Reported(r, n) ==
  IF run[r].profile = NoProfile THEN Replying(n, NoRun)
  ELSE [step |-> "reported", report |-> n]

\* A job that is not reportable, or any other ValueError or RuntimeError: the
\* open transaction is rolled back.
FailJobReport(r) ==
  \/ Takes(r, "job_report") /\ ~ reportable[run[r].job] /\ Fail(r)
  \/ At(r, "analysing") /\ Fail(r)

CachedReports(r) ==
  {n \in ActiveReports(run[r].job) : report[n].jd = jd[run[r].job]}

ReuseJobReport(r) ==
  /\ Takes(r, "job_report")
  /\ reportable[run[r].job] /\ ~ run[r].force
  /\ \E n \in Newest(CachedReports(r)) : work' = [work EXCEPT ![r] = Reported(r, n)]
  /\ Running(r)
  /\ UNCHANGED <<tables, stored, result, broker, counts, past>>

\* The JD is read, then the model works on it inside the open transaction.
AnalyseJob(r) ==
  /\ Takes(r, "job_report")
  /\ reportable[run[r].job]
  /\ run[r].force \/ CachedReports(r) = {}
  /\ begun < MaxReports
  /\ begun' = begun + 1
  /\ work' = [work EXCEPT ![r] =
                [step |-> "analysing", n |-> begun + 1, jd |-> jd[run[r].job]]]
  /\ Running(r)
  /\ UNCHANGED <<tables, stored, result, broker, edits, crashes, past>>

PriorReportsMutant(r) ==
  {n \in ActiveReports(run[r].job) : report[n].jd = work[r].jd}
PriorReports(r) == ActiveReports(run[r].job)

\* supersede_prior: the UPDATE finds the rows committed when it begins.  It
\* waits for a row another transaction has updated, and skips it then.
SupersedeMutant(r) ==
  /\ At(r, "analysing")
  /\ report' = Superseded(report, PriorReports(r))
  /\ work' = [work EXCEPT ![r] =
                [step |-> "superseding", n |-> work[r].n, jd |-> work[r].jd, prior |-> {}]]
  /\ UNCHANGED <<tables, fit, queue, counts, past>>
Supersede(r) ==
  LET j == run[r].job IN
  /\ At(r, "analysing")
  /\ work' = [work EXCEPT ![r] =
                [step |-> "superseding", n |-> work[r].n, jd |-> work[r].jd,
                 prior |-> PriorReports(r)]]
  /\ crossed' = IF \E s \in Runs \ {r} : At(s, "superseding") /\ run[s].job = j
                THEN crossed \cup {j} ELSE crossed
  /\ UNCHANGED <<tables, stored, queue, counts, reverted, said, parent>>

\* The insert, and the commit of both.
InsertJobReport(r) ==
  /\ At(r, "superseding")
  /\ report' = [Superseded(report, work[r].prior) EXCEPT ![work[r].n] =
                  [job |-> run[r].job, jd |-> work[r].jd, status |-> "active"]]
  /\ work' = [work EXCEPT ![r] = Reported(r, work[r].n)]
  /\ UNCHANGED <<tables, fit, queue, counts, past>>

\* _chain_fit_report: the run and its task in a transaction of their own ...
ChainFitReport(r, f) ==
  /\ At(r, "reported")
  /\ NewRun(f, [kind |-> "fit_report", ws |-> run[r].ws, job |-> run[r].job,
                base |-> work[r].report, profile |-> run[r].profile, force |-> FALSE,
                batch |-> FALSE, status |-> "queued"])
  /\ parent' = [parent EXCEPT ![f] = r]
  /\ work' = [work EXCEPT ![r] =
                [step |-> "chained", report |-> work[r].report, chained |-> f]]
  /\ UNCHANGED <<tables, stored, result, broker, counts, crossed, reverted, said>>

\* ... then the envelope.
SendChained(r) ==
  /\ At(r, "chained")
  /\ broker' = broker \cup {work[r].chained}
  /\ work' = [work EXCEPT ![r] = Replying(work[r].report, work[r].chained)]
  /\ UNCHANGED <<tables, stored, run, result, counts, past>>

\* The except clause: whatever failed, None is recorded.
GiveUpChainMutant(r) ==
  /\ SendMayFail
  /\ At(r, "chained")
  /\ work' = [work EXCEPT ![r] = Replying(work[r].report, work[r].chained)]
  /\ UNCHANGED <<tables, stored, queue, counts, past>>
GiveUpChain(r) ==
  /\ SendMayFail
  /\ At(r, "reported") \/ At(r, "chained")
  /\ work' = [work EXCEPT ![r] = Replying(work[r].report, NoRun)]
  /\ UNCHANGED <<tables, stored, queue, counts, past>>

-----------------------------------------------------------------------------
(* fit_report *)

\* The profile, in a session of its own: the one the run names, or the default.
ResolvedMutant(r) ==
  IF run[r].profile \in Living(run[r].ws) THEN {run[r].profile} ELSE Defaults(run[r].ws)
Resolved(r) ==
  IF run[r].profile = NoProfile THEN Defaults(run[r].ws)
  ELSE {run[r].profile} \cap Living(run[r].ws)

ResolveProfile(r) ==
  /\ Takes(r, "fit_report")
  /\ \E p \in Resolved(r) :
       work' = [work EXCEPT ![r] = [step |-> "profiled", profile |-> p, text |-> profile[p]]]
  /\ Running(r)
  /\ UNCHANGED <<tables, stored, result, broker, counts, past>>

\* The job report to build on: the one the run names if it is still active, or
\* the newest.
Bases(r) ==
  IF run[r].base = NoReport THEN Newest(ActiveReports(run[r].job))
  ELSE {n \in {run[r].base} : report[n].status = "active"}

CachedFits(r, b) ==
  {n \in ActiveFits(run[r].ws, run[r].job) :
     fit[n].base = b /\ fit[n].profile = work[r].profile /\ fit[n].text = work[r].text}

ReuseFitReport(r) ==
  /\ At(r, "profiled") /\ ~ run[r].force
  /\ \E b \in Bases(r) : \E n \in Newest(CachedFits(r, b)) :
       work' = [work EXCEPT ![r] = Replying(n, NoRun)]
  /\ UNCHANGED <<tables, stored, queue, counts, past>>

GenerateFit(r) ==
  /\ At(r, "profiled")
  /\ begun < MaxReports
  /\ begun' = begun + 1
  /\ \E b \in Bases(r) :
       /\ run[r].force \/ CachedFits(r, b) = {}
       /\ work' = [work EXCEPT ![r] =
                     [step |-> "generating", n |-> begun + 1, base |-> b,
                      profile |-> work[r].profile, text |-> work[r].text]]
  /\ UNCHANGED <<tables, stored, queue, edits, crashes, past>>

\* PROFILE_NOT_FOUND or MISSING_PROFILE, MISSING_JOB_REPORT, GENERATION_FAILED.
FailFitReport(r) ==
  \/ Takes(r, "fit_report") /\ Resolved(r) = {} /\ Fail(r)
  \/ At(r, "profiled") /\ Bases(r) = {} /\ Fail(r)
  \/ At(r, "generating") /\ Fail(r)

\* supersede_prior matches the profile's hash, which covers its id, and neither
\* candidate_profile_id nor what the profile said before.
PriorFits(r) ==
  {n \in ActiveFits(run[r].ws, run[r].job) :
     fit[n].profile = work[r].profile /\ fit[n].text = work[r].text}

\* One action: the lock keeps the other fit reports of the job away.
InsertFitReportMutant(r) ==
  /\ At(r, "generating")
  /\ fit' = Superseded([fit EXCEPT ![work[r].n] =
               [ws |-> run[r].ws, job |-> run[r].job, base |-> work[r].base,
                profile |-> work[r].profile, text |-> work[r].text, status |-> "active"]],
               PriorFits(r) \cup {work[r].n})
  /\ work' = [work EXCEPT ![r] = Replying(work[r].n, NoRun)]
  /\ UNCHANGED <<tables, report, queue, counts, past>>
InsertFitReport(r) ==
  /\ At(r, "generating")
  /\ fit' = [Superseded(fit, PriorFits(r)) EXCEPT ![work[r].n] =
               [ws |-> run[r].ws, job |-> run[r].job, base |-> work[r].base,
                profile |-> work[r].profile, text |-> work[r].text, status |-> "active"]]
  /\ work' = [work EXCEPT ![r] = Replying(work[r].n, NoRun)]
  /\ UNCHANGED <<tables, report, queue, counts, past>>

-----------------------------------------------------------------------------
(* The system *)

\* Different rows' texts are never compared, so they may start out the same.
Init ==
  /\ \E t \in Texts : jd = [j \in Jobs |-> t] /\ profile = [p \in Profiles |-> t]
  /\ reportable = [j \in Jobs |-> TRUE]
  /\ touched = [p \in Profiles |-> 0]
  /\ report = [n \in Numbers |-> NoRow] /\ fit = [n \in Numbers |-> NoRow]
  /\ run = [r \in RunIds |-> NoRow] /\ result = [r \in RunIds |-> NoRow]
  /\ broker = {}
  /\ work = [r \in RunIds |-> Idle]
  /\ begun = 0 /\ edits = 0 /\ crashes = 0
  /\ crossed = {} /\ reverted = {}
  /\ said = [p \in Profiles |-> {profile[p]}]
  /\ parent = [r \in RunIds |-> NoRun]

Request(r) ==
  \E j \in Jobs :
    \/ \E ws \in Workspaces, force \in BOOLEAN :
         \/ PostJobReport(r, ws, j, force)
         \/ \E n \in Numbers \cup {NoReport}, p \in Profiles \cup {NoProfile} :
              PostFitReport(r, ws, j, n, p, force)
    \/ \E p \in Profiles \cup {NoProfile} : BatchAnalyze(r, j, p)

Edit ==
  \/ \E j \in Jobs : Archive(j) \/ \E t \in Texts : UpdateJD(j, t)
  \/ \E p \in Profiles : DeleteProfile(p) \/ \E t \in Texts : UpdateProfile(p, t)

JobReportStep(r) ==
  \/ FailJobReport(r) \/ ReuseJobReport(r) \/ AnalyseJob(r)
  \/ Supersede(r) \/ InsertJobReport(r)
  \/ \E f \in RunIds : ChainFitReport(r, f)
  \/ SendChained(r) \/ GiveUpChain(r)

FitReportStep(r) ==
  \/ ResolveProfile(r) \/ ReuseFitReport(r) \/ GenerateFit(r)
  \/ FailFitReport(r) \/ InsertFitReport(r)

Next ==
  \/ Edit
  \/ \E r \in RunIds :
       \/ Request(r) \/ JobReportStep(r) \/ FitReportStep(r)
       \/ Refuse(r) \/ Succeed(r) \/ Crash(r) \/ Redeliver(r)

Spec == Init /\ [][Next]_vars

-----------------------------------------------------------------------------
(* Properties *)

Works ==
  {Idle} \cup [step : {"dead"}]
  \cup [step : {"analysing"}, n : Numbers, jd : Texts]
  \cup [step : {"superseding"}, n : Numbers, jd : Texts, prior : SUBSET Numbers]
  \cup [step : {"reported"}, report : Numbers]
  \cup [step : {"chained"}, report : Numbers, chained : RunIds]
  \cup [step : {"replying"}, report : Numbers, chained : RunIds \cup {NoRun}]
  \cup [step : {"profiled"}, profile : Profiles, text : Texts]
  \cup [step : {"generating"}, n : Numbers, base : Numbers, profile : Profiles, text : Texts]

Results == [report : Numbers, chained : RunIds \cup {NoRun}]

\* Every variable holds a value the tables, the queue and the workers can hold.
TypeOK ==
  /\ jd \in [Jobs -> Texts] /\ reportable \in [Jobs -> BOOLEAN]
  /\ profile \in [Profiles -> Texts \cup {Gone}] /\ touched \in [Profiles -> Nat]
  /\ report \in [Numbers -> ReportRows \cup {NoRow}]
  /\ fit \in [Numbers -> FitRows \cup {NoRow}]
  /\ run \in [RunIds -> RunRows \cup {NoRow}]
  /\ result \in [RunIds -> Results \cup {NoRow}]
  /\ broker \subseteq RunIds
  /\ work \in [RunIds -> Works]
  /\ begun \in 0 .. MaxReports /\ edits \in Nat /\ crashes \in Nat
  /\ crossed \subseteq Jobs /\ reverted \subseteq Profiles
  /\ said \in [Profiles -> SUBSET Texts]
  /\ parent \in [RunIds -> RunIds \cup {NoRun}]

\* A job has one active report at most, whoever asked for reports and whenever
\* workers died, unless two workspaces superseded its reports at the same time:
\* the lock is per workspace, the report is not.
OneActiveReport ==
  \A j \in Jobs \ crossed : \A m, n \in ActiveReports(j) : m = n

\* Once a job has an active report it always has one: a newer version replaces
\* the old one in one commit, through failed analyses and dead workers.
ReportsStay ==
  [][\A j \in Jobs : ActiveReports(j) # {} => ActiveReports(j)' # {}]_vars

\* A fit report run that names a profile scores that one, of the run's own
\* workspace, or fails: never the default instead (fit_report.py), whatever is
\* edited or deleted after the request or along the chain.
AskedProfileScored ==
  \A r \in Runs :
    run[r].kind = "fit_report" /\ result[r] # NoRow =>
      LET n == result[r].report IN
      /\ fit[n].ws = run[r].ws /\ fit[n].job = run[r].job
      /\ Owner[fit[n].profile] = run[r].ws
      /\ run[r].profile \in {NoProfile, fit[n].profile}

\* The chained run that a finished job report run records, the only handle its
\* caller has, was chained by that run, builds on the report it returned, for
\* the profile it was asked for, and its envelope was sent.
ChainRecordIsReal ==
  \A r \in Runs :
    result[r] # NoRow /\ result[r].chained # NoRun =>
      LET f == result[r].chained IN
      /\ f \in Runs /\ parent[f] = r
      /\ run[f].base = result[r].report
      /\ run[f].profile = run[r].profile /\ run[f].job = run[r].job
      /\ run[f].status = "queued" => f \in broker

\* The fit report a run returns is the one the inbox shows for its job and
\* profile as the run ends, unless the profile went back to something it said
\* before: the cache then returns the old row, and the newer row of the text in
\* between, which nothing superseded, stays on display.
ReturnedFitIsShown ==
  [][\A r \in Runs :
       /\ run[r].kind = "fit_report"
       /\ run[r].status # "succeeded" /\ run'[r].status = "succeeded"
       => LET n == result'[r].report IN
          \/ fit[n].profile \in reverted
          \/ n \in Newest({k \in ActiveFits(run[r].ws, run[r].job) :
                             fit[k].profile = fit[n].profile})]_vars

=============================================================================
