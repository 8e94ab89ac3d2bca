\* Two requests, two workers; one cancellation, worker death and redelivery;
\* no task outlives its lock.
SPECIFICATION Spec
CONSTANTS
  Workspaces = {ws1}
  Jobs = {}
  RunIds = {r1, r2, r3}
  Workers = {w1, w2}
  Clients = {c1, c2}
  BatchClients = {}
  AgentTypes = {job_discovery}
  ReportTypes = {}
  OtherTypes = {resume_tailor}
  MonthlyLimit <- TwoLimits
  Limit = 2
  OtherLimit = 2
  NoRun = NoRun
  NoJob = NoJob
  NoClient = NoClient
  NoKey = NoKey
  NoRequest = NoRequest
  EnqueueMayFail = FALSE
  HandlerMayRaise = FALSE
  TasksMayOverrun = FALSE
  MaxCancels = 1
  MaxCrashes = 1
  MaxLosses = 0
  MaxRedeliveries = 1
INVARIANTS
  MutualExclusion
  QuotaRespected
  RunFollowsTask
  ActiveHasEnvelope
SYMMETRY Symmetry
CHECK_DEADLOCK FALSE
