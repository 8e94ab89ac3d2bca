\* Tasks outlive locks, a batch sends early, sends fail, a child dies.
SPECIFICATION Spec
CONSTANTS
  Workspaces = {ws1}
  Jobs = {job1}
  RunIds = {r1, r2}
  Workers = {w1, w2}
  Clients = {c1}
  BatchClients = {c1}
  AgentTypes = {job_discovery}
  ReportTypes = {job_report}
  OtherTypes = {}
  MonthlyLimit <- TwoLimits
  Limit = 2
  OtherLimit = 2
  NoRun = NoRun
  NoJob = NoJob
  NoClient = NoClient
  NoKey = NoKey
  NoRequest = NoRequest
  EnqueueMayFail = TRUE
  HandlerMayRaise = FALSE
  TasksMayOverrun = TRUE
  MaxCancels = 1
  MaxCrashes = 0
  MaxLosses = 1
  MaxRedeliveries = 1
INVARIANTS
  ActiveRunUnique
  AgentSessionExclusive
SYMMETRY Symmetry
CHECK_DEADLOCK FALSE
