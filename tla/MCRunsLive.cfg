\* Fair scheduling through one worker death; nobody cancels or batches.
SPECIFICATION FairSpec
CONSTANTS
  Workspaces = {ws1}
  Jobs = {}
  RunIds = {r1, r2}
  Workers = {w1, w2}
  Clients = {c1}
  BatchClients = {}
  AgentTypes = {job_discovery}
  ReportTypes = {}
  OtherTypes = {resume_tailor}
  MonthlyLimit <- TwoLimits
  Limit = 2
  OtherLimit = 2
  NoRun = NoRun
  NoJob = NoJob
  NoClient = NoClient
  NoKey = NoKey
  NoRequest = NoRequest
  EnqueueMayFail = FALSE
  HandlerMayRaise = TRUE
  TasksMayOverrun = FALSE
  MaxCancels = 0
  MaxCrashes = 1
  MaxLosses = 0
  MaxRedeliveries = 1
PROPERTIES
  EveryRunFinishes
  ImplementsLifecycle
CHECK_DEADLOCK FALSE
