\* Two turns, two candidates, the ledger of a short search.
SPECIFICATION Spec
CONSTANTS
  u1 = u1
  u2 = u2
  Urls = {u1, u2}
  Junk = junk
  MaxTurns = 1
  Enough = 2
  MaxCalls = 2
  Statuses = {"completed"}
  Idle = idle
  MaxRivals = 1
  MaxFetches = 1
  MaxLines = 2
  MaxEvents = 2
  MaxClaim = 1
INVARIANTS
  VettedJobsOnly
  LoneLedgerVerifies
PROPERTIES
  RunEnds
CHECK_DEADLOCK FALSE
