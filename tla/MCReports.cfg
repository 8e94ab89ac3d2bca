\* Two requests of two workspaces about one job, and what they chain, with an
\* edit and a worker death.
SPECIFICATION Spec
CONSTANTS
  w1 = w1
  w2 = w2
  Workspaces = {w1, w2}
  Jobs = {j1}
  Profiles = {p1, p2}
  Finder <- MCFinder
  Owner <- MCOwner
  Texts = {t1, t2}
  RunIds = {r1, r2, r3}
  NoRow = NoRow
  Gone = Gone
  NoProfile = NoProfile
  NoRun = NoRun
  Idle = Idle
  SendMayFail = TRUE
  MaxRequests = 2
  MaxReports = 3
  MaxEdits = 1
  MaxCrashes = 1
SYMMETRY Symmetry
CHECK_DEADLOCK FALSE
INVARIANTS OneActiveReport AskedProfileScored ChainRecordIsReal
PROPERTIES ReportsStay ReturnedFitIsShown
