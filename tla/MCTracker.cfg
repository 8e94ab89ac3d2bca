\* One application and one to-do under any five requests of two clients.
SPECIFICATION Spec
CONSTANTS
  Apps = {a1}
  Jobs = {j1}
  Todos = {x1}
  Clients = {c1, c2}
  NoApp = NoApp
  NoRow = NoRow
  Gone = Gone
  Idle = Idle
  NoDay = NoDay
  Targets = {"planned", "rejected"}
  LastDay = 1
  MaxRequests = 5
SYMMETRY Symmetry
CHECK_DEADLOCK FALSE
INVARIANTS TypeOK CompletionAgrees DoneIsOnTimeline TimelineIsChain FrozenTotalsStand
PROPERTY OnlyUndoRevives
