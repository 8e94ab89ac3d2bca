\* Two imports, a search, a research and one death about one posting on a board.
SPECIFICATION Spec
CONSTANTS
  w1 = w1  w2 = w2  p1 = p1  b1 = b1
  r1 = r1  r2 = r2  s1 = s1  x1 = x1
  Workspaces = {w1, w2}
  Pages = {p1}
  Params = {track, other}
  Tracking = {track}
  Embedded = {p1}
  Boards = {b1}
  NoBoard = NoBoard
  BoardOf <- MCBoardOf
  Pastes = {t1}
  Requests = {r1, r2}
  Searches = {s1}
  Researches = {x1}
  Owner <- MCOwner
  Nobody = Nobody
  MaxArchives = 1
  MaxCrashes = 1
INVARIANTS RunTellsImport ActiveBoardIsIngested EmbeddedProseIsWalled
PROPERTIES StoredJobsKeep
CHECK_DEADLOCK FALSE
