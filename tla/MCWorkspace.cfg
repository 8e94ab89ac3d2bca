\* Two tabs and three reflections, five operations between them.
SPECIFICATION Spec
CONSTANTS
  a = a
  b = b
  on = on
  off = off
  topic = topic
  weak = weak
  strong = strong
  timezone = timezone
  rest_days = rest_days
  Clients = {c1, c2}
  Reflections = {f1, f2, f3}
  Resumes = {a}
  Fields = {timezone, rest_days}
  Values = {on, off}
  Bad = Bad
  DefaultSettings <- MCDefaults
  Saves <- MCSaves
  Items = {a, b}
  Categories = {topic}
  Levels = {weak, strong}
  Files <- MCFiles
  Idle = Idle
  None = None
  MaxOps = 5
SYMMETRY TabsAndRunsAreAlike
CHECK_DEADLOCK FALSE
INVARIANTS OneWorkspace SettingsKept LearningsKept
PROPERTY ProfilesKept
