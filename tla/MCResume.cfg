SPECIFICATION TailorSpec
CONSTANTS
  sql = sql
  python = python
  other = other
  None = None
  Breadth = Breadth
  MaxBullets = 2
  MaxRepeats = 1
  Experiences <- MCExperiences
  Bullets <- MCBullets
  Document <- MCDocument
  MultiLine <- MCMultiLine
  Capabilities <- MCCapabilities
  Requirements <- MCRequirements
  FactSets <- MCFactSets
  Matches <- MCMatches
  Strategies <- MCStrategies
  Plans <- MCPlans
  Verdicts <- MCVerdicts
INVARIANTS AuditHonest FailedSectionKeeps
CHECK_DEADLOCK FALSE
