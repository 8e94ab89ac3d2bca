\* Two accounts, two slots, two clicks, one change of account, a reload.
SPECIFICATION Spec
CONSTANTS
  ann = ann
  bob = bob
  k1 = k1
  r1 = r1
  r2 = r2
  k2 = k2
  Users = {ann, bob}
  Nobody = nobody
  Slots = {k1, k2}
  Runs = {r1, r2}
  MaxSwitches = 1
  MaxReloads = 1
INVARIANTS
  ToldOnce
  KeptUntilTold
PROPERTIES
  SpinnersEnd
CHECK_DEADLOCK FALSE
