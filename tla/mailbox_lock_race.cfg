CONSTANTS
  User = {alice}
  Msg = {m1, m2}
  Worker = {w1, w2}
  Boot = Boot
  NoLock = NoLock
  NoWorker = NoWorker
  NoFile = NoFile
  Warm = {}
  Faults = {}
  MaxCalls = 1
  MaxCrashes = 0
SPECIFICATION Spec
INVARIANTS
  SavedIsListed
CHECK_DEADLOCK FALSE
