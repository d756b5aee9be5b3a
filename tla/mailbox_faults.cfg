CONSTANTS
  User = {alice}
  Msg = {m1, m2}
  Worker = {w1, w2}
  Boot = Boot
  NoLock = NoLock
  NoWorker = NoWorker
  NoFile = NoFile
  Warm = {}
  Faults = {"stage", "move", "load", "save", "read"}
  MaxCalls = 2
  MaxCrashes = 0
SPECIFICATION FairSpec
INVARIANTS
  EntriesHaveFiles
PROPERTIES
  CallsReturn
CHECK_DEADLOCK FALSE
