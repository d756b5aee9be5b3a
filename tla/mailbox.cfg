CONSTANTS
  User = {alice}
  Msg = {m1, m2}
  Worker = {w1, w2}
  Boot = Boot
  NoLock = NoLock
  NoWorker = NoWorker
  NoFile = NoFile
  Warm = {alice}
  Faults = {"stage", "move", "read"}
  MaxCalls = 2
  MaxCrashes = 1
SPECIFICATION FairSpec
INVARIANTS
  TypeOK
  MutualExclusion
  SavedIsListed
  EntriesHaveFiles
  RemovedStaysHidden
PROPERTIES
  BoxSpec
  CallsReturn
CHECK_DEADLOCK FALSE
