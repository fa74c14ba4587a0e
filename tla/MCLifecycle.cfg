SPECIFICATION FairSpec
CONSTANTS
  Task = {t1, t2}
  MaxLaunches = 2
  MaxCrashes = 1
INVARIANTS
  TypeOK
  OneUpdate
  InstallQuiet
  OnlyVerified
  NoOrphan
  ScriptsAwaitTheDying
PROPERTIES
  UpdatesEnd
  ScriptsEnd
CHECK_DEADLOCK FALSE
