SPECIFICATION OpsSpec
CONSTANTS
  Versions = {v0, v1, v2}
  Initial = v0
  NoVersion = NoVersion
  TornRecord = TornRecord
  Procs = {p1, p2, p3}
  NoProc = NoProc
  MaxDeploys = 1
  MaxCrashes = 0
  MaxOpsCrashes = 0
  MaxLaunchErrors = 0
  MaxSaveErrors = 0
CHECK_DEADLOCK FALSE
INVARIANT RolledBackServes
