SPECIFICATION SessionSpec
CONSTANTS
  Targets = {t1, t2}
  NoTarget = NoTarget
  Limit <- Limits
  MaxJobs = 6
  Syncs = 1
  Texts = 1
  Notices = 1
  Faults = 1
CHECK_DEADLOCK FALSE
SYMMETRY TargetSymmetry
INVARIANT OneTransport
