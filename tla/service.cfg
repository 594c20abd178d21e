SPECIFICATION ServiceSpec
CONSTANTS
  Versions = {v0, v1, v2}
  Initial = v0
  NoVersion = NoVersion
  TornRecord = TornRecord
  Procs = {proc1, proc2, proc3}
  NoProc = NoProc
  MaxDeploys = 2
  MaxCrashes = 1
  MaxOpsCrashes = 1
  MaxLaunchErrors = 1
  MaxSaveErrors = 1
  alice = alice
  Alice = Alice
  paddedAlice = paddedAlice
  Names <- ServiceNames
  KeyOf <- ServiceKeys
  TrimmedTo <- ServiceTrim
  HashOf <- ServiceHash
  Reserved <- SystemOnly
  Callers = {caller1, caller2}
  NoCaller = NoCaller
  NoName = NoName
  MaxCalls = 4
  MaxStops = 2
  MaxTorn = 1
  MaxSyncErrors = 1
  Items = {"p", "q", "r"}
  SlotOf <- ItemSlot
  RankOf <- ItemRank
  Boots = 2
CHECK_DEADLOCK FALSE
INVARIANT ServiceTypeOK
INVARIANT NoStrays
INVARIANT RecordAndFallback
INVARIANT GrantedOnce
INVARIANT TornCostsOne
INVARIANT EstimatorsExact
PROPERTY AdoptsResponder
PROPERTY DeployEnds
PROPERTY SavedStays
