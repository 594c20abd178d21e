SPECIFICATION RegistrySpec
CONSTANTS
  bob = bob
  paddedBob = paddedBob
  Names <- PaddedNames
  KeyOf <- PaddedKeys
  TrimmedTo <- PaddedTrim
  HashOf <- PaddedHash
  Reserved <- SystemOnly
  Callers = {c1, c2}
  NoCaller = NoCaller
  NoName = NoName
  MaxCalls = 4
  MaxStops = 1
  MaxTorn = 0
  MaxSyncErrors = 0
CHECK_DEADLOCK FALSE
SYMMETRY CallerSymmetry
INVARIANT TokensHonoured
