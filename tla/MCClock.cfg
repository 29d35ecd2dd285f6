CONSTANTS
  TscMod = 64
  Ulp = 2
  TicksPerSecond = 2
  Rates <- MCRates
  Boots = {0, 4}
  Epochs <- YearEnd
  Zones <- Eastern
  Steps <- Back
  OffsetInterval = 3
  SyncInterval = 1
  MaxTick = 7
  MaxChanges = 1
  MaxEvents = 1
SPECIFICATION Spec
INVARIANTS TypeOK Accuracy Fresh
