CONSTANTS
  Abis <- MCAbis
  CallSites <- MCCallSites
  Texts <- MCTexts
  MaxQueued = 2
  MaxLogged = 3
SPECIFICATION Spec
INVARIANTS TypeOK DecodedAsLogged FillsReservation
