CONSTANTS
  Order <- MCOrder
  Levels = {0, 1}
  MaxSettings = 2
  MaxLevels = 1
  MaxLogged = 2
SPECIFICATION Spec
INVARIANTS TypeOK PatternBeforeSink JudgedByLevelOfCall LagsOneRound
