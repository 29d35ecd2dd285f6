CONSTANTS
  Frequencies = {2000, 2500}
  Window = 8
  MaxDelay = 10
SPECIFICATION RateSpec
INVARIANTS RateTypeOK RateOfCounter
