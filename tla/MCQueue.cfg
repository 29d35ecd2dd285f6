CONSTANTS
  Capacity <- MCCapacity
  SizeMod <- MCSizeMod
  Sizes = {1, 3, 5}
  MaxWritten = 20
SPECIFICATION FairSpec
INVARIANTS TypeOK InBounds NoDataRace DeliveredInOrder IInv
PROPERTIES ReservationExact ImplementsFifo ImplementsFairFifo
