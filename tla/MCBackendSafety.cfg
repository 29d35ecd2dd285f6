CONSTANTS
  m = m
  j = j
  d = d
  n1 = n1
  n2 = n2
  n3 = n3
  Null = Null
  StaleLoads = TRUE
  AddressDependency = FALSE
  Threads = {m, j, d}
  Main = m
  Joined = {j}
  Addrs = {n1, n2, n3}
  Slots = 2
SYMMETRY Symmetry
SPECIFICATION Spec
INVARIANTS TypeOK NoUseAfterFree ListIntact StoppedClean
PROPERTIES DrainLosesNothing
