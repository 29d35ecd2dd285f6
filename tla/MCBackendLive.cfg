CONSTANTS
  m = m
  j = j
  d = d
  n1 = n1
  n2 = n2
  n3 = n3
  Null = Null
  StaleLoads = TRUE
  AddressDependency = TRUE
  Threads = {m, j}
  Main = m
  Joined = {j}
  Addrs = {n1, n2}
  Slots = 2
SPECIFICATION FairSpec
PROPERTIES NoStarvation Reclaimed ShutdownEnds
