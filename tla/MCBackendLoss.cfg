CONSTANTS
  m = m
  j = j
  d = d
  n1 = n1
  n2 = n2
  n3 = n3
  Null = Null
  StaleLoads = FALSE
  AddressDependency = TRUE
  Threads = {m, j}
  Main = m
  Joined = {j}
  Addrs = {n1, n2}
  Slots = 1
SPECIFICATION Spec
INVARIANTS DeletedWhenRead
