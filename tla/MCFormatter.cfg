CONSTANTS
  c1 = c1
  c2 = c2
  a0 = a0
  a1 = a1
  a2 = a2
  a3 = a3
  Callers = {c1, c2}
  Addrs = {a0, a1, a2, a3}
  Default = a0
  Null = Null
  TimeSpecs = {"HMS", "HMSf"}
  DefaultSpec = "HMSf"
  MinSecond <- MCMinSecond
  MaxSecond = 0
  Day = 3
SPECIFICATION FairSpec
INVARIANTS TypeOK OneHolder ShowsOwnSecond
PROPERTIES ImplementsHandover
