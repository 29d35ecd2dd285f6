CONSTANTS
  c1 = c1
  c2 = c2
  stdout = stdout
  stderr = stderr
  f1 = f1
  f2 = f2
  f3 = f3
  Callers = {c1, c2}
  Files = {stdout, stderr, f1, f2, f3}
  Std = {stdout, stderr}
  Stdout = stdout
  NoFile = NoFile
SPECIFICATION FairSpec
INVARIANTS TypeOK OneHolder LastQueuedWins
PROPERTIES ImplementsHandover
