SPECIFICATION FairSpec
CONSTANTS
  Rows = 3
  Lag = 1
  Reader = {"r1", "r2", "r3"}
  Need <- Needs
  N = 2
  First <- Firsts
INVARIANTS
  ProgressInv
  NoMissedWakeup
PROPERTIES
  KeepsPromise
