SPECIFICATION Spec
CONSTANTS
  Rows = 3
  Lag = 1
  Worker = {w1, w2}
  NTasks = 5
  NSlots = 4
  MaxPics = 2
  Reach = 0
  Streams <- DamagedStreams
SYMMETRY Workers
INVARIANTS
  PoolInv
  PublishedRowsFinal
  SameAsSingleThreaded
  FlaggedIfDamaged
  DependenciesKept
  ChainIsReady
PROPERTIES
  FrontierKeptForReaders
