SPECIFICATION Spec
CONSTANTS
  Rows = 2
  Lag = 1
  Worker = {w1, w2}
  NTasks = 3
  NSlots = 3
  MaxPics = 2
  Reach = 0
  Streams <- ReuseStreams
SYMMETRY Workers
INVARIANTS
  ShutdownProgresses
