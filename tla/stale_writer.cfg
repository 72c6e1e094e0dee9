SPECIFICATION Spec
CONSTANTS
  Rows = 2
  Lag = 0
  Worker = {w1, w2}
  NTasks = 3
  NSlots = 2
  MaxPics = 2
  Reach = 0
  Streams <- DuplicateStreams
SYMMETRY Workers
INVARIANTS
  NoStaleWriter
