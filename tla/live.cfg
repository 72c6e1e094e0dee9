SPECIFICATION FairSpec
CONSTANTS
  Rows = 2
  Lag = 0
  Worker = {w1, w2}
  NTasks = 3
  NSlots = 3
  MaxPics = 2
  Reach = 0
  Streams <- LiveStreams
PROPERTIES
  CallReturns
  TasksFinish
  WorkersJoin
