SPECIFICATION FairSpec
CONSTANTS
  MaxFrames = 6
  PicsInFlight = 3
  FrameNumSpan = 16
  PocSpan = 32
  MaxReceived = 2
  Streams <- DpbStreams
INVARIANTS
  TypeOK
  QueuesHoldBumped
  ReceivedKept
  ReceivedOnce
  TasksKeepSlots
  MarkingBounded
  InDisplayOrder
  EndMeansAll
PROPERTIES
  ReceivedComplete
  Ends
CHECK_DEADLOCK FALSE
