SPECIFICATION Spec
CONSTANTS
  MaxFrames = 6
  PicsInFlight = 3
  FrameNumSpan = 16
  PocSpan = 32
  MaxReceived = 2
  Streams <- AgainStreams
INVARIANT
  ReceivedOnce
CHECK_DEADLOCK FALSE
