SPECIFICATION Spec
CONSTANTS
  MaxFrames = 3
  PicsInFlight = 3
  FrameNumSpan = 16
  PocSpan = 32
  MaxReceived = 2
  Streams <- HeldGapStreams
INVARIANT
  GapFramesCopied
CHECK_DEADLOCK FALSE
