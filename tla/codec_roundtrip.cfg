CONSTANTS
  Levels = {1}
  Threads = {1, 2}
  Customs = {65536}
  MayTime = TRUE
  Inputs <- RoundTripInputs
  MaxSuperblocks = 3
  Shortfalls <- NoShortfall
  Cuts <- NoCut
  HasSSE41 = TRUE
  CompressedSizes = {1}
  KeptFrames <- NoInput
  Between <- NoInput
  BufferMayFail = FALSE
  ResizeMayFail = {}
SPECIFICATION Spec
INVARIANT EveryRoundTrip
