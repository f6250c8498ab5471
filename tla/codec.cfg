CONSTANTS
  Levels = {0, 3}
  Threads = {0, 2}
  Customs = {0, 16, 65536}
  MayTime = TRUE
  Inputs <- MCInputs
  MaxSuperblocks = 3
  Shortfalls <- MCShortfalls
  Cuts <- MCCuts
  HasSSE41 = TRUE
  CompressedSizes = {1}
  KeptFrames <- MCKept
  Between <- MCBetween
  BufferMayFail = TRUE
  ResizeMayFail = {1, 2, 3}
SPECIFICATION Spec
PROPERTY BuffersInRange
INVARIANTS
  TypeOK
  BuffersFit
  FrameIsContiguous
  WritesStayApart
  BoundIsEnough
  RoundTrip
  SuccessIsComplete
  TruncatedIsRefused
