CONSTANTS
  Packets <- MCRequests
  FrameLen = 1
  RecvSizes <- MCRecvAll
  MaxSends = 1
  MaxIMs = 1
SPECIFICATION Spec
INVARIANT EveryRequestAnswered
