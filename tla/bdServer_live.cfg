CONSTANTS
  Packets <- MCRequests
  FrameLen = 2
  RecvSizes <- MCRecvAll
  MaxSends = 2
  MaxIMs = 1
SPECIFICATION Spec
PROPERTIES PacketsServed ImplementsPipe
