CONSTANTS
  Packets <- MCPackets
  FrameLen = 2
  RecvSizes <- MCRecvSizes
  MaxSends = 2
  MaxIMs = 2
SPECIFICATION Spec
INVARIANTS TypeOK WholeFrames RepliesInOrder MissedAtMostIMs RecvNeverZero
