SPECIFICATION FairSpec
CONSTANTS
  Frames = 4
  MaxRequest = 5
  StreamLength = 9
INVARIANTS NoOverlap RingInv
PROPERTIES UnreadStable EveryFrameDelivered ImplementsFifo
CHECK_DEADLOCK FALSE
