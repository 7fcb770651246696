CONSTANTS
  Payload = {a}
  MaxSeq = 3
  MaxInFlight = 1
SPECIFICATION FairSpec
PROPERTIES
  FifoFairSpec
  EventuallyAcked
