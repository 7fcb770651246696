CONSTANTS
  Payload = {a, b}
  MaxSeq = 3
  MaxInFlight = 2
SPECIFICATION Spec
INVARIANTS
  TypeOK
  InOrderExactlyOnce
  UndeliveredIsPending
PROPERTY
  FifoSpec
