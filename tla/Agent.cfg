SPECIFICATION FairSpec
CONSTANTS
  KnownCodes = {k1}
  UnknownCodes = {u1}
  None = None
  Chunks = {c1, c2}
  MaxToolCalls = 2
INVARIANTS TypeOK StatusIsGrounded
PROPERTIES ImplementsContract
CHECK_DEADLOCK FALSE
