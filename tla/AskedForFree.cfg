SPECIFICATION Spec
CONSTANTS
  KnownCodes = {k1}
  UnknownCodes = {u1}
  None = None
  Chunks = {c1, c2}
  MaxToolCalls = 2
INVARIANT MissingCodeIsFree
CHECK_DEADLOCK FALSE
