SPECIFICATION Spec
CONSTANTS
  Asks = {a1}
  SyncAsks = {}
  Workers = {w1}
  Docs = {d1}
  Chunks = {c1}
  TopK = 1
  NoAnswer = NoAnswer
  Redelivery = FALSE
  Outages = {"refused"}
  MaxFaults = 1
  MaxCrashes = 0
INVARIANT ProcessedIsSettled
CHECK_DEADLOCK FALSE
