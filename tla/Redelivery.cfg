SPECIFICATION FairSpec
CONSTANTS
  Asks = {a1}
  SyncAsks = {}
  Workers = {w1, w2}
  Docs = {d1}
  Chunks = {c1, c2}
  TopK = 2
  NoAnswer = NoAnswer
  Redelivery = TRUE
  Outages = {"refused", "unacked"}
  MaxFaults = 1
  MaxCrashes = 2
INVARIANTS TraceComplete PromiseKept
PROPERTIES ImplementsRetriedJournal AcceptedSettles
CHECK_DEADLOCK FALSE
