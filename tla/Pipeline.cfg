SPECIFICATION PollSpec
CONSTANTS
  Asks = {a1}
  SyncAsks = {s1}
  Workers = {w1, w2}
  Docs = {d1, d2}
  Chunks = {c1, c2, c3}
  TopK = 2
  NoAnswer = NoAnswer
  Nothing = Nothing
  Polled = {a1}
  Redelivery = FALSE
  Outages = {"refused"}
  MaxFaults = 1
  MaxCrashes = 1
SYMMETRY Symmetry
INVARIANTS TypeOK JobHasRow SingleExecution PromiseKept CountersAgree
PROPERTIES ImplementsJournal ResponseIsWhole PollsAdvance
CHECK_DEADLOCK FALSE
