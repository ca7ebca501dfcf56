SPECIFICATION FairSpec
CONSTANTS
  Apis = {a1, a2}
  Workers = {w1}
  DbTries = 2
  QueueTries = 2
  MaxOutages = 1
  MaxKills = 2
INVARIANTS TypeOK ReadyMeansMigrated LedgerTellsSchema
PROPERTY StartsSucceed
CHECK_DEADLOCK FALSE
