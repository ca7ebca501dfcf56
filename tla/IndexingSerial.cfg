SPECIFICATION FairSpec
CONSTANTS
  empty = empty
  short = short
  long = long
  Contents <- MCContents
  Length <- MCLength
  Initially <- MCInitially
  Indexers = {i1}
  Uris = {u1, u2}
  Nil = Nil
  MaxDocs = 4
  MaxEdits = 2
  MaxAborts = 2
INVARIANTS TypeOK OneDocument EveryDocumentWhole
PROPERTY Converges
