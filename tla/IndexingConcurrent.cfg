SPECIFICATION Spec
CONSTANTS
  empty = empty
  short = short
  long = long
  Contents <- MCContents
  Length <- MCLength
  Initially <- MCInitially
  Indexers = {i1, i2}
  Uris = {u1}
  Nil = Nil
  MaxDocs = 3
  MaxEdits = 2
  MaxAborts = 1
SYMMETRY Symmetry
INVARIANT ChunksOfOneVersion
PROPERTY ImplementsKnowledgeBase
