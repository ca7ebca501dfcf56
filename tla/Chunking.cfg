SPECIFICATION Spec
CONSTANTS
  MaxParagraphs = 4
  MaxLength = 6
  Char <- MCChar
  NewLine <- MCNewLine
  Texts <- MCTexts
  Sizes = {1, 4, 5}
  Overlaps = {0, 1, 2, 4, 5, 6}
INVARIANTS TypeOK ChunksFit ChunksAreExcerpts NothingLost CutsOverlap EmptyChunksCounted
CHECK_DEADLOCK FALSE
