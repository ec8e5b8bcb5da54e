CONSTANTS
  a = a
  b = b
  empty = empty
  Words = {a, b}
  Empty = empty
  Batches <- MCBatches
  Earlier <- MCEarlier
  Texts <- MCTexts
SPECIFICATION SmtSpec
INVARIANTS Gathered ScoreTells
CHECK_DEADLOCK FALSE
