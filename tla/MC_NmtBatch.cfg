CONSTANTS
  a = a
  b = b
  pad = pad
  Words <- MCWords
  Pad = pad
  Numerals <- MCNumerals
  Atoi <- MCAtoi
  Batches <- MCBatches
  Answers <- MCAnswers
  Connected = {TRUE, FALSE}
SPECIFICATION Spec
INVARIANTS TypeOK RequestFaithful RowsExact ReadsInRange
CHECK_DEADLOCK FALSE
