CONSTANTS
  a = a
  at = at
  Letters = {a, at}
  EndOfWord = EndOfWord
  Separator <- MCSeparator
  CodeFiles <- MCCodeFiles
  Inputs <- MCInputs
SPECIFICATION FairSpec
INVARIANTS TypeOK RoundTrip InFileOrder
PROPERTIES Ends
CHECK_DEADLOCK FALSE
