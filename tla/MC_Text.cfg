CONSTANTS
  MaxLength = 5
  Tokens <- MCPieces
  Characters <- MCCharacters
  EndMarkers <- MCEndMarkers
  Texts <- MCTexts
SPECIFICATION PipelineSpec
INVARIANTS TypeOK Partition SentenceShape NothingLeftOver TextComesBack
CHECK_DEADLOCK FALSE
