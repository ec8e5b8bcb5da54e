CONSTANTS
  Texts <- MCTexts
  Number <- MCNumber
  No = {"0"}
  SpmFiles = {"1"}
  Environments <- MCEnvironments
  CommandLines <- MCCommandLines
SPECIFICATION Spec
INVARIANTS TypeOK Precedence RightEnd PortAsAsked
CHECK_DEADLOCK FALSE
