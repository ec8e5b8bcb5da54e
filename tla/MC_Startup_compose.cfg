CONSTANTS
  Texts <- ComposeTexts
  Number <- ComposeNumber
  No = {"0"}
  SpmFiles = {"spm"}
  Environments <- MCCompose
  CommandLines <- NoArguments
SPECIFICATION Spec
INVARIANTS ComposeStarts
CHECK_DEADLOCK FALSE
