CONSTANTS
  Calls = {one, two}
  Requests = {hello, bye}
  MaxSent = 2
  Connected = {TRUE, FALSE}
SPECIFICATION FairSpec
INVARIANTS TypeOK Answered NothingWithoutStub
PROPERTIES ImplementsRpc EventuallyEnded
CHECK_DEADLOCK FALSE
