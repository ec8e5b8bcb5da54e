CONSTANTS
  N = 3
  Fields = {3, 4, 5}
  MaxLines = 2
  Answers <- MCAnswers
SPECIFICATION FairSpec
INVARIANTS TypeOK HypothesisExact AlignmentsExact UniformAnswersAreSafe
PROPERTIES Returns ImplementsCall
CHECK_DEADLOCK FALSE
