CONSTANTS
  N = 3
  Fields = {3, 4, 5}
  MaxLines = 2
  Answers <- MCAnswers
SPECIFICATION Spec
INVARIANT TrueMeansTranslated
CHECK_DEADLOCK FALSE
