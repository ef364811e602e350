SPECIFICATION Spec
CONSTANTS
  Width = 8
  Values = {0, 1, 2, 3}
  NoAnswer = NoAnswer
  Inputs <- AllInputs
  Asked <- AllKeys
INVARIANTS
  AnswersAsMap
  ReadsInBounds
  SearchLenFitsMask
