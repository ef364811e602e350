SPECIFICATION Spec
CONSTANTS
  a = a
  b = b
  c = c
  d = d
  p = p
  q = q
  none = none
  Predicates = {p, q}
  Flows <- StarredFlows
  Subgraphs <- StarredTrees
PROPERTIES OnlyAddedStepsRun
CHECK_DEADLOCK FALSE
