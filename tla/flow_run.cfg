SPECIFICATION Spec
CONSTANTS
  a = a
  b = b
  c = c
  d = d
  p = p
  q = q
  none = none
  Predicates = {p, q}
  Flows <- ConditionalFlows
  Subgraphs <- ConditionalTrees
INVARIANT SequencesRun
PROPERTIES RunsKeepPromise OnlyAddedStepsRun
CHECK_DEADLOCK FALSE
