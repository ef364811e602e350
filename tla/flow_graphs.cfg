SPECIFICATION BuildSpec
CONSTANTS
  a = a
  b = b
  c = c
  d = d
  p = p
  q = q
  none = none
  Predicates = {p, q}
  Flows <- AllFlows
  Subgraphs <- AllTrees
INVARIANTS BuiltInOrder CyclicIsCyclic WithinCapacity LookupSucceeds SequencesInOrder
CHECK_DEADLOCK FALSE
