SPECIFICATION Spec
CONSTANTS
  early = early
  init = init
  start = start
  loop = loop
  event = event
  other = other
  anonymous = anonymous
  tick = tick
  i1 = i1
  f1 = f1
  f2 = f2
  f3 = f3
  f4 = f4
  k = k
  main = main
  no_name = no_name
  no_service = no_service
  Projects <- AllProjects
  name_of <- NameOf
  in_order = {event, other}
  Phases <- TopPhases
  Conditions = {k}
  Functions = {f1, f2, f3, f4}
  Interrupts = {i1}
  MaxCalls = 2
INVARIANTS RunsWhatWasAdded AnsweredAfterInit
PROPERTY MainLoopGoesOn
