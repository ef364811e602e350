SPECIFICATION HandlerSpec
CONSTANTS
  f = f
  g = g
  p = p
  no_msg = no_msg
  Fields = {f, g}
  Indexed = {f, g}
  Values = {0, 1, 2}
  Modulus = 3
  Predicates = {p}
  Messages <- AllMessages
  Services <- AllServices
INVARIANTS
  IndexSelects
  TermsMeanMatchers
  CalledAsMatched
