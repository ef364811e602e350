SPECIFICATION FairDispatchSpec
CONSTANTS
  shared = shared
  nested = nested
  sub0 = sub0
  sub1 = sub1
  solo = solo
  top_field = top_field
  mid_field = mid_field
  field0 = field0
  field1 = field1
  solo_field = solo_field
  top_register = top_register
  register = register
  R0 = R0
  R1 = R1
  F0 = F0
  F1 = F1
  FS = FS
  unknown = unknown
  no_field = no_field
  no_call = no_call
  no_register = no_register
  nobody = nobody
  Irqs = {shared, nested, sub0, sub1, solo}
  Names = {shared, nested, sub0, sub1, solo}
  Top = {shared, solo}
  Resources = {R0, R1}
  Flows = {F0, F1, FS}
  Registers = {top_register, register}
  Fields = {top_field, mid_field, field0, field1, solo_field}
  children <- Children
  name_t <- OwnNames
  element_flows <- FlowsOf
  enable_field <- FieldsOf
  register_of <- RegisterOf
  InitialEnables <- StaticEnables
  Callers = {c1}
  MayReinit = FALSE
  MayRaceReset = FALSE
  Calls <- SwitchingCalls
  resources_t <- ResourcesOf
  status_policy <- PoliciesOf
  MaxCalls = 2
  MaxEvents = 2
  Contexts = {x1, x2}
  active_flows = {F0, F1, FS}
INVARIANT EventKept
PROPERTIES FlowsOnlyWhenOn EventsServed
CHECK_DEADLOCK FALSE
