SPECIFICATION Spec
CONSTANTS
  shared = shared
  sub0 = sub0
  sub1 = sub1
  top_field = top_field
  field0 = field0
  field1 = field1
  top_register = top_register
  register = register
  sharedName = sharedName
  name0 = name0
  name1 = name1
  R0 = R0
  R1 = R1
  F0 = F0
  F1 = F1
  no_field = no_field
  no_call = no_call
  no_register = no_register
  nobody = nobody
  Resources = {R0, R1}
  Flows = {F0, F1}
  Registers = {top_register, register}
  Top = {shared}
  unknown = unknown
  Irqs = {shared, sub0, sub1}
  Names = {sharedName, name0, name1}
  Fields = {top_field, field0, field1}
  children <- ChildrenTwo
  name_t <- NamesTwo
  resources_t <- ResourcesTwo
  element_flows <- FlowsTwo
  enable_field <- FieldsTwo
  register_of <- RegistersTwo
  Calls <- MixedCalls
  InitialEnables <- TopEnabled
  MaxCalls = 3
  Callers = {c1, c2}
  MayReinit = FALSE
  MayRaceReset = FALSE
SYMMETRY CallerSymmetry
INVARIANTS
  ShadowIsRegister
  ElementsAgree
PROPERTIES
  NoGlitch
  CallsAreAtomic
CHECK_DEADLOCK FALSE
