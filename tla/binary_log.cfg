SPECIFICATION Spec
CONSTANTS
  c1 = c1
  c2 = c2
  uart = uart
  ram = ram
  uart_t = uart_t
  ram_t = ram_t
  Programs <- Releases
  Forgets = {FALSE}
  reserved_ids = {1}
  module_id_max = 1
  MaxBuilds = 3
  ByteValues = 2
  ShortIds = 8
  ModuleIds = 2
  UnitIds = 2
  Contexts = {c1, c2}
  Destinations <- TwoDestinations
  section_of <- SectionOf
  CallSites <- Sites
  Units = {3}
  Versions <- BuildIds
  FATAL = 1
  MaxLogs = 2
  no_one = no_one
INVARIANTS IdsUnique LogsDecode FatalIsLogged
PROPERTIES IdsKept LogCallsEnd
CHECK_DEADLOCK FALSE
