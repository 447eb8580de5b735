SPECIFICATION Spec
CONSTANTS
  n1 = n1
  n2 = n2
  Rows = {n1, n2}
  Nameless = {n2}
  Blank = Blank
  None = None
  Views = {"all"}
  Slots = 2
  Queue = 1
  Drops = 1
  Clicks = 1
  Faults = 1
INVARIANTS
  TypeOK
PROPERTIES
  PollingCatchesUp
  GhostsVanish
CHECK_DEADLOCK FALSE
