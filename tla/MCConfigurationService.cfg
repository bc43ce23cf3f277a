SPECIFICATION Spec
CONSTANTS
  None = None
  touch = touch
  web = web
  r1 = r1
  r2 = r2
  Callers = {touch, web}
  Readers = {r1, r2}
  Serialised = TRUE
  MaxReadLeases = 2
  MaxGeneration = 3
  MaxTrouble = 1
SYMMETRY Alike
INVARIANTS ModelBudget SlotReturned
PROPERTIES StaleEditRefused
CHECK_DEADLOCK FALSE
