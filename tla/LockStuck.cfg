SPECIFICATION Spec
CONSTANTS
  Calls = {m1, m2}
  Kinds = {"bootstrap", "lock"}
  Amounts = {2}
INVARIANTS LockAloneSucceeds
CHECK_DEADLOCK FALSE
