\* A ring that runs over, any answer of the SA, unloading at any time.
SPECIFICATION Spec
CONSTANTS
  D1 = D1
  D2 = D2
  Dests = {D1}
  RingSize = 2
  Answers = {"ok", "busy", "empty", "fail"}
  MayStop = TRUE
  MaxChanges = 3
INVARIANT TypeOK
PROPERTIES CatchesUp CleanupReturns
CHECK_DEADLOCK FALSE
