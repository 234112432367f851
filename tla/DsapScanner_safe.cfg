\* No overflow, an SM that answers.
SPECIFICATION Spec
CONSTANTS
  D1 = D1
  D2 = D2
  Dests = {D1, D2}
  RingSize = 8
  Answers = {"ok"}
  MayStop = TRUE
  MaxChanges = 4
INVARIANTS NoLostWakeup SettledIsCurrent
CHECK_DEADLOCK FALSE
