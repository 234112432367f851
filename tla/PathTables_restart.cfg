\* Two incarnations of the writer, which die anywhere.
SPECIFICATION Spec
CONSTANTS
  A = A
  B = B
  D = D
  Absent = Absent
  Readers = {r1}
  VFabs = {A, B}
  Dests = {D}
  Fabrics <- PortFabrics
  MaxRetries = 1
  MaxCount = 1
  MaxStarts = 2
  ShmMayFail = FALSE
INVARIANT PublishedCoherent
PROPERTY QueryReturns
CHECK_DEADLOCK FALSE
