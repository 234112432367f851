\* One incarnation of the writer, which may fail to create a table.
SPECIFICATION Spec
CONSTANTS
  A = A
  B = B
  D = D
  Absent = Absent
  Readers = {r1}
  VFabs = {A, B}
  Dests = {D}
  Fabrics <- SwappedFabrics
  MaxRetries = 1
  MaxCount = 2
  MaxStarts = 1
  ShmMayFail = TRUE
INVARIANTS TypeOK NoNullRead AnswerMatchesQuery
PROPERTIES FrozenTables ImplementsStore
CHECK_DEADLOCK FALSE
