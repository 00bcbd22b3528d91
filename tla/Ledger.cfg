SPECIFICATION Spec
CONSTANTS
  Keys = {k1, k2}
  None = None
  Writers = {w1, w2}
  MaxLines = 3
INVARIANTS
  TypeOK
  DuplicatesOverlap
  LossIsBounded
PROPERTIES
  CrashSparesEntries
  ImplementsRecordStore
