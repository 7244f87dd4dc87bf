SPECIFICATION Spec

CONSTANTS
  f1 = f1
  f2 = f2
  v1 = v1
  Files = {f1, f2}
  Visits = {v1}
  Sizes = {1, 2}
  Limits = {1, 2}
  MaxTotal = 2
  Budget = 3
  Faults = {"cancel", "evict"}
  None = None

SYMMETRY Symmetry

INVARIANTS
  TypeOK
  QuotaCount
  QuotaBytes
  FilesAgree
  AlarmArmed

PROPERTIES
  AcknowledgedKept
