SPECIFICATION FairSpec

CONSTANTS
  Transfers = {d1, d2}
  d1 = d1
  d2 = d2
  MaxTransfers = 1
  MaxBytes = 3
  MaxChunk = 2

INVARIANTS
  TypeOK
  NobodyWaits
  PullBased

PROPERTIES
  KeepsPromise
  TransferEnds
