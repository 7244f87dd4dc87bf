SPECIFICATION FairBatchSpec

CONSTANTS
  Calls = {1, 2}
  MaxAttempts = 1

PROPERTY
  ComplaintRetried
