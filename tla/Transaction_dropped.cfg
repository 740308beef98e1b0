\* A worker that fails or dies between PROCESSING and COMPLETED
CONSTANTS
  Txs = {t1}
  Workers = {w1, w2}
  None = None
  MaxAttempts = 3
  MaxStalls = 1
SPECIFICATION Spec
INVARIANTS
  AcknowledgedIsDecided
CHECK_DEADLOCK FALSE
