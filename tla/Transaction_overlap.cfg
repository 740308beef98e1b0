\* FAILED written over PROCESSING, and a lapsed lock
CONSTANTS
  Txs = {t1}
  Workers = {w1, w2}
  None = None
  MaxAttempts = 3
  MaxStalls = 1
SPECIFICATION Spec
INVARIANTS
  OneRun
CHECK_DEADLOCK FALSE
