\* An add() that throws although the job was added
CONSTANTS
  Txs = {t1}
  Workers = {w1}
  None = None
  MaxAttempts = 3
  MaxStalls = 1
SPECIFICATION FairSpec
PROPERTIES
  CompletedIsFinal
CHECK_DEADLOCK FALSE
