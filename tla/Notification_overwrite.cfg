\* An attempt whose lock lapsed delivers between findUnique and upsert
CONSTANTS
  Txs = {t1}
  Workers = {w1, w2}
  None = None
  MaxAttempts = 3
  MaxStalls = 1
  MaxAdds = 2
SPECIFICATION FairSpec
PROPERTIES
  DeliveredIsFinal
CHECK_DEADLOCK FALSE
