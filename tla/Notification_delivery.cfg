\* One notification on three worker slots, two of them possibly without their
\* lock; its job is added twice.  The system stops when every job has ended.
CONSTANTS
  Txs = {t1}
  Workers = {w1, w2, w3}
  None = None
  MaxAttempts = 3
  MaxStalls = 1
  MaxAdds = 2
SPECIFICATION FairSpec
INVARIANTS
  TypeOK
  AcknowledgedIsDelivered
  DeadLetterIsFinalFailure
PROPERTIES
  DeliveredIsKept
  EnqueuedIsHandled
CHECK_DEADLOCK FALSE
