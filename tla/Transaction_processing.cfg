\* One transaction on three worker slots, so that two runs whose locks lapsed
\* live on beside a third.  The system stops when every call and job has ended.
CONSTANTS
  Txs = {t1}
  Workers = {w1, w2, w3}
  None = None
  MaxAttempts = 3
  MaxStalls = 1
SPECIFICATION FairSpec
INVARIANTS
  TypeOK
  AcknowledgedWasStarted
  OneRunUnlessReopened
  NotifiedWasCompleted
  CompletedIsNotified
PROPERTIES
  WorkersKeepCompleted
  KeepsContract
  AcceptedJobsEnd
CHECK_DEADLOCK FALSE
