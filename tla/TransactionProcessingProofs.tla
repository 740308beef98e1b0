--------------------- MODULE TransactionProcessingProofs ---------------------
(***************************************************************************)
(* The safety properties of TransactionProcessing for any number of        *)
(* transactions, worker slots, attempts and tolerated stalls, and the      *)
(* refinement of TransactionContract.                                      *)
(***************************************************************************)
EXTENDS TransactionProcessing, TLAPS

USE DEF Call, SetStatus, SetFailed, Move, Free, rest, Statuses, Calls, Retryable,
        Q!Job, Q!NoJob, Q!NewJob, Q!QueueTypeOK, Q!Locked, Q!StalledOut,
        Q!LastAttempt

-----------------------------------------------------------------------------
\* A job that will run again has an attempt left, and one that runs or will
\* run has not stalled too often.
JobsBounded ==
  \A t \in Txs :
     /\ jobs[t].state \in {"waiting", "active", "delayed"} => jobs[t].made < MaxAttempts
     /\ jobs[t].state \in {"active", "delayed"} => jobs[t].stalls <= MaxStalls

\* A worker slot in use is on a job that was added
OnJobs ==
  /\ \A w \in Workers : at[w] # "idle" => on[w] \in Txs
  /\ \A w \in Workers : on[w] \in Txs => jobs[on[w]].state # "none"
  /\ \A e \in failing : jobs[e[1]].state # "none"

\* How far createTransaction is
StoredFirst ==
  \A t \in Txs :
     /\ svc[t] = "insert" => tx[t] = "absent"
     /\ svc[t] = "add" => tx[t] = "QUEUED"
     /\ svc[t] = "rollback" => tx[t] # "absent"
     /\ svc[t] \in {"insert", "add"} => jobs[t].state = "none"
     /\ svc[t] = "returned" => jobs[t].state # "none"
     /\ jobs[t].state # "none" => tx[t] # "absent"

TInv == TypeOK /\ JobsBounded /\ OnJobs /\ StoredFirst

LEMMA TypeOKStep ==
  ASSUME TInv, [Next]_vars
  PROVE  TypeOK'
<1> USE TPAssumption DEF TInv
<1>1. ASSUME NEW t \in Txs, Insert(t) \/ Rollback(t) \/ CallDies(t)
      PROVE  TypeOK'
  BY <1>1 DEF Insert, Rollback, CallDies, TypeOK
<1>2. ASSUME NEW t \in Txs, AddJob(t)
      PROVE  TypeOK'
  <2>1. Q!NewJob \in Q!Job
    OBVIOUS
  <2>2. jobs' \in [Txs -> Q!Job]
    BY <1>2, <2>1 DEF AddJob, Q!Add, TypeOK
  <2>3. QED BY <1>2, <2>2 DEF AddJob, TypeOK
<1>3. ASSUME NEW t \in Txs, DiscardStalled(t)
      PROVE  TypeOK'
  BY <1>3 DEF DiscardStalled, Q!Discard, TypeOK, JobsBounded
<1>4. ASSUME NEW t \in Txs, Promote(t)
      PROVE  TypeOK'
  BY <1>4 DEF Promote, Q!Promote, TypeOK
<1>5. ASSUME NEW t \in Txs, Stall(t)
      PROVE  TypeOK'
  BY <1>5 DEF Stall, Q!Stall, TypeOK, JobsBounded
<1>6. ASSUME NEW w \in Workers, NEW t \in Txs, Take(w, t)
      PROVE  TypeOK'
  <2>1. jobs[t] \in Q!Job
    BY DEF TypeOK
  <2>2. jobs'[t] = [jobs[t] EXCEPT !.state = "active", !.lock = w]
    BY <1>6 DEF Take, Q!Take, TypeOK
  <2>3. jobs'[t] \in Q!Job
    BY <2>1, <2>2
  <2>4. jobs' \in [Txs -> Q!Job]
    BY <1>6, <2>3 DEF Take, Q!Take, TypeOK
  <2>5. QED BY <1>6, <2>4 DEF Take, TypeOK
<1>7. ASSUME NEW w \in Workers,
             Read(w) \/ Start(w) \/ CompleteTx(w) \/ EnqueueNotification(w)
      PROVE  TypeOK'
  BY <1>7 DEF Read, Start, CompleteTx, EnqueueNotification, TypeOK, OnJobs
<1>8. ASSUME NEW w \in Workers, Acknowledge(w) \/ WorkerDies(w)
      PROVE  TypeOK'
  BY <1>8 DEF Acknowledge, WorkerDies, Q!Complete, TypeOK, OnJobs
<1>9. ASSUME NEW w \in Workers, FailAttempt(w)
      PROVE  TypeOK'
  BY <1>9 DEF FailAttempt, Q!Fail, TypeOK, OnJobs, JobsBounded
<1>10. ASSUME NEW e \in failing, OnFailed(e) \/ OnFailedLost(e)
      PROVE  TypeOK'
  BY <1>10 DEF OnFailed, OnFailedLost, TypeOK
<1>11. CASE UNCHANGED vars
  BY <1>11 DEF vars, TypeOK
<1>12. QED BY <1>1, <1>2, <1>3, <1>4, <1>5, <1>6, <1>7, <1>8, <1>9, <1>10,
          <1>11 DEF Next, Work

\* Attempts and stalls run out: a job that would exceed them is failed.
LEMMA JobsBoundedStep ==
  ASSUME TInv, [Next]_vars
  PROVE  JobsBounded'
<1> USE TPAssumption DEF TInv, TypeOK
<1>1. ASSUME NEW t \in Txs, Insert(t) \/ Rollback(t) \/ CallDies(t)
      PROVE  JobsBounded'
  BY <1>1 DEF Insert, Rollback, CallDies, JobsBounded
<1>2. ASSUME NEW t \in Txs, AddJob(t)
      PROVE  JobsBounded'
  BY <1>2 DEF AddJob, Q!Add, JobsBounded
<1>3. ASSUME NEW t \in Txs, DiscardStalled(t)
      PROVE  JobsBounded'
  BY <1>3 DEF DiscardStalled, Q!Discard, JobsBounded
<1>4. ASSUME NEW t \in Txs, Promote(t)
      PROVE  JobsBounded'
  BY <1>4 DEF Promote, Q!Promote, JobsBounded
<1>5. ASSUME NEW t \in Txs, Stall(t)
      PROVE  JobsBounded'
  BY <1>5 DEF Stall, Q!Stall, JobsBounded
<1>6. ASSUME NEW w \in Workers, NEW t \in Txs, Take(w, t)
      PROVE  JobsBounded'
  BY <1>6 DEF Take, Q!Take, JobsBounded
<1>7. ASSUME NEW w \in Workers,
             Read(w) \/ Start(w) \/ CompleteTx(w) \/ EnqueueNotification(w)
      PROVE  JobsBounded'
  BY <1>7 DEF Read, Start, CompleteTx, EnqueueNotification, JobsBounded
<1>8. ASSUME NEW w \in Workers, Acknowledge(w) \/ WorkerDies(w)
      PROVE  JobsBounded'
  BY <1>8 DEF Acknowledge, WorkerDies, Q!Complete, JobsBounded
<1>9. ASSUME NEW w \in Workers, FailAttempt(w)
      PROVE  JobsBounded'
  BY <1>9 DEF FailAttempt, Q!Fail, JobsBounded
<1>10. ASSUME NEW e \in failing, OnFailed(e) \/ OnFailedLost(e)
      PROVE  JobsBounded'
  BY <1>10 DEF OnFailed, OnFailedLost, JobsBounded
<1>11. CASE UNCHANGED vars
  BY <1>11 DEF vars, JobsBounded
<1>12. QED BY <1>1, <1>2, <1>3, <1>4, <1>5, <1>6, <1>7, <1>8, <1>9, <1>10, <1>11 DEF Next, Work

\* Nothing runs and nothing fails but what was added, and a job once added is
\* known to the queue for good.
LEMMA OnJobsStep ==
  ASSUME TInv, [Next]_vars
  PROVE  OnJobs'
<1> USE TPAssumption DEF TInv, TypeOK
<1>1. ASSUME NEW t \in Txs, Insert(t) \/ Rollback(t) \/ CallDies(t)
      PROVE  OnJobs'
  BY <1>1 DEF Insert, Rollback, CallDies, OnJobs, JobsBounded
<1>2. ASSUME NEW t \in Txs, AddJob(t)
      PROVE  OnJobs'
  BY <1>2 DEF AddJob, Q!Add, OnJobs, JobsBounded
<1>3. ASSUME NEW t \in Txs, DiscardStalled(t)
      PROVE  OnJobs'
  BY <1>3 DEF DiscardStalled, Q!Discard, OnJobs, JobsBounded
<1>4. ASSUME NEW t \in Txs, Promote(t)
      PROVE  OnJobs'
  BY <1>4 DEF Promote, Q!Promote, OnJobs, JobsBounded
<1>5. ASSUME NEW t \in Txs, Stall(t)
      PROVE  OnJobs'
  BY <1>5 DEF Stall, Q!Stall, OnJobs, JobsBounded
<1>6. ASSUME NEW w \in Workers, NEW t \in Txs, Take(w, t)
      PROVE  OnJobs'
  BY <1>6 DEF Take, Q!Take, OnJobs, JobsBounded
<1>7. ASSUME NEW w \in Workers,
             Read(w) \/ Start(w) \/ CompleteTx(w) \/ EnqueueNotification(w)
      PROVE  OnJobs'
  BY <1>7 DEF Read, Start, CompleteTx, EnqueueNotification, OnJobs, JobsBounded
<1>8. ASSUME NEW w \in Workers, Acknowledge(w) \/ WorkerDies(w)
      PROVE  OnJobs'
  BY <1>8 DEF Acknowledge, WorkerDies, Q!Complete, OnJobs, JobsBounded
<1>9. ASSUME NEW w \in Workers, FailAttempt(w)
      PROVE  OnJobs'
  BY <1>9 DEF FailAttempt, Q!Fail, OnJobs, JobsBounded
<1>10. ASSUME NEW e \in failing, OnFailed(e) \/ OnFailedLost(e)
      PROVE  OnJobs'
  BY <1>10 DEF OnFailed, OnFailedLost, OnJobs, JobsBounded
<1>11. CASE UNCHANGED vars
  BY <1>11 DEF vars, OnJobs, JobsBounded
<1>12. QED BY <1>1, <1>2, <1>3, <1>4, <1>5, <1>6, <1>7, <1>8, <1>9, <1>10, <1>11 DEF Next, Work

\* createTransaction inserts before it adds, and no step takes a row away.
LEMMA StoredFirstStep ==
  ASSUME TInv, [Next]_vars
  PROVE  StoredFirst'
<1> USE TPAssumption DEF TInv, TypeOK
<1>1. ASSUME NEW t \in Txs, Insert(t) \/ Rollback(t) \/ CallDies(t)
      PROVE  StoredFirst'
  BY <1>1 DEF Insert, Rollback, CallDies, StoredFirst, OnJobs
<1>2. ASSUME NEW t \in Txs, AddJob(t)
      PROVE  StoredFirst'
  BY <1>2 DEF AddJob, Q!Add, StoredFirst, OnJobs
<1>3. ASSUME NEW t \in Txs, DiscardStalled(t)
      PROVE  StoredFirst'
  BY <1>3 DEF DiscardStalled, Q!Discard, StoredFirst, OnJobs
<1>4. ASSUME NEW t \in Txs, Promote(t)
      PROVE  StoredFirst'
  BY <1>4 DEF Promote, Q!Promote, StoredFirst, OnJobs
<1>5. ASSUME NEW t \in Txs, Stall(t)
      PROVE  StoredFirst'
  BY <1>5 DEF Stall, Q!Stall, StoredFirst, OnJobs
<1>6. ASSUME NEW w \in Workers, NEW t \in Txs, Take(w, t)
      PROVE  StoredFirst'
  BY <1>6 DEF Take, Q!Take, StoredFirst, OnJobs
<1>7. ASSUME NEW w \in Workers,
             Read(w) \/ Start(w) \/ CompleteTx(w) \/ EnqueueNotification(w)
      PROVE  StoredFirst'
  BY <1>7 DEF Read, Start, CompleteTx, EnqueueNotification, StoredFirst, OnJobs
<1>8. ASSUME NEW w \in Workers, Acknowledge(w) \/ WorkerDies(w)
      PROVE  StoredFirst'
  BY <1>8 DEF Acknowledge, WorkerDies, Q!Complete, StoredFirst, OnJobs
<1>9. ASSUME NEW w \in Workers, FailAttempt(w)
      PROVE  StoredFirst'
  BY <1>9 DEF FailAttempt, Q!Fail, StoredFirst, OnJobs
<1>10. ASSUME NEW e \in failing, OnFailed(e) \/ OnFailedLost(e)
      PROVE  StoredFirst'
  BY <1>10 DEF OnFailed, OnFailedLost, StoredFirst, OnJobs
<1>11. CASE UNCHANGED vars
  BY <1>11 DEF vars, StoredFirst, OnJobs
<1>12. QED BY <1>1, <1>2, <1>3, <1>4, <1>5, <1>6, <1>7, <1>8, <1>9, <1>10, <1>11 DEF Next, Work

-----------------------------------------------------------------------------
\* A run gets past the status filter, and a job past its end, only with a
\* transaction that was taken out of QUEUED
Started ==
  /\ AcknowledgedWasStarted
  /\ \A w \in Workers :
       at[w] \in {"complete", "notify", "ack"} => tx[on[w]] \notin {"absent", "QUEUED"}

\* What holds of a notified transaction holds of one about to be notified
Completed(t) == tx[t] = "COMPLETED" \/ svc[t] = "threw"

ToldCompleted ==
  /\ \A t \in notified : Completed(t)
  /\ \A w \in Workers : at[w] = "notify" => Completed(on[w])

\* A run that passed the filter keeps the status, unless FAILED overwrites it
FilterHolds ==
  /\ OneRunUnlessReopened
  /\ \A w \in Workers :
       at[w] = "complete" /\ on[w] \notin reopened => tx[on[w]] = "PROCESSING"

\* As long as no live run of a transaction lost its lock, its one run has it
LocksHeld ==
  \A w \in Workers : at[w] # "idle" /\ on[w] \notin lapsed => Q!Locked(on[w], w)

ToldInTime ==
  /\ CompletedIsNotified
  /\ \A w \in Workers :
       on[w] \notin unaddressed \cup lapsed =>
         /\ at[w] = "start" => tx[on[w]] # "COMPLETED"
         /\ at[w] = "ack" /\ tx[on[w]] = "COMPLETED" => on[w] \in notified

\* A job is done only by way of Read, which finds a stored transaction, and
\* Start, which leaves none QUEUED.
LEMMA StartedStep ==
  ASSUME TInv, Started, [Next]_vars
  PROVE  Started'
<1> USE TPAssumption DEF TInv, TypeOK, OnJobs, StoredFirst
<1>1. ASSUME NEW t \in Txs, Insert(t) \/ Rollback(t) \/ CallDies(t)
      PROVE  Started'
  BY <1>1 DEF Insert, Rollback, CallDies, Started, AcknowledgedWasStarted
<1>2. ASSUME NEW t \in Txs, AddJob(t)
      PROVE  Started'
  BY <1>2 DEF AddJob, Q!Add, Started, AcknowledgedWasStarted
<1>3. ASSUME NEW t \in Txs, DiscardStalled(t) \/ Promote(t)
      PROVE  Started'
  BY <1>3 DEF DiscardStalled, Q!Discard, Promote, Q!Promote, Started, AcknowledgedWasStarted
<1>4. ASSUME NEW t \in Txs, Stall(t)
      PROVE  Started'
  BY <1>4 DEF Stall, Q!Stall, Started, AcknowledgedWasStarted
<1>5. ASSUME NEW w \in Workers, NEW t \in Txs, Take(w, t)
      PROVE  Started'
  BY <1>5 DEF Take, Q!Take, Started, AcknowledgedWasStarted
<1>6. ASSUME NEW w \in Workers, Read(w)
      PROVE  Started'
  BY <1>6 DEF Read, Started, AcknowledgedWasStarted
<1>7. ASSUME NEW w \in Workers, Start(w)
      PROVE  Started'
  BY <1>7 DEF Start, Started, AcknowledgedWasStarted
<1>8. ASSUME NEW w \in Workers, CompleteTx(w)
      PROVE  Started'
  BY <1>8 DEF CompleteTx, Started, AcknowledgedWasStarted
<1>9. ASSUME NEW w \in Workers, EnqueueNotification(w)
      PROVE  Started'
  BY <1>9 DEF EnqueueNotification, Started, AcknowledgedWasStarted
<1>10. ASSUME NEW w \in Workers, Acknowledge(w) \/ WorkerDies(w)
      PROVE  Started'
  BY <1>10 DEF Acknowledge, WorkerDies, Q!Complete, Started, AcknowledgedWasStarted
<1>11. ASSUME NEW w \in Workers, FailAttempt(w)
      PROVE  Started'
  BY <1>11 DEF FailAttempt, Q!Fail, Started, AcknowledgedWasStarted
<1>12. ASSUME NEW e \in failing, OnFailed(e) \/ OnFailedLost(e)
      PROVE  Started'
  BY <1>12 DEF OnFailed, OnFailedLost, Started, AcknowledgedWasStarted
<1>13. CASE UNCHANGED vars
  BY <1>13 DEF vars, Started, AcknowledgedWasStarted
<1>14. QED BY <1>1, <1>2, <1>3, <1>4, <1>5, <1>6, <1>7,
          <1>8, <1>9, <1>10, <1>11, <1>12, <1>13 DEF Next, Work

\* Only CompleteTx and Read lead to the notification.
LEMMA ToldCompletedStep ==
  ASSUME TInv, ToldCompleted, [Next]_vars
  PROVE  ToldCompleted'
<1> USE TPAssumption DEF TInv, TypeOK, OnJobs, StoredFirst
<1>1. ASSUME NEW t \in Txs, Insert(t) \/ Rollback(t) \/ CallDies(t)
      PROVE  ToldCompleted'
  BY <1>1 DEF Insert, Rollback, CallDies, ToldCompleted, Completed
<1>2. ASSUME NEW t \in Txs, AddJob(t)
      PROVE  ToldCompleted'
  BY <1>2 DEF AddJob, Q!Add, ToldCompleted, Completed
<1>3. ASSUME NEW t \in Txs, DiscardStalled(t) \/ Promote(t)
      PROVE  ToldCompleted'
  BY <1>3 DEF DiscardStalled, Q!Discard, Promote, Q!Promote, ToldCompleted, Completed
<1>4. ASSUME NEW t \in Txs, Stall(t)
      PROVE  ToldCompleted'
  BY <1>4 DEF Stall, Q!Stall, ToldCompleted, Completed
<1>5. ASSUME NEW w \in Workers, NEW t \in Txs, Take(w, t)
      PROVE  ToldCompleted'
  BY <1>5 DEF Take, Q!Take, ToldCompleted, Completed
<1>6. ASSUME NEW w \in Workers, Read(w)
      PROVE  ToldCompleted'
  BY <1>6 DEF Read, ToldCompleted, Completed
<1>7. ASSUME NEW w \in Workers, Start(w)
      PROVE  ToldCompleted'
  BY <1>7 DEF Start, ToldCompleted, Completed
<1>8. ASSUME NEW w \in Workers, CompleteTx(w)
      PROVE  ToldCompleted'
  BY <1>8 DEF CompleteTx, ToldCompleted, Completed
<1>9. ASSUME NEW w \in Workers, EnqueueNotification(w)
      PROVE  ToldCompleted'
  BY <1>9 DEF EnqueueNotification, ToldCompleted, Completed
<1>10. ASSUME NEW w \in Workers, Acknowledge(w) \/ WorkerDies(w)
      PROVE  ToldCompleted'
  BY <1>10 DEF Acknowledge, WorkerDies, Q!Complete, ToldCompleted, Completed
<1>11. ASSUME NEW w \in Workers, FailAttempt(w)
      PROVE  ToldCompleted'
  BY <1>11 DEF FailAttempt, Q!Fail, ToldCompleted, Completed
<1>12. ASSUME NEW e \in failing, OnFailed(e) \/ OnFailedLost(e)
      PROVE  ToldCompleted'
  BY <1>12 DEF OnFailed, OnFailedLost, ToldCompleted, Completed
<1>13. CASE UNCHANGED vars
  BY <1>13 DEF vars, ToldCompleted, Completed
<1>14. QED BY <1>1, <1>2, <1>3, <1>4, <1>5, <1>6, <1>7,
          <1>8, <1>9, <1>10, <1>11, <1>12, <1>13 DEF Next, Work

\* The updateMany that found a transaction QUEUED or FAILED leaves it neither.
LEMMA FilterHoldsStep ==
  ASSUME TInv, FilterHolds, [Next]_vars
  PROVE  FilterHolds'
<1> USE TPAssumption DEF TInv, TypeOK, OnJobs, StoredFirst
<1>1. ASSUME NEW t \in Txs, Insert(t) \/ Rollback(t) \/ CallDies(t)
      PROVE  FilterHolds'
  BY <1>1 DEF Insert, Rollback, CallDies, FilterHolds, OneRunUnlessReopened
<1>2. ASSUME NEW t \in Txs, AddJob(t)
      PROVE  FilterHolds'
  BY <1>2 DEF AddJob, Q!Add, FilterHolds, OneRunUnlessReopened
<1>3. ASSUME NEW t \in Txs, DiscardStalled(t) \/ Promote(t)
      PROVE  FilterHolds'
  BY <1>3 DEF DiscardStalled, Q!Discard, Promote, Q!Promote, FilterHolds, OneRunUnlessReopened
<1>4. ASSUME NEW t \in Txs, Stall(t)
      PROVE  FilterHolds'
  BY <1>4 DEF Stall, Q!Stall, FilterHolds, OneRunUnlessReopened
<1>5. ASSUME NEW w \in Workers, NEW t \in Txs, Take(w, t)
      PROVE  FilterHolds'
  BY <1>5 DEF Take, Q!Take, FilterHolds, OneRunUnlessReopened
<1>6. ASSUME NEW w \in Workers, Read(w)
      PROVE  FilterHolds'
  BY <1>6 DEF Read, FilterHolds, OneRunUnlessReopened
<1>7. ASSUME NEW w \in Workers, Start(w)
      PROVE  FilterHolds'
  BY <1>7 DEF Start, FilterHolds, OneRunUnlessReopened
<1>8. ASSUME NEW w \in Workers, CompleteTx(w)
      PROVE  FilterHolds'
  BY <1>8 DEF CompleteTx, FilterHolds, OneRunUnlessReopened
<1>9. ASSUME NEW w \in Workers, EnqueueNotification(w)
      PROVE  FilterHolds'
  BY <1>9 DEF EnqueueNotification, FilterHolds, OneRunUnlessReopened
<1>10. ASSUME NEW w \in Workers, Acknowledge(w) \/ WorkerDies(w)
      PROVE  FilterHolds'
  BY <1>10 DEF Acknowledge, WorkerDies, Q!Complete, FilterHolds, OneRunUnlessReopened
<1>11. ASSUME NEW w \in Workers, FailAttempt(w)
      PROVE  FilterHolds'
  BY <1>11 DEF FailAttempt, Q!Fail, FilterHolds, OneRunUnlessReopened
<1>12. ASSUME NEW e \in failing, OnFailed(e) \/ OnFailedLost(e)
      PROVE  FilterHolds'
  BY <1>12 DEF OnFailed, OnFailedLost, FilterHolds, OneRunUnlessReopened
<1>13. CASE UNCHANGED vars
  BY <1>13 DEF vars, FilterHolds, OneRunUnlessReopened
<1>14. QED BY <1>1, <1>2, <1>3, <1>4, <1>5, <1>6, <1>7,
          <1>8, <1>9, <1>10, <1>11, <1>12, <1>13 DEF Next, Work

\* A lock is lost with the worker, or lapsed says so.
LEMMA LocksHeldStep ==
  ASSUME TInv, LocksHeld, [Next]_vars
  PROVE  LocksHeld'
<1> USE TPAssumption DEF TInv, TypeOK, OnJobs, StoredFirst
<1>1. ASSUME NEW t \in Txs, Insert(t) \/ Rollback(t) \/ CallDies(t)
      PROVE  LocksHeld'
  BY <1>1 DEF Insert, Rollback, CallDies, LocksHeld, Abandoned
<1>2. ASSUME NEW t \in Txs, AddJob(t)
      PROVE  LocksHeld'
  BY <1>2 DEF AddJob, Q!Add, LocksHeld, Abandoned
<1>3. ASSUME NEW t \in Txs, DiscardStalled(t) \/ Promote(t)
      PROVE  LocksHeld'
  BY <1>3 DEF DiscardStalled, Q!Discard, Promote, Q!Promote, LocksHeld, Abandoned
<1>4. ASSUME NEW t \in Txs, Stall(t)
      PROVE  LocksHeld'
  BY <1>4 DEF Stall, Q!Stall, LocksHeld, Abandoned
<1>5. ASSUME NEW w \in Workers, NEW t \in Txs, Take(w, t)
      PROVE  LocksHeld'
  BY <1>5 DEF Take, Q!Take, LocksHeld, Abandoned
<1>6. ASSUME NEW w \in Workers, Read(w)
      PROVE  LocksHeld'
  BY <1>6 DEF Read, LocksHeld, Abandoned
<1>7. ASSUME NEW w \in Workers, Start(w)
      PROVE  LocksHeld'
  BY <1>7 DEF Start, LocksHeld, Abandoned
<1>8. ASSUME NEW w \in Workers, CompleteTx(w)
      PROVE  LocksHeld'
  BY <1>8 DEF CompleteTx, LocksHeld, Abandoned
<1>9. ASSUME NEW w \in Workers, EnqueueNotification(w)
      PROVE  LocksHeld'
  BY <1>9 DEF EnqueueNotification, LocksHeld, Abandoned
<1>10. ASSUME NEW w \in Workers, Acknowledge(w) \/ WorkerDies(w)
      PROVE  LocksHeld'
  BY <1>10 DEF Acknowledge, WorkerDies, Q!Complete, LocksHeld, Abandoned
<1>11. ASSUME NEW w \in Workers, FailAttempt(w)
      PROVE  LocksHeld'
  BY <1>11 DEF FailAttempt, Q!Fail, LocksHeld, Abandoned
<1>12. ASSUME NEW e \in failing, OnFailed(e) \/ OnFailedLost(e)
      PROVE  LocksHeld'
  BY <1>12 DEF OnFailed, OnFailedLost, LocksHeld, Abandoned
<1>13. CASE UNCHANGED vars
  BY <1>13 DEF vars, LocksHeld, Abandoned
<1>14. QED BY <1>1, <1>2, <1>3, <1>4, <1>5, <1>6, <1>7,
          <1>8, <1>9, <1>10, <1>11, <1>12, <1>13 DEF Next, Work

\* The one run of a transaction acknowledges it COMPLETED only after the add.
LEMMA ToldInTimeStep ==
  ASSUME TInv, LocksHeld, ToldInTime, [Next]_vars
  PROVE  ToldInTime'
<1> USE TPAssumption DEF TInv, TypeOK, OnJobs, StoredFirst
<1>1. ASSUME NEW t \in Txs, Insert(t) \/ Rollback(t) \/ CallDies(t)
      PROVE  ToldInTime'
  BY <1>1 DEF Insert, Rollback, CallDies, ToldInTime, CompletedIsNotified, LocksHeld
<1>2. ASSUME NEW t \in Txs, AddJob(t)
      PROVE  ToldInTime'
  BY <1>2 DEF AddJob, Q!Add, ToldInTime, CompletedIsNotified, LocksHeld
<1>3. ASSUME NEW t \in Txs, DiscardStalled(t) \/ Promote(t)
      PROVE  ToldInTime'
  BY <1>3 DEF DiscardStalled, Q!Discard, Promote, Q!Promote, ToldInTime, CompletedIsNotified, LocksHeld
<1>4. ASSUME NEW t \in Txs, Stall(t)
      PROVE  ToldInTime'
  BY <1>4 DEF Stall, Q!Stall, ToldInTime, CompletedIsNotified, LocksHeld
<1>5. ASSUME NEW w \in Workers, NEW t \in Txs, Take(w, t)
      PROVE  ToldInTime'
  BY <1>5 DEF Take, Q!Take, ToldInTime, CompletedIsNotified, LocksHeld
<1>6. ASSUME NEW w \in Workers, Read(w)
      PROVE  ToldInTime'
  BY <1>6 DEF Read, ToldInTime, CompletedIsNotified, LocksHeld
<1>7. ASSUME NEW w \in Workers, Start(w)
      PROVE  ToldInTime'
  BY <1>7 DEF Start, ToldInTime, CompletedIsNotified, LocksHeld
<1>8. ASSUME NEW w \in Workers, CompleteTx(w)
      PROVE  ToldInTime'
  BY <1>8 DEF CompleteTx, ToldInTime, CompletedIsNotified, LocksHeld
<1>9. ASSUME NEW w \in Workers, EnqueueNotification(w)
      PROVE  ToldInTime'
  BY <1>9 DEF EnqueueNotification, ToldInTime, CompletedIsNotified, LocksHeld
<1>10. ASSUME NEW w \in Workers, Acknowledge(w) \/ WorkerDies(w)
      PROVE  ToldInTime'
  BY <1>10 DEF Acknowledge, WorkerDies, Q!Complete, ToldInTime, CompletedIsNotified, LocksHeld
<1>11. ASSUME NEW w \in Workers, FailAttempt(w)
      PROVE  ToldInTime'
  BY <1>11 DEF FailAttempt, Q!Fail, ToldInTime, CompletedIsNotified, LocksHeld
<1>12. ASSUME NEW e \in failing, OnFailed(e) \/ OnFailedLost(e)
      PROVE  ToldInTime'
  BY <1>12 DEF OnFailed, OnFailedLost, ToldInTime, CompletedIsNotified, LocksHeld
<1>13. CASE UNCHANGED vars
  BY <1>13 DEF vars, ToldInTime, CompletedIsNotified, LocksHeld
<1>14. QED BY <1>1, <1>2, <1>3, <1>4, <1>5, <1>6, <1>7,
          <1>8, <1>9, <1>10, <1>11, <1>12, <1>13 DEF Next, Work

-----------------------------------------------------------------------------
(***************************************************************************)
(* Refinement: every step is one of the contract.                          *)
(***************************************************************************)
\* The end a position of createTransaction stands for
End(pos) == IF pos = "returned" THEN "returned"
            ELSE IF pos \in {"threw", "died"} THEN "threw" ELSE "running"

\* A call that moves on ends with its new position.
LEMMA OutcomeMoves ==
  ASSUME TypeOK, NEW t \in Txs, NEW pos, svc' = [svc EXCEPT ![t] = pos]
  PROVE  /\ Outcome' = [Outcome EXCEPT ![t] = End(pos)]
         /\ End(pos) = Outcome[t] => UNCHANGED Outcome
<1>1. \A u \in Txs : svc'[u] = IF u = t THEN pos ELSE svc[u]
  BY DEF TypeOK
<1>2. Outcome' = [u \in Txs |-> IF u = t THEN End(pos) ELSE Outcome[u]]
  BY <1>1 DEF Outcome, End
<1>3. Outcome = [u \in Txs |-> Outcome[u]]
  BY DEF Outcome
<1>4. QED BY <1>2, <1>3

\* A status never comes from a job that was not added, and a call ends once.
LEMMA CallSteps ==
  ASSUME TInv, NEW t \in Txs,
         Insert(t) \/ AddJob(t) \/ Rollback(t) \/ CallDies(t)
  PROVE  [Contract!Next]_Contract!vars
<1> USE DEF TInv, TypeOK, StoredFirst, Contract!SetStatus, Contract!EndCall
<1>2. CASE Insert(t)
  <2>1. UNCHANGED Enqueued /\ tx[t] = "absent" /\ Outcome[t] = "running"
    BY <1>2 DEF Insert, Enqueued, Outcome
  <2>2. \/ UNCHANGED Outcome /\ SetStatus(t, "QUEUED")
        \/ /\ Outcome' = [Outcome EXCEPT ![t] = "threw"]
           /\ UNCHANGED tx \/ SetStatus(t, "QUEUED")
    BY <1>2, <2>1, OutcomeMoves DEF Insert, End
  <2>3. Contract!Insert(t) \/ Contract!Abort(t)
    BY <2>1, <2>2 DEF Contract!Insert, Contract!Abort
  <2>4. QED BY <2>3 DEF Contract!Next
<1>3. CASE AddJob(t)
  <2>1. UNCHANGED tx /\ tx[t] = "QUEUED" /\ Outcome[t] = "running" /\ t \notin Enqueued
    BY <1>3 DEF AddJob, Outcome, Enqueued
  <2>2. \/ UNCHANGED <<Outcome, Enqueued>>
        \/ UNCHANGED Outcome /\ Enqueued' = Enqueued \cup {t}
        \/ Outcome' = [Outcome EXCEPT ![t] = "returned"] /\ Enqueued' = Enqueued \cup {t}
    <3>1. svc[t] = "add" /\ jobs[t].state = "none"
      BY <1>3 DEF AddJob
    <3>2. Q!Add(t) => Enqueued' = Enqueued \cup {t}
      BY <3>1 DEF Q!Add, Enqueued
    <3>3. UNCHANGED jobs => UNCHANGED Enqueued
      BY DEF Enqueued
    <3>4. QED BY <1>3, <2>1, <3>2, <3>3, OutcomeMoves DEF AddJob, End
  <2>3. Contract!Enqueue(t) \/ UNCHANGED Contract!vars
    BY <2>1, <2>2 DEF Contract!Enqueue, Contract!vars
  <2>4. QED BY <2>3 DEF Contract!Next
<1>4. CASE Rollback(t) \/ CallDies(t)
  <2>1. UNCHANGED Enqueued /\ Outcome[t] = "running"
        /\ Outcome' = [Outcome EXCEPT ![t] = "threw"]
    <3>1. UNCHANGED Enqueued /\ Outcome[t] = "running"
      BY <1>4 DEF Rollback, CallDies, Enqueued, Outcome
    <3>2. QED BY <1>4, <3>1, OutcomeMoves DEF Rollback, CallDies, End
  <2>2. UNCHANGED tx \/ (tx[t] # "absent" /\ SetStatus(t, "FAILED"))
    BY <1>4 DEF Rollback, CallDies
  <2>3. Contract!Abort(t)
    BY <2>1, <2>2 DEF Contract!Abort
  <2>4. QED BY <2>3 DEF Contract!Next
<1>5. QED BY <1>2, <1>3, <1>4

\* A job handed out again is still a job the queue has.
LEMMA StallKeepsEnqueued ==
  ASSUME TypeOK, NEW t \in Txs, Stall(t)
  PROVE  UNCHANGED Enqueued
<1>1. \A u \in Txs : jobs'[u].state = IF u = t THEN "waiting" ELSE jobs[u].state
  BY DEF TypeOK, Stall, Q!Stall
<1>2. jobs[t].state = "active"
  BY DEF Stall, Q!Stall
<1>3. QED BY <1>1, <1>2 DEF Enqueued

\* What workers do to a status the contract lets them, and what the queue does
\* to a job it has is no step of the contract.
LEMMA WorkSteps ==
  ASSUME TInv, Started,
         \/ \E w \in Workers : Work(w) \/ WorkerDies(w)
         \/ \E e \in failing : OnFailed(e) \/ OnFailedLost(e)
         \/ \E t \in Txs : DiscardStalled(t) \/ Promote(t) \/ Stall(t)
  PROVE  [Contract!Next]_Contract!vars
<1> USE TPAssumption DEF TInv, TypeOK, OnJobs, StoredFirst, Started,
        Contract!SetStatus, Contract!vars
<1>1. UNCHANGED Outcome
  BY DEF Outcome, Work, Take, Read, Start, CompleteTx, EnqueueNotification,
    Acknowledge, FailAttempt, WorkerDies, OnFailed, OnFailedLost,
    DiscardStalled, Promote, Stall
<1>2. CASE UNCHANGED jobs
  <2>1. UNCHANGED Enqueued
    BY <1>2 DEF Enqueued
  <2>2. ASSUME NEW w \in Workers, Start(w) \/ CompleteTx(w)
        PROVE  [Contract!Next]_Contract!vars
    <3>1. on[w] \in Txs /\ on[w] \in Enqueued
      BY <2>2 DEF Start, CompleteTx, Enqueued
    <3>2. Contract!Start(on[w]) \/ Contract!Complete(on[w]) \/ UNCHANGED tx
      BY <1>1, <2>1, <2>2, <3>1 DEF Start, CompleteTx, Contract!Start, Contract!Complete
    <3>3. QED BY <1>1, <2>1, <3>1, <3>2 DEF Contract!Next
  <2>3. ASSUME NEW e \in failing, OnFailed(e)
        PROVE  [Contract!Next]_Contract!vars
    <3>1. e[1] \in Txs /\ e[1] \in Enqueued
      BY DEF Enqueued
    <3>2. Contract!Fail(e[1]) \/ UNCHANGED tx
      BY <1>1, <2>1, <2>3, <3>1 DEF OnFailed, Contract!Fail
    <3>3. QED BY <1>1, <2>1, <3>1, <3>2 DEF Contract!Next
  <2>4. CASE UNCHANGED tx
    BY <1>1, <2>1, <2>4
  <2>5. QED BY <2>2, <2>3, <2>4 DEF Work, Take, Read, EnqueueNotification,
               Acknowledge, FailAttempt, WorkerDies, OnFailedLost,
               DiscardStalled, Promote, Stall
<1>3. CASE jobs' # jobs
  <2>1. UNCHANGED tx
    BY <1>3 DEF Work, Take, Read, Start, CompleteTx, EnqueueNotification,
      Acknowledge, FailAttempt, WorkerDies, OnFailed, OnFailedLost,
      DiscardStalled, Promote, Stall
  <2>2. ASSUME NEW t \in Txs, DiscardStalled(t) \/ Promote(t) \/ Stall(t)
        PROVE  UNCHANGED Enqueued
    <3>1. CASE DiscardStalled(t)
      BY <3>1 DEF Enqueued, DiscardStalled, Q!Discard
    <3>2. CASE Promote(t)
      BY <3>2 DEF Enqueued, Promote, Q!Promote
    <3>3. CASE Stall(t)
      BY <3>3, StallKeepsEnqueued
    <3>4. QED BY <2>2, <3>1, <3>2, <3>3
  <2>3. ASSUME NEW w \in Workers, Acknowledge(w) \/ FailAttempt(w)
        PROVE  UNCHANGED Enqueued
    BY <2>3 DEF Enqueued, Acknowledge, FailAttempt, Q!Complete, Q!Fail
  <2>4. ASSUME NEW w \in Workers, NEW t \in Txs, Take(w, t)
        PROVE  UNCHANGED Enqueued
    BY <2>4 DEF Enqueued, Take, Q!Take
  <2>5. UNCHANGED Enqueued
    BY <1>3, <2>2, <2>3, <2>4 DEF Work, Read, Start, CompleteTx, EnqueueNotification,
      WorkerDies, OnFailed, OnFailedLost
  <2>6. QED BY <1>1, <2>1, <2>5
<1>4. QED BY <1>2, <1>3

-----------------------------------------------------------------------------
PInv == TInv /\ Started /\ ToldCompleted /\ FilterHolds /\ LocksHeld /\ ToldInTime

\* The invariants hold at the start and every step keeps them: createTransaction,
\* process and onFailed, in any interleaving, for any number of workers.
THEOREM Invariance == Spec => []PInv
<1>1. Init => PInv
  BY TPAssumption DEF Init, Q!QueueInit, PInv, TInv, TypeOK, JobsBounded, OnJobs,
    StoredFirst, Started, AcknowledgedWasStarted, ToldCompleted, FilterHolds,
    OneRunUnlessReopened, LocksHeld, ToldInTime, CompletedIsNotified
<1>2. PInv /\ [Next]_vars => PInv'
  BY TypeOKStep, JobsBoundedStep, OnJobsStep, StoredFirstStep, StartedStep,
    ToldCompletedStep, FilterHoldsStep, LocksHeldStep, ToldInTimeStep DEF PInv, TInv
<1>3. QED BY <1>1, <1>2, PTL DEF Spec

\* Statuses, calls, jobs and slots keep their types; in particular no job makes
\* more than MaxAttempts attempts or MaxStalls + 1 stalls.
THEOREM TypeCorrect == Spec => []TypeOK
<1>1. PInv => TypeOK
  BY DEF PInv, TInv
<1>2. QED BY <1>1, Invariance, PTL

\* No job is done while its transaction is still QUEUED or not even stored.
THEOREM NoneDropped == Spec => []AcknowledgedWasStarted
<1>1. PInv => AcknowledgedWasStarted
  BY DEF PInv, Started
<1>2. QED BY <1>1, Invariance, PTL

\* The status filter lets one run through unless FAILED was written over it.
THEOREM OneRunThrough == Spec => []OneRunUnlessReopened
<1>1. PInv => OneRunUnlessReopened
  BY DEF PInv, FilterHolds
<1>2. QED BY <1>1, Invariance, PTL

\* Nobody is notified of what is not completed, rollbacks apart.
THEOREM NotifiedTruly == Spec => []NotifiedWasCompleted
<1>1. PInv => NotifiedWasCompleted
  BY DEF PInv, ToldCompleted, Completed, NotifiedWasCompleted
<1>2. QED BY <1>1, Invariance, PTL

\* A job done with a COMPLETED transaction has had its notification enqueued.
THEOREM NotifiedAlways == Spec => []CompletedIsNotified
<1>1. PInv => CompletedIsNotified
  BY DEF PInv, ToldInTime
<1>2. QED BY <1>1, Invariance, PTL

\* No worker and no onFailed takes COMPLETED back; only the catch of add can.
THEOREM CompletedKept == Spec => WorkersKeepCompleted
<1>1. ASSUME PInv, [Next]_vars
      PROVE  [\A t \in Txs : tx[t] = "COMPLETED" /\ tx'[t] # "COMPLETED"
                             => svc[t] = "rollback"]_vars
  <2> SUFFICES ASSUME NEW t \in Txs, tx[t] = "COMPLETED", tx'[t] # "COMPLETED", Next
               PROVE  svc[t] = "rollback"
    BY <1>1 DEF vars
  <2>1. CASE \E u \in Txs : Insert(u) \/ Rollback(u)
    BY <1>1, <2>1 DEF PInv, TInv, TypeOK, StoredFirst, Insert, Rollback
  <2>2. CASE \E w \in Workers : Start(w) \/ CompleteTx(w)
    BY <1>1, <2>2 DEF PInv, TInv, TypeOK, OnJobs, Start, CompleteTx
  <2>3. CASE \E e \in failing : OnFailed(e)
    BY <1>1, <2>3 DEF PInv, TInv, TypeOK, OnFailed
  <2>4. QED BY <2>1, <2>2, <2>3 DEF Next, Work, AddJob, CallDies, DiscardStalled,
      Promote, Stall, Take, Read, EnqueueNotification, Acknowledge, FailAttempt,
      WorkerDies, OnFailedLost
<1>2. QED BY <1>1, Invariance, PTL DEF Spec, WorkersKeepCompleted

\* TransactionProcessing implements TransactionContract.
THEOREM Refinement == Spec => KeepsContract
<1>1. Init => Contract!Init
  BY DEF Init, Q!QueueInit, Contract!Init, Outcome, Enqueued
<1>2. PInv /\ [Next]_vars => [Contract!Next]_Contract!vars
  <2> SUFFICES ASSUME PInv, [Next]_vars
               PROVE  [Contract!Next]_Contract!vars
    OBVIOUS
  <2>1. CASE UNCHANGED vars
    BY <2>1 DEF vars, Contract!vars, Outcome, Enqueued
  <2>2. CASE Next
    BY <2>2, CallSteps, WorkSteps DEF PInv, Next
  <2>3. QED BY <2>1, <2>2
<1>3. QED BY <1>1, <1>2, Invariance, PTL DEF Spec, KeepsContract, Contract!Spec

=============================================================================
