---------------------- MODULE NotificationDeliveryProofs ----------------------
(***************************************************************************)
(* The safety properties of NotificationDelivery for any number of         *)
(* transactions, worker slots, attempts, tolerated stalls and adds.        *)
(***************************************************************************)
EXTENDS NotificationDelivery, TLAPS

USE DEF Handler, Move, Free, Deliver, Exhausted, Q!Job, Q!NoJob, Q!NewJob,
        Q!QueueTypeOK, Q!Locked, Q!StalledOut, Q!LastAttempt

-----------------------------------------------------------------------------
\* A job that will run again has an attempt left, and one that runs or will
\* run has not stalled too often.
JobsBounded ==
  \A t \in Txs :
     /\ jobs[t].state \in {"waiting", "active", "delayed"} => jobs[t].made < MaxAttempts
     /\ jobs[t].state \in {"active", "delayed"} => jobs[t].stalls <= MaxStalls

OnJobs == \A w \in Workers : at[w] # "idle" => on[w] \in Txs

NInv == TypeOK /\ JobsBounded /\ OnJobs

LEMMA TypeOKStep ==
  ASSUME NInv, [Next]_vars
  PROVE  TypeOK'
<1> USE NDAssumption DEF NInv
<1>1. ASSUME NEW t \in Txs, Enqueue(t)
      PROVE  TypeOK'
  <2>1. Q!NewJob \in Q!Job
    OBVIOUS
  <2>2. jobs' \in [Txs -> Q!Job]
    BY <1>1, <2>1 DEF Enqueue, Q!Add, TypeOK
  <2>3. adds' \in [Txs -> 0..MaxAdds]
    BY <1>1 DEF Enqueue, TypeOK
  <2>4. QED BY <1>1, <2>2, <2>3 DEF Enqueue, TypeOK
<1>2. ASSUME NEW t \in Txs, DiscardStalled(t)
      PROVE  TypeOK'
  <2>1. jobs[t].made + 1 \in 0..MaxAttempts
    BY <1>2 DEF DiscardStalled, Q!Discard, TypeOK, JobsBounded
  <2>2. handlers' \subseteq Handler
    BY <1>2, <2>1 DEF DiscardStalled, OnFailed, TypeOK
  <2>3. jobs' \in [Txs -> Q!Job]
    BY <1>2, <2>1 DEF DiscardStalled, Q!Discard, TypeOK
  <2>4. QED BY <1>2, <2>2, <2>3 DEF DiscardStalled, TypeOK
<1>3. ASSUME NEW t \in Txs, Promote(t)
      PROVE  TypeOK'
  BY <1>3 DEF Promote, Q!Promote, TypeOK
<1>4. ASSUME NEW t \in Txs, Stall(t)
      PROVE  TypeOK'
  BY <1>4 DEF Stall, Q!Stall, TypeOK, JobsBounded
<1>5. ASSUME NEW w \in Workers, NEW t \in Txs, Take(w, t)
      PROVE  TypeOK'
  <2>1. jobs[t] \in Q!Job
    BY DEF TypeOK
  <2>2. jobs'[t] = [jobs[t] EXCEPT !.state = "active", !.lock = w]
    BY <1>5 DEF Take, Q!Take, TypeOK
  <2>3. jobs'[t] \in Q!Job
    BY <2>1, <2>2
  <2>4. jobs' \in [Txs -> Q!Job]
    BY <1>5, <2>3 DEF Take, Q!Take, TypeOK
  <2>5. QED BY <1>5, <2>4 DEF Take, TypeOK
<1>6. ASSUME NEW w \in Workers, Create(w)
      PROVE  TypeOK'
  BY <1>6 DEF Create, TypeOK, OnJobs
<1>7. ASSUME NEW w \in Workers, Acknowledge(w) \/ WorkerDies(w)
      PROVE  TypeOK'
  BY <1>7 DEF Acknowledge, WorkerDies, Q!Complete, TypeOK, OnJobs
<1>8. ASSUME NEW w \in Workers, FailAttempt(w)
      PROVE  TypeOK'
  <2>1. Q!Locked(on[w], w) => jobs[on[w]].made + 1 \in 0..MaxAttempts
    BY <1>8 DEF FailAttempt, TypeOK, JobsBounded, OnJobs
  <2>2. handlers' \subseteq Handler
    BY <1>8, <2>1 DEF FailAttempt, OnFailed, TypeOK, OnJobs
  <2>3. jobs' \in [Txs -> Q!Job]
    BY <1>8, <2>1 DEF FailAttempt, Q!Fail, TypeOK, OnJobs
  <2>4. QED BY <1>8, <2>2, <2>3 DEF FailAttempt, TypeOK
<1>9. ASSUME NEW h \in handlers,
             FindNotification(h) \/ UpsertDeadLetter(h) \/ HandlerThrows(h)
      PROVE  TypeOK'
  BY <1>9 DEF FindNotification, UpsertDeadLetter, HandlerThrows, TypeOK
<1>10. CASE UNCHANGED vars
  BY <1>10 DEF vars, TypeOK
<1>11. QED BY <1>1, <1>2, <1>3, <1>4, <1>5, <1>6, <1>7, <1>8, <1>9, <1>10 DEF Next, Work

\* Attempts and stalls run out: a job that would exceed them is failed.
LEMMA JobsBoundedStep ==
  ASSUME NInv, [Next]_vars
  PROVE  JobsBounded' /\ OnJobs'
<1> USE NDAssumption DEF NInv, TypeOK
<1>1. ASSUME NEW t \in Txs, Enqueue(t)
      PROVE  JobsBounded' /\ OnJobs'
  BY <1>1 DEF Enqueue, Q!Add, JobsBounded, OnJobs
<1>2. ASSUME NEW t \in Txs, DiscardStalled(t)
      PROVE  JobsBounded' /\ OnJobs'
  BY <1>2 DEF DiscardStalled, Q!Discard, JobsBounded, OnJobs
<1>3. ASSUME NEW t \in Txs, Promote(t)
      PROVE  JobsBounded' /\ OnJobs'
  BY <1>3 DEF Promote, Q!Promote, JobsBounded, OnJobs
<1>4. ASSUME NEW t \in Txs, Stall(t)
      PROVE  JobsBounded' /\ OnJobs'
  BY <1>4 DEF Stall, Q!Stall, JobsBounded, OnJobs
<1>5. ASSUME NEW w \in Workers, NEW t \in Txs, Take(w, t)
      PROVE  JobsBounded' /\ OnJobs'
  BY <1>5 DEF Take, Q!Take, JobsBounded, OnJobs
<1>6. ASSUME NEW w \in Workers, Create(w) \/ Acknowledge(w) \/ WorkerDies(w)
      PROVE  JobsBounded' /\ OnJobs'
  BY <1>6 DEF Create, Acknowledge, WorkerDies, Q!Complete, JobsBounded, OnJobs
<1>7. ASSUME NEW w \in Workers, FailAttempt(w)
      PROVE  JobsBounded' /\ OnJobs'
  BY <1>7 DEF FailAttempt, Q!Fail, JobsBounded, OnJobs
<1>8. ASSUME NEW h \in handlers,
             FindNotification(h) \/ UpsertDeadLetter(h) \/ HandlerThrows(h)
      PROVE  JobsBounded' /\ OnJobs'
  BY <1>8 DEF FindNotification, UpsertDeadLetter, HandlerThrows, JobsBounded, OnJobs
<1>9. CASE UNCHANGED vars
  BY <1>9 DEF vars, JobsBounded, OnJobs
<1>10. QED BY <1>1, <1>2, <1>3, <1>4, <1>5, <1>6, <1>7, <1>8, <1>9 DEF Next, Work

\* A run that has not lost its lock holds it: at most one such run per job.
LocksHeld ==
  \A w \in Workers : at[w] # "idle" /\ on[w] \notin lapsed => Q!Locked(on[w], w)

LEMMA LocksHeldStep ==
  ASSUME NInv, LocksHeld, [Next]_vars
  PROVE  LocksHeld'
<1> USE NDAssumption DEF NInv, TypeOK, OnJobs, LocksHeld
<1>1. ASSUME NEW t \in Txs, Enqueue(t)
      PROVE  LocksHeld'
  BY <1>1 DEF Enqueue, Q!Add
<1>2. ASSUME NEW t \in Txs, DiscardStalled(t)
      PROVE  LocksHeld'
  BY <1>2 DEF DiscardStalled, Q!Discard
<1>3. ASSUME NEW t \in Txs, Promote(t)
      PROVE  LocksHeld'
  BY <1>3 DEF Promote, Q!Promote
<1>4. ASSUME NEW t \in Txs, Stall(t)
      PROVE  LocksHeld'
  BY <1>4 DEF Stall, Q!Stall, Abandoned
<1>5. ASSUME NEW w \in Workers, NEW t \in Txs, Take(w, t)
      PROVE  LocksHeld'
  BY <1>5 DEF Take, Q!Take
<1>6. ASSUME NEW w \in Workers, Create(w) \/ Acknowledge(w) \/ WorkerDies(w)
      PROVE  LocksHeld'
  BY <1>6 DEF Create, Acknowledge, WorkerDies, Q!Complete
<1>7. ASSUME NEW w \in Workers, FailAttempt(w)
      PROVE  LocksHeld'
  BY <1>7 DEF FailAttempt, Q!Fail
<1>8. ASSUME NEW h \in handlers,
             FindNotification(h) \/ UpsertDeadLetter(h) \/ HandlerThrows(h)
      PROVE  LocksHeld'
  BY <1>8 DEF FindNotification, UpsertDeadLetter, HandlerThrows
<1>9. CASE UNCHANGED vars
  BY <1>9 DEF vars
<1>10. QED BY <1>1, <1>2, <1>3, <1>4, <1>5, <1>6, <1>7, <1>8, <1>9 DEF Next, Work

\* onFailed works on, and dead letters stand for, jobs that failed for good.
Final ==
  /\ DeadLetterIsFinalFailure
  /\ \A h \in handlers : jobs[h.tx].state = "failed" /\ jobs[h.tx].made = MaxAttempts

LEMMA FinalStep ==
  ASSUME NInv, Final, [Next]_vars
  PROVE  Final'
<1> USE NDAssumption DEF NInv, TypeOK, JobsBounded, OnJobs, Final, DeadLetterIsFinalFailure
<1>1. ASSUME NEW t \in Txs, Enqueue(t)
      PROVE  Final'
  BY <1>1 DEF Enqueue, Q!Add
<1>2. ASSUME NEW t \in Txs, DiscardStalled(t)
      PROVE  Final'
  BY <1>2 DEF DiscardStalled, OnFailed, Q!Discard
<1>3. ASSUME NEW t \in Txs, Promote(t)
      PROVE  Final'
  BY <1>3 DEF Promote, Q!Promote
<1>4. ASSUME NEW t \in Txs, Stall(t)
      PROVE  Final'
  BY <1>4 DEF Stall, Q!Stall
<1>5. ASSUME NEW w \in Workers, NEW t \in Txs, Take(w, t)
      PROVE  Final'
  BY <1>5 DEF Take, Q!Take
<1>6. ASSUME NEW w \in Workers, Create(w)
      PROVE  Final'
  BY <1>6 DEF Create
<1>7. ASSUME NEW w \in Workers, Acknowledge(w) \/ WorkerDies(w)
      PROVE  Final'
  BY <1>7 DEF Acknowledge, WorkerDies, Q!Complete
<1>8. ASSUME NEW w \in Workers, FailAttempt(w)
      PROVE  Final'
  BY <1>8 DEF FailAttempt, OnFailed, Q!Fail
<1>9. ASSUME NEW h \in handlers, FindNotification(h)
      PROVE  Final'
  BY <1>9 DEF FindNotification
<1>10. ASSUME NEW h \in handlers, UpsertDeadLetter(h) \/ HandlerThrows(h)
      PROVE  Final'
  BY <1>10 DEF UpsertDeadLetter, HandlerThrows
<1>11. CASE UNCHANGED vars
  BY <1>11 DEF vars
<1>12. QED BY <1>1, <1>2, <1>3, <1>4, <1>5, <1>6, <1>7, <1>8, <1>9, <1>10,
          <1>11 DEF Next, Work

\* A run that is over well leaves a row, and a job that is done a delivered one.
Delivered ==
  /\ AcknowledgedIsDelivered
  /\ \A w \in Workers : at[w] = "ack" => row[on[w]] # "absent"

LEMMA DeliveredStep ==
  ASSUME NInv, Final, Delivered, [Next]_vars
  PROVE  Delivered'
<1> USE NDAssumption DEF NInv, TypeOK, OnJobs, Final, DeadLetterIsFinalFailure,
        Delivered, AcknowledgedIsDelivered
<1>1. ASSUME NEW t \in Txs, Enqueue(t)
      PROVE  Delivered'
  BY <1>1 DEF Enqueue, Q!Add
<1>2. ASSUME NEW t \in Txs, DiscardStalled(t)
      PROVE  Delivered'
  BY <1>2 DEF DiscardStalled, OnFailed, Q!Discard
<1>3. ASSUME NEW t \in Txs, Promote(t)
      PROVE  Delivered'
  BY <1>3 DEF Promote, Q!Promote
<1>4. ASSUME NEW t \in Txs, Stall(t)
      PROVE  Delivered'
  BY <1>4 DEF Stall, Q!Stall
<1>5. ASSUME NEW w \in Workers, NEW t \in Txs, Take(w, t)
      PROVE  Delivered'
  BY <1>5 DEF Take, Q!Take
<1>6. ASSUME NEW w \in Workers, Create(w)
      PROVE  Delivered'
  BY <1>6 DEF Create
<1>7. ASSUME NEW w \in Workers, Acknowledge(w) \/ WorkerDies(w)
      PROVE  Delivered'
  BY <1>7 DEF Acknowledge, WorkerDies, Q!Complete
<1>8. ASSUME NEW w \in Workers, FailAttempt(w)
      PROVE  Delivered'
  BY <1>8 DEF FailAttempt, OnFailed, Q!Fail
<1>9. ASSUME NEW h \in handlers, FindNotification(h)
      PROVE  Delivered'
  BY <1>9 DEF FindNotification
<1>10. ASSUME NEW h \in handlers, UpsertDeadLetter(h) \/ HandlerThrows(h)
      PROVE  Delivered'
  BY <1>10 DEF UpsertDeadLetter, HandlerThrows
<1>11. CASE UNCHANGED vars
  BY <1>11 DEF vars
<1>12. QED BY <1>1, <1>2, <1>3, <1>4, <1>5, <1>6, <1>7, <1>8, <1>9, <1>10,
          <1>11 DEF Next, Work

\* onFailed upserts nothing that was delivered since its findUnique, for only a
\* run that lost its lock can deliver then.
Guarded ==
  \A h \in handlers : h.at = "upsert" /\ h.tx \notin lapsed => row[h.tx] # "DELIVERED"

LEMMA GuardedStep ==
  ASSUME NInv, LocksHeld, Final, Guarded, [Next]_vars
  PROVE  Guarded'
<1> USE NDAssumption DEF NInv, TypeOK, OnJobs, LocksHeld, Final, Guarded
<1>1. ASSUME NEW t \in Txs, Enqueue(t)
      PROVE  Guarded'
  BY <1>1 DEF Enqueue, Q!Add
<1>2. ASSUME NEW t \in Txs, DiscardStalled(t)
      PROVE  Guarded'
  BY <1>2 DEF DiscardStalled, OnFailed, Q!Discard
<1>3. ASSUME NEW t \in Txs, Promote(t)
      PROVE  Guarded'
  BY <1>3 DEF Promote, Q!Promote
<1>4. ASSUME NEW t \in Txs, Stall(t)
      PROVE  Guarded'
  BY <1>4 DEF Stall, Q!Stall
<1>5. ASSUME NEW w \in Workers, NEW t \in Txs, Take(w, t)
      PROVE  Guarded'
  BY <1>5 DEF Take, Q!Take
<1>6. ASSUME NEW w \in Workers, Create(w)
      PROVE  Guarded'
  BY <1>6 DEF Create
<1>7. ASSUME NEW w \in Workers, Acknowledge(w) \/ WorkerDies(w)
      PROVE  Guarded'
  BY <1>7 DEF Acknowledge, WorkerDies, Q!Complete
<1>8. ASSUME NEW w \in Workers, FailAttempt(w)
      PROVE  Guarded'
  BY <1>8 DEF FailAttempt, OnFailed, Q!Fail
<1>9. ASSUME NEW h \in handlers, FindNotification(h)
      PROVE  Guarded'
  BY <1>9 DEF FindNotification
<1>10. ASSUME NEW h \in handlers, UpsertDeadLetter(h) \/ HandlerThrows(h)
      PROVE  Guarded'
  BY <1>10 DEF UpsertDeadLetter, HandlerThrows
<1>11. CASE UNCHANGED vars
  BY <1>11 DEF vars
<1>12. QED BY <1>1, <1>2, <1>3, <1>4, <1>5, <1>6, <1>7, <1>8, <1>9, <1>10,
          <1>11 DEF Next, Work

-----------------------------------------------------------------------------
DInv == NInv /\ LocksHeld /\ Final /\ Delivered /\ Guarded

\* The invariants hold at the start and every step of process, onFailed and the
\* queue keeps them, in any interleaving.
THEOREM Invariance == Spec => []DInv
<1>1. Init => DInv
  BY NDAssumption DEF Init, Q!QueueInit, DInv, NInv, TypeOK, JobsBounded, OnJobs,
    LocksHeld, Final, DeadLetterIsFinalFailure, Delivered,
    AcknowledgedIsDelivered, Guarded
<1>2. DInv /\ [Next]_vars => DInv'
  BY TypeOKStep, JobsBoundedStep, LocksHeldStep, FinalStep, DeliveredStep,
    GuardedStep DEF DInv, NInv
<1>3. QED BY <1>1, <1>2, PTL DEF Spec

\* Rows, jobs, slots and handlers keep their types; in particular no job makes
\* more than MaxAttempts attempts.
THEOREM TypeCorrect == Spec => []TypeOK
<1>1. DInv => TypeOK
  BY DEF DInv, NInv
<1>2. QED BY <1>1, Invariance, PTL

\* A notification job that is done has left a DELIVERED row.
THEOREM DoneIsDelivered == Spec => []AcknowledgedIsDelivered
<1>1. DInv => AcknowledgedIsDelivered
  BY DEF DInv, Delivered
<1>2. QED BY <1>1, Invariance, PTL

\* A dead letter stands for a job that used up its attempts and stays failed.
THEOREM DeadLettersFinal == Spec => []DeadLetterIsFinalFailure
<1>1. DInv => DeadLetterIsFinalFailure
  BY DEF DInv, Final
<1>2. QED BY <1>1, Invariance, PTL

\* onFailed overwrites no delivery but one of a run that lost its lock.
THEOREM DeliveredKept == Spec => DeliveredIsKept
<1>1. DInv /\ [Next]_vars =>
        [\A t \in Txs \ lapsed : row[t] = "DELIVERED" => row'[t] = "DELIVERED"]_vars
  <2> SUFFICES ASSUME DInv, Next, NEW t \in Txs \ lapsed, row[t] = "DELIVERED"
               PROVE  row'[t] = "DELIVERED"
    OBVIOUS
  <2> USE DEF DInv, NInv, TypeOK, OnJobs
  <2>1. ASSUME NEW w \in Workers, Create(w) PROVE row'[t] = "DELIVERED"
    BY <2>1 DEF Create
  <2>2. ASSUME NEW h \in handlers, UpsertDeadLetter(h) PROVE row'[t] = "DELIVERED"
    BY <2>2 DEF UpsertDeadLetter, Guarded
  <2>3. CASE UNCHANGED row
    BY <2>3
  <2>4. QED BY <2>1, <2>2, <2>3 DEF Next, Work, Enqueue, Take, Acknowledge,
              WorkerDies, FailAttempt, DiscardStalled, FindNotification,
              HandlerThrows, Promote, Stall
<1>2. QED BY <1>1, Invariance, PTL DEF Spec, DeliveredIsKept

=============================================================================
