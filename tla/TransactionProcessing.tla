----------------------- MODULE TransactionProcessing -----------------------
(***************************************************************************)
(* A transaction from TransactionService.createTransaction through the     *)
(* transaction queue and TransactionProcessor to the enqueueing of its     *)
(* notification.                                                           *)
(*                                                                         *)
(* Each await is a step of its own.  A call to PostgreSQL or Redis that    *)
(* throws may have had its effect.  A worker may die, and a worker whose   *)
(* lock lapses runs on beside the next one.                                *)
(***************************************************************************)
EXTENDS Naturals

CONSTANTS
  Txs,           \* transaction ids: one createTransaction call each
  Workers,       \* worker slots of the transaction queue, over all processes
  None,          \* no worker, no transaction
  MaxAttempts,   \* TRANSACTION_MAX_ATTEMPTS
  MaxStalls      \* maxStalledCount of BullMQ

ASSUME TPAssumption ==
  /\ None \notin Txs \cup Workers
  /\ MaxAttempts \in Nat \ {0} /\ MaxStalls \in Nat

VARIABLES
  tx,        \* status column of each transaction, or "absent"
  svc,       \* where createTransaction is
  jobs,      \* the transaction queue
  at, on,    \* each worker slot: its next call, and its transaction
  failing,   \* 'failed' events, <<transaction, attempt>>, still to be handled
  notified,  \* transactions whose notification job was added
  reopened,  \* history: transactions set to FAILED while they were PROCESSING
  unaddressed,  \* transactions whose fromAccount ?? toAccount is empty (a
                \* DEPOSIT's fromAccount is not validated); never changes
  lapsed     \* history: transactions whose run lost its lock and went on

Q == INSTANCE JobQueue WITH Jobs <- Txs

vars == <<tx, svc, jobs, at, on, failing, notified, reopened, unaddressed, lapsed>>

rest == <<unaddressed, lapsed>>   \* no handler changes these

Statuses == {"QUEUED", "PROCESSING", "COMPLETED", "FAILED"}
Calls    == {"idle", "read", "start", "complete", "notify", "ack", "fail"}

TypeOK ==
  /\ unaddressed \subseteq Txs
  /\ tx \in [Txs -> Statuses \cup {"absent"}]
  /\ svc \in [Txs -> {"insert", "add", "rollback", "returned", "threw", "died"}]
  /\ Q!QueueTypeOK
  /\ at \in [Workers -> Calls]
  /\ on \in [Workers -> Txs \cup {None}]
  /\ failing \subseteq Txs \X (0..MaxAttempts)
  /\ notified \subseteq Txs
  /\ reopened \subseteq Txs
  /\ lapsed \subseteq Txs

Init ==
  /\ unaddressed \in SUBSET Txs
  /\ tx = [t \in Txs |-> "absent"]
  /\ svc = [t \in Txs |-> "insert"]
  /\ Q!QueueInit
  /\ at = [w \in Workers |-> "idle"]
  /\ on = [w \in Workers |-> None]
  /\ failing = {}
  /\ notified = {}
  /\ reopened = {}
  /\ lapsed = {}

SetStatus(t, s) == tx' = [tx EXCEPT ![t] = s]

\* FAILED written over PROCESSING lets the status filter pass once more
SetFailed(t) ==
  /\ SetStatus(t, "FAILED")
  /\ reopened' = IF tx[t] = "PROCESSING" THEN reopened \cup {t} ELSE reopened

-----------------------------------------------------------------------------
(***************************************************************************)
(* createTransaction                                                       *)
(***************************************************************************)
Call(t, from, to) == svc[t] = from /\ svc' = [svc EXCEPT ![t] = to]

Insert(t) ==
  /\ \/ Call(t, "insert", "add") /\ SetStatus(t, "QUEUED")
     \/ /\ Call(t, "insert", "threw")
        /\ UNCHANGED tx \/ SetStatus(t, "QUEUED")
  /\ UNCHANGED <<jobs, at, on, failing, notified, reopened, rest>>

\* Seeded fault: add() is not awaited
AddJobUnawaited(t) ==
  /\ Call(t, "add", "returned")
  /\ UNCHANGED jobs \/ Q!Add(t)
  /\ UNCHANGED <<tx, at, on, failing, notified, reopened, rest>>

AddJob(t) ==
  /\ \/ Call(t, "add", "returned") /\ Q!Add(t)
     \/ Call(t, "add", "rollback") /\ (UNCHANGED jobs \/ Q!Add(t))
  /\ UNCHANGED <<tx, at, on, failing, notified, reopened, rest>>

\* The catch of add: an update by id, whatever the status is by now
Rollback(t) ==
  /\ Call(t, "rollback", "threw")
  /\ SetFailed(t) \/ UNCHANGED <<tx, reopened>>
  /\ UNCHANGED <<jobs, at, on, failing, notified, rest>>

CallDies(t) ==
  /\ svc[t] \in {"insert", "add", "rollback"}
  /\ svc' = [svc EXCEPT ![t] = "died"]
  /\ UNCHANGED <<tx, jobs, at, on, failing, notified, reopened, rest>>

-----------------------------------------------------------------------------
(***************************************************************************)
(* TransactionProcessor.process, on worker slot w                          *)
(***************************************************************************)
Move(w, from, to) == at[w] = from /\ at' = [at EXCEPT ![w] = to]

Take(w, t) ==
  /\ Move(w, "idle", "read")
  /\ Q!Take(t, w)
  /\ on' = [on EXCEPT ![w] = t]
  /\ UNCHANGED <<tx, svc, failing, notified, reopened, rest>>

\* BullMQ emits 'failed' for a job it discards, too.
DiscardStalled(t) ==
  /\ Q!Discard(t)
  /\ failing' = failing \cup {<<t, jobs[t].made + 1>>}
  /\ UNCHANGED <<tx, svc, at, on, notified, reopened, rest>>

\* Seeded fault: a completed transaction is taken for done
ReadSkippingCompleted(w) ==
  /\ \/ Move(w, "read", "ack") /\ tx[on[w]] \in {"absent", "COMPLETED"}
     \/ Move(w, "read", "start") /\ tx[on[w]] \notin {"absent", "COMPLETED"}
     \/ Move(w, "read", "fail")
  /\ UNCHANGED <<tx, svc, jobs, on, failing, notified, reopened, rest>>

\* Seeded fault: a failed query is taken for a missing transaction
ReadOrSkip(w) ==
  /\ \/ Move(w, "read", "ack")
     \/ Move(w, "read", "notify") /\ tx[on[w]] = "COMPLETED"
     \/ Move(w, "read", "start") /\ tx[on[w]] \notin {"absent", "COMPLETED"}
  /\ UNCHANGED <<tx, svc, jobs, on, failing, notified, reopened, rest>>

\* A completed transaction only has its notification ensured.
Read(w) ==
  /\ \/ Move(w, "read", "ack") /\ tx[on[w]] = "absent"
     \/ Move(w, "read", "notify") /\ tx[on[w]] = "COMPLETED"
     \/ Move(w, "read", "start") /\ tx[on[w]] \notin {"absent", "COMPLETED"}
     \/ Move(w, "read", "fail")
  /\ UNCHANGED <<tx, svc, jobs, on, failing, notified, reopened, rest>>

\* Seeded fault: a retry may also take over from a run that got stuck
RetryableIfStuck(t) == tx[t] \in {"QUEUED", "FAILED", "PROCESSING"}

Retryable(t) == tx[t] \in {"QUEUED", "FAILED"}

\* Seeded fault: a count of 0 is taken for "already completed"
StartOrNotify(w) ==
  /\ \/ /\ Move(w, "start", "complete") \/ Move(w, "start", "fail")
        /\ Retryable(on[w])
        /\ SetStatus(on[w], "PROCESSING")
     \/ /\ Move(w, "start", "notify")
        /\ ~Retryable(on[w])
        /\ UNCHANGED tx
     \/ /\ Move(w, "start", "fail")
        /\ UNCHANGED tx
  /\ UNCHANGED <<svc, jobs, on, failing, notified, reopened, rest>>

\* updateMany with the status filter; a count of 0 ends the job as a success
Start(w) ==
  /\ \/ /\ Move(w, "start", "complete") \/ Move(w, "start", "fail")
        /\ Retryable(on[w])
        /\ SetStatus(on[w], "PROCESSING")
     \/ /\ Move(w, "start", "ack")
        /\ ~Retryable(on[w])
        /\ UNCHANGED tx
     \/ /\ Move(w, "start", "fail")
        /\ UNCHANGED tx
  /\ UNCHANGED <<svc, jobs, on, failing, notified, reopened, rest>>

CompleteTx(w) ==
  /\ \/ Move(w, "complete", "notify") /\ SetStatus(on[w], "COMPLETED")
     \/ /\ Move(w, "complete", "fail")
        /\ UNCHANGED tx \/ SetStatus(on[w], "COMPLETED")
  /\ UNCHANGED <<svc, jobs, on, failing, notified, reopened, rest>>

EnqueueNotification(w) ==
  /\ \/ /\ Move(w, "notify", "ack")
        /\ notified' = notified \cup ({on[w]} \ unaddressed)
     \/ /\ Move(w, "notify", "fail") /\ on[w] \notin unaddressed
        /\ UNCHANGED notified \/ notified' = notified \cup {on[w]}
  /\ UNCHANGED <<tx, svc, jobs, on, failing, reopened, rest>>

\* process() returned or threw: BullMQ ends the attempt if the lock is held
\* still, and only then emits 'failed'.
Free(w) == on' = [on EXCEPT ![w] = None]

Acknowledge(w) ==
  /\ Move(w, "ack", "idle") /\ Free(w)
  /\ Q!Complete(on[w], w)
  /\ UNCHANGED <<tx, svc, failing, notified, reopened, rest>>

FailAttempt(w) ==
  /\ Move(w, "fail", "idle") /\ Free(w)
  /\ Q!Fail(on[w], w)
  /\ failing' = IF Q!Locked(on[w], w)
                THEN failing \cup {<<on[w], jobs[on[w]].made + 1>>} ELSE failing
  /\ UNCHANGED <<tx, svc, notified, reopened, rest>>

WorkerDies(w) ==
  /\ at[w] # "idle"
  /\ at' = [at EXCEPT ![w] = "idle"] /\ Free(w)
  /\ UNCHANGED <<tx, svc, jobs, failing, notified, reopened, rest>>

-----------------------------------------------------------------------------
\* Seeded fault: onFailed has lost its status filter
OnFailedAlways(e) ==
  /\ e \in failing /\ failing' = failing \ {e}
  /\ SetFailed(e[1])
  /\ UNCHANGED <<svc, jobs, at, on, notified, rest>>

\* onFailed runs some time after the failure, when a retry may be under way.
OnFailed(e) ==
  /\ e \in failing /\ failing' = failing \ {e}
  /\ IF tx[e[1]] \notin {"COMPLETED", "absent"}
     THEN SetFailed(e[1]) ELSE UNCHANGED <<tx, reopened>>
  /\ UNCHANGED <<svc, jobs, at, on, notified, rest>>

\* ... or not at all: its process died, or the update threw and was logged
OnFailedLost(e) ==
  /\ e \in failing /\ failing' = failing \ {e}
  /\ UNCHANGED <<tx, svc, jobs, at, on, notified, reopened, rest>>

Promote(t) ==
  /\ Q!Promote(t)
  /\ UNCHANGED <<tx, svc, at, on, failing, notified, reopened, rest>>

Abandoned(t) == \A w \in Workers : ~(Q!Locked(t, w) /\ on[w] = t)

\* The lock of a dead worker runs out, or that of a live one
Stall(t) ==
  /\ Q!Stall(t)
  /\ lapsed' = IF Abandoned(t) THEN lapsed ELSE lapsed \cup {t}
  /\ UNCHANGED <<unaddressed, tx, svc, at, on, failing, notified, reopened>>

Work(w) ==
  \/ \E t \in Txs : Take(w, t)
  \/ Read(w) \/ Start(w) \/ CompleteTx(w) \/ EnqueueNotification(w)
  \/ Acknowledge(w) \/ FailAttempt(w)

Next ==
  \/ \E t \in Txs :
        Insert(t) \/ AddJob(t) \/ Rollback(t) \/ CallDies(t) \/ DiscardStalled(t)
        \/ Promote(t) \/ Stall(t)
  \/ \E w \in Workers : Work(w) \/ WorkerDies(w)
  \/ \E e \in failing : OnFailed(e) \/ OnFailedLost(e)

Spec == Init /\ [][Next]_vars

(***************************************************************************)
(* Node runs what is ready to run; BullMQ ends delays, checks for stalled  *)
(* jobs and hands out waiting ones.                                        *)
(***************************************************************************)
FairSpec ==
  /\ Spec
  /\ \A t \in Txs :
       /\ WF_vars(Promote(t)) /\ WF_vars(DiscardStalled(t))
       /\ WF_vars(Abandoned(t) /\ Stall(t))
  /\ \A w \in Workers : WF_vars(Work(w))

-----------------------------------------------------------------------------
\* A job goes away as done only when its transaction was stored first and
\* taken out of QUEUED: no accepted transaction is dropped unprocessed.
AcknowledgedWasStarted ==
  \A t \in Txs : jobs[t].state = "removed" => tx[t] \notin {"absent", "QUEUED"}

\* COMPLETED is final for the processor: neither a late onFailed nor a second
\* run undoes it.  Only createTransaction's own catch can (see CompletedIsFinal).
WorkersKeepCompleted ==
  [][\A t \in Txs :
       tx[t] = "COMPLETED" /\ tx'[t] # "COMPLETED" => svc[t] = "rollback"]_vars

\* The status filter of updateMany lets one run through, even beside a run
\* whose lock lapsed, unless PROCESSING was overwritten by FAILED meanwhile.
OneRunUnlessReopened ==
  \A v, w \in Workers :
     /\ at[v] = "complete" /\ at[w] = "complete" /\ on[v] = on[w]
     /\ on[v] \notin reopened
     => v = w

\* Nobody is notified of a transaction that is not completed, unless its
\* createTransaction threw and rolled it back although its job was added.
NotifiedWasCompleted ==
  \A t \in notified : tx[t] = "COMPLETED" \/ svc[t] = "threw"

\* "ensuring notification": however often attempts fail or die after the
\* transaction was completed, its job is not done before the notification
\* job is there, if there is a recipient and no run lost its lock.
CompletedIsNotified ==
  \A t \in Txs \ (unaddressed \cup lapsed) :
     jobs[t].state = "removed" /\ tx[t] = "COMPLETED" => t \in notified

\* Every transaction a client was told is QUEUED has its job run to its end:
\* delays and stalls are followed by another attempt, and attempts run out.
AcceptedJobsEnd ==
  \A t \in Txs : svc[t] = "returned" ~> jobs[t].state \in {"removed", "failed"}

-----------------------------------------------------------------------------
(***************************************************************************)
(* The life of a transaction is the one of the contract.                   *)
(***************************************************************************)
Outcome == [t \in Txs |-> IF svc[t] = "returned" THEN "returned"
                          ELSE IF svc[t] \in {"threw", "died"} THEN "threw"
                          ELSE "running"]
Enqueued == {t \in Txs : jobs[t].state # "none"}

Contract == INSTANCE TransactionContract
  WITH call <- Outcome, enqueued <- Enqueued

\* However attempts, stalls and lapsed locks are interleaved, a transaction is
\* stored before it is enqueued, enqueued before its caller is told so and
\* before it is processed, and undone by nobody but its creator's catch.
KeepsContract == Contract!Spec

-----------------------------------------------------------------------------
(***************************************************************************)
(* What the comments and documents of the repository say, and the code     *)
(* does not keep.                                                          *)
(***************************************************************************)
\* "prevents corrupting finished transactions": COMPLETED stays COMPLETED.
CompletedIsFinal ==
  [][\A t \in Txs : tx[t] = "COMPLETED" => tx'[t] = "COMPLETED"]_vars

\* "to prevent concurrent processing": one run at a time completes it.
OneRun ==
  \A v, w \in Workers :
     at[v] = "complete" /\ at[w] = "complete" /\ on[v] = on[w] => v = w

\* "Background jobs stall but resume", "BullMQ retries failed jobs": a job
\* that is done leaves a decided transaction, once its failures are handled.
AcknowledgedIsDecided ==
  \A t \in Txs :
     jobs[t].state = "removed" /\ (\A e \in failing : e[1] # t)
     => tx[t] \in {"COMPLETED", "FAILED"}

=============================================================================
