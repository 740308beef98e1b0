------------------------ MODULE NotificationDelivery ------------------------
(***************************************************************************)
(* The notification queue and NotificationProcessor: one row per           *)
(* transaction (the channel is always EMAIL), inserted as DELIVERED by an  *)
(* attempt or upserted as DEAD_LETTER by onFailed.                         *)
(*                                                                         *)
(* TransactionProcessor adds the job once per attempt that gets that far,  *)
(* with one job id per transaction; here any time, MaxAdds times.  Calls   *)
(* that throw may have had their effect.  An onFailed that throws is an    *)
(* unhandled rejection, which ends its process: WorkerDies covers the      *)
(* runs it takes along.                                                    *)
(***************************************************************************)
EXTENDS Naturals

CONSTANTS
  Txs,           \* transactions, and so notification job ids notif-<id>
  Workers,       \* worker slots of the notification queue, over all processes
  None,          \* no worker, no transaction
  MaxAttempts,   \* NOTIFICATION_MAX_ATTEMPTS
  MaxStalls,     \* maxStalledCount of BullMQ
  MaxAdds        \* bound: times the job of a transaction is added

ASSUME NDAssumption ==
  /\ None \notin Txs \cup Workers
  /\ MaxAttempts \in Nat \ {0} /\ MaxStalls \in Nat /\ MaxAdds \in Nat

VARIABLES
  row,       \* status of each transaction's notification, or "absent"
  adds,      \* how often its job was added
  jobs,      \* the notification queue
  at, on,    \* each worker slot: its next call, and its transaction
  handlers,  \* onFailed handlers: the failed attempt and the next call
  lapsed     \* history: transactions whose run lost its lock and went on

Q == INSTANCE JobQueue WITH Jobs <- Txs

vars == <<row, adds, jobs, at, on, handlers, lapsed>>

Handler == [tx: Txs, made: 0..MaxAttempts, at: {"find", "upsert"}]

TypeOK ==
  /\ row \in [Txs -> {"absent", "DELIVERED", "DEAD_LETTER"}]
  /\ adds \in [Txs -> 0..MaxAdds]
  /\ Q!QueueTypeOK
  /\ at \in [Workers -> {"idle", "create", "ack", "fail"}]
  /\ on \in [Workers -> Txs \cup {None}]
  /\ handlers \subseteq Handler
  /\ lapsed \subseteq Txs

Init ==
  /\ row = [t \in Txs |-> "absent"]
  /\ adds = [t \in Txs |-> 0]
  /\ Q!QueueInit
  /\ at = [w \in Workers |-> "idle"]
  /\ on = [w \in Workers |-> None]
  /\ handlers = {}
  /\ lapsed = {}

-----------------------------------------------------------------------------
\* enqueueNotification: jobId notif-<id>
Enqueue(t) ==
  /\ adds[t] < MaxAdds
  /\ adds' = [adds EXCEPT ![t] = @ + 1]
  /\ Q!Add(t)
  /\ UNCHANGED <<row, at, on, handlers, lapsed>>

Move(w, from, to) == at[w] = from /\ at' = [at EXCEPT ![w] = to]
Free(w) == on' = [on EXCEPT ![w] = None]

Take(w, t) ==
  /\ Move(w, "idle", "create")
  /\ Q!Take(t, w)
  /\ on' = [on EXCEPT ![w] = t]
  /\ UNCHANGED <<row, adds, handlers, lapsed>>

Deliver(t) == row[t] = "absent" /\ row' = [row EXCEPT ![t] = "DELIVERED"]

\* Seeded fault: every error is taken for the duplicate
CreateOrSkip(w) ==
  /\ Move(w, "create", "ack")
  /\ Deliver(on[w]) \/ UNCHANGED row
  /\ UNCHANGED <<adds, jobs, on, handlers, lapsed>>

\* create(), with P2002 taken for "already delivered"
Create(w) ==
  /\ \/ Move(w, "create", "ack") /\ Deliver(on[w])
     \/ Move(w, "create", "ack") /\ row[on[w]] # "absent" /\ UNCHANGED row
     \/ Move(w, "create", "fail") /\ (UNCHANGED row \/ Deliver(on[w]))
  /\ UNCHANGED <<adds, jobs, on, handlers, lapsed>>

Acknowledge(w) ==
  /\ Move(w, "ack", "idle") /\ Free(w)
  /\ Q!Complete(on[w], w)
  /\ UNCHANGED <<row, adds, handlers, lapsed>>

WorkerDies(w) ==
  /\ at[w] # "idle"
  /\ at' = [at EXCEPT ![w] = "idle"] /\ Free(w)
  /\ UNCHANGED <<row, adds, jobs, handlers, lapsed>>

-----------------------------------------------------------------------------
(***************************************************************************)
(* onFailed: nothing before the last attempt, then findUnique and upsert.  *)
(***************************************************************************)
\* Seeded fault: attemptsMade is taken for the count before this attempt
ExhaustedEarly(made) == made + 1 >= MaxAttempts

Exhausted(made) == made >= MaxAttempts

OnFailed(t, made) ==
  handlers' = IF Exhausted(made)
              THEN handlers \cup {[tx |-> t, made |-> made, at |-> "find"]}
              ELSE handlers

\* 'failed' is emitted only by a worker that still holds the lock.
FailAttempt(w) ==
  /\ Move(w, "fail", "idle") /\ Free(w)
  /\ Q!Fail(on[w], w)
  /\ IF Q!Locked(on[w], w)
     THEN OnFailed(on[w], jobs[on[w]].made + 1) ELSE UNCHANGED handlers
  /\ UNCHANGED <<row, adds, lapsed>>

\* ... or by the one that discards a job that stalled too often
DiscardStalled(t) ==
  /\ Q!Discard(t)
  /\ OnFailed(t, jobs[t].made + 1)
  /\ UNCHANGED <<row, adds, at, on, lapsed>>

\* Seeded fault: a record is upserted whatever is there
FindNotificationUnguarded(h) ==
  /\ h \in handlers /\ h.at = "find"
  /\ handlers' = (handlers \ {h}) \cup {[h EXCEPT !.at = "upsert"]}
  /\ UNCHANGED <<row, adds, jobs, at, on, lapsed>>

FindNotification(h) ==
  /\ h \in handlers /\ h.at = "find"
  /\ handlers' = (handlers \ {h}) \cup
       (IF row[h.tx] = "DELIVERED" THEN {} ELSE {[h EXCEPT !.at = "upsert"]})
  /\ UNCHANGED <<row, adds, jobs, at, on, lapsed>>

UpsertDeadLetter(h) ==
  /\ h \in handlers /\ h.at = "upsert"
  /\ handlers' = handlers \ {h}
  /\ row' = [row EXCEPT ![h.tx] = "DEAD_LETTER"]
  /\ UNCHANGED <<adds, jobs, at, on, lapsed>>

HandlerThrows(h) ==
  /\ h \in handlers
  /\ handlers' = handlers \ {h}
  /\ UNCHANGED <<row, adds, jobs, at, on, lapsed>>

-----------------------------------------------------------------------------
Promote(t) ==
  /\ Q!Promote(t)
  /\ UNCHANGED <<row, adds, at, on, handlers, lapsed>>

Abandoned(t) == \A w \in Workers : ~(Q!Locked(t, w) /\ on[w] = t)

\* The lock of a dead worker runs out, or that of a live one
Stall(t) ==
  /\ Q!Stall(t)
  /\ lapsed' = IF Abandoned(t) THEN lapsed ELSE lapsed \cup {t}
  /\ UNCHANGED <<row, adds, at, on, handlers>>

Work(w) ==
  \/ \E t \in Txs : Take(w, t)
  \/ Create(w) \/ Acknowledge(w) \/ FailAttempt(w)

Next ==
  \/ \E t \in Txs : Enqueue(t) \/ DiscardStalled(t) \/ Promote(t) \/ Stall(t)
  \/ \E w \in Workers : Work(w) \/ WorkerDies(w)
  \/ \E h \in handlers : FindNotification(h) \/ UpsertDeadLetter(h) \/ HandlerThrows(h)

Spec == Init /\ [][Next]_vars

(***************************************************************************)
(* Node runs what is ready to run; BullMQ ends delays, finds stalled jobs  *)
(* and hands out waiting ones.                                             *)
(***************************************************************************)
FairSpec ==
  /\ Spec
  /\ \A t \in Txs :
       /\ WF_vars(Promote(t)) /\ WF_vars(DiscardStalled(t))
       /\ WF_vars(Abandoned(t) /\ Stall(t))
  /\ \A w \in Workers : WF_vars(Work(w))

-----------------------------------------------------------------------------
\* A job that is done has delivered, although process() ends well without an
\* insert of its own when it takes P2002 for "already delivered".
AcknowledgedIsDelivered ==
  \A t \in Txs : jobs[t].state = "removed" => row[t] = "DELIVERED"

\* A dead letter is the end of a job that used up all its attempts, and the
\* failed job stays in the queue, where it keeps the id from being added again.
DeadLetterIsFinalFailure ==
  \A t \in Txs :
     row[t] = "DEAD_LETTER" => jobs[t].state = "failed" /\ jobs[t].made = MaxAttempts

\* "Guard: never overwrite a DELIVERED notification", also when the delivering
\* attempt is itself reported as failed, as long as no run lost its lock.
DeliveredIsKept ==
  [][\A t \in Txs \ lapsed : row[t] = "DELIVERED" => row'[t] = "DELIVERED"]_vars

\* A notification that was enqueued is delivered in the end, or its job is
\* among the failed ones for an operator to find.
EnqueuedIsHandled ==
  \A t \in Txs :
     adds[t] > 0 ~> row[t] = "DELIVERED" \/ jobs[t].state = "failed"

(***************************************************************************)
(* What a comment says, and the code does not keep.                        *)
(***************************************************************************)
\* "never overwrite a DELIVERED notification", with no exception
DeliveredIsFinal ==
  [][\A t \in Txs : row[t] = "DELIVERED" => row'[t] = "DELIVERED"]_vars

=============================================================================
