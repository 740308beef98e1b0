------------------------ MODULE TransactionContract ------------------------
(***************************************************************************)
(* The life of a transaction, without queue, locks or attempts: what       *)
(* createTransaction, the processor and onFailed may do to its status, and *)
(* what its caller has been told.                                          *)
(***************************************************************************)
CONSTANT Txs

VARIABLES
  tx,        \* status of each transaction, or "absent"
  call,      \* its createTransaction: running, returned, or thrown (or died)
  enqueued   \* transactions whose job was added

vars == <<tx, call, enqueued>>

Init ==
  /\ tx = [t \in Txs |-> "absent"]
  /\ call = [t \in Txs |-> "running"]
  /\ enqueued = {}

SetStatus(t, s) == tx' = [tx EXCEPT ![t] = s]
EndCall(t, end) == call[t] = "running" /\ call' = [call EXCEPT ![t] = end]

\* The insert, which may throw after its effect
Insert(t) ==
  /\ tx[t] = "absent" /\ SetStatus(t, "QUEUED")
  /\ call[t] = "running"
  /\ UNCHANGED call \/ EndCall(t, "threw")
  /\ UNCHANGED enqueued

\* The add, whose reply may be lost
Enqueue(t) ==
  /\ tx[t] = "QUEUED" /\ t \notin enqueued
  /\ enqueued' = enqueued \cup {t}
  /\ call[t] = "running"
  /\ UNCHANGED call \/ EndCall(t, "returned")
  /\ UNCHANGED tx

\* The call throws or dies.  It leaves no trace, the transaction as it is, or
\* FAILED, the catch of add being blind to what became of it.
Abort(t) ==
  /\ EndCall(t, "threw")
  /\ UNCHANGED tx \/ (tx[t] # "absent" /\ SetStatus(t, "FAILED"))
  /\ UNCHANGED enqueued

Start(t) ==
  /\ t \in enqueued /\ tx[t] \in {"QUEUED", "FAILED"}
  /\ SetStatus(t, "PROCESSING")
  /\ UNCHANGED <<call, enqueued>>

\* Only a run that found it QUEUED or FAILED completes it; by then it may be
\* FAILED (see OneRun), and completed it may be completed again
Complete(t) ==
  /\ tx[t] \in {"PROCESSING", "FAILED"} /\ t \in enqueued
  /\ SetStatus(t, "COMPLETED")
  /\ UNCHANGED <<call, enqueued>>

Fail(t) ==
  /\ t \in enqueued /\ tx[t] # "COMPLETED"
  /\ SetStatus(t, "FAILED")
  /\ UNCHANGED <<call, enqueued>>

Next ==
  \E t \in Txs : Insert(t) \/ Enqueue(t) \/ Abort(t)
                 \/ Start(t) \/ Complete(t) \/ Fail(t)

Spec == Init /\ [][Next]_vars

=============================================================================
