-------------------------------- MODULE Ledger --------------------------------
(***************************************************************************)
(* The ledger as its clients use it: POST /transactions with the           *)
(* interceptor around createTransaction, and the workers that process what *)
(* was created.  Idempotency is composed with the contract                 *)
(* TransactionProcessing keeps, so a transaction is identified with the    *)
(* request whose handler creates it.                                       *)
(*                                                                         *)
(* Two histories are for what the documentation and the stress tests       *)
(* expect of a calm day: how many calls failed, processes died or TTLs ran *)
(* out so far, and who asked after its key had been answered.              *)
(***************************************************************************)
EXTENDS Naturals

CONSTANTS
  Requests, Keys, Hashes, None,
  MaxFaults   \* bound: failed calls, deaths and expiries in one behaviour

ASSUME LedgerAssumption == None \notin Requests /\ MaxFaults \in Nat

VARIABLES
  req, pc, got, redis, db, expired, created, stolen,  \* Idempotency
  tx, call, enqueued,                                 \* TransactionContract
  faults,    \* history: how often something failed or ran out
  late       \* history: requests sent on a calm day to a key already answered

I == INSTANCE Idempotency
T == INSTANCE TransactionContract WITH Txs <- Requests

interceptor  == <<req, pc, got, redis, db, expired, created, stolen>>
transactions == <<tx, call, enqueued>>
vars == <<interceptor, transactions, faults, late>>

Init == I!Init /\ T!Init /\ faults = 0 /\ late = {}

Calm == faults = 0

Key(r) == req[r].key

Accepted(r) == pc[r] \in {"created", "cached"}

-----------------------------------------------------------------------------
\* createTransaction, called by the handler
Create(r) ==
  /\ pc[r] = "handle"
  /\ T!Insert(r) \/ T!Enqueue(r) \/ T!Abort(r)
  /\ UNCHANGED interceptor

\* Seeded fault: the add, or all of createTransaction, is not awaited
HandlerReturnsEarly(r) ==
  /\ call[r] = "running" => tx[r] = "QUEUED"
  /\ I!HandlerReturns(r)
  /\ UNCHANGED transactions

HandlerReturns(r) ==
  /\ call[r] = "returned"
  /\ I!HandlerReturns(r)
  /\ UNCHANGED transactions

\* Seeded fault: a timeout ends the wait for a handler that is still at it
HandlerTimesOut(r) == I!HandlerThrows(r) /\ UNCHANGED transactions

\* createTransaction threw, or the ValidationPipe, which runs behind the
\* interceptor, never called it
HandlerThrows(r) ==
  /\ \/ call[r] = "threw"
     \/ call[r] = "running" /\ tx[r] = "absent"
  /\ I!HandlerThrows(r)
  /\ UNCHANGED transactions

Intercept(r) ==
  /\ \/ I!Arrive(r) \/ I!RejectKeyless(r)
     \/ I!SetNX(r) \/ I!CreateRow(r) \/ I!UndoLock(r)
     \/ I!ReadKey(r) \/ I!ReadRow(r) \/ I!DropRow(r) \/ I!DropKey(r) \/ I!Recache(r)
     \/ I!StoreRow(r) \/ I!StoreKey(r) \/ I!ReleaseRow(r) \/ I!ReleaseKey(r)
  /\ UNCHANGED transactions

\* The workers, before or after the client has its answer
Process(t) ==
  /\ T!Start(t) \/ T!Complete(t) \/ T!Fail(t)
  /\ UNCHANGED interceptor

Environment ==
  /\ \/ \E r \in Requests : I!Crash(r) \/ I!ExpireRow(r)
     \/ \E k \in Keys : I!RedisForgets(k)
  /\ UNCHANGED transactions

CleanUp == I!CleanupExpiredRecords /\ UNCHANGED transactions

Fault == faults < MaxFaults /\ faults' = faults + 1

\* No call of r throws, and its answer is stored in both places
Succeeds(r) ==
  /\ pc'[r] \notin {"serverError", "undoError", "releaseRow"}
  /\ pc[r] = "storeRow" => pc'[r] # "created"
  /\ pc[r] = "storeKey" => \E e \in redis' : e.key = Key(r) /\ e.body = r

AnsweredAtArrival(r) ==
  pc[r] = "idle" /\ \E s \in Requests : Key(s) = Key(r) /\ Accepted(s)

Next ==
  \/ \E r \in Requests :
        /\ Create(r) \/ HandlerReturns(r) \/ HandlerThrows(r) \/ Intercept(r)
        /\ \/ Succeeds(r) /\ UNCHANGED faults
           \/ ~Succeeds(r) /\ Fault
        /\ late' = IF faults' > 0 THEN {}
                   ELSE IF AnsweredAtArrival(r) THEN late \cup {r} ELSE late
  \/ \E t \in Requests : Process(t) /\ UNCHANGED <<faults, late>>
  \/ Environment /\ Fault /\ late' = {}
  \/ CleanUp /\ UNCHANGED <<faults, late>>

Spec == Init /\ [][Next]_vars

-----------------------------------------------------------------------------
\* GET /transactions/:id answers with a transaction, not with a 404
FindById(t) == tx[t] # "absent"

\* "so GET /transactions/:id never returns 404": whoever is told of a
\* transaction, by its creation, a cached answer or a row read late, can fetch
\* it, and it will be processed.
AnsweredIsStored ==
  \A r \in Requests :
     Accepted(r) => LET b == IF pc[r] = "cached" THEN got[r] ELSE r
                    IN  FindById(b) /\ b \in enqueued

\* A key does not pay twice within its lifetime, unless the createTransaction
\* of one of the two threw although its job was added (or a live row was
\* cleaned up): that job is not withdrawn when the key is released.
PaidOnce ==
  \A r, s \in enqueued :
     /\ Key(r) = Key(s) /\ r # s /\ Key(r) \notin stolen
     => \E p \in {r, s} : call[p] = "threw" \/ p \in expired

\* The table of the documentation and the checks of the stress test, on a
\* calm day: a key answered before is answered alike to the same body and
\* refused to another; a key in use is a conflict; one request creates.
AnswersAsDocumented ==
  Calm =>
    /\ \A r, s \in Requests : Key(r) = Key(s) /\ pc[s] = "created" =>
         /\ pc[r] = "created" => r = s
         /\ pc[r] = "cached" => req[r] = req[s] /\ got[r] = s
         /\ r \in late /\ pc[r] \in I!Answers \ {"badRequest"}
            => pc[r] = IF req[r] = req[s] THEN "cached" ELSE "mismatch"
    /\ \A r \in Requests :
         pc[r] \in {"cached", "conflict", "mismatch"}
         => \E s \in Requests : Key(s) = Key(r) /\ pc[s] \in I!Holding \cup {"createRow", "created"}

-----------------------------------------------------------------------------
(***************************************************************************)
(* The invariant behind AnsweredIsStored: how far the interceptor is with  *)
(* a request, and how far its transaction.                                 *)
(***************************************************************************)
TypeOK ==
  /\ I!TypeOK
  /\ tx \in [Requests -> {"absent", "QUEUED", "PROCESSING", "COMPLETED", "FAILED"}]
  /\ call \in [Requests -> {"running", "returned", "threw"}]
  /\ enqueued \subseteq Requests
  /\ faults \in 0..MaxFaults
  /\ late \subseteq Requests

\* A body that is kept anywhere, or was read, is that of a request whose
\* handler has returned, whatever became of its key
BodiesCreated ==
  /\ \A x \in redis \cup db : x.body = None \/ x.body \in created
  /\ \A r \in Requests : pc[r] \in {"recache", "cached"} => got[r] \in created

\* A transaction exists only from the handler on, and a key is released only
\* by a request without a transaction or whose createTransaction threw
InStep ==
  \A r \in Requests :
     /\ r \in enqueued => tx[r] # "absent"
     /\ call[r] = "returned" => r \in enqueued
     /\ r \in created => call[r] = "returned"
     /\ pc[r] \in {"storeRow", "storeKey", "created"} => r \in created
     /\ pc[r] \in {"releaseRow", "releaseKey", "serverError"}
        => call[r] = "threw" \/ tx[r] = "absent"
     /\ pc[r] \in (I!Waiting \cup I!Answers \cup {"idle"}) \ {"created", "serverError"}
        => call[r] = "running" /\ tx[r] = "absent"

LInv == TypeOK /\ BodiesCreated /\ InStep

=============================================================================
