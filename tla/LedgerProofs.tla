----------------------------- MODULE LedgerProofs -----------------------------
(***************************************************************************)
(* What the composition of the interceptor and createTransaction promises, *)
(* for any number of requests, keys, bodies and faults.                    *)
(***************************************************************************)
EXTENDS Ledger, TLAPS

USE DEF Key, transactions, interceptor,
        I!Key, I!Hash, I!Entry, I!Row, I!Entries, I!Rows, I!Expired,
        I!RedisSet, I!RedisDel, I!InsertRow, I!DeleteRow, I!UpdateRow,
        I!Goto, I!Throws, I!IsDuplicate, I!SameBody, I!InFlight,
        I!Waiting, I!Holding, I!Active, I!Answers, I!Labels,
        T!SetStatus, T!EndCall

-----------------------------------------------------------------------------
\* The steps of the interceptor, with or without createTransaction beside them
LEMMA InterceptorTyped ==
  ASSUME I!TypeOK,
         \/ \E r \in Requests :
               \/ I!HandlerReturns(r) \/ I!HandlerThrows(r) \/ Intercept(r)
               \/ I!Crash(r) \/ I!ExpireRow(r)
         \/ \E k \in Keys : I!RedisForgets(k)
         \/ I!CleanupExpiredRecords
         \/ UNCHANGED interceptor
  PROVE  I!TypeOK'
<1> USE LedgerAssumption DEF I!TypeOK
<1>1. ASSUME NEW r \in Requests,
             \/ I!Arrive(r) \/ I!RejectKeyless(r) \/ I!Crash(r) \/ I!DropKey(r)
             \/ I!HandlerReturns(r) \/ I!HandlerThrows(r) \/ I!ReleaseKey(r)
             \/ I!ExpireRow(r) \/ I!UndoLock(r)
      PROVE  I!TypeOK'
  BY <1>1 DEF I!Arrive, I!RejectKeyless, I!Crash, I!DropKey, I!HandlerReturns,
    I!HandlerThrows, I!ReleaseKey, I!ExpireRow, I!UndoLock
<1>2. ASSUME NEW r \in Requests, I!SetNX(r) PROVE I!TypeOK'
  BY <1>2 DEF I!SetNX
<1>3. ASSUME NEW r \in Requests, I!CreateRow(r) PROVE I!TypeOK'
  BY <1>3 DEF I!CreateRow
<1>4. ASSUME NEW r \in Requests, I!ReadKey(r) PROVE I!TypeOK'
  BY <1>4 DEF I!ReadKey
<1>5. ASSUME NEW r \in Requests, I!ReadRow(r) PROVE I!TypeOK'
  BY <1>5 DEF I!ReadRow
<1>6. ASSUME NEW r \in Requests, I!DropRow(r) PROVE I!TypeOK'
  BY <1>6 DEF I!DropRow
<1>7. ASSUME NEW r \in Requests, I!Recache(r) PROVE I!TypeOK'
  BY <1>7 DEF I!Recache
<1>8. ASSUME NEW r \in Requests, I!StoreRow(r) PROVE I!TypeOK'
  BY <1>8 DEF I!StoreRow
<1>9. ASSUME NEW r \in Requests, I!StoreKey(r) PROVE I!TypeOK'
  BY <1>9 DEF I!StoreKey
<1>10. ASSUME NEW r \in Requests, I!ReleaseRow(r) PROVE I!TypeOK'
  BY <1>10 DEF I!ReleaseRow
<1>11. ASSUME NEW k \in Keys, I!RedisForgets(k) PROVE I!TypeOK'
  BY <1>11 DEF I!RedisForgets
<1>12. CASE I!CleanupExpiredRecords
  BY <1>12 DEF I!CleanupExpiredRecords
<1>13. CASE UNCHANGED interceptor
  BY <1>13
<1>14. QED BY <1>1, <1>2, <1>3, <1>4, <1>5, <1>6, <1>7, <1>8, <1>9, <1>10, <1>11,
          <1>12, <1>13 DEF Intercept

\* Every step keeps the types.
LEMMA TypeOKStep ==
  ASSUME TypeOK, [Next]_vars
  PROVE  TypeOK'
<1>1. I!TypeOK'
  BY InterceptorTyped DEF TypeOK, Next, vars, Create, HandlerReturns,
    HandlerThrows, Process, Environment, CleanUp
<1>2. /\ tx' \in [Requests -> {"absent", "QUEUED", "PROCESSING", "COMPLETED", "FAILED"}]
      /\ call' \in [Requests -> {"running", "returned", "threw"}]
      /\ enqueued' \subseteq Requests
  <2>1. ASSUME NEW r \in Requests,
               T!Insert(r) \/ T!Enqueue(r) \/ T!Abort(r)
               \/ T!Start(r) \/ T!Complete(r) \/ T!Fail(r)
        PROVE  <1>2!1 /\ <1>2!2 /\ <1>2!3
    BY <2>1 DEF TypeOK, T!Insert, T!Enqueue, T!Abort, T!Start, T!Complete, T!Fail
  <2>2. CASE UNCHANGED transactions
    BY <2>2 DEF TypeOK
  <2>3. QED BY <2>1, <2>2 DEF Next, vars, Create, HandlerReturns, HandlerThrows,
               Intercept, Process, Environment, CleanUp
<1>3. faults' \in 0..MaxFaults /\ late' \subseteq Requests
  BY LedgerAssumption DEF TypeOK, Next, vars, Fault
<1>4. QED BY <1>1, <1>2, <1>3 DEF TypeOK

\* A body is kept, or read, only after the handler that made it returned.
LEMMA BodiesCreatedStep ==
  ASSUME TypeOK, BodiesCreated, InStep, [Next]_vars
  PROVE  BodiesCreated'
<1> USE LedgerAssumption DEF TypeOK, I!TypeOK, BodiesCreated
<1>1. ASSUME NEW r \in Requests,
             \/ I!Arrive(r) \/ I!RejectKeyless(r) \/ I!Crash(r) \/ I!DropKey(r)
             \/ I!HandlerReturns(r) \/ I!HandlerThrows(r) \/ I!ReleaseKey(r)
             \/ I!ExpireRow(r) \/ I!UndoLock(r)
      PROVE  BodiesCreated'
  BY <1>1 DEF I!Arrive, I!RejectKeyless, I!Crash, I!DropKey, I!HandlerReturns,
    I!HandlerThrows, I!ReleaseKey, I!ExpireRow, I!UndoLock
<1>2. ASSUME NEW r \in Requests, I!SetNX(r) PROVE BodiesCreated'
  BY <1>2 DEF I!SetNX
<1>3. ASSUME NEW r \in Requests, I!CreateRow(r) PROVE BodiesCreated'
  BY <1>3 DEF I!CreateRow
<1>4. ASSUME NEW r \in Requests, I!ReadKey(r) PROVE BodiesCreated'
  BY <1>4 DEF I!ReadKey
<1>5. ASSUME NEW r \in Requests, I!ReadRow(r) PROVE BodiesCreated'
  BY <1>5 DEF I!ReadRow
<1>6. ASSUME NEW r \in Requests, I!DropRow(r) PROVE BodiesCreated'
  BY <1>6 DEF I!DropRow
<1>7. ASSUME NEW r \in Requests, I!Recache(r) PROVE BodiesCreated'
  BY <1>7 DEF I!Recache
<1>8. ASSUME NEW r \in Requests, I!StoreRow(r) PROVE BodiesCreated'
  <2>1. r \in created
    BY <1>8 DEF I!StoreRow, InStep
  <2>2. ASSUME NEW x \in db' PROVE x.body = None \/ x.body \in created
    BY <1>8, <2>1 DEF I!StoreRow
  <2>3. QED BY <1>8, <2>2 DEF I!StoreRow
<1>9. ASSUME NEW r \in Requests, I!StoreKey(r) PROVE BodiesCreated'
  BY <1>9 DEF I!StoreKey, InStep
<1>10. ASSUME NEW r \in Requests, I!ReleaseRow(r) PROVE BodiesCreated'
  BY <1>10 DEF I!ReleaseRow
<1>11. ASSUME NEW k \in Keys, I!RedisForgets(k) PROVE BodiesCreated'
  BY <1>11 DEF I!RedisForgets
<1>12. CASE I!CleanupExpiredRecords
  BY <1>12 DEF I!CleanupExpiredRecords
<1>13. CASE UNCHANGED interceptor
  BY <1>13
<1>14. QED BY <1>1, <1>2, <1>3, <1>4, <1>5, <1>6, <1>7, <1>8, <1>9, <1>10, <1>11,
          <1>12, <1>13 DEF Next, vars, Create, HandlerReturns, HandlerThrows,
          Intercept, Process, Environment, CleanUp

\* A request reaches each point with its transaction where it should be.
LEMMA InStepStep ==
  ASSUME TypeOK, InStep, [Next]_vars
  PROVE  InStep'
<1> USE DEF TypeOK, I!TypeOK, InStep
<1>1. ASSUME NEW r \in Requests, Create(r)
      PROVE  InStep'
  BY <1>1 DEF Create, T!Insert, T!Enqueue, T!Abort
<1>2. ASSUME NEW r \in Requests, Process(r)
      PROVE  InStep'
  BY <1>2 DEF Process, T!Start, T!Complete, T!Fail
<1>3. ASSUME NEW r \in Requests, HandlerReturns(r)
      PROVE  InStep'
  BY <1>3 DEF HandlerReturns, I!HandlerReturns
<1>4. ASSUME NEW r \in Requests, HandlerThrows(r)
      PROVE  InStep'
  BY <1>4 DEF HandlerThrows, I!HandlerThrows
<1>5. ASSUME NEW r \in Requests, Intercept(r) \/ (I!Crash(r) /\ UNCHANGED transactions)
      PROVE  InStep'
  <2>1. UNCHANGED <<transactions, created>>
    BY <1>5 DEF Intercept, I!Arrive, I!RejectKeyless, I!SetNX, I!CreateRow,
      I!UndoLock, I!ReadKey, I!ReadRow, I!DropRow, I!DropKey, I!Recache,
      I!StoreRow, I!StoreKey, I!ReleaseRow, I!ReleaseKey, I!Crash
  <2>2. PICK to :
           /\ pc' = [pc EXCEPT ![r] = to]
           /\ \/ pc[r] \in (I!Waiting \cup {"idle"}) /\ to \in (I!Waiting \cup I!Answers \cup {"handle"}) \ {"created"}
              \/ pc[r] \in {"storeRow", "storeKey"} /\ to \in {"storeKey", "created"}
              \/ pc[r] \in {"releaseRow", "releaseKey"} /\ to \in {"releaseKey", "serverError"}
              \/ to = "crashed"
    BY <1>5 DEF Intercept, I!Arrive, I!RejectKeyless, I!SetNX, I!CreateRow,
      I!UndoLock, I!ReadKey, I!ReadRow, I!DropRow, I!DropKey, I!Recache,
      I!StoreRow, I!StoreKey, I!ReleaseRow, I!ReleaseKey, I!Crash
  <2>3. \A s \in Requests : pc'[s] = IF s = r THEN to ELSE pc[s]
    BY <2>2
  <2>4. QED BY <2>1, <2>2, <2>3
<1>6. CASE UNCHANGED <<pc, created, transactions>>
  BY <1>6
<1>7. QED BY <1>1, <1>2, <1>3, <1>4, <1>5, <1>6 DEF Next, vars, Environment,
         CleanUp, I!ExpireRow, I!RedisForgets, I!CleanupExpiredRecords

-----------------------------------------------------------------------------
\* The row is what keeps a key from paying twice: one per key, its owner's,
\* and there from the claim on until what was enqueued has expired.
OneOwner ==
  /\ \A x, y \in db : x.key = y.key => x = y
  /\ \A x \in db : x.key = Key(x.owner)

NotOver ==
  \A r \in Requests :
     /\ pc[r] \in I!Active \cup {"idle"} => r \notin expired
     /\ pc[r] = "idle" => \A x \in db : x.owner # r

Kept ==
  \A r \in Requests :
     /\ Key(r) \notin stolen
     /\ pc[r] \in I!Holding \/ (r \in enqueued \ expired /\ call[r] # "threw")
     => \E x \in db : x.owner = r

PInv == OneOwner /\ NotOver /\ Kept

LEMMA OneOwnerStep ==
  ASSUME TypeOK, OneOwner, [Next]_vars
  PROVE  OneOwner' /\ (NotOver => NotOver')
<1> USE DEF TypeOK, I!TypeOK
<1>1. OneOwner'
  <2> USE DEF OneOwner
  <2>1. ASSUME NEW r \in Requests, I!CreateRow(r) PROVE OneOwner'
    BY <2>1 DEF I!CreateRow
  <2>2. ASSUME NEW r \in Requests, I!StoreRow(r) PROVE OneOwner'
    <3>1. CASE UNCHANGED db
      BY <2>2, <3>1 DEF I!StoreRow
    <3>2. CASE I!UpdateRow(Key(r), r)
      <4> DEFINE up(x) == IF x.key = Key(r) THEN [x EXCEPT !.body = r] ELSE x
      <4>1. \A x \in db : up(x).key = x.key /\ up(x).owner = x.owner
        OBVIOUS
      <4>2. \A y \in db' : \E x \in db : y = up(x)
        BY <3>2
      <4> HIDE DEF up
      <4>3. UNCHANGED req
        BY <2>2 DEF I!StoreRow
      <4>4. QED BY <4>1, <4>2, <4>3
    <3>3. QED BY <2>2, <3>1, <3>2 DEF I!StoreRow
  <2>3. ASSUME NEW r \in Requests, I!DropRow(r) \/ I!ReleaseRow(r) PROVE OneOwner'
    BY <2>3 DEF I!DropRow, I!ReleaseRow
  <2>4. CASE I!CleanupExpiredRecords
    BY <2>4 DEF I!CleanupExpiredRecords
  <2>5. CASE UNCHANGED <<db, req>>
    BY <2>5
  <2>6. QED BY <2>1, <2>2, <2>3, <2>4, <2>5 DEF Next, vars, Create, HandlerReturns,
           HandlerThrows, Intercept, Process, Environment, CleanUp, I!Arrive,
           I!RejectKeyless, I!SetNX, I!UndoLock, I!ReadKey, I!ReadRow, I!DropKey,
           I!Recache, I!HandlerReturns, I!HandlerThrows, I!StoreKey, I!ReleaseKey,
           I!Crash, I!ExpireRow, I!RedisForgets
<1>2. ASSUME NotOver PROVE NotOver'
  <2> USE <1>2 DEF NotOver
  <2>1. ASSUME NEW r \in Requests, I!ExpireRow(r) PROVE NotOver'
    BY <2>1 DEF I!ExpireRow
  <2>2. ASSUME NEW r \in Requests, Intercept(r) \/ I!HandlerReturns(r)
                                   \/ I!HandlerThrows(r) \/ I!Crash(r)
        PROVE  NotOver'
    <3>1. /\ UNCHANGED expired /\ pc[r] \in I!Active \cup {"idle"}
          /\ pc'[r] # "idle" /\ \A s \in Requests \ {r} : pc'[s] = pc[s]
      BY <2>2 DEF Intercept, I!Arrive, I!RejectKeyless, I!SetNX, I!CreateRow,
        I!UndoLock, I!ReadKey, I!ReadRow, I!DropRow, I!DropKey, I!Recache,
        I!HandlerReturns, I!HandlerThrows, I!StoreRow, I!StoreKey, I!ReleaseRow,
        I!ReleaseKey, I!Crash
    <3>2. \A x \in db' : x.owner = r \/ \E y \in db : x.owner = y.owner
      <4>1. CASE UNCHANGED db
        BY <4>1
      <4>2. CASE I!InsertRow(r)
        BY <4>2
      <4>3. CASE I!UpdateRow(Key(r), r)
        BY <4>3
      <4>4. CASE I!DeleteRow(Key(r))
        BY <4>4
      <4>5. QED BY <2>2, <4>1, <4>2, <4>3, <4>4 DEF Intercept, I!Arrive,
        I!RejectKeyless, I!SetNX, I!CreateRow, I!UndoLock, I!ReadKey, I!ReadRow,
        I!DropRow, I!DropKey, I!Recache, I!HandlerReturns, I!HandlerThrows,
        I!StoreRow, I!StoreKey, I!ReleaseRow, I!ReleaseKey, I!Crash
    <3>3. QED BY <3>1, <3>2
  <2>3. CASE UNCHANGED <<pc, expired>> /\ db' \subseteq db
    BY <2>3
  <2>4. QED BY <2>1, <2>2, <2>3 DEF Next, vars, Create, HandlerReturns,
           HandlerThrows, Process, Environment, CleanUp, I!RedisForgets,
           I!CleanupExpiredRecords
<1>3. QED BY <1>1, <1>2

\* The row of a claim or of an enqueued transaction goes only when it expired,
\* when its handler failed, or by the cleanup of a live row.
LEMMA KeptStep ==
  ASSUME TypeOK, InStep, PInv, [Next]_vars
  PROVE  Kept'
<1> USE DEF TypeOK, I!TypeOK, PInv, Kept
<1>1. ASSUME NEW r \in Requests, Create(r)
      PROVE  Kept'
  BY <1>1 DEF Create, T!Insert, T!Enqueue, T!Abort
<1>2. ASSUME NEW r \in Requests, Process(r)
      PROVE  Kept'
  BY <1>2 DEF Process, T!Start, T!Complete, T!Fail
<1>3. ASSUME NEW r \in Requests, UNCHANGED transactions,
             \/ I!Arrive(r) \/ I!RejectKeyless(r) \/ I!SetNX(r) \/ I!UndoLock(r)
             \/ I!ReadKey(r) \/ I!ReadRow(r) \/ I!DropKey(r) \/ I!Recache(r)
             \/ I!HandlerReturns(r) \/ I!HandlerThrows(r) \/ I!StoreKey(r)
             \/ I!ReleaseKey(r) \/ I!Crash(r) \/ I!ExpireRow(r)
      PROVE  Kept'
  <2>1. UNCHANGED <<req, db, stolen>> /\ expired \subseteq expired'
    BY <1>3 DEF I!Arrive, I!RejectKeyless, I!SetNX, I!UndoLock, I!ReadKey,
      I!ReadRow, I!DropKey, I!Recache, I!HandlerReturns, I!HandlerThrows,
      I!StoreKey, I!ReleaseKey, I!Crash, I!ExpireRow
  <2>2. \A s \in Requests : pc'[s] \in I!Holding => pc[s] \in I!Holding
    BY <1>3 DEF I!Arrive, I!RejectKeyless, I!SetNX, I!UndoLock, I!ReadKey,
      I!ReadRow, I!DropKey, I!Recache, I!HandlerReturns, I!HandlerThrows,
      I!StoreKey, I!ReleaseKey, I!Crash, I!ExpireRow
  <2>3. QED BY <1>3, <2>1, <2>2
<1>4. ASSUME NEW r \in Requests, UNCHANGED transactions, I!CreateRow(r)
      PROVE  Kept'
  <2>1. db \subseteq db' /\ UNCHANGED <<req, expired, stolen>>
    BY <1>4 DEF I!CreateRow
  <2>2. pc'[r] \in I!Holding => \E x \in db' : x.owner = r
    <3> DEFINE row == [key |-> Key(r), hash |-> I!Hash(r), body |-> None, owner |-> r]
    <3>1. pc'[r] \in I!Holding => row \in db'
      BY <1>4 DEF I!CreateRow
    <3>2. row.owner = r
      OBVIOUS
    <3>3. QED BY <3>1, <3>2
  <2>3. \A s \in Requests \ {r} : pc'[s] = pc[s]
    BY <1>4 DEF I!CreateRow
  <2>4. QED BY <1>4, <2>1, <2>2, <2>3
<1>5. ASSUME NEW r \in Requests, UNCHANGED transactions, I!DropRow(r)
      PROVE  Kept'
  <2>1. UNCHANGED <<req, expired>> /\ stolen \subseteq stolen'
        /\ \A s \in Requests : pc'[s] \in I!Holding => pc[s] \in I!Holding
    BY <1>5 DEF I!DropRow
  <2>2. ASSUME NEW x \in db, x.owner \notin expired, Key(x.owner) \notin stolen'
        PROVE  x \in db'
    BY <1>5, <2>2 DEF I!DropRow, OneOwner
  <2>3. \A s \in Requests : pc[s] \in I!Holding => s \notin expired
    BY DEF NotOver
  <2>4. QED BY <1>5, <2>1, <2>2, <2>3
<1>6. ASSUME NEW r \in Requests, UNCHANGED transactions, I!StoreRow(r)
      PROVE  Kept'
  <2>1. UNCHANGED <<req, expired, stolen>>
        /\ \A s \in Requests : pc'[s] \in I!Holding => pc[s] \in I!Holding
    BY <1>6 DEF I!StoreRow
  <2>2. \A x \in db : \E y \in db' : y.owner = x.owner
    <3>1. TAKE x \in db
    <3>2. x \in db' \/ [x EXCEPT !.body = r] \in db'
      BY <1>6 DEF I!StoreRow
    <3>3. [x EXCEPT !.body = r].owner = x.owner
      OBVIOUS
    <3>4. QED BY <3>2, <3>3
  <2>3. QED BY <1>6, <2>1, <2>2
<1>7. ASSUME NEW r \in Requests, UNCHANGED transactions, I!ReleaseRow(r)
      PROVE  Kept'
  <2>1. r \notin enqueued \/ call[r] = "threw"
    BY <1>7 DEF I!ReleaseRow, InStep
  <2>2. \A s \in Requests \ {r} : pc'[s] = pc[s]
    BY <1>7 DEF I!ReleaseRow
  <2>3. UNCHANGED <<req, expired, stolen>> /\ pc[r] \in I!Holding /\ pc'[r] \notin I!Holding
    BY <1>7 DEF I!ReleaseRow
  <2>4. ASSUME NEW x \in db, x.owner # r, Key(x.owner) \notin stolen
        PROVE  x \in db'
    BY <1>7, <2>3, <2>4 DEF I!ReleaseRow, OneOwner
  <2>5. QED BY <1>7, <2>1, <2>2, <2>3, <2>4
<1>8. CASE I!CleanupExpiredRecords /\ UNCHANGED transactions
  BY <1>8 DEF I!CleanupExpiredRecords, NotOver
<1>9. ASSUME NEW k \in Keys, I!RedisForgets(k), UNCHANGED transactions
      PROVE  Kept'
  BY <1>9 DEF I!RedisForgets
<1>10. CASE UNCHANGED <<interceptor, transactions>>
  BY <1>10
<1>11. QED BY <1>1, <1>2, <1>3, <1>4, <1>5, <1>6, <1>7, <1>8, <1>9, <1>10
         DEF Next, vars, HandlerReturns, HandlerThrows, Intercept, Environment,
             CleanUp

-----------------------------------------------------------------------------
(***************************************************************************)
(* Calm days: nothing failed, died or ran out yet.  Each key has at most   *)
(* one request that leads, from its SET NX on, and Redis says how far.     *)
(***************************************************************************)
Leads(r) == pc[r] \in {"createRow", "handle", "storeRow", "storeKey", "created"}

\* Followers read the leader's entry and nothing else
CalmLabels ==
  \A r \in Requests :
     Leads(r) \/ pc[r] \in {"idle", "badRequest", "setNX", "readKey",
                            "cached", "conflict", "mismatch"}

OneLeader == \A r, s \in Requests : Leads(r) /\ Leads(s) /\ Key(r) = Key(s) => r = s

\* The entry and the row of a key are its leader's
LeaderRecorded ==
  /\ \A e \in redis : \E s \in Requests :
        /\ Leads(s) /\ Key(s) = e.key /\ I!Hash(s) = e.hash
        /\ e.body = IF pc[s] = "created" THEN s ELSE None
  /\ \A s \in Requests : Leads(s) => \E e \in redis : e.key = Key(s)
  /\ \A x \in db : \E s \in Requests :
        Leads(s) /\ pc[s] # "createRow" /\ Key(s) = x.key

WellAnswered(r) ==
  /\ pc[r] \in {"readKey", "conflict"} =>
       \E s \in Requests : Leads(s) /\ Key(s) = Key(r)
  /\ pc[r] = "mismatch" =>
       \E s \in Requests : Leads(s) /\ Key(s) = Key(r) /\ I!Hash(s) # I!Hash(r)
  /\ pc[r] = "cached" =>
       /\ got[r] \in Requests /\ pc[got[r]] = "created"
       /\ Key(got[r]) = Key(r) /\ I!Hash(got[r]) = I!Hash(r)

FollowersAnswered == \A r \in Requests : WellAnswered(r)

LatecomersFollow ==
  \A r \in late :
     /\ pc[r] \in {"setNX", "badRequest", "readKey", "cached", "mismatch"}
     /\ \E s \in Requests : pc[s] = "created" /\ Key(s) = Key(r)

CalmInv ==
  /\ expired = {} /\ CalmLabels /\ OneLeader
  /\ LeaderRecorded /\ FollowersAnswered /\ LatecomersFollow

CInv == Calm => CalmInv

\* What follows a leader stays right while leaders stay and creations too.
LEMMA FollowersKept ==
  ASSUME FollowersAnswered, LatecomersFollow, UNCHANGED req,
         \A s \in Requests : /\ Leads(s) => Leads(s)'
                             /\ pc[s] = "created" => pc'[s] = "created"
  PROVE  /\ \A q \in Requests : pc'[q] = pc[q] /\ got'[q] = got[q] => WellAnswered(q)'
         /\ \A q \in late : \E s \in Requests : pc'[s] = "created" /\ Key(s)' = Key(q)'
<1>1. ASSUME NEW q \in Requests, pc'[q] = pc[q], got'[q] = got[q]
      PROVE  WellAnswered(q)'
  <2>1. WellAnswered(q)
    BY DEF FollowersAnswered
  <2> HIDE DEF Leads
  <2>2. CASE pc[q] \in {"readKey", "conflict"}
    BY <1>1, <2>1, <2>2 DEF WellAnswered
  <2>3. CASE pc[q] = "mismatch"
    BY <1>1, <2>1, <2>3 DEF WellAnswered
  <2>4. CASE pc[q] = "cached"
    <3>1. /\ got[q] \in Requests /\ pc[got[q]] = "created"
          /\ Key(got[q]) = Key(q) /\ I!Hash(got[q]) = I!Hash(q)
      BY <2>1, <2>4 DEF WellAnswered
    <3>2. pc'[got[q]] = "created"
      BY <3>1
    <3>3. QED BY <1>1, <2>4, <3>1, <3>2 DEF WellAnswered
  <2>5. QED BY <1>1, <2>2, <2>3, <2>4 DEF WellAnswered
<1>2. \A q \in late : \E s \in Requests : pc'[s] = "created" /\ Key(s)' = Key(q)'
  BY DEF LatecomersFollow
<1>3. QED BY <1>1, <1>2

\* Steps of followers leave the leaders and what is recorded of them alone.
LEMMA LeadersKept ==
  ASSUME OneLeader, LeaderRecorded, UNCHANGED <<req, redis, db>>,
         \A s \in Requests : /\ Leads(s)' <=> Leads(s)
                             /\ Leads(s) => pc'[s] = pc[s]
  PROVE  /\ OneLeader' /\ LeaderRecorded'
         /\ \A s \in Requests : pc[s] = "created" <=> pc'[s] = "created"
<1>1. \A s \in Requests : pc[s] = "created" <=> pc'[s] = "created"
  BY DEF Leads
<1> HIDE DEF Leads
<1>2. OneLeader'
  BY DEF OneLeader
<1>3. ASSUME NEW e \in redis
      PROVE  \E s \in Requests :
               /\ Leads(s)' /\ Key(s)' = e.key /\ I!Hash(s)' = e.hash
               /\ e.body = IF pc'[s] = "created" THEN s ELSE None
  <2>1. PICK s \in Requests :
          /\ Leads(s) /\ Key(s) = e.key /\ I!Hash(s) = e.hash
          /\ e.body = IF pc[s] = "created" THEN s ELSE None
    BY DEF LeaderRecorded
  <2>2. QED BY <1>1, <2>1
<1>4. ASSUME NEW s \in Requests, Leads(s)'
      PROVE  \E e \in redis : e.key = Key(s)'
  BY <1>4 DEF LeaderRecorded
<1>5. ASSUME NEW x \in db
      PROVE  \E s \in Requests : Leads(s)' /\ pc'[s] # "createRow" /\ Key(s)' = x.key
  <2>1. PICK s \in Requests : Leads(s) /\ pc[s] # "createRow" /\ Key(s) = x.key
    BY DEF LeaderRecorded
  <2>2. QED BY <2>1
<1>6. LeaderRecorded'
  BY <1>3, <1>4, <1>5 DEF LeaderRecorded
<1>7. QED BY <1>1, <1>2, <1>6

\* A request that arrives after an answer finds a request that created.
LEMMA ArriveCalm ==
  ASSUME TypeOK, CalmInv, NEW r \in Requests, I!Arrive(r) \/ I!RejectKeyless(r),
         late' = IF AnsweredAtArrival(r) THEN late \cup {r} ELSE late
  PROVE  CalmInv'
<1>1. /\ pc[r] = "idle" /\ pc'[r] \in {"setNX", "badRequest"}
      /\ \A s \in Requests \ {r} : pc'[s] = pc[s]
      /\ UNCHANGED <<req, got, redis, db, expired>>
  BY DEF I!Arrive, I!RejectKeyless, TypeOK, I!TypeOK
<1>2. \A s \in Requests : /\ Leads(s)' <=> Leads(s)
                          /\ Leads(s) => pc'[s] = pc[s]
  BY <1>1 DEF Leads
<1>3. /\ OneLeader' /\ LeaderRecorded'
      /\ \A s \in Requests : pc[s] = "created" <=> pc'[s] = "created"
  BY <1>1, <1>2, LeadersKept DEF CalmInv
<1>4. /\ \A q \in Requests \ {r} : WellAnswered(q)'
      /\ \A q \in late : \E s \in Requests : pc'[s] = "created" /\ Key(s)' = Key(q)'
  BY <1>1, <1>2, <1>3, FollowersKept DEF CalmInv
<1>5. CalmLabels'
  BY <1>1, <1>2 DEF CalmInv, CalmLabels
<1>6. FollowersAnswered'
  <2>1. WellAnswered(r)'
    BY <1>1 DEF WellAnswered
  <2>2. QED BY <1>4, <2>1 DEF FollowersAnswered
<1>7. LatecomersFollow'
  <2>1. ASSUME AnsweredAtArrival(r)
        PROVE  \E s \in Requests : pc'[s] = "created" /\ Key(s)' = Key(r)'
    <3>1. PICK s \in Requests : Key(s) = Key(r) /\ pc[s] \in {"created", "cached"}
      BY <2>1 DEF AnsweredAtArrival, Accepted
    <3>2. WellAnswered(s)
      BY DEF CalmInv, FollowersAnswered
    <3>3. PICK t \in Requests : Key(t) = Key(r) /\ pc[t] = "created"
      BY <3>1, <3>2 DEF WellAnswered
    <3>4. QED BY <1>1, <1>3, <3>3
  <2>2. r \notin late
    BY <1>1 DEF CalmInv, LatecomersFollow
  <2>3. QED BY <1>1, <1>4, <2>1, <2>2 DEF CalmInv, LatecomersFollow, TypeOK
<1>8. QED BY <1>1, <1>3, <1>5, <1>6, <1>7 DEF CalmInv

\* SET NX finds a leader's entry: the request follows.
LEMMA FollowCalm ==
  ASSUME TypeOK, CalmInv, NEW r \in Requests, I!SetNX(r), pc'[r] = "readKey",
         late' = late
  PROVE  CalmInv'
<1>1. /\ pc[r] = "setNX" /\ I!Entries(Key(r)) # {}
      /\ \A s \in Requests \ {r} : pc'[s] = pc[s]
      /\ UNCHANGED <<req, got, redis, db, expired>>
  BY DEF I!SetNX, TypeOK, I!TypeOK
<1>2. \A s \in Requests : /\ Leads(s)' <=> Leads(s)
                          /\ Leads(s) => pc'[s] = pc[s]
  BY <1>1 DEF Leads
<1>3. /\ OneLeader' /\ LeaderRecorded'
      /\ \A s \in Requests : pc[s] = "created" <=> pc'[s] = "created"
  BY <1>1, <1>2, LeadersKept DEF CalmInv
<1>4. /\ \A q \in Requests \ {r} : WellAnswered(q)'
      /\ \A q \in late : \E s \in Requests : pc'[s] = "created" /\ Key(s)' = Key(q)'
  BY <1>1, <1>2, <1>3, FollowersKept DEF CalmInv
<1>5. CalmLabels'
  BY <1>1, <1>2 DEF CalmInv, CalmLabels
<1>6. FollowersAnswered'
  <2>1. \E s \in Requests : Leads(s) /\ Key(s) = Key(r)
    BY <1>1 DEF CalmInv, LeaderRecorded
  <2>2. WellAnswered(r)'
    <3> HIDE DEF Leads
    <3>1. QED BY <1>1, <1>2, <2>1 DEF WellAnswered
  <2>3. QED BY <1>4, <2>2 DEF FollowersAnswered
<1>7. LatecomersFollow'
  BY <1>1, <1>4 DEF CalmInv, LatecomersFollow, TypeOK
<1>8. QED BY <1>1, <1>3, <1>5, <1>6, <1>7 DEF CalmInv

\* SET NX finds nothing: the request leads, and nobody did before.
LEMMA LeadCalm ==
  ASSUME TypeOK, CalmInv, NEW r \in Requests, I!SetNX(r), pc'[r] = "createRow",
         late' = late
  PROVE  CalmInv'
<1> DEFINE entry == [key |-> Key(r), hash |-> I!Hash(r), body |-> None]
<1>1. /\ pc[r] = "setNX" /\ I!Entries(Key(r)) = {}
      /\ \A s \in Requests \ {r} : pc'[s] = pc[s]
      /\ redis' = {e \in redis : e.key # Key(r)} \cup {entry}
      /\ UNCHANGED <<req, got, db, expired>>
  BY DEF I!SetNX, TypeOK, I!TypeOK
<1>2. \A s \in Requests : Leads(s) => Key(s) # Key(r)
  BY <1>1 DEF CalmInv, LeaderRecorded
<1>3. /\ ~Leads(r) /\ Leads(r)'
      /\ \A s \in Requests \ {r} : Leads(s)' <=> Leads(s)
      /\ \A s \in Requests : /\ pc[s] = "created" <=> pc'[s] = "created"
                             /\ Leads(s) => Leads(s)'
  BY <1>1 DEF Leads
<1>4. entry.key = Key(r) /\ entry.hash = I!Hash(r) /\ entry.body = None
  OBVIOUS
<1> HIDE DEF entry, Leads
<1>5. CalmLabels'
  BY <1>1, <1>3 DEF CalmInv, CalmLabels
<1>6. OneLeader'
  BY <1>1, <1>2, <1>3 DEF CalmInv, OneLeader
<1>7. LeaderRecorded'
  <2>1. ASSUME NEW e \in redis'
        PROVE  \E s \in Requests :
                 /\ Leads(s)' /\ Key(s)' = e.key /\ I!Hash(s)' = e.hash
                 /\ e.body = IF pc'[s] = "created" THEN s ELSE None
    <3>1. CASE e \in redis
      <4>1. PICK s \in Requests :
              /\ Leads(s) /\ Key(s) = e.key /\ I!Hash(s) = e.hash
              /\ e.body = IF pc[s] = "created" THEN s ELSE None
        BY <3>1 DEF CalmInv, LeaderRecorded
      <4>2. QED BY <1>1, <1>3, <4>1
    <3>2. CASE e = entry
      BY <1>1, <1>3, <1>4, <3>2
    <3>3. QED BY <1>1, <3>1, <3>2
  <2>2. ASSUME NEW s \in Requests, Leads(s)'
        PROVE  \E e \in redis' : e.key = Key(s)'
    <3>1. CASE s = r
      BY <1>1, <1>4, <3>1
    <3>2. CASE s # r
      <4>1. Leads(s) /\ Key(s) # Key(r)
        BY <1>2, <1>3, <2>2, <3>2
      <4>2. PICK e \in redis : e.key = Key(s)
        BY <4>1 DEF CalmInv, LeaderRecorded
      <4>3. QED BY <1>1, <4>1, <4>2
    <3>3. QED BY <3>1, <3>2
  <2>3. ASSUME NEW x \in db'
        PROVE  \E s \in Requests : Leads(s)' /\ pc'[s] # "createRow" /\ Key(s)' = x.key
    <3>1. PICK s \in Requests : Leads(s) /\ pc[s] # "createRow" /\ Key(s) = x.key
      BY <1>1 DEF CalmInv, LeaderRecorded
    <3>2. QED BY <1>1, <1>3, <3>1
  <2>4. QED BY <2>1, <2>2, <2>3 DEF LeaderRecorded
<1>8. /\ \A q \in Requests \ {r} : WellAnswered(q)'
      /\ \A q \in late : \E s \in Requests : pc'[s] = "created" /\ Key(s)' = Key(q)'
  BY <1>1, <1>3, FollowersKept DEF CalmInv
<1>9. FollowersAnswered'
  <2>1. WellAnswered(r)'
    BY <1>1 DEF WellAnswered
  <2>2. QED BY <1>8, <2>1 DEF FollowersAnswered
<1>10. LatecomersFollow'
  <2>1. \A s \in Requests : pc[s] = "created" => Leads(s)
    BY DEF Leads
  <2>2. r \notin late
    BY <1>2, <2>1 DEF CalmInv, LatecomersFollow
  <2>3. QED BY <1>1, <1>8, <2>2 DEF CalmInv, LatecomersFollow, TypeOK
<1>11. QED BY <1>1, <1>5, <1>6, <1>7, <1>9, <1>10 DEF CalmInv

\* A follower reads what its leader recorded.
LEMMA ReadKeyCalm ==
  ASSUME TypeOK, CalmInv, NEW r \in Requests, I!ReadKey(r), pc'[r] # "serverError",
         late' = late
  PROVE  CalmInv'
<1>1. /\ pc[r] = "readKey" /\ pc'[r] \in {"readRow", "mismatch", "conflict", "cached"}
      /\ \A s \in Requests \ {r} : pc'[s] = pc[s] /\ got'[s] = got[s]
      /\ UNCHANGED <<req, redis, db, expired>>
  BY DEF I!ReadKey, TypeOK, I!TypeOK
<1>2. \A s \in Requests : /\ Leads(s)' <=> Leads(s)
                          /\ Leads(s) => pc'[s] = pc[s]
  BY <1>1 DEF Leads
<1>3. /\ OneLeader' /\ LeaderRecorded'
      /\ \A s \in Requests : pc[s] = "created" <=> pc'[s] = "created"
  BY <1>1, <1>2, LeadersKept DEF CalmInv
<1>4. /\ \A q \in Requests \ {r} : WellAnswered(q)'
      /\ \A q \in late : \E s \in Requests : pc'[s] = "created" /\ Key(s)' = Key(q)'
  BY <1>1, <1>2, <1>3, FollowersKept DEF CalmInv
<1> HIDE DEF Leads
<1>5. I!Entries(Key(r)) # {}
  <2>1. WellAnswered(r)
    BY DEF CalmInv, FollowersAnswered
  <2>2. PICK s \in Requests : Leads(s) /\ Key(s) = Key(r)
    BY <1>1, <2>1 DEF WellAnswered
  <2>3. PICK e \in redis : e.key = Key(s)
    BY <2>2 DEF CalmInv, LeaderRecorded
  <2>4. QED BY <2>2, <2>3
<1>6. PICK e \in I!Entries(Key(r)) :
        \/ e.hash # I!Hash(r) /\ pc'[r] = "mismatch"
        \/ e.hash = I!Hash(r) /\ e.body = None /\ pc'[r] = "conflict"
        \/ e.hash = I!Hash(r) /\ e.body # None /\ pc'[r] = "cached" /\ got'[r] = e.body
  BY <1>1, <1>5 DEF I!ReadKey, TypeOK, I!TypeOK
<1>7. PICK s \in Requests :
        /\ Leads(s) /\ Key(s) = Key(r) /\ I!Hash(s) = e.hash
        /\ e.body = IF pc[s] = "created" THEN s ELSE None
  BY <1>6 DEF CalmInv, LeaderRecorded
<1>8. s # None
  BY LedgerAssumption
<1>9. CalmLabels'
  BY <1>1, <1>2, <1>6 DEF CalmInv, CalmLabels
<1>10. FollowersAnswered'
  <2>1. Leads(s)' /\ Key(s)' = Key(r)' /\ I!Hash(s)' = e.hash /\ I!Hash(r)' = I!Hash(r)
    BY <1>1, <1>2, <1>7
  <2>2. CASE pc'[r] = "cached"
    <3>1. got'[r] = s /\ pc'[s] = "created" /\ e.hash = I!Hash(r)
      BY <1>3, <1>6, <1>7, <1>8, <2>2
    <3>2. WellAnswered(r)'
      BY <2>1, <2>2, <3>1 DEF WellAnswered
    <3>3. QED BY <1>4, <3>2 DEF FollowersAnswered
  <2>3. CASE pc'[r] # "cached"
    <3>1. WellAnswered(r)'
      BY <1>6, <2>1, <2>3 DEF WellAnswered
    <3>2. QED BY <1>4, <3>1 DEF FollowersAnswered
  <2>4. QED BY <2>2, <2>3
<1>11. LatecomersFollow'
  <2>1. r \in late => pc[s] = "created"
    <3>1. ASSUME r \in late PROVE pc[s] = "created"
      <4>1. PICK t \in Requests : pc[t] = "created" /\ Key(t) = Key(r)
        BY <3>1 DEF CalmInv, LatecomersFollow
      <4>2. Leads(t)
        BY <4>1 DEF Leads
      <4>3. QED BY <1>7, <4>1, <4>2 DEF CalmInv, OneLeader
    <3>2. QED BY <3>1
  <2>2. r \in late => pc'[r] \in {"cached", "mismatch"}
    BY <1>6, <1>7, <1>8, <2>1
  <2>3. QED BY <1>1, <1>4, <2>2 DEF CalmInv, LatecomersFollow, TypeOK
<1>12. QED BY <1>1, <1>3, <1>9, <1>10, <1>11 DEF CalmInv

\* The leader goes on to its next call; the entry is rewritten at the end.
LEMMA LeaderCalm ==
  ASSUME TypeOK, CalmInv, NEW r \in Requests, late' = late,
         \/ I!CreateRow(r) /\ pc'[r] # "undoError"
         \/ I!HandlerReturns(r)
         \/ I!StoreRow(r) /\ pc'[r] # "created"
         \/ I!StoreKey(r) /\ \E e \in redis' : e.key = Key(r) /\ e.body = r
  PROVE  CalmInv'
<1> DEFINE entry == [key |-> Key(r), hash |-> I!Hash(r), body |-> r]
           row == [key |-> Key(r), hash |-> I!Hash(r), body |-> None, owner |-> r]
<1>1. Leads(r) /\ pc[r] # "created" /\ r # None
  BY LedgerAssumption DEF I!CreateRow, I!HandlerReturns, I!StoreRow, I!StoreKey, Leads
<1>2. pc[r] = "createRow" => ~I!IsDuplicate(r)
  BY <1>1 DEF CalmInv, OneLeader, LeaderRecorded
<1>3. /\ pc'[r] \in {"handle", "storeRow", "storeKey", "created"}
      /\ \A s \in Requests \ {r} : pc'[s] = pc[s]
      /\ UNCHANGED <<req, got, expired>>
      /\ \A x \in db' : x.key = Key(r) \/ \E y \in db : x.key = y.key
      /\ redis' = IF pc'[r] = "created"
                  THEN {e \in redis : e.key # Key(r)} \cup {entry}
                  ELSE redis
  <2>1. CASE I!CreateRow(r) /\ pc'[r] # "undoError"
    <3>1. /\ pc'[r] = "handle" /\ db' = db \cup {row}
          /\ \A s \in Requests \ {r} : pc'[s] = pc[s]
          /\ UNCHANGED <<req, got, redis, expired>>
      BY <1>2, <2>1 DEF I!CreateRow, TypeOK, I!TypeOK
    <3>2. row.key = Key(r)
      OBVIOUS
    <3>3. QED BY <3>1, <3>2
  <2>2. CASE I!HandlerReturns(r)
    BY <2>2 DEF I!HandlerReturns, TypeOK, I!TypeOK
  <2>3. CASE I!StoreRow(r) /\ pc'[r] # "created"
    <3>1. /\ pc'[r] = "storeKey" /\ I!UpdateRow(Key(r), r)
          /\ \A s \in Requests \ {r} : pc'[s] = pc[s]
          /\ UNCHANGED <<req, got, redis, expired>>
      BY <2>3 DEF I!StoreRow, TypeOK, I!TypeOK
    <3>2. ASSUME NEW x \in db' PROVE \E y \in db : x.key = y.key
      <4>1. PICK y \in db : x = IF y.key = Key(r) THEN [y EXCEPT !.body = r] ELSE y
        BY <3>1 DEF I!UpdateRow
      <4>2. [y EXCEPT !.body = r].key = y.key
        BY DEF TypeOK, I!TypeOK, I!Row
      <4>3. QED BY <4>1, <4>2
    <3>3. QED BY <3>1, <3>2
  <2>4. CASE I!StoreKey(r) /\ \E e \in redis' : e.key = Key(r) /\ e.body = r
    <3>1. /\ pc[r] = "storeKey" /\ pc'[r] = "created"
          /\ \A s \in Requests \ {r} : pc'[s] = pc[s]
          /\ UNCHANGED <<req, got, db, expired>>
      BY <2>4 DEF I!StoreKey, TypeOK, I!TypeOK
    <3>2. ASSUME NEW e \in redis, e.key = Key(r) PROVE e.body # r
      <4>1. PICK s \in Requests : /\ Leads(s) /\ Key(s) = e.key
                                  /\ e.body = IF pc[s] = "created" THEN s ELSE None
        BY DEF CalmInv, LeaderRecorded
      <4>2. s = r
        BY <1>1, <3>2, <4>1 DEF CalmInv, OneLeader
      <4>3. QED BY <1>1, <4>1, <4>2
    <3>3. redis' # redis
      BY <2>4, <3>2
    <3>4. QED BY <2>4, <3>1, <3>3 DEF I!StoreKey
  <2>5. QED BY <2>1, <2>2, <2>3, <2>4
<1>4. /\ \A s \in Requests : Leads(s)' <=> Leads(s)
      /\ \A s \in Requests : pc[s] = "created" => pc'[s] = "created"
      /\ pc'[r] # "createRow"
  BY <1>1, <1>3 DEF Leads
<1>5. entry.key = Key(r) /\ entry.hash = I!Hash(r) /\ entry.body = r
  OBVIOUS
<1> HIDE DEF entry, row, Leads
<1>6. CalmLabels'
  <2>1. ASSUME NEW s \in Requests
        PROVE  Leads(s)' \/ pc'[s] \in {"idle", "badRequest", "setNX", "readKey",
                                       "cached", "conflict", "mismatch"}
    <3>1. CASE Leads(s)
      BY <1>4, <3>1
    <3>2. CASE ~Leads(s)
      <4>1. s # r
        BY <1>1, <3>2
      <4>2. pc'[s] = pc[s]
        BY <1>3, <4>1
      <4>3. QED BY <3>2, <4>2 DEF CalmInv, CalmLabels
    <3>3. QED BY <3>1, <3>2
  <2>2. QED BY <2>1 DEF CalmLabels
<1>7. OneLeader'
  BY <1>3, <1>4 DEF CalmInv, OneLeader
<1>8. LeaderRecorded'
  <2>1. ASSUME NEW e \in redis'
        PROVE  \E s \in Requests :
                 /\ Leads(s)' /\ Key(s)' = e.key /\ I!Hash(s)' = e.hash
                 /\ e.body = IF pc'[s] = "created" THEN s ELSE None
    <3>1. CASE e \in redis /\ (pc'[r] = "created" => e.key # Key(r))
      <4>1. PICK s \in Requests :
              /\ Leads(s) /\ Key(s) = e.key /\ I!Hash(s) = e.hash
              /\ e.body = IF pc[s] = "created" THEN s ELSE None
        BY <3>1 DEF CalmInv, LeaderRecorded
      <4>2. pc'[s] = "created" <=> pc[s] = "created"
        BY <1>1, <1>3, <3>1, <4>1
      <4>3. QED BY <1>3, <1>4, <4>1, <4>2
    <3>2. CASE e = entry /\ pc'[r] = "created"
      BY <1>1, <1>3, <1>4, <1>5, <3>2
    <3>3. QED BY <1>3, <3>1, <3>2
  <2>2. ASSUME NEW s \in Requests, Leads(s)'
        PROVE  \E e \in redis' : e.key = Key(s)'
    <3>1. PICK e \in redis : e.key = Key(s)
      BY <1>4, <2>2 DEF CalmInv, LeaderRecorded
    <3>2. CASE e \in redis'
      BY <1>3, <3>1, <3>2
    <3>3. CASE e \notin redis'
      BY <1>3, <1>5, <3>1, <3>3
    <3>4. QED BY <3>2, <3>3
  <2>3. ASSUME NEW x \in db'
        PROVE  \E s \in Requests : Leads(s)' /\ pc'[s] # "createRow" /\ Key(s)' = x.key
    <3>1. CASE x.key = Key(r)
      BY <1>1, <1>3, <1>4, <3>1
    <3>2. CASE x.key # Key(r)
      <4>1. PICK y \in db : x.key = y.key
        BY <1>3, <3>2
      <4>2. PICK s \in Requests : Leads(s) /\ pc[s] # "createRow" /\ Key(s) = x.key
        BY <4>1 DEF CalmInv, LeaderRecorded
      <4>3. QED BY <1>3, <1>4, <3>2, <4>2
    <3>3. QED BY <3>1, <3>2
  <2>4. QED BY <2>1, <2>2, <2>3 DEF LeaderRecorded
<1>9. /\ \A q \in Requests \ {r} : WellAnswered(q)'
      /\ \A q \in late : \E s \in Requests : pc'[s] = "created" /\ Key(s)' = Key(q)'
  BY <1>3, <1>4, FollowersKept DEF CalmInv
<1>10. FollowersAnswered'
  <2>1. WellAnswered(r)'
    BY <1>3 DEF WellAnswered
  <2>2. QED BY <1>9, <2>1 DEF FollowersAnswered
<1>11. LatecomersFollow'
  <2>1. r \notin late
    BY <1>1 DEF CalmInv, LatecomersFollow, Leads
  <2>2. QED BY <1>3, <1>9, <2>1 DEF CalmInv, LatecomersFollow, TypeOK
<1>12. QED BY <1>3, <1>6, <1>7, <1>8, <1>10, <1>11 DEF CalmInv

\* On a calm day every step is one of these.
LEMMA CalmStep ==
  ASSUME TypeOK, CInv, [Next]_vars
  PROVE  CInv'
<1> SUFFICES ASSUME Calm' PROVE CalmInv'
  BY DEF CInv
<1>1. ASSUME UNCHANGED <<interceptor, late>>, CalmInv PROVE CalmInv'
  BY <1>1 DEF CalmInv, CalmLabels, OneLeader, LeaderRecorded, FollowersAnswered,
    WellAnswered, LatecomersFollow, Leads
<1>2. ASSUME NEW r \in Requests,
             Create(r) \/ HandlerReturns(r) \/ HandlerThrows(r) \/ Intercept(r),
             \/ Succeeds(r) /\ UNCHANGED faults
             \/ ~Succeeds(r) /\ Fault,
             late' = IF faults' > 0 THEN {}
                     ELSE IF AnsweredAtArrival(r) THEN late \cup {r} ELSE late
      PROVE  CalmInv'
  <2>1. CalmInv /\ Succeeds(r)
    BY <1>2 DEF Calm, Fault, CInv, TypeOK
  <2>2. /\ late' = IF AnsweredAtArrival(r) THEN late \cup {r} ELSE late
        /\ pc[r] # "idle" => late' = late
    BY <1>2 DEF Calm, AnsweredAtArrival
  <2>3. CASE Create(r)
    BY <1>1, <2>1, <2>2, <2>3 DEF Create
  <2>4. CASE I!Arrive(r) \/ I!RejectKeyless(r)
    BY <2>1, <2>2, <2>4, ArriveCalm
  <2>5. CASE I!SetNX(r)
    <3>1. pc[r] = "setNX" /\ pc'[r] \in {"createRow", "readKey"}
      BY <2>1, <2>5 DEF I!SetNX, Succeeds, TypeOK, I!TypeOK
    <3>2. QED BY <2>1, <2>2, <2>5, <3>1, FollowCalm, LeadCalm
  <2>6. CASE I!ReadKey(r)
    <3>1. pc[r] = "readKey" /\ pc'[r] # "serverError"
      BY <2>1, <2>6 DEF I!ReadKey, Succeeds, TypeOK, I!TypeOK
    <3>2. QED BY <2>1, <2>2, <2>6, <3>1, ReadKeyCalm
  <2>7. CASE \/ I!CreateRow(r) \/ HandlerReturns(r) \/ I!StoreRow(r) \/ I!StoreKey(r)
    <3>1. /\ pc[r] # "idle" /\ pc'[r] # "undoError"
          /\ I!StoreRow(r) => pc'[r] # "created"
          /\ I!StoreKey(r) => \E e \in redis' : e.key = Key(r) /\ e.body = r
      BY <2>1, <2>7 DEF HandlerReturns, I!CreateRow, I!HandlerReturns, I!StoreRow,
        I!StoreKey, Succeeds, TypeOK, I!TypeOK
    <3>2. QED BY <2>1, <2>2, <2>7, <3>1, LeaderCalm DEF HandlerReturns
  <2>8. CASE \/ HandlerThrows(r) \/ I!UndoLock(r) \/ I!ReadRow(r) \/ I!DropRow(r)
             \/ I!DropKey(r) \/ I!Recache(r) \/ I!ReleaseRow(r) \/ I!ReleaseKey(r)
    <3>1. pc[r] \in {"undoDuplicate", "undoError", "readRow", "dropRow", "dropKey",
                     "recache", "releaseRow", "releaseKey"} \/ pc'[r] = "releaseRow"
      BY <2>8 DEF HandlerThrows, I!HandlerThrows, I!UndoLock, I!ReadRow, I!DropRow,
        I!DropKey, I!Recache, I!ReleaseRow, I!ReleaseKey, TypeOK, I!TypeOK
    <3>2. QED BY <2>1, <3>1 DEF Succeeds, CalmInv, CalmLabels, Leads
  <2>9. QED BY <1>2, <2>3, <2>4, <2>5, <2>6, <2>7, <2>8 DEF Intercept
<1>3. ASSUME NEW t \in Requests, Process(t), UNCHANGED <<faults, late>>
      PROVE  CalmInv'
  BY <1>1, <1>3 DEF Process, CInv, Calm
<1>4. CASE Environment /\ Fault
  BY <1>4 DEF Fault, Calm, TypeOK
<1>5. CASE CleanUp /\ UNCHANGED <<faults, late>>
  BY <1>5 DEF CleanUp, I!CleanupExpiredRecords, CInv, CalmInv, Calm
<1>6. CASE UNCHANGED vars
  BY <1>1, <1>6 DEF vars, CInv, Calm
<1>7. QED BY <1>2, <1>3, <1>4, <1>5, <1>6 DEF Next

-----------------------------------------------------------------------------
\* The invariants hold at the start and every step keeps them: interceptor,
\* service, workers, cron and environment in any interleaving.
THEOREM Invariance == Spec => [](LInv /\ PInv /\ CInv)
<1>1. Init => LInv /\ PInv
  BY LedgerAssumption DEF Init, I!Init, T!Init, LInv, TypeOK, I!TypeOK,
    BodiesCreated, InStep, PInv, OneOwner, NotOver, Kept
<1>2. LInv /\ PInv /\ [Next]_vars => LInv' /\ PInv'
  BY TypeOKStep, BodiesCreatedStep, InStepStep, OneOwnerStep, KeptStep DEF LInv, PInv
<1>3. Init => CInv
  BY LedgerAssumption DEF Init, I!Init, CInv, CalmInv, CalmLabels, OneLeader,
    LeaderRecorded, FollowersAnswered, WellAnswered, LatecomersFollow, Leads
<1>4. LInv /\ CInv /\ [Next]_vars => CInv'
  BY CalmStep DEF LInv
<1>5. QED BY <1>1, <1>2, <1>3, <1>4, PTL DEF Spec

\* Interceptor and transactions are in step: in particular a key is released
\* only by a request without a transaction or whose createTransaction threw.
THEOREM InStepAlways == Spec => []LInv
<1>1. QED BY Invariance, PTL

\* Whoever is told of a transaction can fetch it, and its job was added.
THEOREM NoDanglingAnswer == Spec => []AnsweredIsStored
<1>1. LInv => AnsweredIsStored
  BY DEF LInv, AnsweredIsStored, Accepted, FindById, TypeOK, I!TypeOK,
    BodiesCreated, InStep
<1>2. QED BY <1>1, Invariance, PTL

\* No key has two payments enqueued within its lifetime, unless one of the two
\* was enqueued by a call that threw, or a live row was cleaned up.
THEOREM NoDoublePayment == Spec => []PaidOnce
<1>1. LInv /\ PInv => PaidOnce
  BY DEF LInv, TypeOK, I!TypeOK, PInv, PaidOnce, OneOwner, Kept
<1>2. QED BY <1>1, Invariance, PTL

\* Until something fails the documented answers are the ones given: one
\* request of a key creates, later ones with its body are answered alike.
THEOREM DocumentedAnswers == Spec => []AnswersAsDocumented
<1>1. LInv /\ CInv => AnswersAsDocumented
  <2> SUFFICES ASSUME LInv, CInv, Calm PROVE AnswersAsDocumented
    BY DEF AnswersAsDocumented
  <2>1. CalmInv /\ TypeOK
    BY DEF CInv, LInv
  <2>2. ASSUME NEW r \in Requests, NEW s \in Requests, Key(r) = Key(s), pc[s] = "created"
        PROVE  /\ pc[r] = "created" => r = s
               /\ pc[r] = "cached" => req[r] = req[s] /\ got[r] = s
               /\ r \in late /\ pc[r] \in I!Answers \ {"badRequest"}
                  => pc[r] = IF req[r] = req[s] THEN "cached" ELSE "mismatch"
    <3>1. \A t \in Requests : Leads(t) /\ Key(t) = Key(r) => t = s
      BY <2>1, <2>2 DEF CalmInv, OneLeader, Leads
    <3>2. WellAnswered(r)
      BY <2>1 DEF CalmInv, FollowersAnswered
    <3>3. pc[r] = "created" => r = s
      BY <3>1 DEF Leads
    <3>4. pc[r] = "cached" => req[r] = req[s] /\ got[r] = s
      <4>1. SUFFICES ASSUME pc[r] = "cached" PROVE req[r] = req[s] /\ got[r] = s
        OBVIOUS
      <4>2. got[r] = s /\ I!Hash(s) = I!Hash(r)
        BY <3>1, <3>2, <4>1 DEF WellAnswered, Leads
      <4>3. QED BY <2>1, <2>2, <4>2 DEF TypeOK, I!TypeOK
    <3>5. pc[r] = "mismatch" => req[r] # req[s]
      <4> HIDE DEF Leads
      <4>1. QED BY <3>1, <3>2 DEF WellAnswered
    <3>6. r \in late /\ pc[r] \in I!Answers \ {"badRequest"} => pc[r] \in {"cached", "mismatch"}
      BY <2>1 DEF CalmInv, LatecomersFollow
    <3>7. QED BY <3>3, <3>4, <3>5, <3>6
  <2>3. ASSUME NEW r \in Requests, pc[r] \in {"cached", "conflict", "mismatch"}
        PROVE  \E s \in Requests :
                 Key(s) = Key(r) /\ pc[s] \in I!Holding \cup {"createRow", "created"}
    <3>1. WellAnswered(r)
      BY <2>1 DEF CalmInv, FollowersAnswered
    <3>2. PICK s \in Requests : Key(s) = Key(r) /\ Leads(s)
      BY <2>3, <3>1 DEF WellAnswered, Leads
    <3>3. QED BY <3>2 DEF Leads
  <2>4. QED BY <2>2, <2>3 DEF AnswersAsDocumented
<1>2. QED BY <1>1, Invariance, PTL

-----------------------------------------------------------------------------
\* The composition takes nothing from its parts: what a request sees of the
\* two stores is what Idempotency describes, the handler's stay included.
LEMMA InterceptorImplemented == Spec => I!Spec
<1>1. Init => I!Init
  BY DEF Init
<1>2. ASSUME [Next]_vars PROVE [I!Next]_(I!vars)
  <2>1. ASSUME NEW r \in Requests, Create(r) \/ HandlerReturns(r) \/ HandlerThrows(r) \/ Intercept(r)
        PROVE  [I!Next]_(I!vars)
    BY <2>1 DEF Create, HandlerReturns, HandlerThrows, Intercept, I!Next, I!Serve, I!vars
  <2>2. ASSUME NEW t \in Requests, Process(t) PROVE [I!Next]_(I!vars)
    BY <2>2 DEF Process, I!vars
  <2>3. CASE Environment
    BY <2>3 DEF Environment, I!Next
  <2>4. CASE CleanUp
    BY <2>4 DEF CleanUp, I!Next
  <2>5. CASE UNCHANGED vars
    BY <2>5 DEF vars, I!vars
  <2>6. QED BY <1>2, <2>1, <2>2, <2>3, <2>4, <2>5 DEF Next
<1>3. QED BY <1>1, <1>2, PTL DEF Spec, I!Spec

(***************************************************************************)
(* Hence what is proved of the interceptor by itself holds around any      *)
(* handler that keeps the contract.  P gives access to those theorems.     *)
(***************************************************************************)
P == INSTANCE IdempotencyProofs

USE DEF P!Key, P!Hash, P!Entry, P!Row, P!Entries, P!Rows, P!Expired,
        P!RedisSet, P!RedisDel, P!InsertRow, P!DeleteRow, P!UpdateRow, P!Goto,
        P!Throws, P!IsDuplicate, P!SameBody, P!InFlight, P!Waiting, P!Holding,
        P!Active, P!Answers, P!Labels

\* P describes the interceptor I does.
LEMMA SameInterceptor == I!Spec => P!Spec
<1>1. I!Init => P!Init
  BY DEF I!Init, P!Init
<1>2. ASSUME [I!Next]_(I!vars) PROVE [P!Next]_(P!vars)
  <2>1. \A r \in Requests : I!Arrive(r) <=> P!Arrive(r)
    BY DEF I!Arrive, P!Arrive
  <2>2. \A r \in Requests : I!RejectKeyless(r) <=> P!RejectKeyless(r)
    BY DEF I!RejectKeyless, P!RejectKeyless
  <2>3. \A r \in Requests : I!SetNX(r) <=> P!SetNX(r)
    BY DEF I!SetNX, P!SetNX
  <2>4. \A r \in Requests : I!CreateRow(r) <=> P!CreateRow(r)
    BY DEF I!CreateRow, P!CreateRow
  <2>5. \A r \in Requests : I!UndoLock(r) <=> P!UndoLock(r)
    BY DEF I!UndoLock, P!UndoLock
  <2>6. \A r \in Requests : I!ReadKey(r) <=> P!ReadKey(r)
    BY DEF I!ReadKey, P!ReadKey
  <2>7. \A r \in Requests : I!ReadRow(r) <=> P!ReadRow(r)
    BY DEF I!ReadRow, P!ReadRow
  <2>8. \A r \in Requests : I!DropRow(r) <=> P!DropRow(r)
    BY DEF I!DropRow, P!DropRow
  <2>9. \A r \in Requests : I!DropKey(r) <=> P!DropKey(r)
    BY DEF I!DropKey, P!DropKey
  <2>10. \A r \in Requests : I!Recache(r) <=> P!Recache(r)
    BY DEF I!Recache, P!Recache
  <2>11. \A r \in Requests : I!HandlerReturns(r) <=> P!HandlerReturns(r)
    BY DEF I!HandlerReturns, P!HandlerReturns
  <2>12. \A r \in Requests : I!HandlerThrows(r) <=> P!HandlerThrows(r)
    BY DEF I!HandlerThrows, P!HandlerThrows
  <2>13. \A r \in Requests : I!StoreRow(r) <=> P!StoreRow(r)
    BY DEF I!StoreRow, P!StoreRow
  <2>14. \A r \in Requests : I!StoreKey(r) <=> P!StoreKey(r)
    BY DEF I!StoreKey, P!StoreKey
  <2>15. \A r \in Requests : I!ReleaseRow(r) <=> P!ReleaseRow(r)
    BY DEF I!ReleaseRow, P!ReleaseRow
  <2>16. \A r \in Requests : I!ReleaseKey(r) <=> P!ReleaseKey(r)
    BY DEF I!ReleaseKey, P!ReleaseKey
  <2>17. \A r \in Requests : I!Crash(r) <=> P!Crash(r)
    BY DEF I!Crash, P!Crash
  <2>18. \A r \in Requests : I!ExpireRow(r) <=> P!ExpireRow(r)
    BY DEF I!ExpireRow, P!ExpireRow
  <2>19. \A k \in Keys : I!RedisForgets(k) <=> P!RedisForgets(k)
    BY DEF I!RedisForgets, P!RedisForgets
  <2>20. I!CleanupExpiredRecords <=> P!CleanupExpiredRecords
    BY DEF I!CleanupExpiredRecords, P!CleanupExpiredRecords
  <2>21. ASSUME NEW r \in Requests PROVE I!Serve(r) <=> P!Serve(r)
    BY <2>3, <2>4, <2>5, <2>6, <2>7, <2>8, <2>9, <2>10, <2>11, <2>12,
       <2>13, <2>14, <2>15, <2>16 DEF I!Serve, P!Serve
  <2>22. I!Next <=> P!Next
    BY <2>1, <2>2, <2>17, <2>18, <2>19, <2>20, <2>21 DEF I!Next, P!Next
  <2>23. QED BY <1>2, <2>22 DEF I!vars, P!vars
<1>3. QED BY <1>1, <1>2, PTL DEF I!Spec, P!Spec

\* With createTransaction inside, and workers that may be done with it before
\* the client has its answer, a key still has one handler at a time, one
\* creation in its lifetime and one answer, the one its transaction had.
THEOREM KeysKeepPromises ==
  Spec => [](/\ I!ExclusiveExecution /\ I!AtMostOneCreation
             /\ I!CachedFaithful /\ I!CacheNeverAhead)
<1>1. P!NoneAssumption
  BY LedgerAssumption DEF P!NoneAssumption
<1>2. /\ P!Spec => []P!ExclusiveExecution
      /\ P!Spec => []P!AtMostOneCreation
      /\ P!Spec => []P!CachedFaithful
      /\ P!Spec => []P!CacheNeverAhead
  BY <1>1, P!Exclusion, P!SingleCreation, P!FaithfulReplay, P!DatabaseFirst
<1>3. /\ P!ExclusiveExecution => I!ExclusiveExecution
      /\ P!AtMostOneCreation => I!AtMostOneCreation
      /\ P!CachedFaithful => I!CachedFaithful
      /\ P!CacheNeverAhead => I!CacheNeverAhead
  BY DEF P!ExclusiveExecution, I!ExclusiveExecution, P!AtMostOneCreation,
    I!AtMostOneCreation, P!CachedFaithful, I!CachedFaithful, P!CacheNeverAhead,
    I!CacheNeverAhead, P!Safe, I!Safe, P!AnswerTo, I!AnswerTo, P!Stored, I!Stored
<1>4. QED BY <1>2, <1>3, InterceptorImplemented, SameInterceptor, PTL

=============================================================================
