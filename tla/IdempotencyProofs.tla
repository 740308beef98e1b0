------------------------- MODULE IdempotencyProofs -------------------------
(***************************************************************************)
(* The safety properties of Idempotency for every set of requests, keys    *)
(* and hashes: IInv is inductive and implies them, and under IInv every    *)
(* step is one that KeyContract allows.                                    *)
(***************************************************************************)
EXTENDS Idempotency, TLAPS

\* The vocabulary of the actions; the actions and the invariants are cited.
USE DEF Key, Hash, Entry, Row, Entries, Rows, Expired, Safe, Stored, AnswerTo,
        RedisSet, RedisDel, InsertRow, DeleteRow, UpdateRow,
        Goto, Throws, IsDuplicate, SameBody, InFlight,
        Waiting, Holding, Active, Answers, Labels

-----------------------------------------------------------------------------
\* Every step keeps the types.
LEMMA TypeOKStep ==
  ASSUME TypeOK, [Next]_vars
  PROVE  TypeOK'
<1>1. ASSUME NEW r \in Requests, Arrive(r) \/ RejectKeyless(r) \/ Crash(r)
      PROVE  TypeOK'
  BY <1>1, NoneAssumption DEF Arrive, RejectKeyless, Crash, TypeOK
<1>2. ASSUME NEW r \in Requests, SetNX(r)
      PROVE  TypeOK'
  BY <1>2, NoneAssumption DEF SetNX, TypeOK
<1>3. ASSUME NEW r \in Requests, CreateRow(r)
      PROVE  TypeOK'
  BY <1>3, NoneAssumption DEF CreateRow, TypeOK
<1>4. ASSUME NEW r \in Requests, UndoLock(r)
      PROVE  TypeOK'
  BY <1>4, NoneAssumption DEF UndoLock, TypeOK
<1>5. ASSUME NEW r \in Requests, ReadKey(r)
      PROVE  TypeOK'
  BY <1>5, NoneAssumption DEF ReadKey, TypeOK
<1>6. ASSUME NEW r \in Requests, ReadRow(r)
      PROVE  TypeOK'
  BY <1>6, NoneAssumption DEF ReadRow, TypeOK
<1>7. ASSUME NEW r \in Requests, DropRow(r)
      PROVE  TypeOK'
  BY <1>7, NoneAssumption DEF DropRow, TypeOK
<1>8. ASSUME NEW r \in Requests, DropKey(r)
      PROVE  TypeOK'
  BY <1>8, NoneAssumption DEF DropKey, TypeOK
<1>9. ASSUME NEW r \in Requests, Recache(r)
      PROVE  TypeOK'
  BY <1>9, NoneAssumption DEF Recache, TypeOK
<1>10. ASSUME NEW r \in Requests, HandlerReturns(r) \/ HandlerThrows(r)
      PROVE  TypeOK'
  BY <1>10, NoneAssumption DEF HandlerReturns, HandlerThrows, TypeOK
<1>11. ASSUME NEW r \in Requests, StoreRow(r)
      PROVE  TypeOK'
  BY <1>11, NoneAssumption DEF StoreRow, TypeOK
<1>12. ASSUME NEW r \in Requests, StoreKey(r)
      PROVE  TypeOK'
  BY <1>12, NoneAssumption DEF StoreKey, TypeOK
<1>13. ASSUME NEW r \in Requests, ReleaseRow(r)
      PROVE  TypeOK'
  BY <1>13, NoneAssumption DEF ReleaseRow, TypeOK
<1>14. ASSUME NEW r \in Requests, ReleaseKey(r)
      PROVE  TypeOK'
  BY <1>14, NoneAssumption DEF ReleaseKey, TypeOK
<1>15. ASSUME NEW r \in Requests, ExpireRow(r)
      PROVE  TypeOK'
  BY <1>15, NoneAssumption DEF ExpireRow, TypeOK
<1>16. ASSUME NEW k \in Keys, RedisForgets(k)
      PROVE  TypeOK'
  BY <1>16, NoneAssumption DEF RedisForgets, TypeOK
<1>17. CASE CleanupExpiredRecords
  BY <1>17, NoneAssumption DEF CleanupExpiredRecords, TypeOK
<1>18. CASE UNCHANGED vars
  BY <1>18 DEF vars, TypeOK
<1>19. QED BY <1>1, <1>2, <1>3, <1>4, <1>5, <1>6, <1>7, <1>8, <1>9, <1>10,
        <1>11, <1>12, <1>13, <1>14, <1>15, <1>16, <1>17, <1>18 DEF Next, Serve

\* A key has one row, by the unique index, and one entry, by how Redis works.
LEMMA KeysUniqueStep ==
  ASSUME TypeOK, KeysUnique, [Next]_vars
  PROVE  KeysUnique'
<1>1. ASSUME NEW r \in Requests,
             SetNX(r) \/ UndoLock(r) \/ DropKey(r) \/ Recache(r) \/
             StoreKey(r) \/ ReleaseKey(r)
      PROVE  KeysUnique'
  BY <1>1 DEF SetNX, UndoLock, DropKey, Recache, StoreKey, ReleaseKey,
    KeysUnique
<1>2. ASSUME NEW r \in Requests,
             CreateRow(r) \/ DropRow(r) \/ StoreRow(r) \/ ReleaseRow(r)
      PROVE  KeysUnique'
  BY <1>2 DEF CreateRow, DropRow, StoreRow, ReleaseRow, TypeOK, KeysUnique
<1>3. ASSUME NEW k \in Keys, RedisForgets(k)
      PROVE  KeysUnique'
  BY <1>3 DEF RedisForgets, KeysUnique
<1>4. CASE CleanupExpiredRecords
  BY <1>4 DEF CleanupExpiredRecords, KeysUnique
<1>5. CASE UNCHANGED <<redis, db>>
  BY <1>5 DEF KeysUnique
<1>6. QED BY <1>1, <1>2, <1>3, <1>4, <1>5 DEF Next, Serve, vars, Arrive,
      RejectKeyless, ReadKey, ReadRow, HandlerReturns, HandlerThrows, Crash,
      ExpireRow

\* A request that is under way has an unexpired row or none, and only a
\* handler that returned counts as a creation.
LEMMA HistoryStep ==
  ASSUME TypeOK, History, [Next]_vars
  PROVE  History'
<1>1. ASSUME NEW r \in Requests, Arrive(r) \/ RejectKeyless(r) \/ Crash(r)
      PROVE  History'
  BY <1>1 DEF Arrive, RejectKeyless, Crash, TypeOK, History
<1>2. ASSUME NEW r \in Requests, SetNX(r)
      PROVE  History'
  BY <1>2 DEF SetNX, TypeOK, History
<1>3. ASSUME NEW r \in Requests, CreateRow(r)
      PROVE  History'
  BY <1>3 DEF CreateRow, TypeOK, History
<1>4. ASSUME NEW r \in Requests, UndoLock(r)
      PROVE  History'
  BY <1>4 DEF UndoLock, TypeOK, History
<1>5. ASSUME NEW r \in Requests, ReadKey(r)
      PROVE  History'
  BY <1>5 DEF ReadKey, TypeOK, History
<1>6. ASSUME NEW r \in Requests, ReadRow(r)
      PROVE  History'
  BY <1>6 DEF ReadRow, TypeOK, History
<1>7. ASSUME NEW r \in Requests, DropRow(r)
      PROVE  History'
  BY <1>7 DEF DropRow, TypeOK, History
<1>8. ASSUME NEW r \in Requests, DropKey(r)
      PROVE  History'
  BY <1>8 DEF DropKey, TypeOK, History
<1>9. ASSUME NEW r \in Requests, Recache(r)
      PROVE  History'
  BY <1>9 DEF Recache, TypeOK, History
<1>10. ASSUME NEW r \in Requests, HandlerReturns(r) \/ HandlerThrows(r)
      PROVE  History'
  BY <1>10 DEF HandlerReturns, HandlerThrows, TypeOK, History
<1>11. ASSUME NEW r \in Requests, StoreRow(r)
      PROVE  History'
  BY <1>11 DEF StoreRow, TypeOK, History
<1>12. ASSUME NEW r \in Requests, StoreKey(r)
      PROVE  History'
  BY <1>12 DEF StoreKey, TypeOK, History
<1>13. ASSUME NEW r \in Requests, ReleaseRow(r)
      PROVE  History'
  BY <1>13 DEF ReleaseRow, TypeOK, History
<1>14. ASSUME NEW r \in Requests, ReleaseKey(r)
      PROVE  History'
  BY <1>14 DEF ReleaseKey, TypeOK, History
<1>15. ASSUME NEW r \in Requests, ExpireRow(r)
      PROVE  History'
  BY <1>15 DEF ExpireRow, TypeOK, History
<1>16. ASSUME NEW k \in Keys, RedisForgets(k)
      PROVE  History'
  BY <1>16 DEF RedisForgets, TypeOK, History
<1>17. CASE CleanupExpiredRecords
  BY <1>17 DEF CleanupExpiredRecords, TypeOK, History
<1>18. CASE UNCHANGED vars
  BY <1>18 DEF vars, TypeOK, History
<1>19. QED BY <1>1, <1>2, <1>3, <1>4, <1>5, <1>6, <1>7, <1>8, <1>9, <1>10,
        <1>11, <1>12, <1>13, <1>14, <1>15, <1>16, <1>17, <1>18 DEF Next, Serve

\* A row keeps the key and the hash it was claimed with; store() is called by
\* the row's owner, since the row of a claim is there and is the only one.
LEMMA RowsFaithfulStep ==
  ASSUME TypeOK, KeysUnique, History, RowsFaithful, ClaimsKept, [Next]_vars
  PROVE  RowsFaithful'
<1>1. ASSUME NEW r \in Requests, CreateRow(r)
      PROVE  RowsFaithful'
  BY <1>1 DEF CreateRow, TypeOK, RowsFaithful
<1>2. ASSUME NEW r \in Requests, DropRow(r)
      PROVE  RowsFaithful'
  BY <1>2 DEF DropRow, TypeOK, RowsFaithful
<1>3. ASSUME NEW r \in Requests, HandlerReturns(r)
      PROVE  RowsFaithful'
  BY <1>3 DEF HandlerReturns, RowsFaithful
<1>4. ASSUME NEW r \in Requests, StoreRow(r)
      PROVE  RowsFaithful'
  BY <1>4 DEF StoreRow, TypeOK, KeysUnique, History, RowsFaithful, ClaimsKept
<1>5. ASSUME NEW r \in Requests, ReleaseRow(r)
      PROVE  RowsFaithful'
  BY <1>5 DEF ReleaseRow, RowsFaithful
<1>6. CASE CleanupExpiredRecords
  BY <1>6 DEF CleanupExpiredRecords, RowsFaithful
<1>7. CASE UNCHANGED <<req, db, created, stolen>>
  BY <1>7 DEF RowsFaithful
<1>8. QED BY <1>1, <1>2, <1>3, <1>4, <1>5, <1>6, <1>7 DEF Next, Serve, vars,
      Arrive, RejectKeyless, SetNX, UndoLock, ReadKey, ReadRow, DropKey,
      Recache, HandlerThrows, StoreKey, ReleaseKey, Crash, ExpireRow,
      RedisForgets

\* No step takes the row of a claim or of an unexpired creation away, unless
\* it is the cleanup of a row that is no longer the expired one: create is
\* refused, the cron and the TTL take expired rows only, and release() takes
\* the row of its own request, which created nothing.
LEMMA ClaimsKeptStep ==
  ASSUME TypeOK, KeysUnique, History, RowsFaithful, ClaimsKept, [Next]_vars
  PROVE  ClaimsKept'
<1>1. ASSUME NEW r \in Requests, Arrive(r) \/ RejectKeyless(r) \/ Crash(r)
      PROVE  ClaimsKept'
  BY <1>1 DEF Arrive, RejectKeyless, Crash, TypeOK, KeysUnique, History,
    RowsFaithful, ClaimsKept
<1>2. ASSUME NEW r \in Requests, SetNX(r)
      PROVE  ClaimsKept'
  BY <1>2 DEF SetNX, TypeOK, KeysUnique, History, RowsFaithful, ClaimsKept
<1>3. ASSUME NEW r \in Requests, CreateRow(r)
      PROVE  ClaimsKept'
  <2>1. /\ db \subseteq db'
        /\ UNCHANGED <<req, expired, created, stolen>>
    BY <1>3 DEF CreateRow
  <2>2. pc'[r] \in Holding => \E x \in db' : x.owner = r
    <3> DEFINE row == [key |-> Key(r), hash |-> Hash(r), body |-> None, owner |-> r]
    <3>1. pc'[r] \in Holding => row \in db'
      BY <1>3 DEF CreateRow, TypeOK
    <3>2. row.owner = r
      OBVIOUS
    <3>3. QED BY <3>1, <3>2
  <2>3. /\ \A s \in Requests \ {r} : pc'[s] = pc[s]
        /\ pc'[r] # "storeKey" /\ r \notin created
    BY <1>3 DEF CreateRow, TypeOK, History
  <2>4. QED BY <2>1, <2>2, <2>3 DEF ClaimsKept
<1>4. ASSUME NEW r \in Requests, UndoLock(r)
      PROVE  ClaimsKept'
  BY <1>4 DEF UndoLock, TypeOK, KeysUnique, History, RowsFaithful, ClaimsKept
<1>5. ASSUME NEW r \in Requests, ReadKey(r)
      PROVE  ClaimsKept'
  BY <1>5 DEF ReadKey, TypeOK, KeysUnique, History, RowsFaithful, ClaimsKept
<1>6. ASSUME NEW r \in Requests, ReadRow(r)
      PROVE  ClaimsKept'
  BY <1>6 DEF ReadRow, TypeOK, KeysUnique, History, RowsFaithful, ClaimsKept
<1>7. ASSUME NEW r \in Requests, DropRow(r)
      PROVE  ClaimsKept'
  BY <1>7 DEF DropRow, TypeOK, KeysUnique, History, RowsFaithful, ClaimsKept
<1>8. ASSUME NEW r \in Requests, DropKey(r)
      PROVE  ClaimsKept'
  BY <1>8 DEF DropKey, TypeOK, KeysUnique, History, RowsFaithful, ClaimsKept
<1>9. ASSUME NEW r \in Requests, Recache(r)
      PROVE  ClaimsKept'
  BY <1>9 DEF Recache, TypeOK, KeysUnique, History, RowsFaithful, ClaimsKept
<1>10. ASSUME NEW r \in Requests, HandlerReturns(r) \/ HandlerThrows(r)
      PROVE  ClaimsKept'
  BY <1>10 DEF HandlerReturns, HandlerThrows, TypeOK, KeysUnique, History,
    RowsFaithful, ClaimsKept
<1>11. ASSUME NEW r \in Requests, StoreRow(r)
      PROVE  ClaimsKept'
  <2>1. /\ pc[r] = "storeRow" /\ pc'[r] \in {"storeKey", "created"}
        /\ \A s \in Requests \ {r} : pc'[s] = pc[s]
        /\ UNCHANGED <<req, expired, created, stolen>>
    BY <1>11 DEF StoreRow, TypeOK
  <2>2. \A x \in db : \E y \in db' : y.owner = x.owner
    <3>1. TAKE x \in db
    <3>2. x \in db' \/ [x EXCEPT !.body = r] \in db'
      BY <1>11 DEF StoreRow
    <3>3. [x EXCEPT !.body = r].owner = x.owner
      BY DEF TypeOK
    <3>4. QED BY <3>2, <3>3
  <2>3. ASSUME Safe(Key(r)), pc'[r] = "storeKey" PROVE Stored(r)'
    <3>1. PICK x \in db : x.owner = r
      BY <2>1, <2>3 DEF ClaimsKept
    <3>2. [x EXCEPT !.body = r] \in db'
      BY <1>11, <2>3, <3>1 DEF StoreRow, TypeOK, RowsFaithful
    <3>3. [x EXCEPT !.body = r].owner = r /\ [x EXCEPT !.body = r].body = r
      BY <3>1 DEF TypeOK
    <3>4. QED BY <3>2, <3>3
  <2>4. ASSUME NEW s \in Requests \ {r}, Safe(Key(s)), pc[s] = "storeKey"
        PROVE  Stored(s)'
    <3>1. PICK x \in db : x.owner = s /\ x.body = s
      BY <2>4 DEF ClaimsKept
    <3>2. x.key # Key(r)
      BY <2>1, <2>4, <3>1 DEF ClaimsKept, KeysUnique, RowsFaithful
    <3>3. x \in db'
      BY <1>11, <3>1, <3>2 DEF StoreRow
    <3>4. QED BY <3>1, <3>3
  <2>5. QED BY <2>1, <2>2, <2>3, <2>4 DEF ClaimsKept
<1>12. ASSUME NEW r \in Requests, StoreKey(r)
      PROVE  ClaimsKept'
  BY <1>12 DEF StoreKey, TypeOK, KeysUnique, History, RowsFaithful, ClaimsKept
<1>13. ASSUME NEW r \in Requests, ReleaseRow(r)
      PROVE  ClaimsKept'
  BY <1>13 DEF ReleaseRow, TypeOK, KeysUnique, History, RowsFaithful,
    ClaimsKept
<1>14. ASSUME NEW r \in Requests, ReleaseKey(r)
      PROVE  ClaimsKept'
  BY <1>14 DEF ReleaseKey, TypeOK, KeysUnique, History, RowsFaithful,
    ClaimsKept
<1>15. ASSUME NEW r \in Requests, ExpireRow(r)
      PROVE  ClaimsKept'
  BY <1>15 DEF ExpireRow, TypeOK, KeysUnique, History, RowsFaithful,
    ClaimsKept
<1>16. ASSUME NEW k \in Keys, RedisForgets(k)
      PROVE  ClaimsKept'
  BY <1>16 DEF RedisForgets, TypeOK, KeysUnique, History, RowsFaithful,
    ClaimsKept
<1>17. CASE CleanupExpiredRecords
  BY <1>17 DEF CleanupExpiredRecords, TypeOK, KeysUnique, History,
    RowsFaithful, ClaimsKept
<1>18. CASE UNCHANGED vars
  BY <1>18 DEF vars, TypeOK, KeysUnique, History, RowsFaithful, ClaimsKept
<1>19. QED BY <1>1, <1>2, <1>3, <1>4, <1>5, <1>6, <1>7, <1>8, <1>9, <1>10,
        <1>11, <1>12, <1>13, <1>14, <1>15, <1>16, <1>17, <1>18 DEF Next, Serve

\* A stored, unexpired response survives every step that steals no row.
LEMMA StoredStays ==
  ASSUME TypeOK, KeysUnique, History, RowsFaithful, ClaimsKept, [Next]_vars,
         NEW b \in Requests, Stored(b), b \notin expired, Key(b) \notin stolen'
  PROVE  Stored(b)'
<1>1. PICK x \in db : x.owner = b /\ x.body = b
  OBVIOUS
<1>2. x.key = Key(b)
  BY <1>1 DEF RowsFaithful
<1>3. SUFFICES x \in db'
  BY <1>1
<1>4. ASSUME NEW r \in Requests, CreateRow(r) PROVE x \in db'
  BY <1>1, <1>4 DEF CreateRow
<1>5. ASSUME NEW r \in Requests, DropRow(r) PROVE x \in db'
  BY <1>1, <1>2, <1>5 DEF DropRow, KeysUnique
<1>6. ASSUME NEW r \in Requests, StoreRow(r) \/ ReleaseRow(r) PROVE x \in db'
  <2>1. pc[r] \in {"storeRow", "releaseRow"} /\ UNCHANGED stolen
    BY <1>6 DEF StoreRow, ReleaseRow
  <2>2. CASE x.key # Key(r)
    BY <1>1, <1>6, <2>2 DEF StoreRow, ReleaseRow
  <2>3. CASE x.key = Key(r)
    <3>1. PICK y \in db : y.owner = r
      BY <1>2, <2>1, <2>3 DEF ClaimsKept
    <3>2. y.key = Key(r)
      BY <3>1 DEF RowsFaithful
    <3>3. y = x /\ b = r
      BY <1>1, <2>3, <3>1, <3>2 DEF KeysUnique
    <3>4. b \in created
      BY <1>1, <1>2, <2>1, NoneAssumption DEF RowsFaithful, TypeOK
    <3>5. pc[r] = "storeRow"
      BY <2>1, <3>3, <3>4 DEF History
    <3>6. [x EXCEPT !.body = r] = x
      BY <1>1, <3>3 DEF TypeOK
    <3>7. QED BY <1>1, <1>6, <3>5, <3>6 DEF StoreRow, ReleaseRow
  <2>4. QED BY <2>2, <2>3
<1>7. CASE CleanupExpiredRecords
  BY <1>1, <1>7 DEF CleanupExpiredRecords
<1>8. CASE UNCHANGED db
  BY <1>1, <1>8
<1>9. QED BY <1>4, <1>5, <1>6, <1>7, <1>8 DEF Next, Serve, vars, Arrive,
      RejectKeyless, SetNX, UndoLock, ReadKey, ReadRow, DropKey, Recache,
      HandlerReturns, HandlerThrows, StoreKey, ReleaseKey, Crash, ExpireRow,
      RedisForgets

\* A response is copied to Redis, and from Redis or the table into an answer,
\* only after it was recorded, and compared with the hash it was made for.
LEMMA CopiesFaithfulStep ==
  ASSUME TypeOK, KeysUnique, History, RowsFaithful, ClaimsKept,
         CopiesFaithful, [Next]_vars
  PROVE  CopiesFaithful'
<1>1. ASSUME NEW r \in Requests, Arrive(r) \/ RejectKeyless(r) \/ Crash(r)
      PROVE  CopiesFaithful'
  BY <1>1, NoneAssumption DEF Arrive, RejectKeyless, Crash, TypeOK,
    KeysUnique, History, RowsFaithful, ClaimsKept, CopiesFaithful
<1>2. ASSUME NEW r \in Requests, SetNX(r)
      PROVE  CopiesFaithful'
  BY <1>2, NoneAssumption DEF SetNX, TypeOK, KeysUnique, History,
    RowsFaithful, ClaimsKept, CopiesFaithful
<1>3. ASSUME NEW r \in Requests, CreateRow(r)
      PROVE  CopiesFaithful'
  BY <1>3, NoneAssumption DEF CreateRow, TypeOK, KeysUnique, History,
    RowsFaithful, ClaimsKept, CopiesFaithful
<1>4. ASSUME NEW r \in Requests, UndoLock(r)
      PROVE  CopiesFaithful'
  BY <1>4, NoneAssumption DEF UndoLock, TypeOK, KeysUnique, History,
    RowsFaithful, ClaimsKept, CopiesFaithful
<1>5. ASSUME NEW r \in Requests, ReadKey(r)
      PROVE  CopiesFaithful'
  BY <1>5, NoneAssumption DEF ReadKey, TypeOK, KeysUnique, History,
    RowsFaithful, ClaimsKept, CopiesFaithful
<1>6. ASSUME NEW r \in Requests, ReadRow(r)
      PROVE  CopiesFaithful'
  BY <1>6, NoneAssumption DEF ReadRow, TypeOK, KeysUnique, History,
    RowsFaithful, ClaimsKept, CopiesFaithful
<1>7. ASSUME NEW r \in Requests, DropRow(r)
      PROVE  CopiesFaithful'
  BY <1>7, NoneAssumption DEF DropRow, TypeOK, KeysUnique, History,
    RowsFaithful, ClaimsKept, CopiesFaithful
<1>8. ASSUME NEW r \in Requests, DropKey(r)
      PROVE  CopiesFaithful'
  BY <1>8, NoneAssumption DEF DropKey, TypeOK, KeysUnique, History,
    RowsFaithful, ClaimsKept, CopiesFaithful
<1>9. ASSUME NEW r \in Requests, Recache(r)
      PROVE  CopiesFaithful'
  BY <1>9, NoneAssumption DEF Recache, TypeOK, KeysUnique, History,
    RowsFaithful, ClaimsKept, CopiesFaithful
<1>10. ASSUME NEW r \in Requests, HandlerReturns(r) \/ HandlerThrows(r)
      PROVE  CopiesFaithful'
  BY <1>10, NoneAssumption DEF HandlerReturns, HandlerThrows, TypeOK,
    KeysUnique, History, RowsFaithful, ClaimsKept, CopiesFaithful
<1>11. ASSUME NEW r \in Requests, StoreRow(r)
      PROVE  CopiesFaithful'
  BY <1>11, NoneAssumption DEF StoreRow, TypeOK, KeysUnique, History,
    RowsFaithful, ClaimsKept, CopiesFaithful
<1>12. ASSUME NEW r \in Requests, StoreKey(r)
      PROVE  CopiesFaithful'
  BY <1>12, NoneAssumption DEF StoreKey, TypeOK, KeysUnique, History,
    RowsFaithful, ClaimsKept, CopiesFaithful
<1>13. ASSUME NEW r \in Requests, ReleaseRow(r)
      PROVE  CopiesFaithful'
  BY <1>13, NoneAssumption DEF ReleaseRow, TypeOK, KeysUnique, History,
    RowsFaithful, ClaimsKept, CopiesFaithful
<1>14. ASSUME NEW r \in Requests, ReleaseKey(r)
      PROVE  CopiesFaithful'
  BY <1>14, NoneAssumption DEF ReleaseKey, TypeOK, KeysUnique, History,
    RowsFaithful, ClaimsKept, CopiesFaithful
<1>15. ASSUME NEW r \in Requests, ExpireRow(r)
      PROVE  CopiesFaithful'
  BY <1>15, NoneAssumption DEF ExpireRow, TypeOK, KeysUnique, History,
    RowsFaithful, ClaimsKept, CopiesFaithful
<1>16. ASSUME NEW k \in Keys, RedisForgets(k)
      PROVE  CopiesFaithful'
  BY <1>16, NoneAssumption DEF RedisForgets, TypeOK, KeysUnique, History,
    RowsFaithful, ClaimsKept, CopiesFaithful
<1>17. CASE CleanupExpiredRecords
  BY <1>17, NoneAssumption DEF CleanupExpiredRecords, TypeOK, KeysUnique,
    History, RowsFaithful, ClaimsKept, CopiesFaithful
<1>18. CASE UNCHANGED vars
  BY <1>18 DEF vars, TypeOK, KeysUnique, History, RowsFaithful, ClaimsKept,
    CopiesFaithful
<1>19. QED BY <1>1, <1>2, <1>3, <1>4, <1>5, <1>6, <1>7, <1>8, <1>9, <1>10,
        <1>11, <1>12, <1>13, <1>14, <1>15, <1>16, <1>17, <1>18 DEF Next, Serve

-----------------------------------------------------------------------------
\* The invariant holds at the start, every step keeps it, and it says what the
\* safety properties say: the interceptor and the service are right as long as
\* no live row is cleaned up as an expired one.
THEOREM Invariance == Spec => []IInv
<1>1. Init => IInv
  BY NoneAssumption DEF Init, IInv, TypeOK, KeysUnique, History, RowsFaithful,
    ClaimsKept, CopiesFaithful
<1>2. IInv /\ [Next]_vars => IInv'
  BY TypeOKStep, KeysUniqueStep, HistoryStep, RowsFaithfulStep,
    ClaimsKeptStep, CopiesFaithfulStep DEF IInv
<1>3. QED BY <1>1, <1>2, PTL DEF Spec

\* checkAndAcquire, store and release keep the stores and the requests
\* well-typed: in particular every answer is one the interceptor sends.
THEOREM TypeCorrect == Spec => []TypeOK
<1>1. IInv => TypeOK
  BY DEF IInv
<1>2. QED BY <1>1, Invariance, PTL

\* Two requests with one key are never both between claim and store()/release().
THEOREM Exclusion == Spec => []ExclusiveExecution
<1>1. IInv => ExclusiveExecution
  BY DEF IInv, ExclusiveExecution, KeysUnique, RowsFaithful, ClaimsKept
<1>2. QED BY <1>1, Invariance, PTL

\* A key creates at most one transaction within the lifetime of its row.
THEOREM SingleCreation == Spec => []AtMostOneCreation
<1>1. IInv => AtMostOneCreation
  BY DEF IInv, AtMostOneCreation, TypeOK, KeysUnique, RowsFaithful, ClaimsKept
<1>2. QED BY <1>1, Invariance, PTL

\* A replayed answer was made for the same key and the same body.
THEOREM FaithfulReplay == Spec => []CachedFaithful
<1>1. IInv => CachedFaithful
  BY DEF IInv, CachedFaithful, CopiesFaithful
<1>2. QED BY <1>1, Invariance, PTL

\* Redis never holds an answer that the table has lost or never had.
THEOREM DatabaseFirst == Spec => []CacheNeverAhead
<1>1. IInv => CacheNeverAhead
  BY DEF IInv, CacheNeverAhead, CopiesFaithful
<1>2. QED BY <1>1, Invariance, PTL

\* A stored answer stays as it is until it expires.
THEOREM AnswersStay == Spec => ResponseStays
<1>1. IInv /\ [Next]_vars =>
        [\A b \in Requests :
           Stored(b) /\ b \notin expired /\ Key(b) \notin stolen' => Stored(b)']_vars
  BY StoredStays DEF IInv
<1>2. QED BY <1>1, Invariance, PTL DEF Spec, ResponseStays

-----------------------------------------------------------------------------
(***************************************************************************)
(* Idempotency implements KeyContract: IInv says what a step of the code   *)
(* means for the holder and the answer of a key.                           *)
(***************************************************************************)
USE DEF Contract!Key, Contract!Holds, Contract!Recorded, Contract!vars

\* What the contract sees of a key: its row, as long as it is safe
ViewOK ==
  /\ Holder = [k \in Keys |-> Holder[k]]
  /\ Answer = [k \in Keys |-> Answer[k]]
  /\ \A k \in Keys : ~Kept(k) => Holder[k] = None /\ Answer[k] = None
  /\ \A x \in db : Kept(x.key) => Holder[x.key] = x.owner /\ Answer[x.key] = x.body

LEMMA View == IInv => ViewOK
<1> SUFFICES ASSUME IInv PROVE ViewOK
  OBVIOUS
<1>1. /\ Holder = [k \in Keys |-> Holder[k]]
      /\ Answer = [k \in Keys |-> Answer[k]]
      /\ \A k \in Keys : ~Kept(k) => Holder[k] = None /\ Answer[k] = None
  BY DEF Holder, Answer
<1>2. ASSUME NEW x \in db, Kept(x.key)
      PROVE  Holder[x.key] = x.owner /\ Answer[x.key] = x.body
  <2>1. RowOf(x.key) \in Rows(x.key)
    BY <1>2 DEF RowOf
  <2>2. RowOf(x.key) = x
    BY <2>1 DEF IInv, KeysUnique
  <2>3. x.key \in Keys
    BY DEF IInv, TypeOK
  <2>4. QED BY <1>2, <2>2, <2>3 DEF Holder, Answer
<1>3. QED BY <1>1, <1>2 DEF ViewOK

\* A key whose row stays as it is keeps its holder and its answer.
LEMMA KeySame ==
  ASSUME NEW k \in Keys, Rows(k)' = Rows(k), k \in stolen' <=> k \in stolen
  PROVE  Holder'[k] = Holder[k] /\ Answer'[k] = Answer[k]
<1> HIDE DEF Rows
<1>1. RowOf(k)' = RowOf(k) /\ (Kept(k)' <=> Kept(k))
  BY DEF RowOf, Kept
<1>2. QED BY <1>1 DEF Holder, Answer

LEMMA ViewSame ==
  ASSUME UNCHANGED <<db, stolen>>
  PROVE  UNCHANGED <<Holder, Answer>>
BY DEF Holder, Answer, Kept, RowOf

\* A request that is not answered is served nothing ...
LEMMA ServedSame ==
  ASSUME TypeOK, NEW r \in Requests, NEW to, pc' = [pc EXCEPT ![r] = to],
         pc[r] \notin {"created", "cached"}, to \notin {"created", "cached"},
         \A s \in Requests \ {r} : got'[s] = got[s]
  PROVE  UNCHANGED Served
BY DEF TypeOK, Served

\* ... and one that is answered is served once.
LEMMA ServedNow ==
  ASSUME TypeOK, NEW r \in Requests, NEW to \in {"created", "cached"},
         pc' = [pc EXCEPT ![r] = to], pc[r] \notin {"created", "cached"},
         \A s \in Requests \ {r} : got'[s] = got[s]
  PROVE  /\ Served[r] = None
         /\ Served' = [Served EXCEPT ![r] = IF to = "created" THEN r ELSE got'[r]]
<1>1. \A s \in Requests : pc'[s] = IF s = r THEN to ELSE pc[s]
  BY DEF TypeOK
<1>2. Served[r] = None
  BY DEF Served
<1>3. Served' = [s \in Requests |-> IF s = r
                   THEN IF to = "created" THEN r ELSE got'[r] ELSE Served[s]]
  BY <1>1 DEF Served
<1>4. Served = [s \in Requests |-> Served[s]]
  BY DEF Served
<1>5. QED BY <1>2, <1>3, <1>4

-----------------------------------------------------------------------------
\* Redis is nothing to the contract, nor are the calls that only read.
LEMMA SilentSteps ==
  ASSUME TypeOK, NEW r \in Requests,
         \/ Arrive(r) \/ RejectKeyless(r) \/ SetNX(r) \/ UndoLock(r)
         \/ ReadRow(r) \/ DropKey(r) \/ HandlerThrows(r) \/ ReleaseKey(r) \/ Crash(r)
  PROVE  UNCHANGED Contract!vars
<1>1. UNCHANGED <<req, db, expired, created, stolen>>
  BY DEF Arrive, RejectKeyless, SetNX, UndoLock, ReadRow, DropKey,
    HandlerThrows, ReleaseKey, Crash
<1>2. PICK to : /\ pc' = [pc EXCEPT ![r] = to]
                /\ pc[r] \notin {"created", "cached"} /\ to \notin {"created", "cached"}
  BY DEF Arrive, RejectKeyless, SetNX, UndoLock, ReadRow, DropKey,
    HandlerThrows, ReleaseKey, Crash
<1>3. \A s \in Requests \ {r} : got'[s] = got[s]
  BY DEF Arrive, RejectKeyless, SetNX, UndoLock, ReadRow, DropKey,
    HandlerThrows, ReleaseKey, Crash, TypeOK
<1>4. UNCHANGED Served
  BY <1>2, <1>3, ServedSame
<1>5. QED BY <1>1, <1>4, ViewSame

\* The insert that gets the unique index is the claim.
LEMMA ClaimStep ==
  ASSUME IInv, ViewOK, ViewOK', NEW r \in Requests, CreateRow(r)
  PROVE  Contract!Claim(r) \/ UNCHANGED Contract!vars
<1> USE DEF IInv, TypeOK
<1>1. UNCHANGED <<req, expired, created, stolen, got>>
  BY DEF CreateRow
<1>2. UNCHANGED Served
  <2>1. PICK to \in {"handle", "undoDuplicate", "undoError"} : pc' = [pc EXCEPT ![r] = to]
    BY DEF CreateRow
  <2>2. pc[r] = "createRow"
    BY DEF CreateRow
  <2>3. QED BY <1>1, <2>1, <2>2, ServedSame
<1>3. CASE UNCHANGED db
  BY <1>1, <1>2, <1>3, ViewSame
<1>4. CASE ~IsDuplicate(r) /\ InsertRow(r)
  <2> DEFINE row == [key |-> Key(r), hash |-> Hash(r), body |-> None, owner |-> r]
  <2>1. row \in db' /\ row.key = Key(r) /\ row.owner = r /\ row.body = None
    BY <1>4
  <2>2. ASSUME NEW k \in Keys \ {Key(r)}
        PROVE  Holder'[k] = Holder[k] /\ Answer'[k] = Answer[k]
    <3>1. Rows(k)' = Rows(k)
      BY <1>4
    <3>2. QED BY <1>1, <3>1, KeySame
  <2>3. CASE Safe(Key(r))
    <3>1. Holder[Key(r)] = None /\ Answer[Key(r)] = None
      BY <1>4 DEF ViewOK, Kept
    <3>2. Holder'[Key(r)] = r /\ Answer'[Key(r)] = None
      BY <1>1, <2>1, <2>3 DEF ViewOK, Kept
    <3>3. r \notin created \cup expired
      BY DEF CreateRow, History
    <3>4. Holder' = [Holder EXCEPT ![Key(r)] = r] /\ UNCHANGED Answer
      BY <2>2, <3>1, <3>2 DEF ViewOK
    <3>5. QED BY <1>1, <1>2, <3>1, <3>3, <3>4 DEF Contract!Claim
  <2>4. CASE ~Safe(Key(r))
    <3>1. \A k \in Keys : Holder'[k] = Holder[k] /\ Answer'[k] = Answer[k]
      BY <1>1, <2>2, <2>4 DEF ViewOK, Kept
    <3>2. UNCHANGED <<Holder, Answer>>
      BY <3>1 DEF ViewOK
    <3>3. QED BY <1>1, <1>2, <3>2
  <2>5. QED BY <2>3, <2>4
<1>5. QED BY <1>3, <1>4 DEF CreateRow

\* What is served is what the same key and the same body created.
LEMMA CachedStep ==
  ASSUME IInv, NEW r \in Requests, ReadKey(r) \/ Recache(r)
  PROVE  (\E b \in Requests : Contract!Serve(r, b)) \/ UNCHANGED Contract!vars
<1> USE DEF IInv, TypeOK
<1>1. /\ UNCHANGED <<req, db, expired, created, stolen>>
      /\ \A s \in Requests \ {r} : got'[s] = got[s]
      /\ pc[r] \notin {"created", "cached"}
  BY DEF ReadKey, Recache
<1>2. UNCHANGED <<Holder, Answer>>
  BY <1>1, ViewSame
<1>3. PICK to : pc' = [pc EXCEPT ![r] = to] /\ to # "created"
  BY DEF ReadKey, Recache
<1>4. CASE to # "cached"
  BY <1>1, <1>2, <1>3, <1>4, ServedSame
<1>5. CASE to = "cached"
  <2>1. Served[r] = None /\ Served' = [Served EXCEPT ![r] = got'[r]]
    BY <1>1, <1>3, <1>5, ServedNow
  <2>2. CASE got'[r] = None
    <3>1. UNCHANGED Served
      BY <2>1, <2>2 DEF Served
    <3>2. QED BY <1>1, <1>2, <3>1
  <2>3. CASE got'[r] # None
    <3>1. got'[r] \in Requests
      BY <1>3, <1>5, <2>3 DEF ReadKey, Recache
    <3>2. Safe(Key(r)) => AnswerTo(got'[r], Key(r), Hash(r))
      BY <1>3, <1>5, <2>3 DEF ReadKey, Recache, CopiesFaithful
    <3>3. Safe(Key(r)) => got'[r] \in created /\ req[got'[r]] = req[r]
      BY <3>1, <3>2
    <3>4. Contract!Serve(r, got'[r])
      BY <1>1, <1>2, <2>1, <3>3 DEF Contract!Serve
    <3>5. QED BY <3>1, <3>4
  <2>4. QED BY <2>2, <2>3
<1>6. QED BY <1>4, <1>5

\* A claim that is not breached shows as the holder.
LEMMA ClaimHolds ==
  ASSUME IInv, ViewOK, NEW r \in Requests, pc[r] \in Holding
  PROVE  /\ Contract!Holds(r)
         /\ Safe(Key(r)) => \E x \in db : /\ x.owner = r /\ x.key = Key(r)
                                          /\ Kept(x.key) /\ Answer[x.key] = x.body
<1>1. CASE Safe(Key(r))
  <2>1. PICK x \in db : x.owner = r
    BY <1>1 DEF IInv, ClaimsKept
  <2>2. x.key = Key(r) /\ Kept(x.key)
    BY <1>1, <2>1 DEF IInv, RowsFaithful, Kept
  <2>3. QED BY <2>1, <2>2 DEF ViewOK
<1>2. QED BY <1>1

\* The handler is run by the holder, once.
LEMMA CreateStep ==
  ASSUME IInv, ViewOK, NEW r \in Requests, HandlerReturns(r)
  PROVE  Contract!Create(r)
<1>1. UNCHANGED <<Holder, Answer>>
  BY ViewSame DEF HandlerReturns
<1>2. UNCHANGED Served
  BY ServedSame DEF HandlerReturns, IInv
<1>3. Contract!Holds(r) /\ r \notin created \cup expired
  BY ClaimHolds DEF HandlerReturns, IInv, History
<1>4. QED BY <1>1, <1>2, <1>3 DEF HandlerReturns, Contract!Create

\* update() records the answer of the holder, or changes nothing.
LEMMA UpdateRecords ==
  ASSUME IInv, ViewOK, ViewOK', UNCHANGED <<req, stolen>>,
         NEW r \in Requests, pc[r] = "storeRow", UNCHANGED db \/ UpdateRow(Key(r), r)
  PROVE  UNCHANGED Holder /\ (UNCHANGED Answer \/ Contract!Recorded(r))
<1> USE DEF IInv, TypeOK
<1>1. CASE UNCHANGED db
  BY <1>1, ViewSame
<1>2. CASE UpdateRow(Key(r), r)
  <2>1. ASSUME NEW k \in Keys \ {Key(r)}
        PROVE  Holder'[k] = Holder[k] /\ Answer'[k] = Answer[k]
    <3>1. Rows(k)' = Rows(k)
      BY <1>2
    <3>2. QED BY <3>1, KeySame
  <2>2. CASE ~Safe(Key(r))
    <3>1. \A k \in Keys : Holder'[k] = Holder[k] /\ Answer'[k] = Answer[k]
      BY <2>1, <2>2 DEF ViewOK, Kept
    <3>2. QED BY <3>1 DEF ViewOK
  <2>3. CASE Safe(Key(r))
    <3>1. PICK x \in db : /\ x.owner = r /\ x.key = Key(r)
                          /\ Kept(x.key) /\ Answer[x.key] = x.body
      BY <2>3, ClaimHolds
    <3> DEFINE y == [x EXCEPT !.body = r]
    <3>2. y \in db' /\ y.key = Key(r) /\ y.owner = r /\ y.body = r
      BY <1>2, <3>1
    <3>3. Holder[Key(r)] = r /\ Holder'[Key(r)] = r /\ Answer'[Key(r)] = r
      BY <2>3, <3>1, <3>2 DEF ViewOK, Kept
    <3>4. r \in created /\ Answer[Key(r)] \in {None, r}
      BY <2>3, <3>1 DEF History, RowsFaithful
    <3>5. UNCHANGED Holder
      BY <2>1, <3>3 DEF ViewOK
    <3>6. Answer' = [Answer EXCEPT ![Key(r)] = r]
      BY <2>1, <3>3 DEF ViewOK
    <3>7. Answer[Key(r)] = r => UNCHANGED Answer
      BY <3>6 DEF ViewOK
    <3>8. QED BY <3>3, <3>4, <3>5, <3>6, <3>7
  <2>4. QED BY <2>2, <2>3
<1>3. QED BY <1>1, <1>2

\* store(): the answer is recorded before, when or without it is sent
LEMMA StoreStep ==
  ASSUME IInv, ViewOK, ViewOK', NEW r \in Requests, StoreRow(r) \/ StoreKey(r)
  PROVE  Contract!Record(r) \/ Contract!Serve(r, r) \/ UNCHANGED Contract!vars
<1> USE DEF IInv
<1>1. UNCHANGED <<req, expired, created, stolen, got>> /\ r \in created
  BY DEF StoreRow, StoreKey, History
<1>2. UNCHANGED Holder /\ (UNCHANGED Answer \/ Contract!Recorded(r))
  <2>1. CASE StoreRow(r)
    BY <1>1, <2>1, UpdateRecords DEF StoreRow
  <2>2. CASE StoreKey(r)
    BY <2>2, ViewSame DEF StoreKey
  <2>3. QED BY <2>1, <2>2
<1>3. PICK to \in {"storeKey", "created"} :
        pc' = [pc EXCEPT ![r] = to] /\ pc[r] \in {"storeRow", "storeKey"}
  BY DEF StoreRow, StoreKey
<1>4. CASE to = "storeKey"
  <2>1. UNCHANGED Served
    BY <1>1, <1>3, <1>4, ServedSame
  <2>2. QED BY <1>1, <1>2, <2>1 DEF Contract!Record
<1>5. CASE to = "created"
  <2>1. Served[r] = None /\ Served' = [Served EXCEPT ![r] = r]
    BY <1>1, <1>3, <1>5, ServedNow
  <2>2. QED BY <1>1, <1>2, <2>1 DEF Contract!Serve
<1>6. QED BY <1>3, <1>4, <1>5

\* release() gives up the claim of a request that created nothing.
LEMMA ReleaseStep ==
  ASSUME IInv, ViewOK, ViewOK', NEW r \in Requests, ReleaseRow(r)
  PROVE  (\E k \in Keys : Contract!Abandon(k)) \/ UNCHANGED Contract!vars
<1> USE DEF IInv, TypeOK
<1>1. UNCHANGED <<req, expired, created, stolen, got>> /\ pc[r] = "releaseRow"
  BY DEF ReleaseRow
<1>2. UNCHANGED Served
  <2> HIDE DEF TypeOK
  <2>1. pc' = [pc EXCEPT ![r] = "releaseKey"]
    BY DEF ReleaseRow
  <2>2. QED BY <1>1, <2>1, ServedSame
<1>3. CASE UNCHANGED db
  BY <1>1, <1>2, <1>3, ViewSame
<1>4. CASE DeleteRow(Key(r))
  <2>1. ASSUME NEW k \in Keys \ {Key(r)}
        PROVE  Holder'[k] = Holder[k] /\ Answer'[k] = Answer[k]
    <3>1. Rows(k)' = Rows(k)
      BY <1>4
    <3>2. QED BY <1>1, <3>1, KeySame
  <2>2. Holder'[Key(r)] = None /\ Answer'[Key(r)] = None
    BY <1>1, <1>4 DEF ViewOK, Kept
  <2>3. CASE Safe(Key(r))
    <3>1. PICK x \in db : /\ x.owner = r /\ x.key = Key(r)
                          /\ Kept(x.key) /\ Answer[x.key] = x.body
      BY <1>1, <2>3, ClaimHolds
    <3>2. r \notin created /\ Holder[Key(r)] = r /\ Answer[Key(r)] = None
      BY <1>1, <2>3, <3>1 DEF History, RowsFaithful, ViewOK
    <3>3. Holder' = [Holder EXCEPT ![Key(r)] = None] /\ UNCHANGED Answer
      BY <2>1, <2>2, <3>2 DEF ViewOK
    <3>4. Contract!Abandon(Key(r))
      BY <1>1, <1>2, <3>2, <3>3 DEF Contract!Abandon
    <3>5. QED BY <3>4
  <2>4. CASE ~Safe(Key(r))
    <3>1. \A k \in Keys : Holder'[k] = Holder[k] /\ Answer'[k] = Answer[k]
      BY <2>1, <2>2, <2>4 DEF ViewOK, Kept
    <3>2. UNCHANGED <<Holder, Answer>>
      BY <3>1 DEF ViewOK
    <3>3. QED BY <1>1, <1>2, <3>2
  <2>5. QED BY <2>3, <2>4
<1>5. QED BY <1>3, <1>4 DEF ReleaseRow

\* Time runs out for a holder, or for nobody the contract knows.
LEMMA ExpireStep ==
  ASSUME IInv, ViewOK, NEW r \in Requests, ExpireRow(r)
  PROVE  Contract!Expire(r)
<1>1. UNCHANGED <<Holder, Answer>>
  BY ViewSame DEF ExpireRow
<1>2. UNCHANGED Served
  BY DEF ExpireRow, Served
<1>3. Contract!Holds(r)
  <2>1. PICK x \in db : x.owner = r /\ x.key = Key(r)
    BY DEF ExpireRow, IInv, RowsFaithful
  <2>2. QED BY <2>1 DEF ViewOK, Kept
<1>4. QED BY <1>1, <1>2, <1>3 DEF ExpireRow, Contract!Expire

\* The cron ends the claims whose time is over, and no other.
LEMMA CleanupStep ==
  ASSUME IInv, ViewOK, ViewOK', CleanupExpiredRecords
  PROVE  \E K \in SUBSET Keys : Contract!Lapse(K)
<1> USE DEF IInv, TypeOK
<1> DEFINE K == {k \in Keys : Safe(k) /\ \E x \in Rows(k) : Expired(x)}
<1>1. UNCHANGED <<req, pc, got, expired, created, stolen>>
      /\ db' = {x \in db : ~Expired(x)}
  BY DEF CleanupExpiredRecords
<1>2. UNCHANGED Served
  BY <1>1 DEF Served
<1>3. ASSUME NEW k \in K
      PROVE  Holder[k] \in expired /\ Holder'[k] = None /\ Answer'[k] = None
  <2>1. PICK x \in db : x.key = k /\ Expired(x)
    OBVIOUS
  <2>2. Holder[k] \in expired
    BY <2>1 DEF ViewOK, Kept
  <2>3. \A y \in db' : y.key # k
    BY <1>1, <2>1 DEF KeysUnique
  <2>4. QED BY <2>2, <2>3 DEF ViewOK, Kept
<1>4. ASSUME NEW k \in Keys \ K
      PROVE  Holder'[k] = Holder[k] /\ Answer'[k] = Answer[k]
  <2>1. CASE Safe(k)
    <3>1. Rows(k)' = Rows(k)
      BY <1>1, <2>1
    <3>2. QED BY <1>1, <3>1, KeySame
  <2>2. CASE ~Safe(k)
    BY <1>1, <2>2 DEF ViewOK, Kept
  <2>3. QED BY <2>1, <2>2
<1>5. /\ Holder' = [k \in Keys |-> IF k \in K THEN None ELSE Holder[k]]
      /\ Answer' = [k \in Keys |-> IF k \in K THEN None ELSE Answer[k]]
  BY <1>3, <1>4 DEF ViewOK
<1>6. Contract!Lapse(K)
  BY <1>1, <1>2, <1>3, <1>5 DEF Contract!Lapse
<1>7. K \in SUBSET Keys
  OBVIOUS
<1>8. QED BY <1>6, <1>7

\* The cleanup in inspectFromDb ends a claim whose time is over, or breaches
\* the one that took its place.
LEMMA DropStep ==
  ASSUME IInv, ViewOK, ViewOK', NEW r \in Requests, DropRow(r)
  PROVE  \/ \E K \in SUBSET Keys : Contract!Lapse(K)
         \/ \E k \in Keys : Contract!Breach(k)
         \/ UNCHANGED Contract!vars
<1> USE DEF IInv, TypeOK
<1> DEFINE k == Key(r)
<1>1. UNCHANGED <<req, expired, created, got>> /\ k \in Keys
  BY DEF DropRow
<1>2. UNCHANGED Served
  <2> HIDE DEF TypeOK
  <2>1. pc' = [pc EXCEPT ![r] = "dropKey"] /\ pc[r] = "dropRow"
    BY DEF DropRow
  <2>2. QED BY <1>1, <2>1, ServedSame
<1>3. CASE UNCHANGED <<db, stolen>>
  BY <1>1, <1>2, <1>3, ViewSame
<1>4. CASE /\ DeleteRow(k)
           /\ stolen' = stolen \cup {x.key : x \in {y \in Rows(k) : ~Expired(y)}}
  <2>1. ASSUME NEW j \in Keys \ {k}
        PROVE  Holder'[j] = Holder[j] /\ Answer'[j] = Answer[j]
    <3>1. Rows(j)' = Rows(j) /\ (j \in stolen' <=> j \in stolen)
      BY <1>1, <1>4
    <3>2. QED BY <3>1, KeySame
  <2>2. Holder'[k] = None /\ Answer'[k] = None
    BY <1>1, <1>4 DEF ViewOK, Kept
  <2>3. CASE ~Kept(k)
    <3>1. \A j \in Keys : Holder'[j] = Holder[j] /\ Answer'[j] = Answer[j]
      BY <2>1, <2>2, <2>3 DEF ViewOK
    <3>2. UNCHANGED <<Holder, Answer>>
      BY <3>1 DEF ViewOK
    <3>3. UNCHANGED stolen
      BY <1>4, <2>3 DEF Kept
    <3>4. QED BY <1>1, <1>2, <3>2, <3>3
  <2>4. ASSUME NEW x \in db, x.key = k, Kept(k)
        PROVE  (\E K \in SUBSET Keys : Contract!Lapse(K)) \/ Contract!Breach(k)
    <3>1. Holder[k] = x.owner /\ Rows(k) = {x}
      BY <2>4 DEF ViewOK, KeysUnique
    <3>2. CASE Expired(x)
      <4>1. UNCHANGED stolen
        BY <1>4, <3>1, <3>2
      <4>2. /\ Holder' = [j \in Keys |-> IF j \in {k} THEN None ELSE Holder[j]]
            /\ Answer' = [j \in Keys |-> IF j \in {k} THEN None ELSE Answer[j]]
        BY <2>1, <2>2 DEF ViewOK
      <4>3. Contract!Lapse({k})
        BY <1>1, <1>2, <3>1, <3>2, <4>1, <4>2 DEF Contract!Lapse
      <4>4. {k} \in SUBSET Keys
        BY <1>1
      <4>5. QED BY <4>3, <4>4
    <3>3. CASE ~Expired(x)
      <4>1. stolen' = stolen \cup {k}
        BY <1>4, <2>4, <3>1, <3>3
      <4>2. /\ Holder' = [Holder EXCEPT ![k] = None]
            /\ Answer' = [Answer EXCEPT ![k] = None]
        BY <2>1, <2>2 DEF ViewOK
      <4>3. Holder[k] \in Requests \ expired
        BY <3>1, <3>3
      <4>4. Contract!Breach(k)
        BY <1>1, <1>2, <4>1, <4>2, <4>3 DEF Contract!Breach
      <4>5. QED BY <4>4
    <3>4. QED BY <3>2, <3>3
  <2>5. QED BY <1>1, <2>3, <2>4 DEF Kept
<1>5. QED BY <1>3, <1>4 DEF DropRow

-----------------------------------------------------------------------------
\* Every step of checkAndAcquire, store, release, the cron and the
\* environment is one of KeyContract, or none.
THEOREM Refinement == Spec => KeepsContract
<1>1. Init => Contract!Init
  BY DEF Init, Contract!Init, Holder, Answer, Served, Kept
<1>2. IInv /\ IInv' /\ ViewOK /\ ViewOK' /\ [Next]_vars => [Contract!Next]_Contract!vars
  <2> SUFFICES ASSUME IInv, IInv', ViewOK, ViewOK', [Next]_vars
               PROVE  [Contract!Next]_Contract!vars
    OBVIOUS
  <2>1. ASSUME NEW r \in Requests, Arrive(r) \/ RejectKeyless(r) \/ Serve(r) \/ Crash(r)
        PROVE  [Contract!Next]_Contract!vars
    BY <2>1, SilentSteps, ClaimStep, CachedStep, CreateStep, StoreStep,
      ReleaseStep, DropStep DEF Serve, Contract!Next, IInv, TypeOK
  <2>2. ASSUME NEW r \in Requests, ExpireRow(r) PROVE [Contract!Next]_Contract!vars
    BY <2>2, ExpireStep DEF Contract!Next
  <2>3. ASSUME NEW k \in Keys, RedisForgets(k) PROVE [Contract!Next]_Contract!vars
    BY <2>3, ViewSame DEF RedisForgets, Served
  <2>4. CASE CleanupExpiredRecords
    BY <2>4, CleanupStep DEF Contract!Next
  <2>5. CASE UNCHANGED vars
    BY <2>5, ViewSame DEF vars, Served
  <2>6. QED BY <2>1, <2>2, <2>3, <2>4, <2>5 DEF Next
<1>3. QED BY <1>1, <1>2, Invariance, View, PTL DEF Spec, KeepsContract, Contract!Spec

=============================================================================
