----------------------------- MODULE Idempotency -----------------------------
(***************************************************************************)
(* POST /transactions as the IdempotencyInterceptor and the                *)
(* IdempotencyService run it: a lock and a response cache in Redis in      *)
(* front of the table idempotency_records in PostgreSQL.                   *)
(*                                                                         *)
(* Every await of the code is a point where other requests, the hourly     *)
(* cron, the TTLs and crashes interleave, so every call to Redis or        *)
(* PostgreSQL is an action of its own.  A call that throws either had its  *)
(* effect (the reply was lost) or had not.                                 *)
(*                                                                         *)
(* The handler behind the interceptor is one step that returns or throws;  *)
(* its response body carries a fresh random transaction id, so the body is *)
(* identified with the request that produced it.                           *)
(***************************************************************************)
EXTENDS FiniteSets

CONSTANTS
  Requests,   \* HTTP requests; a client's retry is another request
  Keys,       \* values of the Idempotency-Key header
  Hashes,     \* SHA-256 hashes of canonicalised bodies
  None        \* "no response body"

ASSUME NoneAssumption == None \notin Requests

VARIABLES
  req,        \* what each request carries; never changes
  pc,         \* the call a request is about to make, or its answer
  got,        \* the stored response a request has read
  redis,      \* entries idempotency:<key>: a set of records, one per key
  db,         \* rows of idempotency_records, one per key
  expired,    \* rows, named by their owner, whose expiresAt has passed
  created,    \* requests whose handler returned: their transaction exists
  stolen      \* history: keys whose unexpired row was cleaned up as expired

vars == <<req, pc, got, redis, db, expired, created, stolen>>

Key(r)  == req[r].key
Hash(r) == req[r].hash

Waiting == {"setNX", "createRow", "undoDuplicate", "undoError", "readKey",
            "readRow", "dropRow", "dropKey", "recache"}
Holding == {"handle", "storeRow", "storeKey", "releaseRow"}
Active  == Waiting \cup Holding \cup {"releaseKey"}
Answers == {"created", "cached", "conflict", "mismatch", "badRequest",
            "serverError"}
Labels  == Active \cup Answers \cup {"idle", "crashed"}

InFlight(r) == pc[r] \in Active

(***************************************************************************)
(* The two stores.  A Redis entry or a row without a body is a             *)
(* placeholder: the code tells it by its missing statusCode.               *)
(***************************************************************************)
Entry == [key: Keys, hash: Hashes, body: Requests \cup {None}]
Row   == [key: Keys, hash: Hashes, body: Requests \cup {None}, owner: Requests]

Entries(k) == {e \in redis : e.key = k}
Rows(k)    == {x \in db : x.key = k}

Expired(x) == x.owner \in expired

\* SET key value EX ttl, and DEL key
RedisSet(k, h, b) ==
  redis' = {e \in redis : e.key # k} \cup {[key |-> k, hash |-> h, body |-> b]}
RedisDel(k) == redis' = {e \in redis : e.key # k}

\* prisma.idempotencyRecord.create, delete and update by the unique key
InsertRow(r) ==
  db' = db \cup {[key |-> Key(r), hash |-> Hash(r), body |-> None, owner |-> r]}
DeleteRow(k) == db' = {x \in db : x.key # k}
UpdateRow(k, b) ==
  db' = {IF x.key = k THEN [x EXCEPT !.body = b] ELSE x : x \in db}

-----------------------------------------------------------------------------
TypeOK ==
  /\ req \in [Requests -> [key: Keys, hash: Hashes]]
  /\ pc \in [Requests -> Labels]
  /\ got \in [Requests -> Requests \cup {None}]
  /\ redis \subseteq Entry
  /\ db \subseteq Row
  /\ expired \subseteq Requests
  /\ created \subseteq Requests
  /\ stolen \subseteq Keys

Init ==
  /\ req \in [Requests -> [key: Keys, hash: Hashes]]
  /\ pc = [r \in Requests |-> "idle"]
  /\ got = [r \in Requests |-> None]
  /\ redis = {}
  /\ db = {}
  /\ expired = {}
  /\ created = {}
  /\ stolen = {}

\* r moves from one call to the next, or to its answer
Goto(r, from, to) ==
  /\ pc[r] = from
  /\ pc' = [pc EXCEPT ![r] = to]

\* a call of r throws: where a throw leads to is the enclosing catch
Throws(r, from) == Goto(r, from, "serverError")

-----------------------------------------------------------------------------
(***************************************************************************)
(* checkAndAcquire                                                         *)
(***************************************************************************)
Arrive(r) ==
  /\ Goto(r, "idle", "setNX")
  /\ UNCHANGED <<req, got, redis, db, expired, created, stolen>>

RejectKeyless(r) ==
  /\ Goto(r, "idle", "badRequest")
  /\ UNCHANGED <<req, got, redis, db, expired, created, stolen>>

SetNX(r) ==
  /\ \/ /\ Entries(Key(r)) = {}
        /\ Goto(r, "setNX", "createRow")
        /\ RedisSet(Key(r), Hash(r), None)
     \/ /\ Entries(Key(r)) # {}
        /\ Goto(r, "setNX", "readKey")
        /\ UNCHANGED redis
     \/ /\ Throws(r, "setNX")
        /\ \/ UNCHANGED redis
           \/ Entries(Key(r)) = {} /\ RedisSet(Key(r), Hash(r), None)
  /\ UNCHANGED <<req, got, db, expired, created, stolen>>

\* Seeded fault: an upsert in place of create takes a placeholder over
UpsertsPlaceholder(r) == \E x \in Rows(Key(r)) : x.body # None

\* the unique index on "key": P2002 when a row is there, even an expired one
IsDuplicate(r) == Rows(Key(r)) # {}

CreateRow(r) ==
  /\ \/ /\ ~IsDuplicate(r)
        /\ Goto(r, "createRow", "handle")
        /\ InsertRow(r)
     \/ /\ IsDuplicate(r)
        /\ Goto(r, "createRow", "undoDuplicate")
        /\ UNCHANGED db
     \/ /\ Goto(r, "createRow", "undoError")
        /\ \/ UNCHANGED db
           \/ ~IsDuplicate(r) /\ InsertRow(r)
  /\ UNCHANGED <<req, got, redis, expired, created, stolen>>

\* Seeded fault: the catch of create undoes the lock with release()
UndoLockByRelease(r) ==
  /\ Goto(r, "undoDuplicate", "releaseRow") \/ Goto(r, "undoError", "releaseRow")
  /\ UNCHANGED <<req, got, redis, db, expired, created, stolen>>

\* the del in the catch of create: rethrow after it, or read the row instead
UndoLock(r) ==
  /\ \/ /\ Goto(r, "undoDuplicate", "readRow") \/ Throws(r, "undoError")
        /\ RedisDel(Key(r))
     \/ /\ Throws(r, "undoDuplicate") \/ Throws(r, "undoError")
        /\ UNCHANGED redis \/ RedisDel(Key(r))
  /\ UNCHANGED <<req, got, db, expired, created, stolen>>

-----------------------------------------------------------------------------
(***************************************************************************)
(* inspectExisting, parseIdempotencyData and inspectFromDb.  Every writer  *)
(* of Redis writes JSON, so the catch around JSON.parse is left out.       *)
(***************************************************************************)
\* Seeded fault: a finished answer is replayed before the hashes are compared
SameBodyOrDone(r, x) == x.hash = Hash(r) \/ x.body # None

SameBody(r, x) == x.hash = Hash(r)

ReadKey(r) ==
  /\ \/ /\ Entries(Key(r)) = {}
        /\ Goto(r, "readKey", "readRow")
        /\ UNCHANGED got
     \/ \E e \in Entries(Key(r)) :
           \/ /\ ~SameBody(r, e)
              /\ Goto(r, "readKey", "mismatch")
              /\ UNCHANGED got
           \/ /\ SameBody(r, e) /\ e.body = None
              /\ Goto(r, "readKey", "conflict")
              /\ UNCHANGED got
           \/ /\ SameBody(r, e) /\ e.body # None
              /\ Goto(r, "readKey", "cached")
              /\ got' = [got EXCEPT ![r] = e.body]
     \/ /\ Throws(r, "readKey")
        /\ UNCHANGED got
  /\ UNCHANGED <<req, redis, db, expired, created, stolen>>

ReadRow(r) ==
  /\ \/ /\ Rows(Key(r)) = {}
        /\ Goto(r, "readRow", "conflict")
        /\ UNCHANGED got
     \/ \E x \in Rows(Key(r)) :
           \/ /\ Expired(x)
              /\ Goto(r, "readRow", "dropRow")
              /\ UNCHANGED got
           \/ /\ ~Expired(x) /\ ~SameBody(r, x)
              /\ Goto(r, "readRow", "mismatch")
              /\ UNCHANGED got
           \/ /\ ~Expired(x) /\ SameBody(r, x) /\ x.body = None
              /\ Goto(r, "readRow", "conflict")
              /\ UNCHANGED got
           \/ /\ ~Expired(x) /\ SameBody(r, x) /\ x.body # None
              /\ Goto(r, "readRow", "recache")
              /\ got' = [got EXCEPT ![r] = x.body]
     \/ /\ Throws(r, "readRow")
        /\ UNCHANGED got
  /\ UNCHANGED <<req, redis, db, expired, created, stolen>>

\* The cleanup of an expired record deletes by key alone: whatever row is
\* there by now goes.  An error, or no row at all (P2025), is swallowed.
DropRow(r) ==
  /\ Goto(r, "dropRow", "dropKey")
  /\ \/ /\ DeleteRow(Key(r))
        /\ stolen' = stolen \cup {x.key : x \in {y \in Rows(Key(r)) : ~Expired(y)}}
     \/ UNCHANGED <<db, stolen>>
  /\ UNCHANGED <<req, got, redis, expired, created>>

DropKey(r) ==
  /\ Goto(r, "dropKey", "conflict")
  /\ RedisDel(Key(r)) \/ UNCHANGED redis
  /\ UNCHANGED <<req, got, db, expired, created, stolen>>

Recache(r) ==
  /\ \/ Goto(r, "recache", "cached") /\ RedisSet(Key(r), Hash(r), got[r])
     \/ /\ Throws(r, "recache")
        /\ UNCHANGED redis \/ RedisSet(Key(r), Hash(r), got[r])
  /\ UNCHANGED <<req, got, db, expired, created, stolen>>

-----------------------------------------------------------------------------
(***************************************************************************)
(* The interceptor after a miss: the handler, then store() or release().   *)
(***************************************************************************)
HandlerReturns(r) ==
  /\ Goto(r, "handle", "storeRow")
  /\ created' = created \cup {r}
  /\ UNCHANGED <<req, got, redis, db, expired, stolen>>

HandlerThrows(r) ==
  /\ Goto(r, "handle", "releaseRow")
  /\ UNCHANGED <<req, got, redis, db, expired, created, stolen>>

\* Seeded fault: a failed store() releases the key although the handler is done
StoreRowOrRelease(r) ==
  /\ \/ /\ Rows(Key(r)) # {}
        /\ Goto(r, "storeRow", "storeKey")
        /\ UpdateRow(Key(r), r)
     \/ Goto(r, "storeRow", "releaseRow") /\ UNCHANGED db
  /\ UNCHANGED <<req, got, redis, expired, created, stolen>>

\* Seeded fault: store() goes on to Redis when the update failed
StoreRowBestEffort(r) ==
  /\ Goto(r, "storeRow", "storeKey")
  /\ UNCHANGED db \/ UpdateRow(Key(r), r)
  /\ UNCHANGED <<req, got, redis, expired, created, stolen>>

\* update by key: it answers for whatever row has the key, and throws when
\* none has (P2025).  A failed store() is logged and the answer still sent.
StoreRow(r) ==
  /\ \/ /\ Rows(Key(r)) # {}
        /\ Goto(r, "storeRow", "storeKey")
        /\ UpdateRow(Key(r), r)
     \/ /\ Goto(r, "storeRow", "created")
        /\ UNCHANGED db \/ UpdateRow(Key(r), r)
  /\ UNCHANGED <<req, got, redis, expired, created, stolen>>

StoreKey(r) ==
  /\ Goto(r, "storeKey", "created")
  /\ RedisSet(Key(r), Hash(r), r) \/ UNCHANGED redis
  /\ UNCHANGED <<req, got, db, expired, created, stolen>>

\* release(): the two deletions are independent and neither error surfaces
ReleaseRow(r) ==
  /\ Goto(r, "releaseRow", "releaseKey")
  /\ DeleteRow(Key(r)) \/ UNCHANGED db
  /\ UNCHANGED <<req, got, redis, expired, created, stolen>>

ReleaseKey(r) ==
  /\ Goto(r, "releaseKey", "serverError")
  /\ RedisDel(Key(r)) \/ UNCHANGED redis
  /\ UNCHANGED <<req, got, db, expired, created, stolen>>

-----------------------------------------------------------------------------
(***************************************************************************)
(* The environment: the cron, time, and what fails without the code.       *)
(***************************************************************************)
\* Seeded fault: the comparison with the date is the wrong way round
CleanupLiveRecords ==
  /\ \E x \in db : ~Expired(x)
  /\ db' = {x \in db : Expired(x)}
  /\ UNCHANGED <<req, pc, got, redis, expired, created, stolen>>

\* Seeded fault: the cron clears finished records only
CleanupFinishedRecords ==
  /\ \E x \in db : Expired(x) /\ x.body # None
  /\ db' = {x \in db : ~Expired(x) \/ x.body = None}
  /\ UNCHANGED <<req, pc, got, redis, expired, created, stolen>>

CleanupExpiredRecords ==
  /\ \E x \in db : Expired(x)
  /\ db' = {x \in db : ~Expired(x)}
  /\ UNCHANGED <<req, pc, got, redis, expired, created, stolen>>

\* expiresAt passes.  The TTL is an hour at least, so the request that
\* created the row is over by then; other requests may be anywhere.
ExpireRow(r) ==
  /\ ~InFlight(r)
  /\ \E x \in db : x.owner = r
  /\ expired' = expired \cup {r}
  /\ UNCHANGED <<req, pc, got, redis, db, created, stolen>>

\* An entry's TTL runs out, or Redis restarts without its last writes
RedisForgets(k) ==
  /\ RedisDel(k)
  /\ UNCHANGED <<req, pc, got, db, expired, created, stolen>>

\* The process dies between two calls; cluster.ts forks another one
Crash(r) ==
  /\ InFlight(r)
  /\ pc' = [pc EXCEPT ![r] = "crashed"]
  /\ UNCHANGED <<req, got, redis, db, expired, created, stolen>>

Serve(r) ==
  \/ SetNX(r) \/ CreateRow(r) \/ UndoLock(r)
  \/ ReadKey(r) \/ ReadRow(r) \/ DropRow(r) \/ DropKey(r) \/ Recache(r)
  \/ HandlerReturns(r) \/ HandlerThrows(r)
  \/ StoreRow(r) \/ StoreKey(r) \/ ReleaseRow(r) \/ ReleaseKey(r)

Next ==
  \/ \E r \in Requests :
        Arrive(r) \/ RejectKeyless(r) \/ Serve(r) \/ Crash(r) \/ ExpireRow(r)
  \/ \E k \in Keys : RedisForgets(k)
  \/ CleanupExpiredRecords

Spec == Init /\ [][Next]_vars

(***************************************************************************)
(* Node serves a request until it is answered or its process dies; time    *)
(* passes, TTLs run out and the cron runs every hour.                      *)
(***************************************************************************)
FairSpec ==
  /\ Spec
  /\ \A r \in Requests : WF_vars(Serve(r)) /\ WF_vars(ExpireRow(r))
  /\ \A k \in Keys : WF_vars(RedisForgets(k))
  /\ WF_vars(CleanupExpiredRecords)

-----------------------------------------------------------------------------
(***************************************************************************)
(* What the interceptor promises a client, as long as no unexpired row of  *)
(* the key was cleaned up as expired (see NeverTwoHandlers for that case). *)
(***************************************************************************)
Safe(k)   == k \notin stolen
Stored(b) == \E x \in db : x.owner = b /\ x.body = b

\* b is the response of a request with this key and this body
AnswerTo(b, k, h) == b \in created /\ Key(b) = k /\ Hash(b) = h

\* Of all requests with one key at most one is between its claim and the end
\* of its store() or release(), whatever Redis forgets and whoever crashes:
\* the row, not the Redis lock, is what excludes the others.
ExclusiveExecution ==
  \A r, s \in Requests :
     /\ Key(r) = Key(s) /\ Safe(Key(r))
     /\ pc[r] \in Holding /\ pc[s] \in Holding
     => r = s

\* Within the lifetime of its row a key creates one transaction: a failed
\* store() or a crash after the handler leaves the row, which keeps retries
\* out, and release() is called only when the handler threw.
AtMostOneCreation ==
  \A r, s \in created \ expired :
     Key(r) = Key(s) /\ Safe(Key(r)) => r = s

\* A replayed response is the one an earlier request with the same key and
\* the same body produced, be it read from Redis or from the row, and
\* however late the cache was filled.
CachedFaithful ==
  \A r \in Requests :
     pc[r] = "cached" /\ Safe(Key(r)) => AnswerTo(got[r], Key(r), Hash(r))

\* "DB first": Redis holds no response the table has not got, unless the
\* row has expired.
CacheNeverAhead ==
  \A e \in redis :
     e.body # None /\ Safe(e.key) /\ e.body \notin expired => Stored(e.body)

\* Once stored, a response is not changed and not removed before it expires:
\* every later request with the key finds it, or gets no answer.
ResponseStays ==
  [][\A b \in Requests :
        Stored(b) /\ b \notin expired /\ Key(b) \notin stolen' => Stored(b)']_vars

\* A key is never lost for good: an abandoned placeholder, which the code
\* keeps for fear of a double creation, goes with its TTL and the cron, and
\* with the Redis lock gone as well the key can be claimed again.
KeyRecovers ==
  \A k \in Keys :
     Rows(k) # {} \/ Entries(k) # {} ~> Rows(k) = {} /\ Entries(k) = {}

\* "Eliminates TOCTOU race": never two handlers for one key, with no
\* exception.  The cleanup in inspectFromDb breaks it.
NeverTwoHandlers ==
  \A r, s \in Requests :
     Key(r) = Key(s) /\ pc[r] = "handle" /\ pc[s] = "handle" => r = s

-----------------------------------------------------------------------------
(***************************************************************************)
(* The contract of a key: its row says who holds it and what was answered, *)
(* an answered request what was served.                                    *)
(***************************************************************************)
RowOf(k) == CHOOSE x \in Rows(k) : TRUE
Kept(k) == Safe(k) /\ Rows(k) # {}

Holder == [k \in Keys |-> IF Kept(k) THEN RowOf(k).owner ELSE None]
Answer == [k \in Keys |-> IF Kept(k) THEN RowOf(k).body ELSE None]
Served == [r \in Requests |-> IF pc[r] = "created" THEN r
                              ELSE IF pc[r] = "cached" THEN got[r] ELSE None]

Contract == INSTANCE KeyContract
  WITH holder <- Holder, answer <- Answer, served <- Served, breached <- stolen

\* Every step of the interceptor, the service, the cron and the environment
\* is a step of the contract: a key changes hands only when its holder
\* created nothing or has expired, and what was created is answered once.
KeepsContract == Contract!Spec

-----------------------------------------------------------------------------
(***************************************************************************)
(* The inductive invariant behind the four safety properties.              *)
(***************************************************************************)
KeysUnique ==
  /\ \A x, y \in db : x.key = y.key => x = y
  /\ \A d, e \in redis : d.key = e.key => d = e

\* What the program counter says of a request's past
History ==
  \A r \in Requests :
     /\ InFlight(r) \/ pc[r] = "idle" => r \notin expired
     /\ pc[r] \in {"storeRow", "storeKey"} => r \in created
     /\ r \in created => pc[r] \in {"storeRow", "storeKey", "created", "crashed"}
     /\ pc[r] \in {"idle", "setNX", "createRow"} => \A x \in db : x.owner # r

\* A row is its owner's, and so is its response
RowsFaithful ==
  \A x \in db :
     /\ x.key = Key(x.owner) /\ x.hash = Hash(x.owner)
     /\ x.body # None /\ Safe(x.key) => x.body = x.owner /\ x.owner \in created

\* A claim, and a creation until it expires, has its row
ClaimsKept ==
  \A r \in Requests :
     Safe(Key(r)) =>
        /\ pc[r] \in Holding => \E x \in db : x.owner = r
        /\ r \in created \ expired => \E x \in db : x.owner = r
        /\ pc[r] = "storeKey" => Stored(r)

\* What Redis and the requests carry is recorded, or was until it expired
CopiesFaithful ==
  /\ \A e \in redis :
        e.body # None /\ Safe(e.key) =>
           /\ AnswerTo(e.body, e.key, e.hash)
           /\ e.body \in expired \/ Stored(e.body)
  /\ \A r \in Requests :
        pc[r] \in {"recache", "cached"} /\ Safe(Key(r)) =>
           AnswerTo(got[r], Key(r), Hash(r))
  /\ \A r \in Requests :
        pc[r] = "recache" /\ Safe(Key(r)) => got[r] \in expired \/ Stored(got[r])

IInv ==
  /\ TypeOK /\ KeysUnique /\ History
  /\ RowsFaithful /\ ClaimsKept /\ CopiesFaithful

=============================================================================
