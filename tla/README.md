# Transaction Ledger System: verification project

TLA+ modules, model-checking configurations and machine-checked proofs for the
NestJS service in this repository: `POST /transactions` with an idempotency key,
background processing over BullMQ, e-mail notifications, and the lists a client reads.
Paths below are relative to the repository's own `src/` directory unless they start
with `docs/`, `prisma/` or `stress-tests/`.

## 1. The system

The API runs as N identical processes (`cluster.ts`), each serving HTTP requests,
running five slots of each queue worker and an hourly cron. They share PostgreSQL
(the durable store) and Redis (idempotency cache and queues). Every `await` on one of
the two is a point where the other requests, workers, TTLs and crashes interleave.

| Component | State | Operations | Interacts with |
|---|---|---|---|
| Idempotency (`idempotency/`, `common/interceptors/`) | Redis entry `idempotency:<key>` (placeholder or response), row in `idempotency_records` | `checkAndAcquire`, `store`, `release`, `cleanupExpiredRecords` | wraps the transaction handler |
| Transaction creation (`transaction.service.ts`) | row in `transactions`: `QUEUED`, `PROCESSING`, `COMPLETED`, `FAILED` | `createTransaction`, `findById`, `findAll` | adds a job to `transaction-queue` |
| Transaction processing (`transaction.processor.ts`) | the same row | `process`, `onFailed` | takes jobs, adds a job to `notification-queue` |
| Notification (`notification.processor.ts`) | row in `notifications` per (transaction, channel): `DELIVERED` or `DEAD_LETTER` | `process`, `onFailed`, `findById`, `findAll` | takes jobs |
| BullMQ queues (library) | jobs: waiting, active under a lock, delayed, failed, removed | `add`, attempts with backoff, stalled-job check | both processors |
| Validation (`common/validators/`, `transaction/dto/`) | none | amount syntax, required accounts | runs before the handler, inside the interceptor |
| Request hash (`idempotency.interceptor.ts`) | none | `stableStringify`, SHA-256 | what `checkAndAcquire` compares |
| Listing (`findAll`, `common/dto/`) | none | filters, page and total by two queries | reads what the others write |
| Cluster supervisor (`cluster.ts`) | the set of worker processes | fork, re-fork on exit | |
| Redis/Prisma clients, bootstrap, throttler, health | connections | | |

What is hard, and what makes each part correct:

* **Idempotency.** Two stores without a common transaction; calls that fail after
  their effect; TTLs and the cron firing between a read and the action on it.
  Right when at most one request per key is in the handler, at most one transaction
  is created per key while its record lives, a replay is the response of the same
  key and body, a stored response stays, and no key is lost for good.
* **Transaction processing.** `add` may throw after its effect; attempts fail in any
  place and are repeated; a worker whose lock lapses runs beside its successor;
  `onFailed` runs at some later time or not at all. Right when COMPLETED is final,
  one run at a time gets through, no accepted transaction is dropped, and a
  completed one gets its notification.
* **Both together.** The handler is inside the interceptor: whether it returned, threw
  or died decides about the key, while its job may already run. Right when whoever is
  told of a transaction can fetch it and a key pays once.
* **Notification.** The same as processing, with the unique index as only arbiter
  between an attempt and `onFailed`. Right when a done job has delivered, DELIVERED is
  never overwritten, and a dead letter means that the attempts are used up.
* **Validation, request hash.** Regular expressions against a `Decimal(20,8)`,
  conditional checks, text against meaning. Right when what is accepted can be stored
  as it was written, the right party is notified, and bodies have one hash exactly when
  they mean the same.
* **Listing.** Pages by offset over a table that changes, ordered by a time that is not
  unique. Right when nothing is missed or repeated, and page and total agree.

`PROJECT.json` lists the hazards with their lines.

## 2. Modules

| Module | Models |
|---|---|
| `Idempotency` | interceptor and service, one action per call to Redis or PostgreSQL |
| `KeyContract` | what an idempotency key promises: one holder, one answer |
| `JobQueue` | a BullMQ queue as the code relies on it (external) |
| `TransactionProcessing` | `createTransaction`, `TransactionProcessor.process` and `onFailed`, with an instance of `JobQueue` |
| `TransactionContract` | the life of a transaction without queue, locks and attempts |
| `NotificationDelivery` | `NotificationProcessor.process` and `onFailed`, with an instance of `JobQueue` |
| `Ledger` | `Idempotency` and `TransactionContract` composed: the handler inside the interceptor, the workers behind it |
| `Listing` | both `findAll`, and a client that reads page after page |
| `Amount` | the amount validator, the column, the notation of `decimal.js` |
| `JsonValue` | JSON values as `JSON.parse` returns them |
| `TransactionRequest` | a body on its way through validation, insert and notification |
| `RequestHash` | `stableStringify` |
| `RetriedRequest` | `TransactionRequest` with a second request of the same key, compared by hash |
| `MC_Idempotency`, `MC_Ledger`, `MC_Listing`, `MC_TransactionRequest` | instances for TLC |
| `IdempotencyProofs`, `TransactionProcessingProofs`, `NotificationDeliveryProofs`, `LedgerProofs`, `ListingProofs`, `AmountProofs`, `TransactionRequestProofs`, `RetriedRequestProofs` | theorems |

`Idempotency` implements `KeyContract` and `TransactionProcessing` implements
`TransactionContract`; `Ledger` uses the first in full and of the second the contract.
`TransactionRequest` extends `Amount` and `JsonValue`; `RetriedRequest` extends it and
`RequestHash`, whose recursive definitions are functions on JSON values, so that theorems
can be stated of them.

Each `.cfg` belongs to one run. Definitions introduced as "Seeded fault" are
deliberately wrong variants of the definition that follows them; they occur in no
specification and serve to confirm that each property notices a plausible bug.

### Idempotency

`pc[r]` names the call request `r` is about to make, or its answer. The labels follow
the code: `setNX` and `createRow` are the two calls of `checkAndAcquire`,
`undoDuplicate`/`undoError` the `del` in its two catch branches, `readKey` is
`inspectExisting`, `readRow`, `dropRow`, `dropKey` and `recache` are
`inspectFromDb`; `handle` is the handler, `storeRow`/`storeKey` are `store()`,
`releaseRow`/`releaseKey` are `release()`. A call that throws may or may not have had
its effect, so most actions have a branch with and one without it.

Abstractions: a response carries a fresh random transaction id, hence is identified
with the request that produced it; a hash is a value; a placeholder is an entry
without a body (the code tests for a missing `statusCode`). The handler is one step
that returns or throws (`Ledger` opens it up). The catch around `JSON.parse` is left
out, since all writers write JSON; so is the warning about stale placeholders, which
changes nothing but the log. A row expires when its creator is no longer being served:
the TTL is at least one hour (`app.module.ts`), a request takes seconds. Other requests
may be anywhere when it does. `RedisForgets` is both an entry's TTL and the loss of
writes when Redis fails over.

`expired`, `created` and `stolen` are not fields of the program: `expired` names the
rows past `expiresAt`, `created` the requests whose handler returned, and `stolen` is
a history variable: the keys of which `inspectFromDb` deleted a row that was not
expired (section 4).

The refinement mapping to `KeyContract`: the holder and the answer of a key are the
owner and the body of its row, as long as the key is safe (not in `stolen`); what a
request was served is its own creation or the response it read. The insert that gets the unique
index is `Claim`, `update` is `Record` (or part of `Serve`, when its reply is lost and
the answer goes out at once), `release()` is `Abandon`, the cron is `Lapse` for a set of
keys, and the delete in `inspectFromDb` is `Lapse` or, when it hits a live row,
`Breach`. Everything about Redis is a stuttering step.

### JobQueue, TransactionProcessing, NotificationDelivery

A job is taken under a lock, completed (and removed, `removeOnComplete`) or failed
(delayed while attempts are left, then kept as failed, `removeOnFail: false`). A lock
can lapse: because its worker died, or because it hung; the job is then handed
out again, and the old run can no longer end it. After more than `MaxStalls` lapses
the job is discarded as failed by the next worker, without a run. `add` of an id
the queue still has is a no-op. These are BullMQ 5 semantics; the module states them,
it does not verify them.

`svc[t]` is the position of the `createTransaction` call that made `t`; `at[w]` and
`on[w]` are the position and the transaction of worker slot `w`; `failing` holds
the `failed` events whose handler has not run. In `NotificationDelivery` `onFailed`
makes two calls, so `handlers` also says which is next. `reopened` and `lapsed` are
history variables: FAILED was written over PROCESSING; a run lost its lock and went
on. `unaddressed` are the transactions without a recipient: `fromAccount` of a DEPOSIT is
not validated, so `fromAccount ?? toAccount` may be the empty string, and then no
notification is enqueued.

`TransactionProcessor` may enqueue a notification once per attempt that gets there;
`NotificationDelivery` replaces it by `Enqueue`, any time, at most `MaxAdds` times.

The refinement mapping to `TransactionContract`: the status is the status, a call is
running, returned or threw (a dead one counts as threw), and a transaction is enqueued
when the queue has, or had, its job.

### Ledger

A transaction is identified with the request whose handler creates it. `Create(r)` is a
step of the contract while `pc[r] = "handle"`; the handler returns when the call has
returned and throws when it threw, or before the call when the `ValidationPipe`, which
runs behind the interceptor, refuses the body. Workers process what is enqueued
at any time, before or after the client has its answer. `faults` counts what failed,
died or ran out (bound `MaxFaults`); a day with none is `Calm`, and `late` names the
requests sent on such a day to a key that had been answered. The stress scenario
`stress-tests/scenarios/idempotency.js` runs on calm days.

### Listing

A request of a client is two queries, `FindMany` and `Count`, at different moments.
`createdAt` is in milliseconds and taken before the insert commits, so a new row may
sort anywhere, and rows of one millisecond come in any order, another one in each query
(`Ordered`). The filters are both `where` clauses; a query gives any of their parameters.
The client reads pages until one is not full. The histories say what moved: rows that
entered (`grew`) or left (`shrank`) the filter since the first request, or since the
current one (`stirred`).

### Amount, JsonValue, TransactionRequest, RequestHash, RetriedRequest

These translate pure code. An amount is a sequence of characters; `IsDecimal`,
`HasLeadingZero`, `IsZero` and `FitsColumn` are the four tests of the validator. A
JSON object is the sequence of its members in the order sent, since `stableStringify`
has to make up for that order. A number is the digits `JSON.stringify` writes for it, or
infinite: `JSON.parse` makes `Infinity` of 1e400. `TransactionRequest`
takes a body through the pipe (`whitelist`, `forbidNonWhitelisted`, the decorators of
`CreateTransactionDto` with `@ValidateIf`), the insert, and
`enqueueNotification` with `fromAccount ?? toAccount` and `amount.toString()`.

The insert takes less than the decorators let through. The columns for texts have a width
(`LongName`), and count variation selectors, which `@MaxLength` leaves out of its count
(`UncountedName`: VARCHAR counts code points, `isLength` of validator.js drops U+FE0E and
U+FE0F first). Text and jsonb hold neither NUL nor half a surrogate pair (`Unstorable`,
`Clean`), in a currency, an account, and anywhere in metadata, names of members included.
An infinite number as an account the type does not use may be inserted as null or be
refused by Prisma: `MayInsert` and `MayThrow` both hold then; the job says null (`Column`).

`RequestHash` says of `stableStringify` which text it gives a value, and `Meaning` what a
value means: an object is a function of its names. A text is a sequence of tokens, which
are marks (`Literals`, quote, comma, colon, brackets, braces), names of members, and
characters. JSON.stringify escapes what it finds inside a text, so no character is a mark;
digits are as it writes them, so equal numbers have equal digits. No object has two members
of one name, since JSON.parse keeps one. An infinite number has the text of null, as
`JSON.stringify` gives it, and therefore means null (`ScalarMeaning`): the one place where
`Meaning` gives way to what the code does. Members whose value is `undefined`, which the code
filters out, do not occur in what JSON.parse returns. The code sorts names by UTF-16 units;
here any order will do (`KeyOrder`). Both definitions descend into a value, so they are
functions on the values of a bounded depth (`JsonOfDepth`, `MaxDepth`). SHA-256 is taken for
injective.

`RetriedRequest` adds one step, at any time: a second body with the same key is compared
with the first by hash.

## 3. Runs

| Run | Checks | Instance |
|---|---|---|
| `idempotency_safety` | `IInv`, `ExclusiveExecution`, `AtMostOneCreation`, `CachedFaithful`, `CacheNeverAhead`, `ResponseStays` | 4 requests, 1 key, 2 bodies |
| `idempotency_recovery` | `KeyRecovers`, `KeepsContract` | 3 requests, 1 key, 1 body, fairness |
| `idempotency_cleanup_race` | `NeverTwoHandlers` fails | 4 requests, 1 key, 1 body |
| `transaction_processing` | `TypeOK`, `AcknowledgedWasStarted`, `OneRunUnlessReopened`, `NotifiedWasCompleted`, `CompletedIsNotified`, `WorkersKeepCompleted`, `KeepsContract`, `AcceptedJobsEnd` | 1 transaction, 3 worker slots, 3 attempts, 1 tolerated stall, fairness |
| `transaction_rollback` | `CompletedIsFinal` fails | 1 transaction, 1 slot |
| `transaction_overlap` | `OneRun` fails | 1 transaction, 2 slots |
| `transaction_dropped` | `AcknowledgedIsDecided` fails | 1 transaction, 2 slots |
| `notification_delivery` | `TypeOK`, `AcknowledgedIsDelivered`, `DeadLetterIsFinalFailure`, `DeliveredIsKept`, `EnqueuedIsHandled` | 1 notification, 3 slots, 3 attempts, 1 tolerated stall, 2 adds, fairness |
| `notification_overwrite` | `DeliveredIsFinal` fails | 1 notification, 2 slots |
| `ledger` | `LInv`, `AnsweredIsStored`, `PaidOnce`, `AnswersAsDocumented` | 3 requests, 1 key, 2 bodies, 4 faults |
| `listing` | `TypeOK`, `NothingMissed`, `NothingRepeated`, `PageAgreesWithTotal` | 3 rows, 2 statuses, 3 times, 5 queries, limits 0 to 3 of which 2 is the default and the greatest |
| `transaction_request` | `TypeOK`, `AmountExact`, `FailsOnlyByUnchecked`, `RecipientIsParty`, `PayloadAmount`, `SameHashSameBody`, `GeneratedIsAccepted` | base 2, 2 digits before and 2 after the point, texts up to 6 characters, bodies nested 3 deep |

Why the bounds are enough. No action of `Idempotency` reads or writes more than
one key, except the cron, which looks at each row by itself: one key suffices for
safety. Four requests are one that leaves a row to expire, one that cleans it up
late, one that claims the key meanwhile and one that comes after; three are enough to
reach every action of the contract, the breach included. Transactions meet
only in worker slots, which they occupy one at a time, so one is enough; three
slots hold a current run and two earlier ones that lost their locks, which is as many
as one tolerated stall admits. Attempts are the code's 3; BullMQ's default is one
tolerated stall. `MaxAdds` = 2 covers a repeated add before and after the first job
has gone. In `Ledger` four faults are, say, an `add` that throws after its effect, the
expiry of a row, a request that dies and a lost Redis entry. Three rows fill a page of
two and begin the next, or fill three of one; three times admit ties and every order of
arrival. Amounts in base 2 with two and two digits have the same boundaries as
base 10 with twelve and eight: an integer part one digit too long (also when the
decimals leave room for it), a decimal too many, leading zeros, zero, a lone point,
a sign; six characters reach beyond all of them. Bodies nested three deep are an object
with a member that is an object with a member that is an array: members are turned round at
both levels, left out, added and given other values, which differ down to the items (the
5461 bodies that vary the amount are only turned round). Infinite numbers and texts with
NUL occur as accounts, as currency and inside metadata, where a name with NUL does too.

Deadlock is not checked where the system stops when all calls, jobs or requests have
ended. In `Idempotency` Redis may always lose an entry, so the check could not fail there.

### Fairness

`Idempotency!FairSpec`: Node serves a request to its end (`Serve`), time passes
(`ExpireRow`, `RedisForgets`) and the cron runs every hour
(`CleanupExpiredRecords`). Nothing is assumed of arrivals, crashes or calls succeeding.
`TransactionProcessing!FairSpec` and `NotificationDelivery!FairSpec`: a worker slot
takes work and carries on with it, BullMQ ends delays, hands out the jobs of dead
workers and discards those that stalled too often. `createTransaction` and `onFailed`
are not fair, nor is the lapse of a live worker's lock. The other modules have
no liveness properties and no fairness.

That jobs end (`AcceptedJobsEnd`, `EnqueuedIsHandled`) assumes besides that Redis loses no
write to a queue: a job leaves `JobQueue` only by BullMQ's own steps. The configuration of
the repository does not promise this of a Redis that is restarted or evicts. Of the
idempotency entries, which it may lose at any moment, nothing of the kind is assumed.

## 4. What the checks show

The following hold for every interleaving, failing call, crash and lapse in the model:

* At most one request per key is between claim and `store()`/`release()`, whatever
  Redis forgets: the unique index decides, not the lock (`ExclusiveExecution`). While
  its row lives a key has created at most one transaction (`AtMostOneCreation`).
  Both, and the next three, except for a key whose live row was cleaned up as expired.
* Replays are of the same key and body (`CachedFaithful`), Redis never has an
  unexpired response the table lacks (`CacheNeverAhead`), and a stored response stays
  (`ResponseStays`).
* Abandoned placeholders and locks are cleared eventually (`KeyRecovers`); "Manual
  intervention is required" (`idempotency.service.ts:116`) is true only until the TTL has
  passed and the cron, or the next request, has cleaned up. All of it implements `KeyContract` (`KeepsContract`).
* A transaction's job does not go as done while the transaction is still QUEUED
  (`AcknowledgedWasStarted`); the status filter admits one run unless FAILED was written
  over PROCESSING (`OneRunUnlessReopened`); workers never undo COMPLETED
  (`WorkersKeepCompleted`); nobody is notified of a transaction that is not
  completed, except after a failed rollback (`NotifiedWasCompleted`); a completed
  transaction has its notification job, unless a live run lost its lock
  (`CompletedIsNotified`); jobs end (`AcceptedJobsEnd`).
* A notification job that is done has delivered; a dead letter is written after the
  last attempt only; DELIVERED stays unless a live run lost its lock; an enqueued
  notification is delivered or its job is kept as failed.
* Whoever is told of a transaction, also by a cached answer long after, can fetch it and
  has its job added (`AnsweredIsStored`). A key does not have two transactions enqueued
  within its lifetime, with one exception: `createTransaction` threw although `add`
  had its effect, the interceptor released the key, and a retry paid again
  (`PaidOnce`). Without failures the answers are those of the documentation's table
  (`AnswersAsDocumented`).
* A client that walks the pages misses no row that was there, unless a row left the
  filter meanwhile, and sees none twice, unless a row entered or left; rows that share
  their `createdAt` with another are excepted from both, since nothing breaks the tie
  (`NothingMissed`, `NothingRepeated`). Page and total agree unless something changed
  between the two queries (`PageAgreesWithTotal`).
* The validator accepts exactly the notations of the positive numbers the column holds,
  and they are stored as written (`AmountExact`). Two bodies have one hash exactly when
  they mean the same, where a number too great for a double means null: with
  `{"x": 1e400}` in metadata a retry with `{"x": null}` is taken for the same request
  (`SameHashSameBody`). A validated body fails at the insert, a 500, only by what no
  decorator checks (`FailsOnlyByUnchecked`): an account its type does not use, which
  `@ValidateIf` exempts, say of a wrong type or overlong; a text with more variation selectors
  than its column has room for; or NUL or half a surrogate pair in a text or in metadata.
  The party is notified,
  except for a DEPOSIT that also gives a `fromAccount`: that account is told, or
  nobody if it is empty (`RecipientIsParty`). The amount in a notification is that of the row,
  with an exponent below 10^-6 (`PayloadAmount`). The load generator's
  bodies are valid but for amounts `toFixed` rounds to zero (`GeneratedIsAccepted`).

Five runs end in a violation; each quotes in `PROJECT.json` what the repository says:

1. `idempotency_cleanup_race`: `inspectFromDb` reads an expired record and deletes by
   key later. In between, the cron (or another such request) removes it and a new
   request claims the key; its placeholder is deleted, and a further request is let in
   beside it. `deleteMany` with a condition on `expiresAt` would close this.
2. `transaction_rollback`: `createTransaction` sets FAILED without a status filter when
   `add` throws, although the job may have been added and even completed.
3. `transaction_overlap`: FAILED over PROCESSING, by an `onFailed` that runs after the
   retry has started or by that same catch, reopens the filter for a second run
   while the first, whose lock lapsed, goes on.
4. `transaction_dropped`: a run dies in PROCESSING; the next attempt counts 0 updated
   rows and returns, the job is removed as completed, the transaction stays PROCESSING.
5. `notification_overwrite`: `onFailed` looks and then upserts, not in one statement; a
   run without its lock can deliver in between.

Also visible in the models, without a run of its own: a crash between the insert and
the add leaves a QUEUED transaction without a job; with `removeOnComplete` a completed
notification job's id no longer deduplicates, contrary to the comment in
`transaction.processor.ts:76` (the unique index keeps it to one row); a job discarded
for stalling has fewer than three attempts made, so `onFailed` writes no dead letter
for it.

## 5. What is proved

The theorems hold for every value of the constants that meets these assumptions:

* the absence of a body, worker, transaction or row is none of them (`NoneAssumption`,
  `LedgerAssumption`, parts of `TPAssumption`, `NDAssumption` and `ListingAssumption`);
* there is at least one attempt, and the numbers of tolerated stalls, adds, faults, times
  and the greatest limit are natural numbers; the default limit is a valid one;
* amounts have a base from 2 to 10, at least one digit before the point and one to nine
  after it, since an exponent is written with one digit; the exponent that decides about
  the notation lies within the decimals or just beyond them (`AmountAssumption`; the code
  has base 10, 12 and 8 digits, and 7);
* the names of members are in an order without repetition and the depth of nesting is a
  natural number (`JsonAssumption`); no character is a mark (`HashAssumption`);
* the bodies of both requests are JSON values of that depth, the first an object, and its
  texts sequences of characters; the text whose selectors are not counted is neither empty
  nor the overlong one (`BodiesAssumption`, `RetriedAssumption`).

TLC evaluates each of them on the instances of the runs.

| Module | Theorems |
|---|---|
| `IdempotencyProofs` | `Invariance` (`IInv`), `TypeCorrect`, `Exclusion`, `SingleCreation`, `FaithfulReplay`, `DatabaseFirst`, `AnswersStay`, and `Refinement`: `Spec => KeepsContract`, the step-by-step implementation of `KeyContract` |
| `TransactionProcessingProofs` | `TypeCorrect`, `NoneDropped`, `OneRunThrough`, `NotifiedTruly`, `NotifiedAlways`, `CompletedKept`, and `Refinement`: `TransactionContract` is implemented |
| `NotificationDeliveryProofs` | `TypeCorrect`, `DoneIsDelivered`, `DeadLettersFinal`, `DeliveredKept` |
| `LedgerProofs` | `InStepAlways` (`LInv`), `NoDanglingAnswer`, `NoDoublePayment`, `DocumentedAnswers`, `KeysKeepPromises` |
| `ListingProofs` | `TypeCorrect`, `ReadsAll`, `ReadsOnce`, `PagesFitTotals` |
| `AmountProofs` | `AcceptedAreNotations`, `DecimalStringReadsBack` |
| `TransactionRequestProofs` | `TypeCorrect`, `AmountsExact`, `FailsByUnchecked`, `PartyIsTold`, `PayloadReadsBack`, `GeneratedAccepted` |
| `RetriedRequestProofs` | `TextIsMeaning`, and from it `SameHash` (`SameHashSameBody`) |

**Idempotency.** The four safety properties are not inductive: `ExclusiveExecution`
relates two requests, and nothing in it says why the second cannot get in. `IInv` does:

* `KeysUnique`: one row and one entry per key;
* `History`: a request under way has not expired, one that has not inserted owns no
  row, and one that created has been through `store()`;
* `RowsFaithful`: a row carries its owner's key and hash, and its body is its owner's;
* `ClaimsKept`: a request between claim and release, and a creation until it expires,
  has its row;
* `CopiesFaithful`: what Redis and the requests carry of a response is recorded
  with that key and hash.

Two claims on one key would be two rows with one key, hence one row with one owner.
The last four parts are conditional on the key not being in `stolen`: the cleanup
of a live row is the one step that breaks them, as run `idempotency_cleanup_race` shows.
There is one lemma per part, with one step per action that can disturb it;
`StoredStays` is the lemma behind `AnswersStay` and `CopiesFaithful`.

**The key's contract.** Under `IInv` a row is what the contract sees of its key
(`View`). A step that leaves a key's row alone leaves its holder and answer alone
(`KeySame`), so each step is looked at for its own key: that the holder of `Create` is
the request in the handler, that `release()` finds a holder without creation or answer,
that the answer recorded is the holder's. Keys in `stolen` promise nothing.

**Processing and delivery.** `JobsBounded` (a job that will run has attempts left) makes
the types inductive, `StoredFirst` and `OnJobs` tie calls and slots to jobs. `Started`
says that a run past the filter has left QUEUED behind, `FilterHolds` that the
transaction of a run about to complete is PROCESSING unless reopened, `LocksHeld`
that a run that has not lost its lock holds it. In `NotificationDelivery` `Final` says
that `onFailed` works on jobs that are failed for good, so that only a run without its
lock can deliver beside it (`Guarded`).

**Ledger.** `LInv` keeps interceptor and call in step. `PaidOnce` is not inductive
either: `Kept` says that the row of whatever was enqueued is there until it expires,
unless the call threw; with one row per key (`OneOwner`), two payments have one owner.

`AnswersAsDocumented` needs to follow a key through a calm day (`CInv`): of the
requests of a key one leads (`OneLeader`), the row and the Redis entry are the leader's at
every stage of its way (`LeaderRecorded`), what the others have read is what the leader
had written by then (`FollowersAnswered`), and who came after the answer is on the way
to the leader's answer (`LatecomersFollow`). There are lemmas for arrivals, for the
leader's steps and for what a follower reads.

The composition implements `Idempotency` (`InterceptorImplemented`), so what is proved of
the interceptor by itself holds of the whole: `KeysKeepPromises` draws that conclusion
for four of its properties.

**Listing.** A row that shares its time with no other stands, in every order a query may
return, behind exactly the rows that are newer (`PositionByRank`): its rank decides on which
page it is, and the rank is the cardinality of a set. `PInv` says of a row that was there
at the first request and ties with none that it has been seen or its rank is at least the
rows read so far, unless a row left the filter (`StillToCome`); while nothing entered or left,
what has been seen has a smaller rank (`AlreadySeen`). Inserts can only raise a rank,
which is why they repeat rows and hide none.

**Amounts.** Numbers are compared with their notations for every base and every number of
digits. Powers, and the value of a sequence of digits, are recursive functions; that they
satisfy their equations (`Recursion`), and what follows by induction on the length
(`SetInduction`), is derived from the least element of a set of natural numbers, because
the induction theorems of the library cannot be applied here. `ValueOfNumeral` and
`NumeralOfValue` make the two conversions inverse to each other; `SplitAtPoint` recovers the
parts of a text around its first point. `FixedIsDecimal` is one half of
`AcceptedAreNotations`, `AcceptedIsFixed` the other. `PlainReadsBack` and `SmallReadsBack` are the
notations without and with an exponent; in the latter the decimals that are
left out are zeros of the numeral (`MantissaParts`).

**Requests.** `Progress` ties verdict, row and notification to the body. The properties
are then facts about one body: that the decorators cover what the insert relies on but for
`GivesUnused` and `GivesUnstorable` (`ValidIsStorable`), that those of `@ValidateIf` cover
what `fromAccount ?? toAccount` does, and the two theorems on amounts. They are theorems of
`TransactionRequest`; every behaviour of `RetriedRequest`, which the run explores, is one
of it as far as the first request goes, since `Compare` leaves its state alone.

**Request hash.** `TextIsMeaning` says that two JSON values have one text if and only if
they mean the same, an infinite number meaning null: the proof sorts values by what they are
written as (`Kind`), which puts it among the literals. `StableStringify` and `Meaning` are recursive on values, and that a
function satisfies such an equation has to be shown first: `Solution` builds one depth by
depth, since a value of one depth has parts of the depth before (`Agreement`).
`JsonInduction` is induction over values by their depth.

That equal meanings have equal texts is an induction over values: equal meanings have the
same names, so `Sorted` lists them alike (`AllDetermined`). The converse is that a text can
be read back, which is done from its end, since every text ends in a token that tells the
kind of the value (`LastTokenOfText`), while the beginning of a number says nothing of where
it ends. The statement that is inductive, `Readable`, is about a text behind others: if
behind `h` and behind `g`, which do not end in a character, the texts of `j` and `k` make
one sequence of tokens, then `h` and `g` are the same, the two texts are, and so are the
meanings. For numbers and texts this holds because a run of characters is as long as
possible (`Span`, `Spans`); for an array or an object the joined texts are read one after
the other from the last, each behind what is left (`JoinedRead`), until the mark that began
them is met. `NameRead` does the same for a name and its colon.

The invariant behind `SameHash` is `Judged`: what was decided about the second request is
whether the texts of the two bodies are equal, and the first body has not changed since.

**Only model-checked.** Liveness under fairness (`KeyRecovers`, `AcceptedJobsEnd`,
`EnqueuedIsHandled`), which is beyond the prover. Every invariant and every action property
of a passing run is a theorem.

## 6. What is left

* A composition of `TransactionProcessing` with `NotificationDelivery` in place of
  `Enqueue`; each is checked against everything the other may do.

## 7. Not modelled

* The cluster supervisor keeps nothing: that a process dies with all it was doing
  and another goes on is `Crash`, `CallDies` and `WorkerDies`.
* Bootstrap, configuration, throttler, health endpoint and API documentation are
  framework wiring; the options of the `ValidationPipe` are in `TransactionRequest`.
* Of class-transformer: what it makes of metadata with a member named `constructor` or
  `__proto__`. Of Prisma: that it refuses metadata nested deeper than it can encode; `Bodies`
  are no deeper.
* That `onFailed` of notifications rejects when its upsert fails: the model lets the upsert
  fail, but `EnqueuedIsHandled` takes a failed job for handled, with or without a dead letter.
* The clients' connection handling: their calls succeed, or throw with or without effect.
* Of BullMQ: the order of jobs, the concurrency limit per process and the backoff
  times. No property depends on them.
* Schema and migrations are declarations; their unique indexes are `IsDuplicate` and
  `Deliver`, their column types `Fits`, `Storable`, `Clean` and `Notations`.
* Of the stress tests: rates, thresholds, ramps and reports. What the idempotency
  scenario asserts is `AnswersAsDocumented`, the generated bodies are `IsGenerated`.
* `findById` of notifications is a single read.
