------------------------------- MODULE Listing -------------------------------
(***************************************************************************)
(* GET /transactions and GET /notifications, read page by page while rows  *)
(* are inserted and their statuses change.                                 *)
(*                                                                         *)
(* A request runs two queries, the page and the count, which see the table *)
(* at different moments.  Pages are ordered by createdAt alone, in         *)
(* milliseconds: rows of one millisecond come in any order, another one in *)
(* every query.  A row shows up when its insert commits, with a createdAt  *)
(* taken before: not only in front of the newest one.                      *)
(*                                                                         *)
(* The client asks for page 1, 2, ... until a page is not full.            *)
(***************************************************************************)
EXTENDS Integers, SequencesExt

CONSTANTS
  Rows,         \* ids of the rows, of the table the client lists
  Data,         \* of each row: what never changes, and the filters look at
  Statuses,     \* the status a row is inserted with, and may change to
  MaxTime,      \* bound: times are 0..MaxTime
  Queries,      \* the list asked for, and the filter parameters that are given
  Limits,       \* values of the parameter limit, Absent among them
  Absent,       \* no value: a parameter, a createdAt or an account left out
  DefaultLimit, \* 20 in the code
  MaxLimit      \* 100 in the code

ASSUME ListingAssumption ==
  /\ {MaxTime, MaxLimit} \subseteq Nat /\ DefaultLimit \in 1..MaxLimit
  /\ Absent \notin Statuses \cup Int

VARIABLES
  status,     \* of each row, or Absent
  createdAt,  \* of each row, or Absent
  phase,      \* the client's: before its first request, at one, or at its end
  query,      \* the filter of all its requests
  limit, page,
  data, total,     \* what the two queries of the request returned, or Absent
  stirred,    \* history: a row came or left since this request was sent
  seen,       \* history: rows on the pages so far
  repeated,   \* history: rows on two of them
  due,        \* history: rows that matched before the first request
  grew,       \* history: a row came into the filter since the first request
  shrank      \* history: a row left it

table   == <<status, createdAt>>
request == <<query, limit, page, data, total>>
walk    == <<seen, repeated, due>>
moves   == <<stirred, grew, shrank>>
vars    == <<table, phase, request, walk, moves>>

-----------------------------------------------------------------------------
(***************************************************************************)
(* PaginationQueryDto and the two where clauses                            *)
(***************************************************************************)
\* Seeded fault: no @Max
IsValidUnbounded(l) == l # Absent => l >= 1

IsValid(l) == l # Absent => l \in 1..MaxLimit
LimitOf(l) == IF l = Absent THEN DefaultLimit ELSE l

Given(q, p) == p \in DOMAIN q
Agrees(q, p, value) == Given(q, p) => q[p] = value

TransactionWhere(q, i) ==
  /\ Agrees(q, "status", status[i])
  /\ Agrees(q, "type", Data[i].type)
  /\ Given(q, "account") => q.account \in {Data[i].fromAccount, Data[i].toAccount}
  /\ Given(q, "startDate") => createdAt[i] >= q.startDate
  /\ Given(q, "endDate") => createdAt[i] <= q.endDate

NotificationWhere(q, i) ==
  /\ Agrees(q, "status", status[i])
  /\ Agrees(q, "channel", Data[i].channel)
  /\ Agrees(q, "transactionId", Data[i].transactionId)

Where(q, i) ==
  IF q.list = "transactions" THEN TransactionWhere(q, i) ELSE NotificationWhere(q, i)

Exists(i) == status[i] # Absent
Matches == {i \in Rows : Exists(i) /\ Where(query, i)}

\* Seeded fault: no orderBy
Unordered(S) == SetToSeqs(S)

\* orderBy createdAt desc, and nothing to break a tie
Ordered(S) ==
  {s \in SetToSeqs(S) : \A j, k \in DOMAIN s : j < k => createdAt[s[j]] >= createdAt[s[k]]}

\* Seeded fault: pages count from 0
SkipFromZero(p, l) == p * l

Skip(p, l) == (p - 1) * l

PageOf(s) ==
  LET from == Skip(page, limit)
  IN  SubSeq(s, from + 1, Min({from + limit, Len(s)}))

-----------------------------------------------------------------------------
Init ==
  /\ status = [i \in Rows |-> Absent]
  /\ createdAt = [i \in Rows |-> Absent]
  /\ phase = "idle"
  /\ query \in Queries /\ limit = Absent /\ page = 1
  /\ data = Absent /\ total = Absent
  /\ seen = {} /\ repeated = {} /\ due = {}
  /\ stirred = FALSE /\ grew = FALSE /\ shrank = FALSE

(***************************************************************************)
(* The writers: inserts, and the processors' changes of status             *)
(***************************************************************************)
\* bound: what happens after the client's last request is left out
Watched == phase \in {"idle", "asked"}

Track ==
  IF phase = "asked"
  THEN /\ grew' = (grew \/ Matches' \ Matches # {})
       /\ shrank' = (shrank \/ Matches \ Matches' # {})
       /\ stirred' = (stirred \/ Matches' # Matches)
  ELSE UNCHANGED moves

Insert(i, s, t) ==
  /\ Watched /\ ~Exists(i)
  /\ status' = [status EXCEPT ![i] = s]
  /\ createdAt' = [createdAt EXCEPT ![i] = t]
  /\ UNCHANGED <<phase, request, walk>>
  /\ Track

Change(i, s) ==
  /\ Watched /\ Exists(i) /\ status[i] # s
  /\ status' = [status EXCEPT ![i] = s]
  /\ UNCHANGED <<createdAt, phase, request, walk>>
  /\ Track

-----------------------------------------------------------------------------
(***************************************************************************)
(* findAll, and the client's requests                                      *)
(***************************************************************************)
\* The ValidationPipe refuses a limit out of bounds
Refuse(l) ==
  /\ phase = "idle" /\ ~IsValid(l)
  /\ phase' = "refused"
  /\ UNCHANGED <<table, request, walk, moves>>

Ask(l) ==
  /\ phase = "idle" /\ IsValid(l)
  /\ phase' = "asked"
  /\ limit' = LimitOf(l)
  /\ due' = Matches
  /\ UNCHANGED <<table, query, page, data, total, seen, repeated, moves>>

FindMany ==
  /\ phase = "asked" /\ data = Absent
  /\ \E s \in Ordered(Matches) : data' = PageOf(s)
  /\ UNCHANGED <<table, phase, query, limit, page, total, walk, moves>>

\* Seeded fault: the where clause is forgotten
CountAll ==
  /\ phase = "asked" /\ total = Absent
  /\ total' = Cardinality({i \in Rows : Exists(i)})
  /\ UNCHANGED <<table, phase, query, limit, page, data, walk, moves>>

Count ==
  /\ phase = "asked" /\ total = Absent
  /\ total' = Cardinality(Matches)
  /\ UNCHANGED <<table, phase, query, limit, page, data, walk, moves>>

Answered == phase = "asked" /\ data # Absent /\ total # Absent

\* Promise.all is through: the client notes the page, and goes on or stops
Respond ==
  /\ Answered
  /\ seen' = seen \cup ToSet(data)
  /\ repeated' = repeated \cup (seen \cap ToSet(data))
  /\ data' = Absent /\ total' = Absent
  /\ \/ /\ Len(data) >= limit
        /\ page' = page + 1
        /\ UNCHANGED phase
     \/ /\ Len(data) < limit
        /\ phase' = "done"
        /\ UNCHANGED page
  /\ stirred' = FALSE
  /\ UNCHANGED <<table, query, limit, due, grew, shrank>>

Next ==
  \/ \E i \in Rows, s \in Statuses :
        Change(i, s) \/ \E t \in 0..MaxTime : Insert(i, s, t)
  \/ \E l \in Limits : Refuse(l) \/ Ask(l)
  \/ FindMany \/ Count \/ Respond

Spec == Init /\ [][Next]_vars

-----------------------------------------------------------------------------
TypeOK ==
  /\ status \in [Rows -> Statuses \cup {Absent}]
  /\ createdAt \in [Rows -> (0..MaxTime) \cup {Absent}]
  /\ phase \in {"idle", "refused", "asked", "done"}
  /\ query \in Queries /\ limit \in (1..MaxLimit) \cup {Absent} /\ page \in Nat \ {0}
  /\ data = Absent \/ (data \in Seq(Rows) /\ Len(data) <= MaxLimit)
  /\ total \in Nat \cup {Absent}
  /\ \A S \in {seen, repeated, due} : S \subseteq Rows
  /\ {stirred, grew, shrank} \subseteq BOOLEAN

\* Another row has the same createdAt
Tied(i) == \E j \in Rows \ {i} : createdAt[j] = createdAt[i] /\ Exists(j)

\* A client that reads until a page is not full misses no row that matched
\* when it began, however many are inserted meanwhile, unless some row left
\* the filter or the row shares its millisecond with another.
NothingMissed ==
  phase = "done" /\ ~shrank => \A i \in due \ seen : Tied(i)

\* No page repeats a row, unless one came into the filter or left it since
\* the first request, or the row shares its millisecond with another.
NothingRepeated ==
  ~grew /\ ~shrank => \A i \in repeated : Tied(i)

\* The total says how many rows there are, and a page is as full as the total
\* says, if nothing came or went while the two queries ran.
PageAgreesWithTotal ==
  Answered /\ ~stirred =>
    Len(data) = LET rest == total - Skip(page, limit)
                IN  IF rest < 0 THEN 0 ELSE IF rest > limit THEN limit ELSE rest

=============================================================================
