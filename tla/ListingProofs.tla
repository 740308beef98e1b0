---------------------------- MODULE ListingProofs ----------------------------
(***************************************************************************)
(* What a client that reads a list page by page may rely on, for tables,   *)
(* filters and page sizes of any size.                                     *)
(*                                                                         *)
(* The argument is about ranks: how many rows of the filter are newer than *)
(* a given one.  A row that shares its createdAt with no other is on the   *)
(* page its rank says, in whichever order the query returns the others.    *)
(***************************************************************************)
EXTENDS Listing, FiniteSetTheorems, SequenceTheorems, TLAPS

-----------------------------------------------------------------------------
(***************************************************************************)
(* Ordered sequences and their pages                                       *)
(***************************************************************************)
\* The smaller of two numbers is the minimum of their set.
LEMMA MinOfTwo ==
  ASSUME NEW a \in Int, NEW b \in Int
  PROVE  Min({a, b}) = IF a <= b THEN a ELSE b
<1>1. \E x \in {a, b} : \A y \in {a, b} : x =< y
  OBVIOUS
<1>2. Min({a, b}) \in {a, b} /\ \A y \in {a, b} : Min({a, b}) =< y
  BY <1>1 DEF Min
<1>3. QED BY <1>2

\* A set in some order: every element has one position.
LEMMA SeqsOfASet ==
  ASSUME NEW S, IsFiniteSet(S), NEW s \in SetToSeqs(S)
  PROVE  /\ Cardinality(S) \in Nat
         /\ s \in [1..Cardinality(S) -> S] /\ Len(s) = Cardinality(S)
         /\ \A j, k \in 1..Cardinality(S) : s[j] = s[k] => j = k
         /\ \A i \in S : \E k \in 1..Cardinality(S) : s[k] = i
<1> DEFINE D == 1..Cardinality(S)
<1>1. Cardinality(S) \in Nat
  BY FS_CardinalityType
<1>2. s \in [D -> S] /\ \A j, k \in D : j # k => s[j] # s[k]
  BY DEF SetToSeqs
<1>3. s \in Injection(D, S)
  BY <1>2 DEF Injection, IsInjective
<1>4. Cardinality(D) = Cardinality(S)
  BY <1>1, FS_Interval
<1>5. s \in Surjection(D, S)
  BY <1>3, <1>4, FS_Injection
<1>6. s \in Seq(S) /\ Len(s) = Cardinality(S)
  BY <1>1, <1>2
<1>7. QED BY <1>1, <1>2, <1>5, <1>6 DEF Surjection

\* The position of a row that ties with no other is fixed by the rows ahead.
LEMMA PositionByRank ==
  ASSUME NEW S, IsFiniteSet(S), \A j \in S : createdAt[j] \in Int,
         NEW s \in Ordered(S),
         NEW i \in S, \A j \in S \ {i} : createdAt[j] # createdAt[i],
         NEW k \in 1..Cardinality(S), s[k] = i
  PROVE  Cardinality({j \in S : createdAt[j] > createdAt[i]}) = k - 1
<1> DEFINE Ahead == {j \in S : createdAt[j] > createdAt[i]}
           D == 1..(k - 1)
           f == [m \in D |-> s[m]]
<1>1. /\ s \in SetToSeqs(S)
      /\ \A m, n \in DOMAIN s : m < n => createdAt[s[m]] >= createdAt[s[n]]
  BY DEF Ordered
<1>2. /\ Cardinality(S) \in Nat
      /\ s \in [1..Cardinality(S) -> S]
      /\ \A m, n \in 1..Cardinality(S) : s[m] = s[n] => m = n
      /\ \A j \in S : \E m \in 1..Cardinality(S) : s[m] = j
  BY <1>1, SeqsOfASet
<1>3. ASSUME NEW m \in 1..Cardinality(S)
      PROVE  s[m] \in Ahead <=> m < k
  <2>1. CASE m < k
    <3>1. createdAt[s[m]] >= createdAt[i] /\ s[m] \in S \ {i}
      BY <1>1, <1>2, <2>1
    <3>2. QED BY <2>1, <3>1
  <2>2. CASE m = k
    BY <2>2
  <2>3. CASE m > k
    <3>1. createdAt[i] >= createdAt[s[m]] /\ s[m] \in S
      BY <1>1, <1>2, <2>3
    <3>2. QED BY <2>3, <3>1
  <2>4. QED BY <1>2, <2>1, <2>2, <2>3
<1>4. f \in [D -> Ahead] /\ \A m, n \in D : f[m] = f[n] => m = n
  BY <1>2, <1>3
<1>5. \A j \in Ahead : \E m \in D : f[m] = j
  BY <1>2, <1>3
<1>6. ExistsBijection(D, Ahead)
  <2>1. f \in Injection(D, Ahead)
    BY <1>4 DEF Injection, IsInjective
  <2>2. f \in Surjection(D, Ahead)
    BY <1>4, <1>5 DEF Surjection
  <2>3. QED BY <2>1, <2>2 DEF ExistsBijection, Bijection
<1>7. IsFiniteSet(D) /\ Cardinality(D) = k - 1
  BY FS_Interval
<1>8. QED BY <1>6, <1>7, FS_Bijection

\* How many rows a page has that skips a number of n rows.
Fill(n) == LET rest == n - Skip(page, limit)
           IN  IF rest < 0 THEN 0 ELSE IF rest > limit THEN limit ELSE rest

Newer(S, i) == {j \in S : createdAt[j] > createdAt[i]}
Rank(S, i)  == Cardinality(Newer(S, i))

\* Numbers of rows skipped add up page by page.
LEMMA SkipIsANumber ==
  ASSUME NEW p \in Nat \ {0}, NEW l \in Nat
  PROVE  Skip(p, l) \in Nat /\ Skip(p + 1, l) = Skip(p, l) + l
<1>1. (p - 1) * l \in Nat /\ ((p + 1) - 1) * l = (p - 1) * l + l
  OBVIOUS
<1>2. QED BY <1>1 DEF Skip

\* The page of any order of the filtered rows: its length, that it repeats no
\* other rows, and that an untied row is on it exactly when its rank says so.
LEMMA PageByRank ==
  ASSUME NEW S, IsFiniteSet(S), \A j \in S : createdAt[j] \in Int,
         NEW s \in Ordered(S), page \in Nat \ {0}, limit \in Nat \ {0}
  PROVE  /\ PageOf(s) \in Seq(S)
         /\ Len(PageOf(s)) = Fill(Cardinality(S))
         /\ \A i \in S : (\A j \in S \ {i} : createdAt[j] # createdAt[i]) =>
              /\ Rank(S, i) \in 0..Cardinality(S) - 1
              /\ i \in ToSet(PageOf(s)) <=>
                   Rank(S, i) \in Skip(page, limit)..(Skip(page, limit) + limit - 1)
<1> DEFINE n == Cardinality(S)
           from == Skip(page, limit)
           to == IF from + limit <= n THEN from + limit ELSE n
<1>1. from \in Nat
  BY SkipIsANumber
<1>2. /\ n \in Nat
      /\ s \in [1..n -> S] /\ Len(s) = n
      /\ \A j, k \in 1..n : s[j] = s[k] => j = k
      /\ \A i \in S : \E k \in 1..n : s[k] = i
  BY SeqsOfASet DEF Ordered
<1> HIDE DEF from, n
<1>3. PageOf(s) = SubSeq(s, from + 1, to) /\ to \in Int
  <2>1. from + limit \in Int /\ n \in Int
    BY <1>1, <1>2
  <2>2. Min({from + limit, Len(s)}) = to
    BY <1>2, <2>1, MinOfTwo
  <2>3. to \in Int
    BY <2>1
  <2> HIDE DEF to
  <2>4. QED BY <2>2, <2>3 DEF PageOf, from
<1>4. \A k \in (from + 1)..to : s[k] \in S
  BY <1>1, <1>2
<1>5. /\ PageOf(s) \in Seq(S)
      /\ Len(PageOf(s)) = IF from + 1 <= to THEN to - from ELSE 0
      /\ \A k \in 1..(to - from) : PageOf(s)[k] = s[from + k]
  <2> HIDE DEF to
  <2>1. /\ SubSeq(s, from + 1, to) \in Seq(S)
        /\ Len(SubSeq(s, from + 1, to)) = IF from + 1 <= to THEN to - (from + 1) + 1 ELSE 0
        /\ \A k \in 1..(to - (from + 1) + 1) : SubSeq(s, from + 1, to)[k] = s[from + 1 + k - 1]
    BY <1>1, <1>3, <1>4, SubSeqProperties
  <2>2. ASSUME NEW k \in 1..(to - from) PROVE PageOf(s)[k] = s[from + k]
    <3>1. k \in 1..(to - (from + 1) + 1) /\ from + 1 + k - 1 = from + k
      BY <1>1, <1>3
    <3>2. QED BY <1>3, <2>1, <3>1
  <2>3. QED BY <1>1, <1>3, <2>1, <2>2
<1>6. Len(PageOf(s)) = Fill(n)
  BY <1>1, <1>2, <1>5 DEF Fill, from
<1>7. \A k \in 1..n : s[k] \in ToSet(PageOf(s)) <=> k \in (from + 1)..to
  <2>1. DOMAIN PageOf(s) = 1..Len(PageOf(s))
    BY <1>5
  <2>2. ASSUME NEW k \in (from + 1)..to
        PROVE  s[k] \in ToSet(PageOf(s))
    <3>1. k - from \in 1..Len(PageOf(s)) /\ PageOf(s)[k - from] = s[k]
      BY <1>1, <1>2, <1>5
    <3>2. QED BY <2>1, <3>1 DEF ToSet
  <2>3. ASSUME NEW k \in 1..n, s[k] \in ToSet(PageOf(s))
        PROVE  k \in (from + 1)..to
    <3>1. PICK m \in 1..Len(PageOf(s)) : PageOf(s)[m] = s[k]
      BY <2>1, <2>3 DEF ToSet
    <3>2. s[from + m] = s[k] /\ from + m \in (from + 1)..to /\ from + m \in 1..n
      BY <1>1, <1>2, <1>5, <3>1
    <3>3. QED BY <1>2, <3>2
  <2>4. QED BY <2>2, <2>3
<1>8. ASSUME NEW i \in S, \A j \in S \ {i} : createdAt[j] # createdAt[i]
      PROVE  /\ Rank(S, i) \in 0..n - 1
             /\ i \in ToSet(PageOf(s)) <=> Rank(S, i) \in from..(from + limit - 1)
  <2>1. PICK k \in 1..n : s[k] = i
    BY <1>2
  <2>2. Rank(S, i) = k - 1
    <3>1. k \in 1..Cardinality(S)
      BY DEF n
    <3>2. Cardinality({j \in S : createdAt[j] > createdAt[i]}) = k - 1
      BY <1>8, <2>1, <3>1, PositionByRank
    <3>3. QED BY <3>2 DEF Rank, Newer
  <2>3. QED BY <1>1, <1>2, <1>7, <2>1, <2>2
<1>9. QED BY <1>5, <1>6, <1>8 DEF from, n

-----------------------------------------------------------------------------
(***************************************************************************)
(* The inductive invariant                                                 *)
(***************************************************************************)
Existing == {i \in Rows : Exists(i)}

\* There are finitely many rows at a time, and each has its createdAt
TableFinite ==
  /\ IsFiniteSet(Existing)
  /\ \A i \in Existing : createdAt[i] \in 0..MaxTime

\* The client's first request begins with nothing noted
Paging ==
  /\ phase = "idle" => page = 1 /\ data = Absent /\ total = Absent
                       /\ seen = {} /\ repeated = {} /\ ~grew /\ ~shrank /\ ~stirred
  /\ phase \in {"asked", "done"} => limit \in 1..MaxLimit

\* While nothing stirs, both queries see the rows there are
Undisturbed ==
  phase = "asked" /\ ~stirred =>
    /\ data # Absent => Len(data) = Fill(Cardinality(Matches))
    /\ total # Absent => total = Cardinality(Matches)

\* A due row is still to come as long as its rank is behind the pages read
StillToCome ==
  ~shrank /\ phase \in {"asked", "done"} =>
    /\ due \subseteq Matches
    /\ \A i \in due \ seen :
         \/ Tied(i)
         \/ phase = "asked" /\ data = Absent /\ Rank(Matches, i) >= Skip(page, limit)
         \/ phase = "asked" /\ data # Absent /\
              \/ i \in ToSet(data)
              \/ Len(data) >= limit /\ Rank(Matches, i) >= Skip(page + 1, limit)

\* A row seen is on a page before this one, and the rows of this one are not
AlreadySeen ==
  ~grew /\ ~shrank =>
    /\ \A i \in repeated : Tied(i)
    /\ phase = "asked" =>
         /\ repeated \subseteq seen /\ seen \subseteq Matches
         /\ \A i \in seen : Tied(i) \/ Rank(Matches, i) < Skip(page, limit)
         /\ data # Absent =>
              /\ ToSet(data) \subseteq Matches
              /\ \A i \in ToSet(data) :
                   Tied(i) \/ Rank(Matches, i) \in
                              Skip(page, limit)..(Skip(page, limit) + limit - 1)

PInv == TypeOK /\ TableFinite /\ Paging /\ Undisturbed /\ StillToCome /\ AlreadySeen

-----------------------------------------------------------------------------
(***************************************************************************)
(* What the invariant of the table gives                                   *)
(***************************************************************************)
\* Rows that match exist, so there are finitely many and each has a time.
LEMMA MatchesFinite ==
  ASSUME TableFinite
  PROVE  /\ Matches \subseteq Existing /\ IsFiniteSet(Matches)
         /\ Cardinality(Matches) \in Nat
         /\ \A i \in Existing : createdAt[i] \in Int
         /\ \A i : Rank(Matches, i) \in Nat
<1>1. Matches \subseteq Existing
  BY DEF Matches, Existing
<1>2. IsFiniteSet(Matches)
  BY <1>1, FS_Subset DEF TableFinite
<1>3. ASSUME NEW i PROVE Rank(Matches, i) \in Nat
  <2>1. Newer(Matches, i) \in SUBSET Matches
    BY DEF Newer
  <2>2. QED BY <1>2, <2>1, FS_Subset, FS_CardinalityType DEF Rank
<1>4. QED BY <1>1, <1>2, <1>3, FS_CardinalityType DEF TableFinite

\* Nothing a reader's step does changes what matches.
LEMMA SameTable ==
  ASSUME UNCHANGED <<table, query>>
  PROVE  /\ Matches' = Matches /\ Existing' = Existing
         /\ \A S, i : Rank(S, i)' = Rank(S, i)
         /\ \A i : Tied(i)' = Tied(i)
         /\ TableFinite => TableFinite'
<1>1. Matches' = Matches
  BY DEF table, Matches, Where, TransactionWhere, NotificationWhere, Agrees, Given, Exists
<1>2. Existing' = Existing
  BY DEF table, Existing, Exists
<1>3. ASSUME NEW S, NEW i PROVE Rank(S, i)' = Rank(S, i)
  BY DEF table, Rank, Newer
<1>4. ASSUME NEW i PROVE Tied(i)' = Tied(i)
  BY DEF table, Tied, Exists
<1>5. QED BY <1>1, <1>2, <1>3, <1>4 DEF table, TableFinite

\* The writers add rows and change statuses; no row leaves the table or gets
\* another time.
LEMMA WritersKeepRows ==
  ASSUME TypeOK, TableFinite, NEW i \in Rows, NEW s \in Statuses,
         Change(i, s) \/ \E t \in 0..MaxTime : Insert(i, s, t)
  PROVE  /\ UNCHANGED <<phase, request, walk>> /\ Track /\ Watched
         /\ status' \in [Rows -> Statuses \cup {Absent}]
         /\ createdAt' \in [Rows -> (0..MaxTime) \cup {Absent}]
         /\ Existing \subseteq Existing'
         /\ \A j \in Existing : createdAt'[j] = createdAt[j]
         /\ TableFinite'
<1>1. /\ status' \in [Rows -> Statuses \cup {Absent}]
      /\ createdAt' \in [Rows -> (0..MaxTime) \cup {Absent}]
      /\ Existing \subseteq Existing' /\ Existing' \subseteq Existing \cup {i}
      /\ \A j \in Existing : createdAt'[j] = createdAt[j]
      /\ \A j \in Existing' : createdAt'[j] \in 0..MaxTime
  BY ListingAssumption DEF TypeOK, TableFinite, Change, Insert, Existing, Exists
<1>2. IsFiniteSet(Existing \cup {i})
  BY FS_AddElement DEF TableFinite
<1>3. IsFiniteSet(Existing')
  BY <1>1, <1>2, FS_Subset
<1>4. QED BY <1>1, <1>3 DEF TableFinite, Change, Insert

\* Rows that come can only push a row back, and a tie stays a tie.
LEMMA RanksGrow ==
  ASSUME TableFinite, TableFinite', Existing \subseteq Existing',
         \A j \in Existing : createdAt'[j] = createdAt[j],
         NEW i \in Existing
  PROVE  /\ Rank(Matches, i)' \in Nat
         /\ Tied(i) => Tied(i)'
         /\ Matches \subseteq Matches' => Rank(Matches, i) <= Rank(Matches, i)'
         /\ Matches = Matches' => Rank(Matches, i) = Rank(Matches, i)'
<1>1. Tied(i) => Tied(i)'
  BY DEF Tied, Existing
<1>2. Matches \subseteq Existing /\ IsFiniteSet(Matches')
  <2>1. Matches' \subseteq Existing'
    BY DEF Matches, Existing
  <2>2. IsFiniteSet(Matches')
    BY <2>1, FS_Subset DEF TableFinite
  <2>3. QED BY <2>2, MatchesFinite
<1>3. ASSUME Matches \subseteq Matches'
      PROVE  Rank(Matches, i) <= Rank(Matches, i)'
  <2>1. Newer(Matches, i)' \in SUBSET Matches' /\ Newer(Matches, i) \in SUBSET Newer(Matches, i)'
    BY <1>2, <1>3 DEF Newer
  <2>2. IsFiniteSet(Newer(Matches, i)')
    BY <1>2, <2>1, FS_Subset
  <2>3. QED BY <2>1, <2>2, FS_Subset DEF Rank
<1>4. ASSUME Matches = Matches'
      PROVE  Rank(Matches, i) = Rank(Matches, i)'
  <2>1. Newer(Matches, i) = Newer(Matches, i)'
    BY <1>2, <1>4 DEF Newer
  <2>2. QED BY <2>1 DEF Rank
<1>5. Rank(Matches, i)' \in Nat
  <2>1. Newer(Matches, i)' \in SUBSET Matches'
    BY DEF Newer
  <2>2. IsFiniteSet(Newer(Matches, i)')
    BY <1>2, <2>1, FS_Subset
  <2>3. QED BY <2>2, FS_CardinalityType DEF Rank
<1>6. QED BY <1>1, <1>3, <1>4, <1>5

-----------------------------------------------------------------------------
(***************************************************************************)
(* Every step keeps the invariant                                          *)
(***************************************************************************)
\* Inserts and changes of status, before and between the client's requests.
LEMMA WriterStep ==
  ASSUME PInv, NEW i \in Rows, NEW s \in Statuses,
         Change(i, s) \/ \E t \in 0..MaxTime : Insert(i, s, t)
  PROVE  PInv'
<1>1. /\ UNCHANGED <<phase, request, walk>> /\ Track /\ Watched
      /\ status' \in [Rows -> Statuses \cup {Absent}]
      /\ createdAt' \in [Rows -> (0..MaxTime) \cup {Absent}]
      /\ Existing \subseteq Existing'
      /\ \A j \in Existing : createdAt'[j] = createdAt[j]
      /\ TableFinite'
  BY WritersKeepRows DEF PInv
<1>2. \A j \in Existing :
        /\ Rank(Matches, j)' \in Nat
        /\ Tied(j) => Tied(j)'
        /\ Matches \subseteq Matches' => Rank(Matches, j) <= Rank(Matches, j)'
        /\ Matches = Matches' => Rank(Matches, j) = Rank(Matches, j)'
  <2>1. TableFinite
    BY DEF PInv
  <2>2. TAKE j \in Existing
  <2>3. QED BY <1>1, <2>1, RanksGrow
<1>3. /\ Matches \subseteq Existing
      /\ \A j : Rank(Matches, j) \in Nat
  BY MatchesFinite DEF PInv
<1>4. CASE phase = "idle"
  <2>1. UNCHANGED moves
    BY <1>1, <1>4 DEF Track
  <2>2. QED BY <1>1, <1>4, <2>1 DEF PInv, TypeOK, Paging, Undisturbed, StillToCome,
           AlreadySeen, request, walk, moves
<1>5. CASE phase = "asked"
  <2>1. /\ UNCHANGED <<phase, query, limit, page, data, total, seen, repeated, due>>
        /\ grew' = (grew \/ Matches' \ Matches # {})
        /\ shrank' = (shrank \/ Matches \ Matches' # {})
        /\ stirred' = (stirred \/ Matches' # Matches)
    BY <1>1, <1>5 DEF Track, request, walk
  <2>2. TypeOK' /\ Paging'
    <3>1. {stirred', grew', shrank'} \subseteq BOOLEAN
      BY <2>1
    <3>2. QED BY <1>1, <1>5, <2>1, <3>1 DEF PInv, TypeOK, Paging
  <2>3. Undisturbed'
    BY <2>1 DEF PInv, Undisturbed, Fill
  <2>4. StillToCome'
    <3>1. SUFFICES ASSUME ~shrank' PROVE StillToCome'
      BY DEF StillToCome
    <3>2. ~shrank /\ Matches \subseteq Matches' /\ due \subseteq Existing
      BY <1>3, <1>5, <2>1, <3>1 DEF PInv, StillToCome
    <3>3. \A j \in due : /\ Tied(j) => Tied(j)'
                         /\ Rank(Matches, j)' \in Nat
                         /\ Rank(Matches, j) <= Rank(Matches, j)'
      BY <1>2, <3>2
    <3>4. /\ page \in Nat \ {0} /\ limit \in Nat
      BY <1>5 DEF PInv, TypeOK, Paging
    <3>5. Skip(page, limit) \in Nat /\ Skip(page + 1, limit) \in Nat
      BY <3>4, SkipIsANumber
    <3>6. /\ Skip(page, limit)' = Skip(page, limit)
          /\ Skip(page + 1, limit)' = Skip(page + 1, limit)
      BY <2>1 DEF Skip
    <3>7. due \subseteq Matches
      BY <1>5, <3>2 DEF PInv, StillToCome
    <3> HIDE DEF Rank
    <3>8. ASSUME NEW j \in due \ seen
          PROVE  \/ Tied(j)'
                 \/ data = Absent /\ Rank(Matches, j)' >= Skip(page, limit)
                 \/ data # Absent /\
                      \/ j \in ToSet(data)
                      \/ Len(data) >= limit /\ Rank(Matches, j)' >= Skip(page + 1, limit)
      <4>1. CASE Tied(j)
        BY <3>3, <4>1
      <4>2. CASE data = Absent /\ Rank(Matches, j) >= Skip(page, limit)
        BY <1>3, <3>3, <3>5, <4>2
      <4>3. CASE data # Absent /\ j \in ToSet(data)
        BY <4>3
      <4>4. CASE data # Absent /\ Len(data) >= limit /\ Rank(Matches, j) >= Skip(page + 1, limit)
        BY <1>3, <3>3, <3>5, <4>4
      <4>5. QED BY <1>5, <3>2, <4>1, <4>2, <4>3, <4>4 DEF PInv, StillToCome
    <3>9. QED BY <1>5, <2>1, <3>2, <3>6, <3>7, <3>8 DEF StillToCome
  <2>5. AlreadySeen'
    <3>1. SUFFICES ASSUME ~grew', ~shrank' PROVE AlreadySeen'
      BY DEF AlreadySeen
    <3>2. ~grew /\ ~shrank /\ Matches' = Matches
      BY <2>1, <3>1
    <3>3. \A j \in Matches : /\ Tied(j) => Tied(j)'
                             /\ Rank(Matches, j) = Rank(Matches, j)'
      BY <1>2, <1>3, <3>2
    <3>4. /\ Skip(page, limit)' = Skip(page, limit)
      BY <2>1 DEF Skip
    <3>5. QED BY <1>5, <2>1, <3>2, <3>3, <3>4 DEF PInv, AlreadySeen
  <2>6. QED BY <1>1, <2>2, <2>3, <2>4, <2>5 DEF PInv
<1>6. QED BY <1>1, <1>4, <1>5 DEF Watched

\* The first request notes what matches before any page is read.
LEMMA AskStep ==
  ASSUME PInv, NEW l \in Limits, Ask(l)
  PROVE  PInv'
<1>1. /\ phase = "idle" /\ phase' = "asked" /\ limit' \in 1..MaxLimit
      /\ due' = Matches /\ page = 1 /\ data = Absent /\ total = Absent
      /\ seen = {} /\ repeated = {} /\ ~grew /\ ~shrank /\ ~stirred
      /\ UNCHANGED <<table, query, page, data, total, seen, repeated, moves>>
  BY ListingAssumption DEF PInv, Paging, Ask, IsValid, LimitOf
<1>2. /\ Matches' = Matches /\ TableFinite'
      /\ \A S, i : Rank(S, i)' = Rank(S, i)
  BY <1>1, SameTable DEF PInv
<1>3. Matches \subseteq Existing /\ \A i : Rank(Matches, i) \in Nat
  BY MatchesFinite DEF PInv
<1>4. Skip(page, limit)' = 0
  <2>1. page' - 1 = 0 /\ limit' \in Int
    BY <1>1
  <2>2. \A x \in Int : 0 * x = 0
    OBVIOUS
  <2>3. Skip(page, limit)' = (page' - 1) * limit'
    BY DEF Skip
  <2>4. (page' - 1) * limit' = 0 * limit'
    BY <2>1
  <2>5. QED BY <2>1, <2>2, <2>3, <2>4
<1>5. TypeOK'
  BY <1>1, <1>3 DEF PInv, TypeOK, table, moves, Existing
<1>6. Paging' /\ Undisturbed' /\ AlreadySeen'
  BY <1>1 DEF Paging, Undisturbed, AlreadySeen, moves
<1>7. StillToCome'
  <2> HIDE DEF Rank
  <2>1. \A i \in due' : Rank(Matches, i)' >= Skip(page, limit)'
    BY <1>2, <1>3, <1>4
  <2>2. QED BY <1>1, <1>2, <2>1 DEF StillToCome
<1>8. QED BY <1>2, <1>5, <1>6, <1>7 DEF PInv

\* The page query returns rows by rank.
LEMMA FindManyStep ==
  ASSUME PInv, FindMany
  PROVE  PInv'
<1>1. PICK s \in Ordered(Matches) : data' = PageOf(s)
  BY DEF FindMany
<1>2. /\ phase = "asked" /\ data = Absent
      /\ UNCHANGED <<table, phase, query, limit, page, total, walk, moves>>
  BY DEF FindMany
<1>3. /\ Matches' = Matches /\ TableFinite'
      /\ \A S, i : Rank(S, i)' = Rank(S, i)
      /\ \A i : Tied(i)' = Tied(i)
  BY <1>2, SameTable DEF PInv
<1>4. /\ Matches \subseteq Existing /\ IsFiniteSet(Matches)
      /\ Cardinality(Matches) \in Nat
      /\ \A i \in Existing : createdAt[i] \in Int
      /\ \A i : Rank(Matches, i) \in Nat
  BY MatchesFinite DEF PInv
<1>5. page \in Nat \ {0} /\ limit \in 1..MaxLimit /\ limit \in Nat \ {0}
  BY <1>2, ListingAssumption DEF PInv, TypeOK, Paging
<1>6. \A S, i : Existing \subseteq Rows
  BY DEF Existing
<1>7. /\ data' \in Seq(Matches)
      /\ Len(data') = Fill(Cardinality(Matches))
      /\ \A i \in Matches : ~Tied(i) =>
           /\ Rank(Matches, i) \in 0..Cardinality(Matches) - 1
           /\ i \in ToSet(data') <=>
                Rank(Matches, i) \in Skip(page, limit)..(Skip(page, limit) + limit - 1)
  <2>1. \A i \in Matches : ~Tied(i) => \A j \in Matches \ {i} : createdAt[j] # createdAt[i]
    BY <1>4 DEF Tied, Existing
  <2>2. \A j \in Matches : createdAt[j] \in Int
    BY <1>4
  <2> HIDE DEF Rank, Fill
  <2>3. QED BY <1>1, <1>4, <1>5, <2>1, <2>2, PageByRank
<1>8. Skip(page, limit) \in Nat /\ Skip(page + 1, limit) = Skip(page, limit) + limit
  BY <1>5, SkipIsANumber
<1>9. ToSet(data') \subseteq Matches
  <2>1. DOMAIN data' = 1..Len(data') /\ \A k \in 1..Len(data') : data'[k] \in Matches
    BY <1>7
  <2>2. QED BY <2>1 DEF ToSet
<1>10. TypeOK'
  <2>1. data' \in Seq(Rows)
    BY <1>4, <1>6, <1>7, SeqMonotonic
  <2>2. Len(data') <= MaxLimit
    BY <1>4, <1>5, <1>7, <1>8, ListingAssumption DEF Fill
  <2>3. QED BY <1>2, <2>1, <2>2 DEF PInv, TypeOK, table, walk, moves
<1>11. Paging' /\ Undisturbed'
  <2>1. Fill(Cardinality(Matches))' = Fill(Cardinality(Matches))
    BY <1>2, <1>3 DEF Fill
  <2>2. QED BY <1>2, <1>3, <1>7, <2>1 DEF PInv, Paging, Undisturbed, moves
<1>12. StillToCome'
  <2>1. SUFFICES ASSUME ~shrank PROVE StillToCome'
    BY <1>2 DEF StillToCome, moves
  <2>2. /\ due \subseteq Matches
        /\ \A i \in due \ seen : Tied(i) \/ Rank(Matches, i) >= Skip(page, limit)
    BY <1>2, <2>1 DEF PInv, StillToCome
  <2>3. ASSUME NEW i \in due \ seen, ~Tied(i)
        PROVE  \/ i \in ToSet(data')
               \/ Len(data') >= limit /\ Rank(Matches, i) >= Skip(page + 1, limit)
    BY <1>4, <1>5, <1>7, <1>8, <2>2, <2>3 DEF Fill
  <2>4. /\ Skip(page, limit)' = Skip(page, limit)
        /\ Skip(page + 1, limit)' = Skip(page + 1, limit)
    BY <1>2 DEF Skip
  <2>5. QED BY <1>2, <1>3, <2>1, <2>2, <2>3, <2>4 DEF StillToCome, walk, moves
<1>13. AlreadySeen'
  <2>1. SUFFICES ASSUME ~grew, ~shrank PROVE AlreadySeen'
    BY <1>2 DEF AlreadySeen, moves
  <2>2. \A i \in ToSet(data') : Tied(i) \/ Rank(Matches, i) \in
                                  Skip(page, limit)..(Skip(page, limit) + limit - 1)
    BY <1>7, <1>9
  <2>3. Skip(page, limit)' = Skip(page, limit)
    BY <1>2 DEF Skip
  <2>4. QED BY <1>2, <1>3, <1>9, <2>1, <2>2, <2>3 DEF PInv, AlreadySeen, walk, moves
<1>14. QED BY <1>3, <1>10, <1>11, <1>12, <1>13 DEF PInv

\* The count sees what the page query would see.
LEMMA CountStep ==
  ASSUME PInv, Count
  PROVE  PInv'
<1>1. /\ phase = "asked" /\ total' = Cardinality(Matches)
      /\ UNCHANGED <<table, phase, query, limit, page, data, walk, moves>>
  BY DEF Count
<1>2. /\ Matches' = Matches /\ TableFinite'
      /\ \A S, i : Rank(S, i)' = Rank(S, i)
      /\ \A i : Tied(i)' = Tied(i)
  BY <1>1, SameTable DEF PInv
<1>3. Cardinality(Matches) \in Nat
  BY MatchesFinite DEF PInv
<1>4. \A p, n : Skip(p, limit)' = Skip(p, limit) /\ Fill(n)' = Fill(n)
  BY <1>1 DEF Skip, Fill
<1>5. TypeOK' /\ Paging'
  BY <1>1, <1>3 DEF PInv, TypeOK, Paging, table, walk, moves
<1>6. Undisturbed'
  BY <1>1, <1>2, <1>4 DEF PInv, Undisturbed, moves
<1>7. StillToCome'
  BY <1>1, <1>2, <1>4 DEF PInv, StillToCome, walk, moves
<1>8. AlreadySeen'
  BY <1>1, <1>2, <1>4 DEF PInv, AlreadySeen, walk, moves
<1>9. QED BY <1>2, <1>5, <1>6, <1>7, <1>8 DEF PInv

\* The client notes a page and asks for the next one, or is through.
LEMMA RespondStep ==
  ASSUME PInv, Respond
  PROVE  PInv'
<1>1. /\ phase = "asked" /\ data # Absent /\ total # Absent
      /\ seen' = seen \cup ToSet(data)
      /\ repeated' = repeated \cup (seen \cap ToSet(data))
      /\ data' = Absent /\ total' = Absent /\ stirred' = FALSE
      /\ \/ Len(data) >= limit /\ page' = page + 1 /\ phase' = "asked"
         \/ Len(data) < limit /\ page' = page /\ phase' = "done"
      /\ UNCHANGED <<table, query, limit, due, grew, shrank>>
  BY DEF Respond, Answered
<1>2. /\ Matches' = Matches /\ TableFinite'
      /\ \A S, i : Rank(S, i)' = Rank(S, i)
      /\ \A i : Tied(i)' = Tied(i)
  BY <1>1, SameTable DEF PInv
<1>3. \A i : Rank(Matches, i) \in Nat
  BY MatchesFinite DEF PInv
<1>4. page \in Nat \ {0} /\ limit \in 1..MaxLimit /\ limit \in Nat
  BY <1>1, ListingAssumption DEF PInv, TypeOK, Paging
<1>5. Skip(page, limit) \in Nat /\ Skip(page + 1, limit) = Skip(page, limit) + limit
  BY <1>4, SkipIsANumber
<1>6. \A p : Skip(p, limit)' = Skip(p, limit)
  BY <1>1 DEF Skip
<1>7. TypeOK'
  <2>1. data \in Seq(Rows) /\ Len(data) \in Nat
    BY <1>1 DEF PInv, TypeOK
  <2>2. ToSet(data) \subseteq Rows
    BY <2>1 DEF ToSet
  <2>3. {stirred', grew', shrank'} \subseteq BOOLEAN
    BY <1>1 DEF PInv, TypeOK
  <2>4. page' \in Nat \ {0}
    BY <1>1, <1>4
  <2>5. QED BY <1>1, <1>4, <2>2, <2>3, <2>4 DEF PInv, TypeOK, table
<1>8. Paging' /\ Undisturbed'
  BY <1>1, <1>4 DEF PInv, Paging, Undisturbed
<1>9. StillToCome'
  <2>1. SUFFICES ASSUME ~shrank PROVE StillToCome'
    BY <1>1 DEF StillToCome
  <2>2. /\ due \subseteq Matches
        /\ \A i \in due \ seen :
             \/ Tied(i)
             \/ i \in ToSet(data)
             \/ Len(data) >= limit /\ Rank(Matches, i) >= Skip(page + 1, limit)
    BY <1>1, <2>1 DEF PInv, StillToCome
  <2>3. Len(data) \in Nat
    BY <1>1 DEF PInv, TypeOK
  <2>4. CASE Len(data) >= limit /\ page' = page + 1 /\ phase' = "asked"
    BY <1>1, <1>2, <1>6, <2>2, <2>4 DEF StillToCome
  <2>5. CASE Len(data) < limit /\ page' = page /\ phase' = "done"
    <3>1. \A i \in due \ seen' : Tied(i)
      BY <1>1, <1>4, <2>2, <2>3, <2>5
    <3>2. QED BY <1>1, <1>2, <2>2, <2>5, <3>1 DEF StillToCome
  <2>6. QED BY <1>1, <2>4, <2>5
<1>10. AlreadySeen'
  <2>1. SUFFICES ASSUME ~grew, ~shrank PROVE AlreadySeen'
    BY <1>1 DEF AlreadySeen
  <2>2. /\ \A i \in repeated : Tied(i)
        /\ repeated \subseteq seen /\ seen \subseteq Matches
        /\ \A i \in seen : Tied(i) \/ Rank(Matches, i) < Skip(page, limit)
        /\ ToSet(data) \subseteq Matches
        /\ \A i \in ToSet(data) :
             Tied(i) \/ Rank(Matches, i) \in
                        Skip(page, limit)..(Skip(page, limit) + limit - 1)
    BY <1>1, <2>1 DEF PInv, AlreadySeen
  <2>3. \A i \in repeated' : Tied(i)
    BY <1>1, <1>3, <1>5, <2>2
  <2>4. \A i \in seen' : Tied(i) \/ Rank(Matches, i) < Skip(page + 1, limit)
    BY <1>1, <1>3, <1>4, <1>5, <2>2
  <2>5. repeated' \subseteq seen' /\ seen' \subseteq Matches
    BY <1>1, <2>2
  <2>6. QED BY <1>1, <1>2, <1>6, <2>3, <2>4, <2>5 DEF AlreadySeen
<1>11. QED BY <1>2, <1>7, <1>8, <1>9, <1>10 DEF PInv

-----------------------------------------------------------------------------
\* The invariant holds at the start and every step keeps it, the client's and
\* the writers', in any interleaving.
THEOREM Invariance == Spec => []PInv
<1>1. Init => PInv
  <2> SUFFICES ASSUME Init PROVE PInv
    OBVIOUS
  <2>1. Existing = {}
    BY DEF Init, Existing, Exists
  <2>2. TableFinite
    BY <2>1, FS_EmptySet DEF TableFinite
  <2>3. TypeOK /\ Paging
    <3>1. {stirred, grew, shrank} \subseteq BOOLEAN
      BY DEF Init
    <3>2. QED BY <3>1 DEF Init, TypeOK, Paging
  <2>4. Undisturbed /\ StillToCome /\ AlreadySeen
    BY DEF Init, Undisturbed, StillToCome, AlreadySeen
  <2>5. QED BY <2>2, <2>3, <2>4 DEF PInv
<1>2. PInv /\ [Next]_vars => PInv'
  <2> SUFFICES ASSUME PInv, [Next]_vars PROVE PInv'
    OBVIOUS
  <2>1. ASSUME NEW l \in Limits, Refuse(l) PROVE PInv'
    <3>1. /\ phase = "idle" /\ phase' = "refused"
          /\ UNCHANGED <<table, request, walk, moves>>
      BY <2>1 DEF Refuse
    <3>2. TableFinite'
      BY <3>1, SameTable DEF PInv, request
    <3>3. QED BY <3>1, <3>2 DEF PInv, TypeOK, Paging, Undisturbed, StillToCome,
             AlreadySeen, table, request, walk, moves
  <2>2. CASE UNCHANGED vars
    <3>1. /\ UNCHANGED <<table, query>>
          /\ UNCHANGED <<phase, limit, page, data, total, walk, moves>>
      BY <2>2 DEF vars, request
    <3>2. /\ Matches' = Matches /\ TableFinite'
          /\ \A S, i : Rank(S, i)' = Rank(S, i)
          /\ \A i : Tied(i)' = Tied(i)
      BY <3>1, SameTable DEF PInv
    <3>3. \A p, n : Skip(p, limit)' = Skip(p, limit) /\ Fill(n)' = Fill(n)
      BY <3>1 DEF Skip, Fill
    <3>4. TypeOK' /\ Paging'
      BY <3>1 DEF PInv, TypeOK, Paging, table, walk, moves
    <3>5. Undisturbed' /\ StillToCome' /\ AlreadySeen'
      BY <3>1, <3>2, <3>3 DEF PInv, Undisturbed, StillToCome, AlreadySeen, walk, moves
    <3>6. QED BY <3>2, <3>4, <3>5 DEF PInv
  <2>3. QED BY <2>1, <2>2, WriterStep, AskStep, FindManyStep, CountStep, RespondStep
           DEF Next
<1>3. QED BY <1>1, <1>2, PTL DEF Spec

\* Every state is of the declared types.
THEOREM TypeCorrect == Spec => []TypeOK
<1>1. PInv => TypeOK
  BY DEF PInv
<1>2. QED BY <1>1, Invariance, PTL

\* A client that reads to the end misses no row it was due, unless a row left
\* the filter or the row ties: inserts anywhere in the order cannot hide it.
THEOREM ReadsAll == Spec => []NothingMissed
<1>1. PInv => NothingMissed
  BY DEF PInv, StillToCome, NothingMissed
<1>2. QED BY <1>1, Invariance, PTL

\* While nothing enters or leaves the filter no page repeats a row, but ties.
THEOREM ReadsOnce == Spec => []NothingRepeated
<1>1. PInv => NothingRepeated
  BY DEF PInv, AlreadySeen, NothingRepeated
<1>2. QED BY <1>1, Invariance, PTL

\* A page and a total of an undisturbed request fit each other.
THEOREM PagesFitTotals == Spec => []PageAgreesWithTotal
<1>1. PInv => PageAgreesWithTotal
  BY DEF PInv, Undisturbed, PageAgreesWithTotal, Answered, Fill
<1>2. QED BY <1>1, Invariance, PTL

=============================================================================
