------------------------ MODULE RetriedRequestProofs ------------------------
(***************************************************************************)
(* That a retry is told from another request by what it means: for every   *)
(* order of names, every set of characters and every depth of nesting, two *)
(* JSON values have one text exactly when they mean the same, an infinite  *)
(* number meaning null.                                                    *)
(***************************************************************************)
EXTENDS RetriedRequest, AmountProofs

-----------------------------------------------------------------------------
(***************************************************************************)
(* JSON values by their depth                                              *)
(***************************************************************************)
Nested(V) == Scalars \cup Arrays(V) \cup Objects(V)

\* The values of each depth are made of those of the depth before it.
LEMMA DepthEquations ==
  /\ JsonOfDepth[0] = Scalars
  /\ \A n \in Nat : JsonOfDepth[n + 1] = Nested(JsonOfDepth[n])
<1> DEFINE Begins(f, m) ==
             f = [n \in 0..m |-> IF n = 0 THEN Scalars ELSE Nested(f[n - 1])]
           S == {m \in Nat : \E f : Begins(f, m)}
           Alike == {k \in Nat : \A l, m \in Nat : k <= l /\ k <= m =>
                       \A f, g : Begins(f, l) /\ Begins(g, m) => f[k] = g[k]}
<1>1. \A f, m : Begins(f, m) =>
        \A n \in 0..m : f[n] = IF n = 0 THEN Scalars ELSE Nested(f[n - 1])
  OBVIOUS
<1>2. Nat \subseteq S
  <2>1. 0 \in S
    <3>1. Begins([n \in 0..0 |-> Scalars], 0)
      OBVIOUS
    <3> HIDE DEF Begins
    <3>2. QED BY <3>1
  <2>2. ASSUME NEW m \in Nat, m \in S PROVE m + 1 \in S
    <3>1. PICK f : Begins(f, m)
      BY <2>2
    <3> DEFINE h == [n \in 0..(m + 1) |-> IF n = 0 THEN Scalars ELSE Nested(f[n - 1])]
    <3>2. \A n \in 0..m : h[n] = f[n]
      BY <1>1, <3>1
    <3>3. \A n \in 1..(m + 1) : n - 1 \in 0..m
      OBVIOUS
    <3>4. \A n \in 0..(m + 1) : h[n] = IF n = 0 THEN Scalars ELSE Nested(h[n - 1])
      BY <3>2, <3>3
    <3>5. h = [n \in 0..(m + 1) |-> h[n]]
      OBVIOUS
    <3> HIDE DEF h
    <3>6. Begins(h, m + 1)
      BY <3>4, <3>5
    <3> HIDE DEF Begins
    <3>7. QED BY <3>6
  <2> HIDE DEF S
  <2>3. QED BY <2>1, <2>2, SetInduction
<1>3. Nat \subseteq Alike
  <2>1. 0 \in Alike
    <3>1. ASSUME NEW l \in Nat, NEW m \in Nat, NEW f, NEW g, Begins(f, l), Begins(g, m)
          PROVE  f[0] = g[0]
      <4>1. f[0] = Scalars /\ g[0] = Scalars
        BY <1>1, <3>1
      <4>2. QED BY <4>1
    <3> HIDE DEF Begins
    <3>2. QED BY <3>1
  <2>2. ASSUME NEW k \in Nat, k \in Alike PROVE k + 1 \in Alike
    <3>1. ASSUME NEW l \in Nat, NEW m \in Nat, k + 1 <= l, k + 1 <= m,
                 NEW f, NEW g, Begins(f, l), Begins(g, m)
          PROVE  f[k + 1] = g[k + 1]
      <4>1. f[k] = g[k]
        <5>1. k <= l /\ k <= m
          BY <3>1
        <5> HIDE DEF Begins
        <5>2. QED BY <2>2, <3>1, <5>1
      <4>2. k + 1 \in 0..l /\ k + 1 \in 0..m /\ (k + 1) - 1 = k /\ k + 1 # 0
        BY <3>1
      <4>3. f[k + 1] = Nested(f[k]) /\ g[k + 1] = Nested(g[k])
        <5> HIDE DEF Begins
        <5>1. QED BY <1>1, <3>1, <4>2
      <4>4. QED BY <4>1, <4>3
    <3> HIDE DEF Begins
    <3>2. QED BY <3>1
  <2> HIDE DEF Alike
  <2>3. QED BY <2>1, <2>2, SetInduction
<1> DEFINE F(m) == CHOOSE f : Begins(f, m)
           G == [n \in Nat |-> F(n)[n]]
           Equations(f) == f = [n \in Nat |-> IF n = 0 THEN Scalars ELSE Nested(f[n - 1])]
<1>4. \A m \in Nat : Begins(F(m), m)
  <2> HIDE DEF Begins
  <2>1. QED BY <1>2
<1> HIDE DEF F
<1>5. \A n \in Nat : G[n] = IF n = 0 THEN Scalars ELSE Nested(G[n - 1])
  <2>1. ASSUME NEW n \in Nat PROVE F(n)[n] = IF n = 0 THEN Scalars ELSE Nested(F(n)[n - 1])
    <3> HIDE DEF Begins
    <3>1. QED BY <1>1, <1>4
  <2>2. ASSUME NEW n \in Nat \ {0} PROVE F(n)[n - 1] = F(n - 1)[n - 1]
    <3>1. n - 1 \in Nat /\ n - 1 <= n /\ n - 1 <= n - 1
      OBVIOUS
    <3>2. Begins(F(n), n) /\ Begins(F(n - 1), n - 1) /\ n - 1 \in Alike
      BY <1>3, <1>4, <3>1
    <3> HIDE DEF Begins
    <3>3. QED BY <3>1, <3>2
  <2>3. \A n \in Nat \ {0} : n - 1 \in Nat
    OBVIOUS
  <2>4. QED BY <2>1, <2>2, <2>3
<1>6. Equations(G)
  BY <1>5
<1> HIDE DEF G
<1>7. Equations(JsonOfDepth)
  BY <1>6 DEF JsonOfDepth, Nested
<1>8. \A n \in Nat : JsonOfDepth[n] = IF n = 0 THEN Scalars ELSE Nested(JsonOfDepth[n - 1])
  BY <1>7
<1>9. \A n \in Nat : n + 1 \in Nat /\ n + 1 # 0 /\ (n + 1) - 1 = n
  OBVIOUS
<1>10. JsonOfDepth[0] = Scalars /\ \A n \in Nat : JsonOfDepth[n + 1] = Nested(JsonOfDepth[n])
  <2>1. JsonOfDepth[0] = Scalars
    BY <1>8
  <2>2. ASSUME NEW n \in Nat PROVE JsonOfDepth[n + 1] = Nested(JsonOfDepth[n])
    BY <1>8, <1>9
  <2>3. QED BY <2>1, <2>2
<1>11. QED BY <1>10

\* More values, more values made of them.
LEMMA NestedGrows ==
  ASSUME NEW V, NEW W, V \subseteq W
  PROVE  Nested(V) \subseteq Nested(W)
<1>1. Seq(V) \subseteq Seq(W) /\ Members(V) \subseteq Members(W)
  BY DEF Members
<1>2. Seq(Members(V)) \subseteq Seq(Members(W))
  <2> HIDE DEF Members
  <2>1. QED BY <1>1
<1>3. Arrays(V) \subseteq Arrays(W)
  BY <1>1 DEF Arrays
<1>4. Objects(V) \subseteq Objects(W)
  BY <1>2 DEF Objects
<1>5. QED BY <1>3, <1>4 DEF Nested

LEMMA DepthGrows == \A n \in Nat : JsonOfDepth[n] \subseteq JsonOfDepth[n + 1]
<1> DEFINE S == {n \in Nat : JsonOfDepth[n] \subseteq JsonOfDepth[n + 1]}
<1>1. 0 \in S
  BY DepthEquations DEF Nested
<1>2. ASSUME NEW n \in Nat, n \in S PROVE n + 1 \in S
  <2>1. JsonOfDepth[n + 1] = Nested(JsonOfDepth[n])
        /\ JsonOfDepth[(n + 1) + 1] = Nested(JsonOfDepth[n + 1])
    BY DepthEquations
  <2>2. QED BY <1>2, <2>1, NestedGrows
<1> HIDE DEF S
<1>3. Nat \subseteq S
  BY <1>1, <1>2, SetInduction
<1>4. QED BY <1>3 DEF S

\* Every depth up to the bound is covered.
LEMMA DepthInJson == \A n \in Nat : n <= MaxDepth => JsonOfDepth[n] \subseteq Json
<1> DEFINE S == {m \in Nat : \A n \in Nat : n <= m => JsonOfDepth[n] \subseteq JsonOfDepth[m]}
<1>1. 0 \in S
  OBVIOUS
<1>2. ASSUME NEW m \in Nat, m \in S PROVE m + 1 \in S
  <2>1. ASSUME NEW n \in Nat, n <= m + 1
        PROVE  JsonOfDepth[n] \subseteq JsonOfDepth[m + 1]
    <3>1. CASE n = m + 1
      BY <3>1
    <3>2. CASE n # m + 1
      <4>1. n <= m
        BY <2>1, <3>2
      <4>2. QED BY <1>2, <4>1, DepthGrows
    <3>3. QED BY <3>1, <3>2
  <2>2. QED BY <2>1
<1> HIDE DEF S
<1>3. Nat \subseteq S
  BY <1>1, <1>2, SetInduction
<1>4. QED BY <1>3, JsonAssumption DEF S, Json

-----------------------------------------------------------------------------
(***************************************************************************)
(* The members of an object                                                *)
(***************************************************************************)
\* Each name of an object has one value, a value of the depth before it.
LEMMA MemberValues ==
  ASSUME NEW V, NEW o \in Objects(V), NEW k \in Names(o.fields)
  PROVE  ValueAt(o.fields, k) \in V
<1>1. o.fields \in Seq(Members(V))
  BY DEF Objects
<1>2. ToSet(o.fields) \subseteq Members(V)
  BY <1>1 DEF ToSet
<1>3. PICK found \in ToSet(o.fields) : found.key = k
  BY DEF Names
<1>4. \A m \in Members(V) : m.value \in V
  BY DEF Members
<1>5. (CHOOSE m \in ToSet(o.fields) : m.key = k) \in ToSet(o.fields)
  BY <1>3
<1>6. QED BY <1>2, <1>4, <1>5 DEF ValueAt

\* The names of an object are names of the order, so there are finitely many.
LEMMA NamesFinite ==
  ASSUME NEW V, NEW o \in Objects(V)
  PROVE  /\ Names(o.fields) \subseteq ToSet(KeyOrder)
         /\ IsFiniteSet(Names(o.fields))
<1>1. o.fields \in Seq(Members(V))
  BY DEF Objects
<1>2. ToSet(o.fields) \subseteq Members(V)
  BY <1>1 DEF ToSet
<1>3. \A m \in Members(V) : m.key \in ToSet(KeyOrder)
  BY DEF Members
<1>4. Names(o.fields) \subseteq ToSet(KeyOrder)
  BY <1>2, <1>3 DEF Names
<1>5. IsFiniteSet(ToSet(KeyOrder))
  <2>1. Len(KeyOrder) \in Nat /\ DOMAIN KeyOrder = 1..Len(KeyOrder)
    BY JsonAssumption
  <2> DEFINE f == [i \in 1..Len(KeyOrder) |-> KeyOrder[i]]
  <2>2. f \in Surjection(1..Len(KeyOrder), ToSet(KeyOrder))
    BY <2>1 DEF ToSet, Surjection
  <2>3. IsFiniteSet(1..Len(KeyOrder))
    BY <2>1, FS_Interval
  <2>4. QED BY <2>2, <2>3, FS_Surjection
<1>6. QED BY <1>4, <1>5, FS_Subset

\* sort() lists every name once, in an order that depends on the names alone.
LEMMA SortedNames ==
  ASSUME NEW V, NEW o \in Objects(V)
  PROVE  /\ Sorted(o.fields) \in Seq(Names(o.fields))
         /\ \A k \in Names(o.fields) :
              \E i \in DOMAIN Sorted(o.fields) : Sorted(o.fields)[i] = k
<1> DEFINE N == Names(o.fields)
           n == Cardinality(N)
           UpTo(k) == {l \in N : Rank(l) <= Rank(k)}
<1>1. N \subseteq ToSet(KeyOrder) /\ IsFiniteSet(N) /\ n \in Nat
  BY NamesFinite, FS_CardinalityType
<1>2. \A k \in N : Rank(k) \in Nat /\ KeyOrder[Rank(k)] = k
  <2>1. DOMAIN KeyOrder \subseteq Nat
    BY JsonAssumption
  <2>2. QED BY <1>1, <2>1 DEF Rank, ToSet
<1> HIDE DEF N, n
<1>3. \A k \in N : /\ UpTo(k) \subseteq N /\ k \in UpTo(k)
                   /\ Place(k, N) = Cardinality(UpTo(k))
  BY <1>2 DEF Place
<1>4. ASSUME NEW k \in N PROVE Place(k, N) \in 1..n
  <2>1. IsFiniteSet(UpTo(k)) /\ Cardinality(UpTo(k)) <= n
    BY <1>1, <1>3, FS_Subset DEF n
  <2>2. Cardinality(UpTo(k)) \in Nat /\ Cardinality(UpTo(k)) # 0
    BY <1>3, <2>1, FS_CardinalityType, FS_EmptySet
  <2>3. QED BY <1>1, <1>3, <2>1, <2>2
<1>5. ASSUME NEW k \in N, NEW l \in N, Rank(k) < Rank(l)
      PROVE  Place(k, N) # Place(l, N)
  <2>1. UpTo(k) \subseteq UpTo(l) /\ l \in UpTo(l) /\ l \notin UpTo(k)
    BY <1>2, <1>5
  <2>2. IsFiniteSet(UpTo(l))
    BY <1>1, <1>3, FS_Subset
  <2> HIDE DEF UpTo
  <2>3. QED BY <1>3, <2>1, <2>2, FS_Subset
<1>6. ASSUME NEW k \in N, NEW l \in N, Place(k, N) = Place(l, N) PROVE k = l
  <2>1. Rank(k) = Rank(l)
    BY <1>2, <1>5, <1>6
  <2>2. QED BY <1>2, <2>1
<1> DEFINE p == [k \in N |-> Place(k, N)]
<1>7. p \in Injection(N, 1..n)
  BY <1>4, <1>6 DEF Injection, IsInjective
<1>8. IsFiniteSet(1..n) /\ Cardinality(1..n) = n
  BY <1>1, FS_Interval
<1>9. p \in Surjection(N, 1..n)
  BY <1>7, <1>8, FS_Injection DEF n
<1>10. \A i \in 1..n : \E k \in N : Place(k, N) = i
  BY <1>9 DEF Surjection
<1> DEFINE s == [i \in 1..n |-> CHOOSE k \in N : Place(k, N) = i]
<1>11. Sorted(o.fields) = s
  BY DEF Sorted, N, n
<1>12. \A i \in 1..n : s[i] \in N /\ Place(s[i], N) = i
  BY <1>10
<1>13. s \in [1..n -> N]
  BY <1>12
<1>14. s \in Seq(N)
  <2> HIDE DEF s
  <2>1. QED BY <1>1, <1>13
<1>15. \A k \in N : \E i \in DOMAIN s : s[i] = k
  <2>1. ASSUME NEW k \in N PROVE s[Place(k, N)] = k
    BY <1>4, <1>6, <1>12
  <2>2. QED BY <1>4, <2>1
<1> HIDE DEF s
<1>16. QED BY <1>11, <1>14, <1>15 DEF N

-----------------------------------------------------------------------------
(***************************************************************************)
(* The text and the meaning of a value, from those of its parts            *)
(***************************************************************************)
ItemTexts(j, f) == [i \in DOMAIN j.items |-> f[j.items[i]]]
MemberTexts(j, f) ==
  LET sorted == Sorted(j.fields)
  IN  [i \in DOMAIN sorted |->
         <<"quote", sorted[i], "quote", "colon">> \o f[ValueAt(j.fields, sorted[i])]]

TextBy(j, f) ==
  CASE j.tag = "array"  -> <<"arrayStart">> \o Joined(ItemTexts(j, f)) \o <<"arrayEnd">>
    [] j.tag = "object" -> <<"objectStart">> \o Joined(MemberTexts(j, f)) \o <<"objectEnd">>
    [] OTHER -> ScalarText(j)

ItemMeanings(j, f) == [i \in DOMAIN j.items |-> f[j.items[i]]]
MemberMeanings(j, f) == [k \in Names(j.fields) |-> f[ValueAt(j.fields, k)]]

MeaningBy(j, f) ==
  CASE j.tag = "array"  -> [tag |-> "array", items |-> ItemMeanings(j, f)]
    [] j.tag = "object" -> [tag |-> "object", fields |-> MemberMeanings(j, f)]
    [] OTHER -> ScalarMeaning(j)

\* What one of the two equations gives for j
GivenBy(what, j, f) == IF what = "text" THEN TextBy(j, f) ELSE MeaningBy(j, f)

\* An infinite number is written, and read, as null.
Kind(j) == IF j.tag = "infinite" THEN "null" ELSE j.tag

ScalarKinds == Literals \cup {"number", "text"}

\* Five kinds of values, the literals being one.
LEMMA Kinds ==
  ASSUME NEW V, NEW j \in Nested(V)
  PROVE  \/ /\ Kind(j) \in Literals /\ ScalarMeaning(j) = [tag |-> Kind(j)]
            /\ Kind(j) \notin {"number", "text", "array", "object"}
         \/ /\ Kind(j) = "number" /\ j.digits \in Seq(Characters) \ {<<>>}
            /\ ScalarMeaning(j) = [tag |-> "number", digits |-> j.digits]
         \/ /\ Kind(j) = "text" /\ j.chars \in Seq(Characters)
            /\ ScalarMeaning(j) = [tag |-> "text", chars |-> j.chars]
         \/ Kind(j) = "array" /\ j.items \in Seq(V)
         \/ Kind(j) = "object" /\ j \in Objects(V)
<1>1. CASE j \in [tag: Literals]
  BY <1>1 DEF Literals, Kind, ScalarMeaning
<1>2. CASE j \in [tag: {"infinite"}, sign: {"plus", "minus"}]
  BY <1>2 DEF Literals, Kind, ScalarMeaning, Null
<1>3. CASE j \in [tag: {"number"}, digits: Seq(Characters) \ {<<>>}]
  BY <1>3 DEF Kind, ScalarMeaning
<1>4. CASE j \in [tag: {"text"}, chars: Seq(Characters)]
  BY <1>4 DEF Kind, ScalarMeaning
<1>5. CASE j \in Arrays(V)
  BY <1>5 DEF Arrays, Kind
<1>6. CASE j \in Objects(V)
  BY <1>6 DEF Objects, Kind
<1>7. QED BY <1>1, <1>2, <1>3, <1>4, <1>5, <1>6 DEF Nested, Scalars

\* The equations look at the values of the depth before only.
LEMMA Agreement ==
  ASSUME NEW V, NEW j \in Nested(V), NEW f, NEW g, \A v \in V : f[v] = g[v],
         NEW what
  PROVE  GivenBy(what, j, f) = GivenBy(what, j, g)
<1>1. CASE Kind(j) = "array" /\ j.items \in Seq(V)
  <2>1. ItemTexts(j, f) = ItemTexts(j, g) /\ ItemMeanings(j, f) = ItemMeanings(j, g)
    <3>1. \A i \in DOMAIN j.items : j.items[i] \in V
      BY <1>1
    <3>2. QED BY <3>1 DEF ItemTexts, ItemMeanings
  <2>2. j.tag = "array"
    BY <1>1 DEF Kind
  <2>3. QED BY <2>1, <2>2 DEF GivenBy, TextBy, MeaningBy
<1>2. CASE Kind(j) = "object" /\ j \in Objects(V)
  <2>1. MemberMeanings(j, f) = MemberMeanings(j, g)
    BY <1>2, MemberValues DEF MemberMeanings
  <2>2. MemberTexts(j, f) = MemberTexts(j, g)
    <3>1. \A i \in DOMAIN Sorted(j.fields) : Sorted(j.fields)[i] \in Names(j.fields)
      BY <1>2, SortedNames
    <3>2. \A i \in DOMAIN Sorted(j.fields) :
            f[ValueAt(j.fields, Sorted(j.fields)[i])] = g[ValueAt(j.fields, Sorted(j.fields)[i])]
      BY <1>2, <3>1, MemberValues
    <3>3. QED BY <3>2 DEF MemberTexts
  <2>3. j.tag = "object"
    BY <1>2 DEF Kind
  <2>4. QED BY <2>1, <2>2, <2>3 DEF GivenBy, TextBy, MeaningBy
<1>3. CASE Kind(j) \in ScalarKinds
  <2>1. j.tag # "array" /\ j.tag # "object"
    BY <1>3 DEF ScalarKinds, Literals, Kind
  <2>2. QED BY <2>1 DEF GivenBy, TextBy, MeaningBy
<1>4. QED BY <1>1, <1>2, <1>3, Kinds DEF ScalarKinds

\* So each equation has a solution.
LEMMA Solution ==
  ASSUME NEW what
  PROVE  \E f : f = [j \in Json |-> GivenBy(what, j, f)]
<1> DEFINE Solves(f, n) == f = [j \in JsonOfDepth[n] |-> GivenBy(what, j, f)]
           S == {n \in Nat : \E f : Solves(f, n)}
<1>1. 0 \in S
  <2> DEFINE f == [j \in JsonOfDepth[0] |-> GivenBy(what, j, <<>>)]
  <2>1. \A j \in JsonOfDepth[0] : GivenBy(what, j, <<>>) = GivenBy(what, j, f)
    <3>1. JsonOfDepth[0] \subseteq Nested({})
      BY DepthEquations DEF Nested
    <3> HIDE DEF f
    <3>2. QED BY <3>1, Agreement
  <2>2. Solves(f, 0)
    <3>1. \A j \in JsonOfDepth[0] : f[j] = GivenBy(what, j, f)
      BY <2>1
    <3>2. f = [j \in JsonOfDepth[0] |-> f[j]]
      OBVIOUS
    <3> HIDE DEF f
    <3>3. QED BY <3>1, <3>2
  <2> HIDE DEF Solves
  <2>3. QED BY <2>2
<1>2. ASSUME NEW n \in Nat, n \in S PROVE n + 1 \in S
  <2>1. PICK g : Solves(g, n)
    BY <1>2
  <2> DEFINE f == [j \in JsonOfDepth[n + 1] |-> GivenBy(what, j, g)]
  <2>2. \A v \in JsonOfDepth[n] : g[v] = f[v]
    BY <2>1, DepthGrows
  <2>3. f = [j \in JsonOfDepth[n + 1] |-> f[j]] /\ \A j \in JsonOfDepth[n + 1] : f[j] = GivenBy(what, j, g)
    OBVIOUS
  <2> HIDE DEF f
  <2>4. \A j \in JsonOfDepth[n + 1] : GivenBy(what, j, g) = GivenBy(what, j, f)
    BY <2>2, Agreement, DepthEquations
  <2>5. Solves(f, n + 1)
    BY <2>3, <2>4
  <2> HIDE DEF Solves
  <2>6. QED BY <2>5
<1> HIDE DEF S
<1>3. Nat \subseteq S
  BY <1>1, <1>2, SetInduction
<1>4. QED BY <1>3, JsonAssumption DEF S, Json

\* The text and the meaning are what their equations say.
LEMMA TextEquations ==
  \A j \in Json : StableStringify[j] = TextBy(j, StableStringify)
<1> DEFINE Equations(f) == f = [j \in Json |-> TextBy(j, f)]
<1>1. \E f : Equations(f)
  BY Solution, Zenon DEF GivenBy
<1>2. StableStringify = CHOOSE f : Equations(f)
  BY Zenon DEF StableStringify, TextBy, ItemTexts, MemberTexts
<1>3. Equations(CHOOSE f : Equations(f))
  <2> HIDE DEF Equations
  <2>1. QED BY <1>1
<1>4. QED BY <1>2, <1>3

LEMMA MeaningEquations == \A j \in Json : Meaning[j] = MeaningBy(j, Meaning)
<1> DEFINE Equations(f) == f = [j \in Json |-> MeaningBy(j, f)]
<1>1. PICK f : Equations(f)
  <2>1. PICK f : f = [j \in Json |-> GivenBy("meaning", j, f)]
    BY Solution
  <2>2. \A j : GivenBy("meaning", j, f) = MeaningBy(j, f)
    BY DEF GivenBy
  <2>3. QED BY <2>1, <2>2
<1>2. Equations(Meaning)
  BY <1>1 DEF Meaning, MeaningBy, ItemMeanings, MemberMeanings
<1>3. QED BY <1>2

\* The same, kind by kind.
LEMMA TextOfKind ==
  ASSUME NEW j \in Json
  PROVE  LET text == StableStringify[j]
         IN  /\ Kind(j) \in Literals => text = <<Kind(j)>>
             /\ Kind(j) = "number" => text = j.digits
             /\ Kind(j) = "text" => text = <<"quote">> \o j.chars \o <<"quote">>
             /\ Kind(j) = "array" =>
                  text = <<"arrayStart">> \o Joined(ItemTexts(j, StableStringify)) \o <<"arrayEnd">>
             /\ Kind(j) = "object" =>
                  text = <<"objectStart">> \o Joined(MemberTexts(j, StableStringify)) \o <<"objectEnd">>
<1>1. StableStringify[j] = TextBy(j, StableStringify)
  BY TextEquations
<1>2. CASE j.tag = "infinite"
  <2>1. j.tag \notin Literals /\ Kind(j) = "null" /\ Kind(j) \in Literals
    BY <1>2 DEF Literals, Kind
  <2>2. TextBy(j, StableStringify) = ScalarText(j)
    BY <1>2 DEF TextBy
  <2>3. ScalarText(j) = <<"null">>
    BY <1>2, <2>1 DEF ScalarText
  <2>4. QED BY <1>1, <2>1, <2>2, <2>3
<1>3. CASE j.tag # "infinite"
  <2>1. Kind(j) = j.tag
    BY <1>3 DEF Kind
  <2>2. CASE j.tag \in Literals
    <3>1. j.tag # "array" /\ j.tag # "object" /\ j.tag # "number" /\ j.tag # "text"
      BY <2>2 DEF Literals
    <3>2. TextBy(j, StableStringify) = ScalarText(j)
      BY <3>1 DEF TextBy
    <3>3. ScalarText(j) = <<j.tag>>
      BY <1>3, <2>2, <3>1 DEF ScalarText
    <3>4. QED BY <1>1, <2>1, <2>2, <3>1, <3>2, <3>3
  <2>3. CASE j.tag = "number"
    <3>1. j.tag \notin Literals
      BY <2>3 DEF Literals
    <3>2. QED BY <1>1, <2>1, <2>3, <3>1 DEF TextBy, ScalarText
  <2>4. CASE j.tag = "text"
    <3>1. j.tag \notin Literals
      BY <2>4 DEF Literals
    <3>2. QED BY <1>1, <2>1, <2>4, <3>1 DEF TextBy, ScalarText
  <2>5. CASE j.tag = "array"
    <3>1. j.tag \notin Literals
      BY <2>5 DEF Literals
    <3>2. QED BY <1>1, <2>1, <2>5, <3>1 DEF TextBy
  <2>6. CASE j.tag = "object"
    <3>1. j.tag \notin Literals
      BY <2>6 DEF Literals
    <3>2. QED BY <1>1, <2>1, <2>6, <3>1 DEF TextBy
  <2>7. QED BY <2>1, <2>2, <2>3, <2>4, <2>5, <2>6
<1>4. QED BY <1>2, <1>3

LEMMA MeaningOfKind ==
  ASSUME NEW j \in Json
  PROVE  LET meaning == Meaning[j]
         IN  /\ Kind(j) = "array" =>
                  meaning = [tag |-> "array", items |-> ItemMeanings(j, Meaning)]
             /\ Kind(j) = "object" =>
                  meaning = [tag |-> "object", fields |-> MemberMeanings(j, Meaning)]
             /\ Kind(j) \notin {"array", "object"} => meaning = ScalarMeaning(j)
<1>1. Meaning[j] = MeaningBy(j, Meaning)
  BY MeaningEquations
<1>2. CASE Kind(j) = "array"
  BY <1>1, <1>2 DEF MeaningBy, Kind
<1>3. CASE Kind(j) = "object"
  BY <1>1, <1>3 DEF MeaningBy, Kind
<1>4. CASE Kind(j) \notin {"array", "object"}
  <2>1. j.tag # "array" /\ j.tag # "object"
    BY <1>4 DEF Kind
  <2>2. QED BY <1>1, <1>4, <2>1 DEF MeaningBy
<1>5. QED BY <1>2, <1>3, <1>4

-----------------------------------------------------------------------------
(***************************************************************************)
(* Induction over JSON values                                              *)
(***************************************************************************)
\* A set that has every value whose parts it has, has every value.
LEMMA JsonInduction ==
  ASSUME NEW S,
         \A V \in SUBSET Json : V \subseteq S => Nested(V) \cap Json \subseteq S
  PROVE  Json \subseteq S
<1> DEFINE T == {n \in Nat : n <= MaxDepth => JsonOfDepth[n] \subseteq S}
<1>1. 0 \in T
  <2>1. JsonOfDepth[0] \subseteq Nested({}) \cap Json
    BY DepthEquations, DepthInJson, JsonAssumption DEF Nested
  <2>2. QED BY <2>1
<1>2. ASSUME NEW n \in Nat, n \in T PROVE n + 1 \in T
  <2>1. SUFFICES ASSUME n + 1 <= MaxDepth PROVE JsonOfDepth[n + 1] \subseteq S
    OBVIOUS
  <2>2. n <= MaxDepth
    BY <2>1, JsonAssumption
  <2>3. JsonOfDepth[n] \subseteq Json /\ JsonOfDepth[n + 1] \subseteq Json
    BY <2>1, <2>2, DepthInJson
  <2>4. JsonOfDepth[n + 1] = Nested(JsonOfDepth[n])
    BY DepthEquations
  <2>5. QED BY <1>2, <2>2, <2>3, <2>4
<1> HIDE DEF T
<1>3. Nat \subseteq T
  BY <1>1, <1>2, SetInduction
<1>4. QED BY <1>3, JsonAssumption DEF T, Json

\* Every value is made of values.
LEMMA JsonIsNested == Json \subseteq Nested(Json)
<1> DEFINE S == {n \in Nat : n <= MaxDepth => JsonOfDepth[n] \subseteq Nested(Json)}
<1>1. 0 \in S
  BY DepthEquations DEF Nested
<1>2. ASSUME NEW n \in Nat PROVE n + 1 \in S
  <2>1. SUFFICES ASSUME n + 1 <= MaxDepth PROVE JsonOfDepth[n + 1] \subseteq Nested(Json)
    OBVIOUS
  <2>2. n <= MaxDepth
    BY <2>1, JsonAssumption
  <2>3. QED BY <2>2, DepthEquations, DepthInJson, NestedGrows
<1> HIDE DEF S
<1>3. Nat \subseteq S
  BY <1>1, <1>2, SetInduction
<1>4. QED BY <1>3, JsonAssumption DEF S, Json

-----------------------------------------------------------------------------
(***************************************************************************)
(* Texts                                                                   *)
(***************************************************************************)
Tokens  == Characters \cup Marks \cup ToSet(KeyOrder)
Closers == Characters \cup Literals \cup {"quote", "arrayEnd", "objectEnd"}
EndsIn(s, S) == s # <<>> /\ s[Len(s)] \in S

\* What may stand before the text of a value: it does not end in a character.
Heads == {h \in Seq(Tokens) : h = <<>> \/ h[Len(h)] \notin Characters}

\* A token more
Put(x, t) == x \o <<t>>

LEMMA LastToken ==
  \A x \in Seq(Tokens), t \in Tokens :
    /\ Put(x, t) \in Seq(Tokens) /\ EndsIn(Put(x, t), {t})
    /\ t \notin Characters => Put(x, t) \in Heads
    /\ \A y \in Seq(Tokens), u \in Tokens : Put(x, t) = Put(y, u) => x = y /\ t = u
<1>1. SUFFICES ASSUME NEW x \in Seq(Tokens), NEW t \in Tokens
               PROVE  /\ Put(x, t) \in Seq(Tokens) /\ EndsIn(Put(x, t), {t})
                      /\ t \notin Characters => Put(x, t) \in Heads
                      /\ \A y \in Seq(Tokens), u \in Tokens :
                           Put(x, t) = Put(y, u) => x = y /\ t = u
  OBVIOUS
<1>2. \A y \in Seq(Tokens), u \in Tokens : Put(y, u) = Append(y, u)
  BY AppendIsConcat DEF Put
<1>3. ASSUME NEW y \in Seq(Tokens), NEW u \in Tokens, Put(x, t) = Put(y, u)
      PROVE  x = y /\ t = u
  <2>1. Append(x, t) = Append(y, u)
    BY <1>2, <1>3
  <2>2. QED BY <2>1, AppendInjective
<1>4. /\ Append(x, t) \in Seq(Tokens) /\ Append(x, t) # <<>>
      /\ Len(Append(x, t)) = Len(x) + 1 /\ Append(x, t)[Len(x) + 1] = t
  BY AppendProperties
<1>5. Put(x, t) \in Seq(Tokens) /\ EndsIn(Put(x, t), {t})
  BY <1>2, <1>4 DEF EndsIn
<1>6. t \notin Characters => Put(x, t) \in Heads
  BY <1>5 DEF EndsIn, Heads
<1>7. QED BY <1>3, <1>5, <1>6

LEMMA Concat ==
  \A x, y \in Seq(Tokens) :
    /\ x \o y \in Seq(Tokens)
    /\ \A z \in Seq(Tokens) : x \o (y \o z) = (x \o y) \o z
    /\ \A t \in Tokens : <<t>> \in Seq(Tokens) /\ x \o Put(y, t) = Put(x \o y, t)
<1>1. SUFFICES ASSUME NEW x \in Seq(Tokens), NEW y \in Seq(Tokens)
               PROVE  /\ x \o y \in Seq(Tokens)
                      /\ \A z \in Seq(Tokens) : x \o (y \o z) = (x \o y) \o z
                      /\ \A t \in Tokens :
                           <<t>> \in Seq(Tokens) /\ x \o Put(y, t) = Put(x \o y, t)
  OBVIOUS
<1>2. \A z \in Seq(Tokens) : x \o (y \o z) = (x \o y) \o z
  BY ConcatAssociative
<1>3. ASSUME NEW t \in Tokens
      PROVE  <<t>> \in Seq(Tokens) /\ x \o Put(y, t) = Put(x \o y, t)
  <2> DEFINE one == <<t>>
  <2>1. one \in Seq(Tokens)
    OBVIOUS
  <2>2. Put(y, t) = y \o one /\ Put(x \o y, t) = (x \o y) \o one
    BY DEF Put
  <2>3. one = <<t>>
    OBVIOUS
  <2> HIDE DEF one
  <2>4. QED BY <1>2, <2>1, <2>2, <2>3
<1>4. QED BY <1>2, <1>3, ConcatProperties

LEMMA ConcatIn == \A x, y \in Seq(Tokens) : x \o y \in Seq(Tokens)
  BY Concat

LEMMA ConcatThree == \A x, y, z \in Seq(Tokens) : x \o (y \o z) = (x \o y) \o z
  BY Concat

LEMMA ConcatPut ==
  \A x, y \in Seq(Tokens), t \in Tokens : x \o Put(y, t) = Put(x \o y, t)
  BY Concat

LEMMA PutIn == \A x \in Seq(Tokens), t \in Tokens : Put(x, t) \in Seq(Tokens)
  BY LastToken

LEMMA PutHead == \A x \in Seq(Tokens), t \in Tokens : t \notin Characters => Put(x, t) \in Heads
  BY LastToken

LEMMA PutEqual ==
  \A x, y \in Seq(Tokens), t, u \in Tokens : Put(x, t) = Put(y, u) => x = y /\ t = u
  BY LastToken

\* A text that ends in S makes what it is the end of end in S.
LEMMA EndOfConcat ==
  ASSUME NEW x \in Seq(Tokens), NEW y \in Seq(Tokens), NEW S, EndsIn(y, S)
  PROVE  EndsIn(x \o y, S)
<1>1. Len(x) \in Nat /\ Len(y) \in Nat \ {0}
  BY EmptySeq, LenProperties DEF EndsIn
<1>2. /\ Len(x \o y) = Len(x) + Len(y)
      /\ (x \o y)[Len(x) + Len(y)] = y[(Len(x) + Len(y)) - Len(x)]
  <2>1. Len(x) + Len(y) \in 1..Len(x) + Len(y) /\ ~ (Len(x) + Len(y) <= Len(x))
    BY <1>1
  <2>2. QED BY <2>1, ConcatProperties
<1>3. (Len(x) + Len(y)) - Len(x) = Len(y)
  BY <1>1
<1>4. x \o y # <<>>
  BY <1>1, <1>2, EmptySeq
<1>5. QED BY <1>2, <1>3, <1>4 DEF EndsIn

\* A run of characters is read back to what stands before it.
LEMMA Span ==
  ASSUME NEW h \in Heads, NEW g \in Heads,
         NEW x \in Seq(Characters), NEW y \in Seq(Characters), h \o x = g \o y
  PROVE  h = g /\ x = y
<1>1. h \in Seq(Tokens) /\ g \in Seq(Tokens) /\ x \in Seq(Tokens) /\ y \in Seq(Tokens)
  <2>1. Characters \subseteq Tokens
    BY DEF Tokens
  <2>2. QED BY <2>1, SeqMonotonic DEF Heads
<1>2. \A a, b \in Heads, u, v \in Seq(Characters) :
        a \o u = b \o v => ~ (Len(a) < Len(b))
  <2>1. SUFFICES ASSUME NEW a \in Heads, NEW b \in Heads, NEW u \in Seq(Characters),
                        NEW v \in Seq(Characters), a \o u = b \o v, Len(a) < Len(b)
                 PROVE  FALSE
    OBVIOUS
  <2>2. a \in Seq(Tokens) /\ b \in Seq(Tokens) /\ u \in Seq(Tokens) /\ v \in Seq(Tokens)
    <3>1. Characters \subseteq Tokens
      BY DEF Tokens
    <3>2. QED BY <3>1, SeqMonotonic DEF Heads
  <2>3. Len(a) \in Nat /\ Len(b) \in Nat /\ Len(u) \in Nat /\ Len(v) \in Nat
    BY <2>2, LenProperties
  <2>4. Len(a) + Len(u) = Len(b) + Len(v)
    BY <2>1, <2>2, ConcatProperties
  <2>5. Len(b) \in 1..Len(a) + Len(u) /\ Len(b) \in 1..Len(b) + Len(v)
        /\ Len(b) - Len(a) \in 1..Len(u) /\ ~ (Len(b) <= Len(a)) /\ Len(b) <= Len(b)
    BY <2>1, <2>3, <2>4
  <2>6. (a \o u)[Len(b)] = u[Len(b) - Len(a)] /\ (b \o v)[Len(b)] = b[Len(b)]
    BY <2>2, <2>5, ConcatProperties
  <2>7. u[Len(b) - Len(a)] \in Characters
    BY <2>5, ElementOfSeq
  <2>8. b # <<>>
    BY <2>1, <2>3
  <2>9. QED BY <2>1, <2>6, <2>7, <2>8 DEF Heads
<1>3. Len(h) \in Nat /\ Len(g) \in Nat /\ Len(x) \in Nat /\ Len(y) \in Nat
  BY <1>1, LenProperties
<1>4. Len(h) = Len(g)
  <2>1. ~ (Len(h) < Len(g)) /\ ~ (Len(g) < Len(h))
    BY <1>2
  <2>2. QED BY <1>3, <2>1
<1>5. \A i \in 1..Len(h) : h[i] = g[i]
  <2>1. \A i \in 1..Len(h) : i \in 1..Len(h) + Len(x) /\ i \in 1..Len(g) + Len(y)
                             /\ i <= Len(h) /\ i <= Len(g)
    BY <1>3, <1>4
  <2>2. \A i \in 1..Len(h) : (h \o x)[i] = h[i] /\ (g \o y)[i] = g[i]
    BY <1>1, <2>1, ConcatProperties
  <2>3. QED BY <2>2
<1>6. h = g
  BY <1>1, <1>4, <1>5, SeqEqual
<1>7. x = y
  BY <1>1, <1>6, ConcatSimplifications
<1>8. QED BY <1>6, <1>7

LEMMA Spans ==
  \A h, g \in Heads, x, y \in Seq(Characters) : h \o x = g \o y => h = g /\ x = y
  BY Span

-----------------------------------------------------------------------------
(***************************************************************************)
(* Texts joined by commas                                                  *)
(***************************************************************************)
Piece(ws, i) == IF i = 1 THEN ws[i] ELSE <<"comma">> \o ws[i]

\* join() adds one text after the other, a comma before all but the first.
LEMMA JoinedSteps ==
  ASSUME NEW n \in Nat, NEW ws \in [1..n -> Seq(Tokens)]
  PROVE  \E g \in [Nat -> Seq(Tokens)] :
           /\ g[0] = <<>> /\ Joined(ws) = g[n]
           /\ \A i \in 1..n : g[i] = g[i - 1] \o Piece(ws, i)
<1>1. <<"comma">> \in Seq(Tokens)
  <2>1. "comma" \in Tokens
    BY DEF Tokens, Marks
  <2>2. QED BY <2>1
<1>2. \A i \in 1..n : Piece(ws, i) \in Seq(Tokens)
  BY <1>1, ConcatProperties DEF Piece
<1>3. <<>> \in Seq(Tokens)
  BY EmptySeq
<1> DEFINE Added(i) == IF i \in 1..n THEN Piece(ws, i) ELSE <<>>
           step == [p \in Nat \X Seq(Tokens) |-> p[2] \o Added(p[1] + 1)]
           Solves(V, b, s) ==
             \E g \in [Nat -> V] : g[0] = b /\ \A k \in Nat : g[k + 1] = s[<<k, g[k]>>]
<1>4. \A V : \A b \in V, s \in [Nat \X V -> V] : Solves(V, b, s)
  BY Recursion
<1>5. step \in [Nat \X Seq(Tokens) -> Seq(Tokens)]
  <2>1. \A i \in Nat : Added(i) \in Seq(Tokens)
    BY <1>2, <1>3
  <2> HIDE DEF Added
  <2>2. ASSUME NEW p \in Nat \X Seq(Tokens) PROVE p[2] \o Added(p[1] + 1) \in Seq(Tokens)
    <3>1. p[2] \in Seq(Tokens) /\ p[1] + 1 \in Nat
      OBVIOUS
    <3>2. QED BY <2>1, <3>1, ConcatProperties
  <2>3. QED BY <2>2
<1>6. PICK g \in [Nat -> Seq(Tokens)] :
        g[0] = <<>> /\ \A k \in Nat : g[k + 1] = step[<<k, g[k]>>]
  <2>1. Solves(Seq(Tokens), <<>>, step)
    <3> HIDE DEF Solves, step
    <3>1. QED BY <1>3, <1>4, <1>5
  <2> HIDE DEF step
  <2>2. QED BY <2>1
<1>7. ASSUME NEW i \in 1..n PROVE g[i] = g[i - 1] \o Piece(ws, i)
  <2>1. i - 1 \in Nat /\ (i - 1) + 1 = i /\ <<i - 1, g[i - 1]>> \in Nat \X Seq(Tokens)
    OBVIOUS
  <2>2. g[i] = step[<<i - 1, g[i - 1]>>]
    <3> HIDE DEF step
    <3>1. QED BY <1>6, <2>1
  <2>3. step[<<i - 1, g[i - 1]>>] = g[i - 1] \o Added(i)
    <3> HIDE DEF Added
    <3>1. QED BY <2>1
  <2>4. QED BY <2>2, <2>3
<1> DEFINE ps == [i \in DOMAIN ws |-> IF i = 1 THEN ws[i] ELSE <<"comma">> \o ws[i]]
<1>8. /\ DOMAIN ws = 1..n
      /\ ps = [i \in 1..n |-> Piece(ws, i)]
  BY DEF Piece
<1>9. ps \in Seq(Seq(Tokens)) /\ Len(ps) = n
  <2>1. ps \in [1..n -> Seq(Tokens)]
    BY <1>2, <1>8
  <2> HIDE DEF ps
  <2>2. QED BY <2>1
<1>10. \A i \in 1..n : ps[i] = Piece(ws, i)
  BY <1>8
<1>11. Joined(ws) = FlattenSeq(ps)
  BY DEF Joined
<1> HIDE DEF ps
<1>12. CASE n = 0
  <2>1. ps = <<>>
    BY <1>9, <1>12, EmptySeq
  <2>2. FlattenSeq(ps) = ps
    BY <1>9, <1>12 DEF FlattenSeq
  <2>3. QED BY <1>6, <1>7, <1>11, <1>12, <2>1, <2>2
<1>13. CASE n # 0
  <2> DEFINE Equations(f) ==
               f = [i \in 1..n |-> IF i = 1 THEN ps[i] ELSE f[i - 1] \o ps[i]]
             h == [i \in 1..n |-> g[i]]
             F == CHOOSE f : Equations(f)
  <2>1. FlattenSeq(ps) = F[n]
    BY <1>9, <1>13 DEF FlattenSeq
  <2>2. Equations(h)
    <3>1. ASSUME NEW i \in 1..n PROVE g[i] = IF i = 1 THEN ps[i] ELSE h[i - 1] \o ps[i]
      <4>1. CASE i = 1
        <5>1. 1 - 1 = 0
          OBVIOUS
        <5>2. g[1] = <<>> \o Piece(ws, 1)
          BY <1>6, <1>7, <4>1, <5>1
        <5>3. QED BY <1>2, <1>10, <4>1, <5>2, ConcatEmptySeq
      <4>2. CASE i # 1
        <5>1. i - 1 \in 1..n
          BY <4>2
        <5>2. QED BY <1>7, <1>10, <4>2, <5>1
      <4>3. QED BY <4>1, <4>2
    <3>2. QED BY <3>1
  <2>3. Equations(F)
    <3> HIDE DEF Equations
    <3>1. QED BY <2>2
  <2> HIDE DEF F
  <2>4. \A i \in 1..n : F[i] = IF i = 1 THEN ps[i] ELSE F[i - 1] \o ps[i]
    BY <2>3
  <2>5. \A i \in 1..n : h[i] = IF i = 1 THEN ps[i] ELSE h[i - 1] \o ps[i]
    BY <2>2
  <2> DEFINE S == {i \in Nat : i \in 1..n => F[i] = h[i]}
  <2>6. 0 \in S
    OBVIOUS
  <2>7. ASSUME NEW i \in Nat, i \in S PROVE i + 1 \in S
    <3>1. SUFFICES ASSUME i + 1 \in 1..n PROVE F[i + 1] = h[i + 1]
      OBVIOUS
    <3>2. i + 1 # 1 => i \in 1..n
      BY <3>1
    <3>3. (i + 1) - 1 = i
      OBVIOUS
    <3> HIDE DEF h
    <3>4. QED BY <2>4, <2>5, <2>7, <3>1, <3>2, <3>3
  <2> HIDE DEF S
  <2>8. Nat \subseteq S
    BY <2>6, <2>7, SetInduction
  <2>9. n \in 1..n
    BY <1>13
  <2>10. F[n] = h[n]
    BY <2>8, <2>9 DEF S
  <2>11. QED BY <1>6, <1>7, <1>11, <2>1, <2>9, <2>10
<1>14. QED BY <1>12, <1>13

\* What is written once the texts ws are joined behind a: behind each text
\* stands the text itself, and before it the mark that opens it.
Opened(p, i, a) == IF i = 1 THEN a ELSE Put(p[i - 1], "comma")
Behind(p, n, ws, a) ==
  /\ p[0] = a /\ p[n] = a \o Joined(ws)
  /\ \A i \in 1..n : p[i] = Opened(p, i, a) \o ws[i]

LEMMA JoinedBehind ==
  ASSUME NEW n \in Nat, NEW ws \in [1..n -> Seq(Tokens)], NEW a \in Seq(Tokens)
  PROVE  \E p \in [Nat -> Seq(Tokens)] : Behind(p, n, ws, a)
<1>1. PICK g \in [Nat -> Seq(Tokens)] :
        /\ g[0] = <<>> /\ Joined(ws) = g[n]
        /\ \A i \in 1..n : g[i] = g[i - 1] \o Piece(ws, i)
  BY JoinedSteps
<1> DEFINE p == [i \in Nat |-> a \o g[i]]
<1>2. p \in [Nat -> Seq(Tokens)]
  BY ConcatProperties
<1>3. p[0] = a /\ p[n] = a \o Joined(ws)
  BY <1>1, ConcatEmptySeq
<1>4. ASSUME NEW i \in 1..n
      PROVE  p[i] = Opened(p, i, a) \o ws[i]
  <2>1. i \in Nat /\ i - 1 \in Nat /\ ws[i] \in Seq(Tokens)
    OBVIOUS
  <2>2. p[i] = a \o (g[i - 1] \o Piece(ws, i)) /\ p[i - 1] = a \o g[i - 1]
    BY <1>1, <2>1
  <2> HIDE DEF p
  <2>3. CASE i = 1
    <3>1. g[i - 1] = <<>> /\ Piece(ws, i) = ws[i]
      BY <1>1, <2>3 DEF Piece
    <3>2. QED BY <2>1, <2>2, <2>3, <3>1, ConcatEmptySeq DEF Opened
  <2>4. CASE i # 1
    <3> DEFINE comma == <<"comma">>
    <3>1. comma \in Seq(Tokens)
      <4>1. "comma" \in Tokens
        BY DEF Tokens, Marks
      <4>2. QED BY <4>1
    <3>2. Put(a \o g[i - 1], "comma") = (a \o g[i - 1]) \o comma
      BY DEF Put
    <3>3. Piece(ws, i) = comma \o ws[i]
      BY <2>4 DEF Piece
    <3>4. g[i - 1] \in Seq(Tokens)
      BY <2>1
    <3> HIDE DEF comma
    <3>5. g[i - 1] \o (comma \o ws[i]) = (g[i - 1] \o comma) \o ws[i]
      BY <2>1, <3>1, <3>4, Concat
    <3>6. g[i - 1] \o comma \in Seq(Tokens)
      BY <3>1, <3>4, Concat
    <3>7. a \o ((g[i - 1] \o comma) \o ws[i]) = (a \o (g[i - 1] \o comma)) \o ws[i]
      BY <2>1, <3>6, Concat
    <3>8. a \o (g[i - 1] \o comma) = (a \o g[i - 1]) \o comma
      BY <3>1, <3>4, Concat
    <3>9. QED BY <2>2, <2>4, <3>3, <3>5, <3>7, <3>8, <3>2 DEF Opened
  <2>5. QED BY <2>3, <2>4
<1> HIDE DEF p
<1>5. QED BY <1>2, <1>3, <1>4 DEF Behind

\* The provers take \o apart unless it has a name.
Cat(x, y) == x \o y

\* Texts, each of which is closed
Texts(n) == {ws \in [1..n -> Seq(Tokens)] : \A i \in 1..n : EndsIn(ws[i], Closers)}

\* Whatever stands before them, ws[i] and vs[l] are told apart.
ToldApart(ws, n, vs, m) ==
  \A i \in 1..n, l \in 1..m : \A h, g \in Heads :
    Cat(h, ws[i]) = Cat(g, vs[l]) => h = g /\ ws[i] = vs[l]

\* Texts that can each be read back from the right can be read back joined.
LEMMA JoinedRead ==
  ASSUME NEW n \in Nat, NEW ws \in Texts(n), NEW m \in Nat, NEW vs \in Texts(m),
         ToldApart(ws, n, vs, m),
         NEW c \in {"arrayStart", "objectStart"}, NEW a \in Seq(Tokens), NEW b \in Seq(Tokens),
         Cat(Put(a, c), Joined(ws)) = Cat(Put(b, c), Joined(vs))
  PROVE  a = b /\ n = m /\ ws = vs
<1>1. ws \in [1..n -> Seq(Tokens)] /\ \A i \in 1..n : EndsIn(ws[i], Closers)
  BY DEF Texts
<1>2. vs \in [1..m -> Seq(Tokens)] /\ \A i \in 1..m : EndsIn(vs[i], Closers)
  BY DEF Texts
<1>3. \A i \in 1..n, l \in 1..m : \A h, g \in Heads :
         h \o ws[i] = g \o vs[l] => h = g /\ ws[i] = vs[l]
  BY Zenon DEF ToldApart, Cat
<1>4. Put(a, c) \o Joined(ws) = Put(b, c) \o Joined(vs)
  BY DEF Cat
<1>5. /\ c \in Tokens /\ c \notin Characters /\ c \notin Closers /\ c # "comma"
      /\ "comma" \in Tokens /\ "comma" \notin Characters /\ "comma" \notin Closers
  BY HashAssumption DEF Tokens, Marks, Closers, Literals
<1> DEFINE A == Put(a, c)
           B == Put(b, c)
<1>6. A \in Seq(Tokens) /\ A \in Heads /\ B \in Seq(Tokens) /\ B \in Heads
  BY <1>5, LastToken
<1>7. A = B => a = b
  BY <1>5, LastToken
<1>8. \A x \in Seq(Tokens) : /\ Put(x, "comma") \in Seq(Tokens) /\ Put(x, "comma") \in Heads
                             /\ Put(x, "comma") # A /\ Put(x, "comma") # B
  BY <1>5, LastToken
<1>9. EndsIn(A, {c}) /\ EndsIn(B, {c})
  BY <1>5, LastToken
<1> HIDE DEF A, B
<1>10. ~ EndsIn(A, Closers) /\ ~ EndsIn(B, Closers)
  BY <1>5, <1>9 DEF EndsIn
<1>11. PICK p \in [Nat -> Seq(Tokens)] : Behind(p, n, ws, A)
  BY <1>6, <1>1, JoinedBehind
<1>12. PICK q \in [Nat -> Seq(Tokens)] : Behind(q, m, vs, B)
  BY <1>6, <1>2, JoinedBehind
<1> DEFINE Before(i) == Opened(p, i, A)
           Ahead(i) == Opened(q, i, B)
<1>13. p[0] = A /\ p[n] = A \o Joined(ws) /\ q[0] = B /\ q[m] = B \o Joined(vs)
  BY <1>11, <1>12 DEF Behind
<1>14. ASSUME NEW i \in 1..n
      PROVE  Before(i) \in Heads /\ p[i] = Before(i) \o ws[i] /\ EndsIn(p[i], Closers)
  <2>1. i - 1 \in Nat
    OBVIOUS
  <2>2. Before(i) \in Heads
    BY <1>6, <1>8, <2>1 DEF Opened
  <2>3. p[i] = Before(i) \o ws[i]
    BY <1>11 DEF Behind
  <2>4. Before(i) \in Seq(Tokens)
    BY <2>2 DEF Heads
  <2>5. ws[i] \in Seq(Tokens) /\ EndsIn(ws[i], Closers)
    BY <1>1
  <2> HIDE DEF Before
  <2>6. QED BY <2>2, <2>3, <2>4, <2>5, EndOfConcat
<1>15. ASSUME NEW i \in 1..m
      PROVE  Ahead(i) \in Heads /\ q[i] = Ahead(i) \o vs[i] /\ EndsIn(q[i], Closers)
  <2>1. i - 1 \in Nat
    OBVIOUS
  <2>2. Ahead(i) \in Heads
    BY <1>6, <1>8, <2>1 DEF Opened
  <2>3. q[i] = Ahead(i) \o vs[i]
    BY <1>12 DEF Behind
  <2>4. Ahead(i) \in Seq(Tokens)
    BY <2>2 DEF Heads
  <2>5. vs[i] \in Seq(Tokens) /\ EndsIn(vs[i], Closers)
    BY <1>2
  <2> HIDE DEF Ahead
  <2>6. QED BY <2>2, <2>3, <2>4, <2>5, EndOfConcat
<1> DEFINE Read(i, l) == A = B /\ i = l /\ \A k \in 1..i : ws[k] = vs[k]
           S == {i \in Nat : i <= n => \A l \in 0..m : p[i] = q[l] => Read(i, l)}
<1>16. 0 \in S
  <2>1. ASSUME NEW l \in 0..m, p[0] = q[l] PROVE Read(0, l)
    <3>1. l = 0
      <4>1. l # 0 => l \in 1..m
        OBVIOUS
      <4>2. QED BY <1>10, <1>13, <1>15, <2>1, <4>1
    <3>2. QED BY <1>13, <2>1, <3>1
  <2>2. QED BY <2>1
<1>17. ASSUME NEW i \in Nat, i \in S PROVE i + 1 \in S
  <2>1. SUFFICES ASSUME i + 1 <= n, NEW l \in 0..m, p[i + 1] = q[l]
                 PROVE  Read(i + 1, l)
    OBVIOUS
  <2>2. i + 1 \in 1..n /\ i <= n /\ (i + 1) - 1 = i
    BY <2>1
  <2>3. l \in 1..m
    <3>1. l # 0
      BY <1>10, <1>13, <1>14, <2>1, <2>2
    <3>2. QED BY <3>1
  <2>4. l - 1 \in 0..m /\ l - 1 \in Nat
    BY <2>3
  <2>5. Before(i + 1) = Ahead(l) /\ ws[i + 1] = vs[l]
    <3> HIDE DEF Before, Ahead
    <3>1. Before(i + 1) \in Heads /\ p[i + 1] = Before(i + 1) \o ws[i + 1]
      BY <1>14, <2>2
    <3>2. Ahead(l) \in Heads /\ q[l] = Ahead(l) \o vs[l]
      BY <1>15, <2>3
    <3>3. Before(i + 1) \o ws[i + 1] = Ahead(l) \o vs[l]
      BY <2>1, <3>1, <3>2
    <3>4. \A x, y \in Heads :
            x \o ws[i + 1] = y \o vs[l] => x = y /\ ws[i + 1] = vs[l]
      BY <1>3, <2>2, <2>3
    <3>5. QED BY <3>1, <3>2, <3>3, <3>4
  <2>6. CASE i + 1 = 1
    <3>1. l = 1 /\ A = B
      <4>1. Before(i + 1) = A
        BY <2>6 DEF Opened
      <4>2. CASE l # 1
        <5>1. Ahead(l) = Put(q[l - 1], "comma")
          BY <4>2 DEF Opened
        <5>2. q[l - 1] \in Seq(Tokens)
          BY <2>4
        <5>3. Put(q[l - 1], "comma") # A
          BY <1>8, <5>2
        <5> HIDE DEF Before, Ahead
        <5>4. QED BY <2>5, <4>1, <5>1, <5>3
      <4>3. CASE l = 1
        <5>1. Ahead(l) = B
          BY <4>3 DEF Opened
        <5> HIDE DEF Before, Ahead
        <5>2. QED BY <2>5, <4>1, <4>3, <5>1
      <4>4. QED BY <4>2, <4>3
    <3>2. i + 1 = l /\ \A k \in 1..(i + 1) : k = i + 1
      BY <2>6, <3>1
    <3>3. \A k \in 1..(i + 1) : ws[k] = vs[k]
      BY <2>5, <3>2
    <3>4. QED BY <3>1, <3>2, <3>3
  <2>7. CASE i + 1 # 1
    <3>1. Before(i + 1) = Put(p[i], "comma") /\ p[i] \in Seq(Tokens)
      BY <2>2, <2>7 DEF Opened
    <3>2. l # 1 /\ Ahead(l) = Put(q[l - 1], "comma") /\ q[l - 1] \in Seq(Tokens)
      <4>1. CASE l = 1
        <5>1. Ahead(l) = B
          BY <4>1 DEF Opened
        <5>2. Put(p[i], "comma") # B
          BY <1>8, <3>1
        <5> HIDE DEF Before, Ahead
        <5>3. QED BY <2>5, <3>1, <5>1, <5>2
      <4>2. CASE l # 1
        <5>1. Ahead(l) = Put(q[l - 1], "comma")
          BY <4>2 DEF Opened
        <5>2. q[l - 1] \in Seq(Tokens)
          BY <2>4
        <5>3. QED BY <4>2, <5>1, <5>2
      <4>3. QED BY <4>1, <4>2
    <3> HIDE DEF Before, Ahead
    <3>3. p[i] = q[l - 1]
      <4>1. Put(p[i], "comma") = Put(q[l - 1], "comma")
        BY <2>5, <3>1, <3>2
      <4>2. p[i] \in Seq(Tokens) /\ q[l - 1] \in Seq(Tokens) /\ "comma" \in Tokens
        BY <1>5, <3>1, <3>2
      <4>3. \A x, y \in Seq(Tokens) : Put(x, "comma") = Put(y, "comma") => x = y
        BY <1>5, LastToken
      <4>4. QED BY <4>1, <4>2, <4>3
    <3>4. Read(i, l - 1)
      <4> HIDE DEF Read
      <4>1. QED BY <1>17, <2>2, <2>4, <3>3
    <3>5. i + 1 = l
      BY <2>3, <3>4
    <3>6. \A k \in 1..(i + 1) : k \in 1..i \/ k = i + 1
      OBVIOUS
    <3>7. QED BY <2>5, <3>4, <3>5, <3>6
  <2>8. QED BY <2>6, <2>7
<1> HIDE DEF Read
<1>18. Nat \subseteq S
  <2> HIDE DEF S
  <2>1. QED BY <1>16, <1>17, SetInduction
<1>19. p[n] = q[m]
  BY <1>13, <1>4 DEF A, B
<1>20. Read(n, m)
  <2>1. n <= n /\ m \in 0..m
    OBVIOUS
  <2>2. QED BY <1>18, <1>19, <2>1
<1>21. QED BY <1>1, <1>7, <1>20, <1>2 DEF Read

-----------------------------------------------------------------------------
(***************************************************************************)
(* The texts of values                                                     *)
(***************************************************************************)
LEMMA MarksAreTokens ==
  /\ Marks \subseteq Tokens /\ Characters \subseteq Tokens
  /\ \A t \in Marks : t \notin Characters
  /\ Literals \subseteq Marks /\ "quote" \in Marks /\ "comma" \in Marks /\ "colon" \in Marks
  /\ "arrayStart" \in Marks /\ "arrayEnd" \in Marks
  /\ "objectStart" \in Marks /\ "objectEnd" \in Marks
  BY HashAssumption DEF Tokens, Marks

\* Behind h, what a pair of marks encloses is read behind the first of them.
LEMMA Enclosed ==
  \A h, x \in Seq(Tokens), t, u \in Tokens :
    /\ <<t>> \o x \o <<u>> \in Seq(Tokens)
    /\ EndsIn(<<t>> \o x \o <<u>>, {u})
    /\ h \o (<<t>> \o x \o <<u>>) = Put(Put(h, t) \o x, u)
    /\ Put(h, t) \o x \in Seq(Tokens)
<1>1. SUFFICES ASSUME NEW h \in Seq(Tokens), NEW x \in Seq(Tokens),
                      NEW t \in Tokens, NEW u \in Tokens
               PROVE  /\ <<t>> \o x \o <<u>> \in Seq(Tokens)
                      /\ EndsIn(<<t>> \o x \o <<u>>, {u})
                      /\ h \o (<<t>> \o x \o <<u>>) = Put(Put(h, t) \o x, u)
                      /\ Put(h, t) \o x \in Seq(Tokens)
  OBVIOUS
<1> DEFINE one == <<t>>
           whole == <<t>> \o x \o <<u>>
<1>2. one \in Seq(Tokens)
  BY Concat
<1>3. whole = Put(one \o x, u) /\ Put(h, t) = h \o one
  BY DEF Put
<1> HIDE DEF one
<1>4. one \o x \in Seq(Tokens) /\ h \o one \in Seq(Tokens)
  BY <1>2, Concat
<1>5. h \o (one \o x) = (h \o one) \o x
  BY <1>2, ConcatThree
<1> HIDE DEF whole
<1>6. whole \in Seq(Tokens) /\ EndsIn(whole, {u})
  BY <1>3, <1>4, LastToken
<1>7. h \o whole = Put(h \o (one \o x), u)
  BY <1>3, <1>4, ConcatPut
<1>8. Put(h, t) \o x \in Seq(Tokens)
  BY <1>3, <1>4, Concat
<1>9. QED BY <1>3, <1>5, <1>6, <1>7, <1>8 DEF whole

LEMMA JoinedIn ==
  \A n \in Nat : \A ws \in [1..n -> Seq(Tokens)] : Joined(ws) \in Seq(Tokens)
<1>1. ASSUME NEW n \in Nat, NEW ws \in [1..n -> Seq(Tokens)]
      PROVE  Joined(ws) \in Seq(Tokens)
  <2>1. PICK g \in [Nat -> Seq(Tokens)] : Joined(ws) = g[n]
    BY JoinedSteps
  <2>2. QED BY <2>1
<1>2. QED BY <1>1

\* Behind h, a member of an object is read behind its name.
NameText(k) == <<"quote", k, "quote", "colon">>

LEMMA NameRead ==
  \A h \in Seq(Tokens), k \in ToSet(KeyOrder) :
    /\ NameText(k) \in Seq(Tokens)
    /\ h \o NameText(k) \in Heads
    /\ \A g \in Seq(Tokens), l \in ToSet(KeyOrder) :
         h \o NameText(k) = g \o NameText(l) => h = g /\ k = l
<1> DEFINE Q == "quote"
           C == "colon"
           One(t) == <<t>>
           Named(k) == Put(Put(Put(One(Q), k), Q), C)
<1>1. \A k : NameText(k) = Named(k)
  BY DEF NameText, Put
<1>2. ToSet(KeyOrder) \subseteq Tokens /\ Q \in Tokens /\ C \in Tokens /\ C \notin Characters
  BY MarksAreTokens DEF Tokens
<1> HIDE DEF Q, C
<1>3. One(Q) \in Seq(Tokens) /\ \A h \in Seq(Tokens) : h \o One(Q) = Put(h, Q)
  BY <1>2, Concat DEF Put
<1> HIDE DEF One
<1>4. ASSUME NEW h \in Seq(Tokens), NEW k \in ToSet(KeyOrder)
      PROVE  /\ Named(k) \in Seq(Tokens)
             /\ h \o Named(k) = Put(Put(Put(Put(h, Q), k), Q), C)
             /\ Put(h, Q) \in Seq(Tokens) /\ Put(Put(h, Q), k) \in Seq(Tokens)
             /\ Put(Put(Put(h, Q), k), Q) \in Seq(Tokens)
  <2>1. k \in Tokens /\ Q \in Tokens /\ C \in Tokens
    BY <1>2
  <2> DEFINE n1 == Put(One(Q), k)
             n2 == Put(n1, Q)
  <2>2. n1 \in Seq(Tokens) /\ n2 \in Seq(Tokens) /\ Named(k) \in Seq(Tokens)
    BY <1>3, <2>1, PutIn
  <2>3. h \o Named(k) = Put(h \o n2, C)
    <3> HIDE DEF n2
    <3>1. h \o Put(n2, C) = Put(h \o n2, C)
      BY <2>1, <2>2, ConcatPut
    <3>2. QED BY <3>1 DEF n2
  <2>4. h \o n2 = Put(h \o n1, Q)
    <3> HIDE DEF n1
    <3>1. QED BY <2>1, <2>2, ConcatPut
  <2>5. h \o n1 = Put(h \o One(Q), k)
    BY <1>3, <2>1, ConcatPut
  <2>6. h \o Named(k) = Put(Put(Put(Put(h, Q), k), Q), C)
    <3> HIDE DEF n1, n2, Named
    <3>1. QED BY <1>3, <2>3, <2>4, <2>5
  <2>7. Put(h, Q) \in Seq(Tokens)
    BY <2>1, LastToken
  <2>8. Put(Put(h, Q), k) \in Seq(Tokens)
    BY <2>1, <2>7, LastToken
  <2>9. Put(Put(Put(h, Q), k), Q) \in Seq(Tokens)
    BY <2>1, <2>8, LastToken
  <2>10. QED BY <2>2, <2>7, <2>8, <2>9, <2>6
<1> HIDE DEF Named
<1>5. ASSUME NEW h \in Seq(Tokens), NEW k \in ToSet(KeyOrder)
      PROVE  h \o Named(k) \in Heads
  <2> DEFINE x == Put(Put(Put(h, Q), k), Q)
  <2>1. x \in Seq(Tokens) /\ h \o Named(k) = Put(x, C)
    BY <1>4
  <2>2. C \in Tokens /\ C \notin Characters
    BY <1>2
  <2> HIDE DEF x
  <2>3. Put(x, C) \in Heads
    BY <2>1, <2>2, PutHead
  <2>4. QED BY <2>1, <2>3
<1>6. ASSUME NEW h \in Seq(Tokens), NEW k \in ToSet(KeyOrder),
             NEW g \in Seq(Tokens), NEW l \in ToSet(KeyOrder), h \o Named(k) = g \o Named(l)
      PROVE  h = g /\ k = l
  <2>1. k \in Tokens /\ l \in Tokens /\ Q \in Tokens /\ C \in Tokens
    BY <1>2
  <2> DEFINE x1 == Put(h, Q)
             x2 == Put(x1, k)
             x3 == Put(x2, Q)
             y1 == Put(g, Q)
             y2 == Put(y1, l)
             y3 == Put(y2, Q)
  <2>2. /\ x1 \in Seq(Tokens) /\ x2 \in Seq(Tokens) /\ x3 \in Seq(Tokens)
        /\ y1 \in Seq(Tokens) /\ y2 \in Seq(Tokens) /\ y3 \in Seq(Tokens)
    BY <1>4
  <2>3. Put(x3, C) = Put(y3, C)
    <3>1. h \o Named(k) = Put(x3, C) /\ g \o Named(l) = Put(y3, C)
      BY <1>4
    <3>2. QED BY <1>6, <3>1
  <2>4. x3 = y3
    <3> HIDE DEF x3, y3
    <3>1. QED BY <2>1, <2>2, <2>3, PutEqual
  <2>5. x2 = y2
    <3> HIDE DEF x2, y2
    <3>1. QED BY <2>1, <2>2, <2>4, PutEqual
  <2>6. x1 = y1 /\ k = l
    <3> HIDE DEF x1, y1
    <3>1. QED BY <2>1, <2>2, <2>5, PutEqual
  <2>7. QED BY <2>1, <2>6, PutEqual
<1>7. ASSUME NEW h \in Seq(Tokens), NEW k \in ToSet(KeyOrder)
      PROVE  /\ NameText(k) \in Seq(Tokens)
             /\ h \o NameText(k) \in Heads
             /\ \A g \in Seq(Tokens), l \in ToSet(KeyOrder) :
                  h \o NameText(k) = g \o NameText(l) => h = g /\ k = l
  <2>1. NameText(k) \in Seq(Tokens) /\ h \o NameText(k) \in Heads
    BY <1>1, <1>4, <1>5
  <2>2. ASSUME NEW g \in Seq(Tokens), NEW l \in ToSet(KeyOrder),
               h \o NameText(k) = g \o NameText(l)
        PROVE  h = g /\ k = l
    <3>1. h \o Named(k) = g \o Named(l)
      BY <1>1, <2>2
    <3>2. QED BY <1>6, <3>1
  <2>3. QED BY <2>1, <2>2
<1>8. QED BY <1>7

Shut(t, x, u) == <<t>> \o x \o <<u>>

LEMMA ShutBehind ==
  \A h, x \in Seq(Tokens), t, u \in Tokens :
    /\ Cat(h, Shut(t, x, u)) = Put(Cat(Put(h, t), x), u)
    /\ Cat(Put(h, t), x) \in Seq(Tokens)
<1>1. SUFFICES ASSUME NEW h \in Seq(Tokens), NEW x \in Seq(Tokens),
                      NEW t \in Tokens, NEW u \in Tokens
               PROVE  /\ Cat(h, Shut(t, x, u)) = Put(Cat(Put(h, t), x), u)
                      /\ Cat(Put(h, t), x) \in Seq(Tokens)
  OBVIOUS
<1>2. /\ h \o (<<t>> \o x \o <<u>>) = Put(Put(h, t) \o x, u)
      /\ Put(h, t) \o x \in Seq(Tokens)
  BY Enclosed
<1>3. QED BY <1>2, Zenon DEF Cat, Shut

\* Behind h and behind g the same text in marks: the same within them.
LEMMA ShutRead ==
  ASSUME NEW h \in Seq(Tokens), NEW g \in Seq(Tokens), NEW x \in Seq(Tokens),
         NEW y \in Seq(Tokens), NEW t \in Tokens, NEW u \in Tokens,
         Cat(h, Shut(t, x, u)) = Cat(g, Shut(t, y, u))
  PROVE  Cat(Put(h, t), x) = Cat(Put(g, t), y)
<1> DEFINE a == Cat(Put(h, t), x)
           b == Cat(Put(g, t), y)
<1>1. a \in Seq(Tokens) /\ Cat(h, Shut(t, x, u)) = Put(a, u)
  BY ShutBehind
<1>2. b \in Seq(Tokens) /\ Cat(g, Shut(t, y, u)) = Put(b, u)
  BY ShutBehind
<1> HIDE DEF a, b
<1>3. Put(a, u) = Put(b, u)
  BY <1>1, <1>2
<1>4. a = b
  BY <1>1, <1>2, <1>3, PutEqual
<1>5. QED BY <1>4 DEF a, b

LEMMA NameCat ==
  \A h \in Seq(Tokens), k \in ToSet(KeyOrder) :
    /\ Cat(h, NameText(k)) \in Heads
    /\ \A x \in Seq(Tokens) : Cat(h, Cat(NameText(k), x)) = Cat(Cat(h, NameText(k)), x)
    /\ \A g \in Seq(Tokens), l \in ToSet(KeyOrder) :
         Cat(h, NameText(k)) = Cat(g, NameText(l)) => h = g /\ k = l
<1>1. SUFFICES ASSUME NEW h \in Seq(Tokens), NEW k \in ToSet(KeyOrder)
               PROVE  /\ Cat(h, NameText(k)) \in Heads
                      /\ \A x \in Seq(Tokens) :
                           Cat(h, Cat(NameText(k), x)) = Cat(Cat(h, NameText(k)), x)
                      /\ \A g \in Seq(Tokens), l \in ToSet(KeyOrder) :
                           Cat(h, NameText(k)) = Cat(g, NameText(l)) => h = g /\ k = l
  OBVIOUS
<1>2. NameText(k) \in Seq(Tokens) /\ Cat(h, NameText(k)) \in Heads
  BY NameRead DEF Cat
<1>3. ASSUME NEW x \in Seq(Tokens)
      PROVE  Cat(h, Cat(NameText(k), x)) = Cat(Cat(h, NameText(k)), x)
  BY <1>2, ConcatThree DEF Cat
<1>4. \A g \in Seq(Tokens), l \in ToSet(KeyOrder) :
        Cat(h, NameText(k)) = Cat(g, NameText(l)) => h = g /\ k = l
  BY Zenon, NameRead DEF Cat
<1>5. QED BY <1>2, <1>3, <1>4

\* The text of a value is never empty, and ends in a token that closes it.
Written(j) == StableStringify[j] \in Seq(Tokens) /\ EndsIn(StableStringify[j], Closers)

LEMMA ItemsWritten ==
  ASSUME NEW V \in SUBSET Json, \A v \in V : Written(v),
         NEW j, j.items \in Seq(V)
  PROVE  LET ws == ItemTexts(j, StableStringify)
         IN  /\ Len(j.items) \in Nat
             /\ ws \in [1..Len(j.items) -> Seq(Tokens)]
             /\ \A i \in 1..Len(j.items) :
                  /\ j.items[i] \in V /\ ws[i] = StableStringify[j.items[i]]
                  /\ EndsIn(ws[i], Closers)
  BY DEF ItemTexts, Written

LEMMA MembersWritten ==
  ASSUME NEW V \in SUBSET Json, \A v \in V : Written(v),
         NEW j \in Objects(V)
  PROVE  LET ws == MemberTexts(j, StableStringify)
             sorted == Sorted(j.fields)
         IN  /\ Len(sorted) \in Nat /\ DOMAIN sorted = 1..Len(sorted)
             /\ ws \in [1..Len(sorted) -> Seq(Tokens)]
             /\ \A i \in 1..Len(sorted) :
                  /\ sorted[i] \in Names(j.fields) /\ sorted[i] \in ToSet(KeyOrder)
                  /\ ValueAt(j.fields, sorted[i]) \in V
                  /\ ws[i] = NameText(sorted[i]) \o StableStringify[ValueAt(j.fields, sorted[i])]
                  /\ EndsIn(ws[i], Closers)
<1> DEFINE ws == MemberTexts(j, StableStringify)
           sorted == Sorted(j.fields)
<1>1. Len(sorted) \in Nat /\ DOMAIN sorted = 1..Len(sorted)
      /\ \A i \in 1..Len(sorted) : sorted[i] \in Names(j.fields)
  BY SortedNames, LenProperties, ElementOfSeq
<1>2. \A i \in 1..Len(sorted) :
        sorted[i] \in ToSet(KeyOrder) /\ ValueAt(j.fields, sorted[i]) \in V
  BY <1>1, NamesFinite, MemberValues
<1>3. ws = [i \in DOMAIN sorted |->
              NameText(sorted[i]) \o StableStringify[ValueAt(j.fields, sorted[i])]]
  BY DEF MemberTexts, NameText
<1> HIDE DEF ws, sorted
<1>4. ASSUME NEW i \in 1..Len(sorted)
      PROVE  /\ ws[i] = NameText(sorted[i]) \o StableStringify[ValueAt(j.fields, sorted[i])]
             /\ ws[i] \in Seq(Tokens) /\ EndsIn(ws[i], Closers)
  <2>1. ws[i] = NameText(sorted[i]) \o StableStringify[ValueAt(j.fields, sorted[i])]
    BY <1>1, <1>3
  <2>2. Written(ValueAt(j.fields, sorted[i]))
    BY <1>2
  <2>3. NameText(sorted[i]) \in Seq(Tokens)
    BY <1>2, NameRead, EmptySeq
  <2>4. QED BY <2>1, <2>2, <2>3, Concat, EndOfConcat DEF Written
<1>5. ws \in [1..Len(sorted) -> Seq(Tokens)]
  BY <1>1, <1>3, <1>4
<1>6. QED BY <1>1, <1>2, <1>4, <1>5 DEF ws, sorted

LEMMA AllWritten == \A j \in Json : Written(j)
<1> DEFINE S == {j \in Json : Written(j)}
<1>1. ASSUME NEW V \in SUBSET Json, V \subseteq S, NEW j \in Nested(V), j \in Json
      PROVE  Written(j)
  <2>1. \A v \in V : Written(v)
    BY <1>1
  <2>2. \A n \in Nat : \A ws \in [1..n -> Seq(Tokens)] : Joined(ws) \in Seq(Tokens)
    BY JoinedIn
  <2>3. \A x \in Seq(Tokens), t \in Tokens, u \in Tokens \cap Closers :
          <<t>> \o x \o <<u>> \in Seq(Tokens) /\ EndsIn(<<t>> \o x \o <<u>>, Closers)
    <3>1. <<>> \in Seq(Tokens)
      BY EmptySeq
    <3>2. \A s, u : EndsIn(s, {u}) /\ u \in Closers => EndsIn(s, Closers)
      BY DEF EndsIn
    <3>3. QED BY <3>1, <3>2, Enclosed
  <2>4. Literals \cup {"quote", "arrayEnd", "objectEnd"} \subseteq Tokens \cap Closers
    BY MarksAreTokens DEF Closers
  <2>5. CASE Kind(j) \in Literals
    <3> DEFINE one == <<Kind(j)>>
    <3>1. one \in Seq(Tokens) /\ EndsIn(one, Closers)
      BY <2>4, <2>5 DEF EndsIn
    <3>2. StableStringify[j] = one
      BY <1>1, <2>5, TextOfKind
    <3> HIDE DEF one
    <3>3. QED BY <3>1, <3>2 DEF Written
  <2>6. CASE Kind(j) = "number" /\ j.digits \in Seq(Characters) \ {<<>>}
    <3>1. j.digits \in Seq(Tokens)
      BY <2>6, MarksAreTokens, SeqMonotonic
    <3>2. EndsIn(j.digits, Closers)
      BY <2>6 DEF EndsIn, Closers
    <3>3. StableStringify[j] = j.digits
      BY <1>1, <2>6, TextOfKind
    <3>4. QED BY <3>1, <3>2, <3>3 DEF Written
  <2>7. CASE Kind(j) = "text" /\ j.chars \in Seq(Characters)
    <3>1. j.chars \in Seq(Tokens)
      BY <2>7, MarksAreTokens, SeqMonotonic
    <3>2. StableStringify[j] = <<"quote">> \o j.chars \o <<"quote">>
      BY <1>1, <2>7, TextOfKind
    <3>3. QED BY <2>3, <2>4, <3>1, <3>2, MarksAreTokens DEF Written
  <2>8. CASE Kind(j) = "array" /\ j.items \in Seq(V)
    <3>1. Joined(ItemTexts(j, StableStringify)) \in Seq(Tokens)
      BY <2>1, <2>2, <2>8, ItemsWritten
    <3>2. StableStringify[j] =
            <<"arrayStart">> \o Joined(ItemTexts(j, StableStringify)) \o <<"arrayEnd">>
      BY <1>1, <2>8, TextOfKind
    <3>3. QED BY <2>3, <2>4, <3>1, <3>2, MarksAreTokens DEF Written
  <2>9. CASE Kind(j) = "object" /\ j \in Objects(V)
    <3>1. Joined(MemberTexts(j, StableStringify)) \in Seq(Tokens)
      BY <2>1, <2>2, <2>9, MembersWritten
    <3>2. StableStringify[j] =
            <<"objectStart">> \o Joined(MemberTexts(j, StableStringify)) \o <<"objectEnd">>
      BY <1>1, <2>9, TextOfKind
    <3>3. QED BY <2>3, <2>4, <3>1, <3>2, MarksAreTokens DEF Written
  <2>10. QED BY <1>1, <2>5, <2>6, <2>7, <2>8, <2>9, Kinds
<1>2. \A V \in SUBSET Json : V \subseteq S => Nested(V) \cap Json \subseteq S
  BY <1>1
<1> HIDE DEF S
<1>3. Json \subseteq S
  BY <1>2, JsonInduction
<1>4. QED BY <1>3 DEF S

-----------------------------------------------------------------------------
(***************************************************************************)
(* Reading a text back, from its end                                       *)
(***************************************************************************)
\* The last token of a text tells the kind of the value.
Closes(e, j) ==
  /\ Kind(j) \in Literals => e = Kind(j)
  /\ Kind(j) = "number" => e \in Characters
  /\ Kind(j) = "text" => e = "quote"
  /\ Kind(j) = "array" => e = "arrayEnd"
  /\ Kind(j) = "object" => e = "objectEnd"

LEMMA LastTokenOfText ==
  ASSUME NEW j \in Json
  PROVE  LET text == StableStringify[j] IN Closes(text[Len(text)], j)
<1> DEFINE text == StableStringify[j]
<1>1. j \in Nested(Json)
  BY JsonIsNested
<1>2. \A v \in Json : Written(v)
  BY AllWritten
<1>3. \A n \in Nat : \A ws \in [1..n -> Seq(Tokens)] : Joined(ws) \in Seq(Tokens)
  BY JoinedIn
<1>4. \A x \in Seq(Tokens), t, u \in Tokens : EndsIn(<<t>> \o x \o <<u>>, {u})
  <2>1. <<>> \in Seq(Tokens)
    BY EmptySeq
  <2>2. QED BY <2>1, Enclosed
<1>5. \A t \in Marks : t \in Tokens
  BY MarksAreTokens
<1>6. CASE Kind(j) \in Literals
  <2>1. text = <<Kind(j)>> /\ Kind(j) \notin {"number", "text", "array", "object"}
    BY <1>6, TextOfKind DEF Literals
  <2>2. QED BY <1>6, <2>1 DEF Closes
<1>7. CASE Kind(j) = "number" /\ j.digits \in Seq(Characters) \ {<<>>}
  <2>1. text = j.digits
    BY <1>7, TextOfKind
  <2>2. text[Len(text)] \in Characters
    BY <1>7, <2>1
  <2>3. QED BY <1>7, <2>2 DEF Closes, Literals
<1>8. CASE Kind(j) = "text" /\ j.chars \in Seq(Characters)
  <2>1. j.chars \in Seq(Tokens)
    BY <1>8, MarksAreTokens, SeqMonotonic
  <2>2. text = <<"quote">> \o j.chars \o <<"quote">>
    BY <1>8, TextOfKind
  <2>3. EndsIn(text, {"quote"})
    BY <1>4, <1>5, <2>1, <2>2, MarksAreTokens
  <2>4. QED BY <1>8, <2>3 DEF Closes, EndsIn, Literals
<1>9. CASE Kind(j) = "array" /\ j.items \in Seq(Json)
  <2>1. Joined(ItemTexts(j, StableStringify)) \in Seq(Tokens)
    BY <1>2, <1>3, <1>9, ItemsWritten
  <2>2. text = <<"arrayStart">> \o Joined(ItemTexts(j, StableStringify)) \o <<"arrayEnd">>
    BY <1>9, TextOfKind
  <2>3. EndsIn(text, {"arrayEnd"})
    BY <1>4, <1>5, <2>1, <2>2, MarksAreTokens
  <2>4. QED BY <1>9, <2>3 DEF Closes, EndsIn, Literals
<1>10. CASE Kind(j) = "object" /\ j \in Objects(Json)
  <2>1. Joined(MemberTexts(j, StableStringify)) \in Seq(Tokens)
    BY <1>2, <1>3, <1>10, MembersWritten
  <2>2. text = <<"objectStart">> \o Joined(MemberTexts(j, StableStringify)) \o <<"objectEnd">>
    BY <1>10, TextOfKind
  <2>3. EndsIn(text, {"objectEnd"})
    BY <1>4, <1>5, <2>1, <2>2, MarksAreTokens
  <2>4. QED BY <1>10, <2>3 DEF Closes, EndsIn, Literals
<1>11. QED BY <1>1, <1>6, <1>7, <1>8, <1>9, <1>10, Kinds

\* Behind h and behind g the same text: values of the same kind.
LEMMA SameKind ==
  ASSUME NEW j \in Json, NEW k \in Json, NEW h \in Seq(Tokens), NEW g \in Seq(Tokens),
         h \o StableStringify[j] = g \o StableStringify[k]
  PROVE  Kind(j) = Kind(k)
<1> DEFINE s == StableStringify[j]
           t == StableStringify[k]
<1>1. s \in Seq(Tokens) /\ s # <<>> /\ t \in Seq(Tokens) /\ t # <<>>
  BY AllWritten DEF Written, EndsIn
<1>2. Closes(s[Len(s)], j) /\ Closes(t[Len(t)], k)
  BY LastTokenOfText
<1> HIDE DEF s, t
<1>3. EndsIn(s, {s[Len(s)]}) /\ EndsIn(t, {t[Len(t)]})
  BY <1>1 DEF EndsIn
<1>4. EndsIn(h \o s, {s[Len(s)]}) /\ EndsIn(g \o t, {t[Len(t)]})
  BY <1>1, <1>3, EndOfConcat
<1>5. h \o s = g \o t
  BY DEF s, t
<1>6. s[Len(s)] = t[Len(t)]
  BY <1>4, <1>5 DEF EndsIn
<1>7. /\ Kind(j) \in Literals \cup {"number", "text", "array", "object"}
      /\ Kind(k) \in Literals \cup {"number", "text", "array", "object"}
  <2>1. j \in Nested(Json) /\ k \in Nested(Json)
    BY JsonIsNested
  <2>2. QED BY <2>1, Kinds
<1>8. \A e \in Characters : e \notin Literals /\ e \notin {"quote", "arrayEnd", "objectEnd"}
  BY MarksAreTokens
<1>9. Literals \cap {"quote", "arrayEnd", "objectEnd"} = {}
  BY DEF Literals
<1> HIDE DEF s, t
<1>10. QED BY <1>2, <1>6, <1>7, <1>8, <1>9 DEF Closes

\* The text of j is read back to what stands before it, and means what j means.
Readable(j) ==
  \A k \in Json, h, g \in Heads :
    Cat(h, StableStringify[j]) = Cat(g, StableStringify[k]) =>
      h = g /\ StableStringify[j] = StableStringify[k] /\ Meaning[j] = Meaning[k]

LEMMA ReadScalar ==
  ASSUME NEW j \in Json, NEW k \in Json, Kind(j) = Kind(k),
         Kind(j) \in ScalarKinds,
         NEW h \in Heads, NEW g \in Heads,
         Cat(h, StableStringify[j]) = Cat(g, StableStringify[k])
  PROVE  h = g /\ ScalarMeaning(j) = ScalarMeaning(k)
<1>1. j \in Nested(Json) /\ k \in Nested(Json)
  BY JsonIsNested
<1>2. h \in Seq(Tokens) /\ g \in Seq(Tokens)
  BY DEF Heads
<1>3. h \o StableStringify[j] = g \o StableStringify[k]
  BY DEF Cat
<1>4. CASE Kind(j) \in Literals
  <2> DEFINE N == Kind(j)
  <2>1. StableStringify[j] = <<N>> /\ StableStringify[k] = <<N>>
    BY <1>4, TextOfKind
  <2>2. N \in Tokens
    BY <1>4, MarksAreTokens
  <2> HIDE DEF N
  <2>3. Put(h, N) = Put(g, N)
    BY <1>3, <2>1 DEF Put
  <2>4. h = g
    BY <1>2, <2>2, <2>3, PutEqual
  <2>5. ScalarMeaning(j) = [tag |-> Kind(j)] /\ ScalarMeaning(k) = [tag |-> Kind(k)]
    BY <1>1, <1>4, Kinds DEF Literals
  <2>6. QED BY <2>4, <2>5
<1>5. CASE Kind(j) = "number"
  <2> DEFINE x == j.digits
             y == k.digits
  <2>1. /\ x \in Seq(Characters) /\ ScalarMeaning(j) = [tag |-> "number", digits |-> x]
        /\ y \in Seq(Characters) /\ ScalarMeaning(k) = [tag |-> "number", digits |-> y]
    BY <1>1, <1>5, Kinds
  <2>2. StableStringify[j] = x /\ StableStringify[k] = y
    BY <1>5, TextOfKind
  <2> HIDE DEF x, y
  <2>3. h \o x = g \o y
    BY <1>3, <2>2
  <2>4. h = g /\ x = y
    <3>1. x \in Seq(Characters) /\ y \in Seq(Characters)
      BY <2>1
    <3>2. \A u, v \in Seq(Characters) : h \o u = g \o v => h = g /\ u = v
      BY Spans
    <3>3. h \o x = g \o y => h = g /\ x = y
      BY <3>1, <3>2
    <3>4. QED BY <2>3, <3>3
  <2>5. QED BY <2>1, <2>4
<1>6. CASE Kind(j) = "text"
  <2> DEFINE x == j.chars
             y == k.chars
             Q == "quote"
  <2>1. /\ x \in Seq(Characters) /\ ScalarMeaning(j) = [tag |-> "text", chars |-> x]
        /\ y \in Seq(Characters) /\ ScalarMeaning(k) = [tag |-> "text", chars |-> y]
    BY <1>1, <1>6, Kinds
  <2>2. StableStringify[j] = <<Q>> \o x \o <<Q>> /\ StableStringify[k] = <<Q>> \o y \o <<Q>>
    BY <1>6, TextOfKind
  <2>3. Q \in Tokens /\ Q \notin Characters
    BY MarksAreTokens
  <2> HIDE DEF x, y, Q
  <2>4. x \in Seq(Tokens) /\ y \in Seq(Tokens)
    BY <2>1, MarksAreTokens, SeqMonotonic
  <2> DEFINE a == Put(h, Q)
             b == Put(g, Q)
  <2>5. a \o x \in Seq(Tokens) /\ b \o y \in Seq(Tokens) /\ Put(a \o x, Q) = Put(b \o y, Q)
    <3>1. h \o (<<Q>> \o x \o <<Q>>) = Put(a \o x, Q) /\ a \o x \in Seq(Tokens)
      BY <1>2, <2>3, <2>4, Enclosed
    <3>2. g \o (<<Q>> \o y \o <<Q>>) = Put(b \o y, Q) /\ b \o y \in Seq(Tokens)
      BY <1>2, <2>3, <2>4, Enclosed
    <3> HIDE DEF a, b
    <3>3. QED BY <1>3, <2>2, <3>1, <3>2
  <2>6. a \in Heads /\ b \in Heads
    BY <1>2, <2>3, PutHead
  <2>7. a = b => h = g
    BY <1>2, <2>3, PutEqual
  <2> HIDE DEF a, b
  <2>8. a \o x = b \o y
    BY <2>3, <2>5, PutEqual
  <2>9. a = b /\ x = y
    <3>1. x \in Seq(Characters) /\ y \in Seq(Characters)
      BY <2>1
    <3>2. \A u, v \in Seq(Characters) : a \o u = b \o v => a = b /\ u = v
      BY <2>6, Spans
    <3>3. a \o x = b \o y => a = b /\ x = y
      BY <3>1, <3>2
    <3>4. QED BY <2>8, <3>3
  <2>10. QED BY <2>1, <2>7, <2>9
<1>7. QED BY <1>4, <1>5, <1>6 DEF ScalarKinds

\* What means the same is written the same.
LEMMA ScalarTexts ==
  ASSUME NEW j \in Json, NEW k \in Json, Kind(j) = Kind(k), Kind(j) \in ScalarKinds,
         ScalarMeaning(j) = ScalarMeaning(k)
  PROVE  StableStringify[j] = StableStringify[k]
<1>1. j \in Nested(Json) /\ k \in Nested(Json)
  BY JsonIsNested
<1>2. CASE Kind(j) \in Literals
  BY <1>2, TextOfKind
<1>3. CASE Kind(j) = "number"
  <2>1. ScalarMeaning(j).digits = j.digits /\ ScalarMeaning(k).digits = k.digits
    BY <1>3 DEF ScalarMeaning, Kind
  <2>2. QED BY <1>3, <2>1, TextOfKind
<1>4. CASE Kind(j) = "text"
  <2>1. ScalarMeaning(j).chars = j.chars /\ ScalarMeaning(k).chars = k.chars
    BY <1>4 DEF ScalarMeaning, Kind
  <2>2. QED BY <1>4, <2>1, TextOfKind
<1>5. QED BY <1>2, <1>3, <1>4 DEF ScalarKinds

\* An array is read back when its items are.
LEMMA ReadArray ==
  ASSUME NEW V \in SUBSET Json, \A v \in V : Readable(v),
         NEW j \in Json, Kind(j) = "array", j.items \in Seq(V),
         NEW k \in Json, Kind(k) = "array", k.items \in Seq(Json),
         NEW h \in Heads, NEW g \in Heads,
         Cat(h, StableStringify[j]) = Cat(g, StableStringify[k])
  PROVE  h = g /\ StableStringify[j] = StableStringify[k] /\ Meaning[j] = Meaning[k]
<1> DEFINE ws == ItemTexts(j, StableStringify)
           vs == ItemTexts(k, StableStringify)
           n == Len(j.items)
           m == Len(k.items)
           Start == "arrayStart"
           End == "arrayEnd"
<1>1. h \in Seq(Tokens) /\ g \in Seq(Tokens)
  BY DEF Heads
<1>2. /\ n \in Nat /\ ws \in [1..n -> Seq(Tokens)]
      /\ \A i \in 1..n : /\ j.items[i] \in V /\ ws[i] = StableStringify[j.items[i]]
                         /\ EndsIn(ws[i], Closers)
  BY AllWritten, ItemsWritten
<1>3. /\ m \in Nat /\ vs \in [1..m -> Seq(Tokens)]
      /\ \A i \in 1..m : /\ k.items[i] \in Json /\ vs[i] = StableStringify[k.items[i]]
                         /\ EndsIn(vs[i], Closers)
  BY AllWritten, ItemsWritten
<1>4. /\ StableStringify[j] = Shut(Start, Joined(ws), End)
      /\ StableStringify[k] = Shut(Start, Joined(vs), End)
  BY TextOfKind DEF Shut
<1>5. Start \in Tokens /\ End \in Tokens /\ Start \in {"arrayStart", "objectStart"}
  BY MarksAreTokens
<1>6. DOMAIN j.items = 1..n /\ DOMAIN k.items = 1..m
  OBVIOUS
<1>7. /\ Meaning[j] = [tag |-> "array", items |-> ItemMeanings(j, Meaning)]
      /\ Meaning[k] = [tag |-> "array", items |-> ItemMeanings(k, Meaning)]
  BY MeaningOfKind
<1> HIDE DEF ws, vs, n, m, Start, End
<1>8. Joined(ws) \in Seq(Tokens) /\ Joined(vs) \in Seq(Tokens)
  BY <1>2, <1>3, JoinedIn
<1>9. Cat(Put(h, Start), Joined(ws)) = Cat(Put(g, Start), Joined(vs))
  BY <1>1, <1>4, <1>5, <1>8, ShutRead
<1>10. ASSUME NEW i \in 1..n, NEW l \in 1..m, NEW a \in Heads, NEW b \in Heads,
             Cat(a, ws[i]) = Cat(b, vs[l])
      PROVE  a = b /\ ws[i] = vs[l] /\ Meaning[j.items[i]] = Meaning[k.items[l]]
  <2>1. Cat(a, StableStringify[j.items[i]]) = Cat(b, StableStringify[k.items[l]])
    BY <1>2, <1>3, <1>10
  <2>2. Readable(j.items[i]) /\ k.items[l] \in Json
    BY <1>2, <1>3
  <2>3. QED BY <1>2, <1>3, <2>1, <2>2 DEF Readable
<1>11. h = g /\ n = m /\ ws = vs
  <2>1. ToldApart(ws, n, vs, m)
    BY <1>10 DEF ToldApart
  <2>2. n \in Nat /\ ws \in Texts(n) /\ m \in Nat /\ vs \in Texts(m)
    BY <1>2, <1>3 DEF Texts
  <2>3. QED BY <1>1, <1>5, <1>9, <2>1, <2>2, JoinedRead
<1>12. \A i \in 1..n : Meaning[j.items[i]] = Meaning[k.items[i]]
  <2>1. ASSUME NEW i \in 1..n PROVE Meaning[j.items[i]] = Meaning[k.items[i]]
    <3>1. <<>> \in Heads
      BY EmptySeq DEF Heads
    <3>2. i \in 1..m /\ Cat(<<>>, ws[i]) = Cat(<<>>, vs[i])
      BY <1>11
    <3>3. QED BY <1>10, <3>1, <3>2
  <2>2. QED BY <2>1
<1>13. ItemMeanings(j, Meaning) = ItemMeanings(k, Meaning)
  BY <1>11, <1>12, <1>6 DEF ItemMeanings
<1>14. QED BY <1>4, <1>7, <1>11, <1>13

\* An object is read back when the values of its members are.
LEMMA ReadObject ==
  ASSUME NEW V \in SUBSET Json, \A v \in V : Readable(v),
         NEW j \in Json, Kind(j) = "object", j \in Objects(V),
         NEW k \in Json, Kind(k) = "object", k \in Objects(Json),
         NEW h \in Heads, NEW g \in Heads,
         Cat(h, StableStringify[j]) = Cat(g, StableStringify[k])
  PROVE  h = g /\ StableStringify[j] = StableStringify[k] /\ Meaning[j] = Meaning[k]
<1> DEFINE ws == MemberTexts(j, StableStringify)
           vs == MemberTexts(k, StableStringify)
           s == Sorted(j.fields)
           r == Sorted(k.fields)
           n == Len(s)
           m == Len(r)
           At(i) == ValueAt(j.fields, s[i])
           Of(i) == ValueAt(k.fields, r[i])
           Start == "objectStart"
           End == "objectEnd"
<1>1. h \in Seq(Tokens) /\ g \in Seq(Tokens)
  BY DEF Heads
<1>2. /\ n \in Nat /\ DOMAIN s = 1..n /\ ws \in [1..n -> Seq(Tokens)]
      /\ \A i \in 1..n : /\ s[i] \in Names(j.fields) /\ s[i] \in ToSet(KeyOrder)
                         /\ At(i) \in V
                         /\ ws[i] = Cat(NameText(s[i]), StableStringify[At(i)])
                         /\ EndsIn(ws[i], Closers)
  BY AllWritten, MembersWritten DEF Cat
<1>3. /\ m \in Nat /\ DOMAIN r = 1..m /\ vs \in [1..m -> Seq(Tokens)]
      /\ \A i \in 1..m : /\ r[i] \in Names(k.fields) /\ r[i] \in ToSet(KeyOrder)
                         /\ Of(i) \in Json
                         /\ vs[i] = Cat(NameText(r[i]), StableStringify[Of(i)])
                         /\ EndsIn(vs[i], Closers)
  BY AllWritten, MembersWritten DEF Cat
<1>4. /\ StableStringify[j] = Shut(Start, Joined(ws), End)
      /\ StableStringify[k] = Shut(Start, Joined(vs), End)
  BY TextOfKind DEF Shut
<1>5. Start \in Tokens /\ End \in Tokens /\ Start \in {"arrayStart", "objectStart"}
  BY MarksAreTokens
<1>6. /\ Meaning[j] = [tag |-> "object", fields |-> MemberMeanings(j, Meaning)]
      /\ Meaning[k] = [tag |-> "object", fields |-> MemberMeanings(k, Meaning)]
  BY MeaningOfKind
<1>7. /\ \A x \in Names(j.fields) : \E i \in DOMAIN s : s[i] = x
      /\ \A x \in Names(k.fields) : \E i \in DOMAIN r : r[i] = x
  BY SortedNames
<1>8. \A i \in 1..n : At(i) = ValueAt(j.fields, s[i])
  OBVIOUS
<1>9. \A i \in 1..m : Of(i) = ValueAt(k.fields, r[i])
  OBVIOUS
<1> HIDE DEF ws, vs, s, r, n, m, At, Of, Start, End
<1>10. Joined(ws) \in Seq(Tokens) /\ Joined(vs) \in Seq(Tokens)
  BY <1>2, <1>3, JoinedIn
<1>11. Cat(Put(h, Start), Joined(ws)) = Cat(Put(g, Start), Joined(vs))
  BY <1>1, <1>4, <1>5, <1>10, ShutRead
<1>12. ASSUME NEW i \in 1..n, NEW l \in 1..m, NEW a \in Heads, NEW b \in Heads,
              Cat(a, ws[i]) = Cat(b, vs[l])
       PROVE  a = b /\ s[i] = r[l] /\ ws[i] = vs[l] /\ Meaning[At(i)] = Meaning[Of(l)]
  <2> DEFINE v == At(i)
             w == Of(l)
             p == NameText(s[i])
             q == NameText(r[l])
  <2>1. /\ v \in V /\ v \in Json /\ w \in Json
        /\ ws[i] = Cat(p, StableStringify[v]) /\ vs[l] = Cat(q, StableStringify[w])
        /\ s[i] \in ToSet(KeyOrder) /\ r[l] \in ToSet(KeyOrder)
    BY <1>2, <1>3
  <2>2. StableStringify[v] \in Seq(Tokens) /\ StableStringify[w] \in Seq(Tokens)
    BY <2>1, AllWritten DEF Written
  <2>3. a \in Seq(Tokens) /\ b \in Seq(Tokens)
    BY DEF Heads
  <2>4. /\ Cat(a, p) \in Heads
        /\ Cat(a, Cat(p, StableStringify[v])) = Cat(Cat(a, p), StableStringify[v])
    BY <2>1, <2>2, <2>3, NameCat
  <2>5. /\ Cat(b, q) \in Heads
        /\ Cat(b, Cat(q, StableStringify[w])) = Cat(Cat(b, q), StableStringify[w])
    BY <2>1, <2>2, <2>3, NameCat
  <2>6. Cat(a, p) = Cat(b, q) => a = b /\ s[i] = r[l]
    BY <2>1, <2>3, NameCat
  <2>7. s[i] = r[l] => p = q
    OBVIOUS
  <2>8. Readable(v)
    BY <2>1
  <2> HIDE DEF v, w, p, q
  <2>9. Cat(Cat(a, p), StableStringify[v]) = Cat(Cat(b, q), StableStringify[w])
    BY <1>12, <2>1, <2>4, <2>5
  <2>10. /\ Cat(a, p) = Cat(b, q) /\ StableStringify[v] = StableStringify[w]
         /\ Meaning[v] = Meaning[w]
    BY <2>1, <2>4, <2>5, <2>8, <2>9 DEF Readable
  <2>11. a = b /\ s[i] = r[l] /\ ws[i] = vs[l]
    BY <2>1, <2>6, <2>7, <2>10
  <2>12. QED BY <2>10, <2>11 DEF v, w
<1>13. h = g /\ n = m /\ ws = vs
  <2>1. ToldApart(ws, n, vs, m)
    BY <1>12 DEF ToldApart
  <2>2. n \in Nat /\ ws \in Texts(n) /\ m \in Nat /\ vs \in Texts(m)
    BY <1>2, <1>3 DEF Texts
  <2>3. QED BY <1>1, <1>5, <1>11, <2>1, <2>2, JoinedRead
<1>14. ASSUME NEW i \in 1..n PROVE s[i] = r[i] /\ Meaning[At(i)] = Meaning[Of(i)]
  <2>1. <<>> \in Heads
    BY EmptySeq DEF Heads
  <2>2. i \in 1..m /\ Cat(<<>>, ws[i]) = Cat(<<>>, vs[i])
    BY <1>13
  <2>3. QED BY <1>12, <2>1, <2>2
<1>15. Names(j.fields) = Names(k.fields)
  <2>1. ASSUME NEW x \in Names(j.fields) PROVE x \in Names(k.fields)
    BY <1>2, <1>3, <1>7, <1>13, <1>14
  <2>2. ASSUME NEW x \in Names(k.fields) PROVE x \in Names(j.fields)
    BY <1>2, <1>3, <1>7, <1>13, <1>14
  <2>3. QED BY <2>1, <2>2
<1>16. ASSUME NEW x \in Names(j.fields)
       PROVE  Meaning[ValueAt(j.fields, x)] = Meaning[ValueAt(k.fields, x)]
  <2>1. PICK i \in 1..n : s[i] = x
    BY <1>2, <1>7
  <2>2. r[i] = x /\ i \in 1..m
    BY <1>13, <1>14, <2>1
  <2>3. QED BY <1>8, <1>9, <1>14, <2>1, <2>2
<1>17. MemberMeanings(j, Meaning) = MemberMeanings(k, Meaning)
  BY <1>15, <1>16 DEF MemberMeanings
<1>18. QED BY <1>4, <1>6, <1>13, <1>17

\* Every text can be read back.
LEMMA AllReadable == \A j \in Json : Readable(j)
<1> DEFINE S == {j \in Json : Readable(j)}
<1>1. ASSUME NEW V \in SUBSET Json, V \subseteq S, NEW j \in Nested(V), j \in Json
      PROVE  Readable(j)
  <2>1. SUFFICES ASSUME NEW k \in Json, NEW h \in Heads, NEW g \in Heads,
                        Cat(h, StableStringify[j]) = Cat(g, StableStringify[k])
                 PROVE  /\ h = g /\ StableStringify[j] = StableStringify[k]
                        /\ Meaning[j] = Meaning[k]
    BY DEF Readable
  <2>2. k \in Nested(Json)
    BY JsonIsNested
  <2>3. \A v \in V : Readable(v)
    BY <1>1
  <2>4. h \o StableStringify[j] = g \o StableStringify[k]
    BY <2>1 DEF Cat
  <2>5. Kind(j) = Kind(k)
    <3>1. h \in Seq(Tokens) /\ g \in Seq(Tokens)
      BY DEF Heads
    <3>2. QED BY <1>1, <2>4, <3>1, SameKind
  <2>6. CASE Kind(j) \in ScalarKinds
    <3>1. h = g /\ ScalarMeaning(j) = ScalarMeaning(k)
      BY <1>1, <2>1, <2>5, <2>6, ReadScalar
    <3>2. Kind(j) \notin {"array", "object"} /\ Kind(k) \notin {"array", "object"}
      BY <2>5, <2>6 DEF ScalarKinds, Literals
    <3>3. Meaning[j] = Meaning[k]
      BY <1>1, <3>1, <3>2, MeaningOfKind
    <3>4. StableStringify[j] = StableStringify[k]
      BY <1>1, <2>2, <2>5, <2>6, <3>1, ScalarTexts
    <3>5. QED BY <3>1, <3>3, <3>4
  <2>7. CASE Kind(j) = "array"
    <3>1. j.items \in Seq(V) /\ Kind(k) = "array" /\ k.items \in Seq(Json)
      BY <1>1, <2>2, <2>5, <2>7, Kinds
    <3>2. QED BY <1>1, <2>1, <2>3, <2>7, <3>1, ReadArray
  <2>8. CASE Kind(j) = "object"
    <3>1. j \in Objects(V) /\ Kind(k) = "object" /\ k \in Objects(Json)
      BY <1>1, <2>2, <2>5, <2>8, Kinds
    <3>2. QED BY <1>1, <2>1, <2>3, <2>8, <3>1, ReadObject
  <2>9. Kind(j) \in ScalarKinds \cup {"array", "object"}
    BY <1>1, Kinds DEF ScalarKinds
  <2>10. QED BY <2>6, <2>7, <2>8, <2>9
<1>2. \A V \in SUBSET Json : V \subseteq S => Nested(V) \cap Json \subseteq S
  BY <1>1
<1> HIDE DEF S
<1>3. Json \subseteq S
  BY <1>2, JsonInduction
<1>4. QED BY <1>3 DEF S

-----------------------------------------------------------------------------
(***************************************************************************)
(* The text says what the value means                                      *)
(***************************************************************************)
\* A value that means what j means has the text of j.
Determined(j) ==
  \A k \in Json : Meaning[j] = Meaning[k] => StableStringify[j] = StableStringify[k]

LEMMA AllDetermined == \A j \in Json : Determined(j)
<1> DEFINE S == {j \in Json : Determined(j)}
<1>1. ASSUME NEW V \in SUBSET Json, V \subseteq S, NEW j \in Nested(V), j \in Json
      PROVE  Determined(j)
  <2>1. SUFFICES ASSUME NEW k \in Json, Meaning[j] = Meaning[k]
                 PROVE  StableStringify[j] = StableStringify[k]
    BY DEF Determined
  <2>2. k \in Nested(Json)
    BY JsonIsNested
  <2>3. \A v \in V : Determined(v)
    BY <1>1
  <2>4. \A l \in Json : Meaning[l].tag = Kind(l)
    <3>1. ASSUME NEW l \in Json PROVE Meaning[l].tag = Kind(l)
      <4>1. CASE Kind(l) = "array"
        <5> DEFINE is == ItemMeanings(l, Meaning)
        <5>1. Meaning[l] = [tag |-> "array", items |-> is]
          BY <4>1, MeaningOfKind
        <5> HIDE DEF is
        <5>2. [tag |-> "array", items |-> is].tag = "array"
          OBVIOUS
        <5>3. QED BY <4>1, <5>1, <5>2
      <4>2. CASE Kind(l) = "object"
        <5> DEFINE ms == MemberMeanings(l, Meaning)
        <5>1. Meaning[l] = [tag |-> "object", fields |-> ms]
          BY <4>2, MeaningOfKind
        <5> HIDE DEF ms
        <5>2. [tag |-> "object", fields |-> ms].tag = "object"
          OBVIOUS
        <5>3. QED BY <4>2, <5>1, <5>2
      <4>3. CASE Kind(l) \notin {"array", "object"}
        <5>1. Meaning[l] = ScalarMeaning(l)
          BY <4>3, MeaningOfKind
        <5>2. ScalarMeaning(l).tag = Kind(l)
          BY DEF ScalarMeaning, Null, Kind
        <5>3. QED BY <5>1, <5>2
      <4>4. QED BY <4>1, <4>2, <4>3
    <3>2. QED BY <3>1
  <2>5. Kind(j) = Kind(k)
    BY <1>1, <2>1, <2>4
  <2>6. CASE Kind(j) \notin {"array", "object"}
    <3>1. ScalarMeaning(j) = ScalarMeaning(k)
      BY <1>1, <2>1, <2>5, <2>6, MeaningOfKind
    <3>2. Kind(j) \in ScalarKinds
      BY <1>1, <2>6, Kinds DEF ScalarKinds
    <3>3. QED BY <1>1, <2>2, <2>5, <3>1, <3>2, ScalarTexts
  <2>7. CASE Kind(j) = "array"
    <3>1. j.items \in Seq(V) /\ Kind(k) = "array" /\ k.items \in Seq(Json)
      BY <1>1, <2>2, <2>5, <2>7, Kinds
    <3>2. /\ Meaning[j] = [tag |-> "array", items |-> ItemMeanings(j, Meaning)]
          /\ Meaning[k] = [tag |-> "array", items |-> ItemMeanings(k, Meaning)]
      BY <1>1, <2>7, <3>1, MeaningOfKind
    <3>3. ItemMeanings(j, Meaning) = ItemMeanings(k, Meaning)
      <4> DEFINE is == ItemMeanings(j, Meaning)
                 js == ItemMeanings(k, Meaning)
      <4>1. [tag |-> "array", items |-> is] = [tag |-> "array", items |-> js]
        BY <2>1, <3>2
      <4> HIDE DEF is, js
      <4>2. is = js
        BY <4>1
      <4>3. QED BY <4>2 DEF is, js
    <3>4. DOMAIN j.items = DOMAIN k.items
      BY <3>3 DEF ItemMeanings
    <3>5. ASSUME NEW i \in DOMAIN j.items
          PROVE  StableStringify[j.items[i]] = StableStringify[k.items[i]]
      <4>1. Meaning[j.items[i]] = Meaning[k.items[i]]
        <5>1. ItemMeanings(j, Meaning)[i] = Meaning[j.items[i]]
          BY DEF ItemMeanings
        <5>2. ItemMeanings(k, Meaning)[i] = Meaning[k.items[i]]
          BY <3>4 DEF ItemMeanings
        <5>3. QED BY <3>3, <5>1, <5>2
      <4>2. j.items[i] \in V /\ k.items[i] \in Json
        BY <3>1, <3>4
      <4>3. QED BY <2>3, <4>1, <4>2 DEF Determined
    <3>6. ItemTexts(j, StableStringify) = ItemTexts(k, StableStringify)
      BY <3>4, <3>5 DEF ItemTexts
    <3>7. /\ StableStringify[j] =
               Shut("arrayStart", Joined(ItemTexts(j, StableStringify)), "arrayEnd")
          /\ StableStringify[k] =
               Shut("arrayStart", Joined(ItemTexts(k, StableStringify)), "arrayEnd")
      BY <1>1, <2>7, <3>1, TextOfKind DEF Shut
    <3>8. QED BY <3>6, <3>7
  <2>8. CASE Kind(j) = "object"
    <3>1. j \in Objects(V) /\ Kind(k) = "object" /\ k \in Objects(Json)
      BY <1>1, <2>2, <2>5, <2>8, Kinds
    <3>2. /\ Meaning[j] = [tag |-> "object", fields |-> MemberMeanings(j, Meaning)]
          /\ Meaning[k] = [tag |-> "object", fields |-> MemberMeanings(k, Meaning)]
      BY <1>1, <2>8, <3>1, MeaningOfKind
    <3>3. MemberMeanings(j, Meaning) = MemberMeanings(k, Meaning)
      <4> DEFINE ms == MemberMeanings(j, Meaning)
                 ns == MemberMeanings(k, Meaning)
      <4>1. [tag |-> "object", fields |-> ms] = [tag |-> "object", fields |-> ns]
        BY <2>1, <3>2
      <4> HIDE DEF ms, ns
      <4>2. ms = ns
        BY <4>1
      <4>3. QED BY <4>2 DEF ms, ns
    <3>4. Names(j.fields) = Names(k.fields)
      BY <3>3 DEF MemberMeanings
    <3>5. Sorted(j.fields) = Sorted(k.fields)
      BY <3>4 DEF Sorted
    <3>6. ASSUME NEW x \in Names(j.fields)
          PROVE  StableStringify[ValueAt(j.fields, x)] = StableStringify[ValueAt(k.fields, x)]
      <4>1. Meaning[ValueAt(j.fields, x)] = Meaning[ValueAt(k.fields, x)]
        <5>1. MemberMeanings(j, Meaning)[x] = Meaning[ValueAt(j.fields, x)]
          BY DEF MemberMeanings
        <5>2. MemberMeanings(k, Meaning)[x] = Meaning[ValueAt(k.fields, x)]
          BY <3>4 DEF MemberMeanings
        <5>3. QED BY <3>3, <5>1, <5>2
      <4>2. ValueAt(j.fields, x) \in V /\ ValueAt(k.fields, x) \in Json
        BY <3>1, <3>4, MemberValues
      <4>3. QED BY <2>3, <4>1, <4>2 DEF Determined
    <3>7. MemberTexts(j, StableStringify) = MemberTexts(k, StableStringify)
      <4> DEFINE s == Sorted(j.fields)
      <4>1. \A i \in DOMAIN s : s[i] \in Names(j.fields)
        BY <3>1, SortedNames
      <4>2. /\ MemberTexts(j, StableStringify) =
                 [i \in DOMAIN s |->
                    Cat(NameText(s[i]), StableStringify[ValueAt(j.fields, s[i])])]
            /\ MemberTexts(k, StableStringify) =
                 [i \in DOMAIN s |->
                    Cat(NameText(s[i]), StableStringify[ValueAt(k.fields, s[i])])]
        BY <3>5 DEF MemberTexts, NameText, Cat
      <4> HIDE DEF s
      <4>3. QED BY <3>6, <4>1, <4>2
    <3>8. /\ StableStringify[j] =
               Shut("objectStart", Joined(MemberTexts(j, StableStringify)), "objectEnd")
          /\ StableStringify[k] =
               Shut("objectStart", Joined(MemberTexts(k, StableStringify)), "objectEnd")
      BY <1>1, <2>8, <3>1, TextOfKind DEF Shut
    <3>9. QED BY <3>7, <3>8
  <2>9. QED BY <2>6, <2>7, <2>8
<1>2. \A V \in SUBSET Json : V \subseteq S => Nested(V) \cap Json \subseteq S
  BY <1>1
<1> HIDE DEF S
<1>3. Json \subseteq S
  BY <1>2, JsonInduction
<1>4. QED BY <1>3 DEF S

\* stableStringify gives two JSON values one text exactly when they mean the
\* same, however deep they are nested.  Two things are lost: the order in which
\* members are sent, and what a number too great for a double was, which means,
\* like null, nothing but null.
THEOREM TextIsMeaning ==
  \A j, k \in Json : StableStringify[j] = StableStringify[k] <=> Meaning[j] = Meaning[k]
<1>1. ASSUME NEW j \in Json, NEW k \in Json, StableStringify[j] = StableStringify[k]
      PROVE  Meaning[j] = Meaning[k]
  <2>1. <<>> \in Heads
    BY EmptySeq DEF Heads
  <2>2. Cat(<<>>, StableStringify[j]) = Cat(<<>>, StableStringify[k])
    BY <1>1
  <2>3. Readable(j)
    BY AllReadable
  <2>4. QED BY <2>1, <2>2, <2>3 DEF Readable
<1>2. ASSUME NEW j \in Json, NEW k \in Json, Meaning[j] = Meaning[k]
      PROVE  StableStringify[j] = StableStringify[k]
  BY <1>2, AllDetermined DEF Determined
<1>3. QED BY <1>1, <1>2

-----------------------------------------------------------------------------
(***************************************************************************)
(* The second request                                                      *)
(***************************************************************************)
\* What was judged, and by what: the texts of the two bodies.
Judged ==
  /\ body \in Bodies
  /\ second # None =>
       /\ second.body \in Json
       /\ second.same <=> StableStringify[second.body] = StableStringify[body]

LEMMA JudgedKept == RetriedSpec => []Judged
<1>1. RetriedInit => Judged
  BY DEF RetriedInit, Init, Judged
<1>2. Judged /\ [RetriedNext]_<<vars, second>> => Judged'
  <2>1. SUFFICES ASSUME Judged, [RetriedNext]_<<vars, second>> PROVE Judged'
    OBVIOUS
  <2>2. CASE Next /\ UNCHANGED second
    <3>1. UNCHANGED body
      BY <2>2 DEF Next, Validate, Insert, Notify
    <3>2. QED BY <2>1, <2>2, <3>1 DEF Judged
  <2>3. ASSUME NEW b \in Variants(body), Compare(b) PROVE Judged'
    <3>1. b \in Json
      BY <2>1, RetriedAssumption DEF Judged
    <3>2. UNCHANGED body
      BY <2>3 DEF Compare, vars
    <3>3. /\ second'.body = b
          /\ second'.same <=> StableStringify[b] = StableStringify[body]
      BY <2>3, Zenon DEF Compare
    <3>4. QED BY <2>1, <3>1, <3>2, <3>3 DEF Judged
  <2>4. CASE UNCHANGED <<vars, second>>
    BY <2>1, <2>4 DEF Judged, vars
  <2>5. QED BY <2>1, <2>2, <2>3, <2>4 DEF RetriedNext
<1>3. QED BY <1>1, <1>2, PTL DEF RetriedSpec

\* A retry is taken for the same request exactly when its body means the same
\* JSON value, a number too great for a double meaning null, whatever has become
\* of the first request by then.
THEOREM SameHash == RetriedSpec => []SameHashSameBody
<1>1. Judged => SameHashSameBody
  <2>1. ASSUME Judged, second # None
        PROVE  second.same <=> Meaning[second.body] = Meaning[body]
    <3>1. second.body \in Json /\ body \in Json
      BY <2>1, BodiesAssumption DEF Judged
    <3>2. QED BY <2>1, <3>1, TextIsMeaning DEF Judged
  <2>2. QED BY <2>1 DEF SameHashSameBody
<1>2. QED BY <1>1, JudgedKept, PTL
=============================================================================
