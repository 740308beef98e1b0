---------------------------- MODULE AmountProofs ----------------------------
(***************************************************************************)
(* That the amounts of the API are numbers: for every base and every       *)
(* number of digits, the validator accepts the decimal notations of the    *)
(* positive numbers the column holds and nothing else, and the number      *)
(* stored for a notation is the one it stands for.                         *)
(*                                                                         *)
(* The library's theorems about induction take an operator and cannot be   *)
(* used; SetInduction does the same for a set, from the well-foundedness   *)
(* of the subsets of the natural numbers.                                  *)
(***************************************************************************)
EXTENDS Amount, FiniteSetTheorems, SequenceTheorems, TLAPS

-----------------------------------------------------------------------------
(***************************************************************************)
(* Induction                                                               *)
(***************************************************************************)
\* A set with zero and every successor of a member has every number.
LEMMA SetInduction ==
  ASSUME NEW S, 0 \in S, \A n \in Nat : n \in S => n + 1 \in S
  PROVE  Nat \subseteq S
<1> DEFINE T == {1..n : n \in Nat \ S}
<1>1. SUFFICES ASSUME Nat \ S # {} PROVE FALSE
  OBVIOUS
<1>2. IsWellFoundedOn(StrictSubsetOrdering(Nat), FiniteSubsetsOf(Nat))
  BY FS_StrictSubsetOrderingWellFounded
<1>3. T \subseteq FiniteSubsetsOf(Nat) /\ T # {}
  <2>1. \A n \in Nat \ S : 1..n \subseteq Nat /\ IsFiniteSet(1..n)
    BY FS_Interval
  <2>2. QED BY <1>1, <2>1 DEF FiniteSubsetsOf
<1>4. PICK x \in T : \A y \in T : ~ (<<y, x>> \in StrictSubsetOrdering(Nat))
  <2> HIDE DEF T
  <2> QED BY <1>2, <1>3, WFMin
<1>5. PICK n \in Nat \ S : x = 1..n
  BY <1>4
<1>6. n # 0 /\ n - 1 \in Nat \ S
  OBVIOUS
<1>7. 1..(n - 1) \in T
  BY <1>6
<1>8. n \in 1..n /\ n \notin 1..(n - 1) /\ 1..(n - 1) \subseteq 1..n /\ 1..n \subseteq Nat
  BY <1>6
<1>9. <<1..(n - 1), 1..n>> \in StrictSubsetOrdering(Nat)
  BY <1>6, <1>8 DEF StrictSubsetOrdering
<1>10. QED BY <1>4, <1>5, <1>7, <1>9

\* A set of numbers that is not empty has a least member, which is its Min.
LEMMA LeastMember ==
  ASSUME NEW S \in SUBSET Nat, S # {}
  PROVE  \E m \in S : m = Min(S) /\ \A x \in S : m <= x
<1> DEFINE Below == {n \in Nat : \A x \in S : n <= x}
<1>1. 0 \in Below
  OBVIOUS
<1>2. PICK x \in S : TRUE
  OBVIOUS
<1>3. x + 1 \notin Below
  BY <1>2
<1>4. PICK n \in Nat : n \in Below /\ n + 1 \notin Below
  <2> HIDE DEF Below
  <2>1. x + 1 \in Nat
    BY <1>2
  <2>2. ~ (Nat \subseteq Below)
    BY <1>3, <2>1
  <2>3. QED BY <1>1, <2>2, SetInduction
<1>5. PICK m \in S : ~ (n + 1 <= m)
  BY <1>4
<1>6. \A y \in S : m <= y
  BY <1>4, <1>5
<1>7. \E z \in S : \A y \in S : z =< y
  BY <1>6
<1>8. Min(S) \in S /\ \A y \in S : Min(S) =< y
  BY <1>7 DEF Min
<1>9. QED BY <1>8

\* A first value and a step from each value to the next define a sequence.
LEMMA Recursion ==
  ASSUME NEW V, NEW a \in V, NEW step \in [Nat \X V -> V]
  PROVE  \E g \in [Nat -> V] : g[0] = a /\ \A n \in Nat : g[n + 1] = step[<<n, g[n]>>]
<1> DEFINE Begun(m) == {f \in [0..m -> V] :
                          f[0] = a /\ \A n \in 0..m - 1 : f[n + 1] = step[<<n, f[n]>>]}
           S == {m \in Nat : Begun(m) # {}}
           Alike == {k \in Nat : \A l, m \in Nat : k <= l /\ k <= m =>
                                   \A f \in Begun(l), h \in Begun(m) : f[k] = h[k]}
<1>1. Nat \subseteq S
  <2>1. 0 \in S
    <3>1. [n \in 0..0 |-> a] \in Begun(0)
      OBVIOUS
    <3>2. QED BY <3>1
  <2>2. ASSUME NEW m \in Nat, m \in S PROVE m + 1 \in S
    <3>1. PICK f \in Begun(m) : TRUE
      BY <2>2
    <3>2. step[<<m, f[m]>>] \in V
      BY <3>1
    <3> DEFINE h == [n \in 0..(m + 1) |-> IF n = m + 1 THEN step[<<m, f[m]>>] ELSE f[n]]
    <3>3. h \in [0..(m + 1) -> V]
      BY <3>1, <3>2
    <3>4. h[0] = a /\ \A n \in 0..m : h[n + 1] = step[<<n, h[n]>>]
      <4>1. h[0] = a
        BY <3>1
      <4>2. ASSUME NEW n \in 0..m PROVE h[n + 1] = step[<<n, h[n]>>]
        <5>1. h[n] = f[n]
          OBVIOUS
        <5>2. CASE n = m
          <6>1. n + 1 = m + 1 /\ m + 1 \in 0..(m + 1)
            BY <5>2
          <6>2. h[m + 1] = step[<<m, f[m]>>]
            BY <6>1
          <6>3. QED BY <5>1, <5>2, <6>2
        <5>3. CASE n # m
          <6>1. n \in 0..m - 1 /\ h[n + 1] = f[n + 1]
            BY <5>3
          <6>2. QED BY <3>1, <5>1, <6>1
        <5>4. QED BY <5>2, <5>3
      <4>3. QED BY <4>1, <4>2
    <3> HIDE DEF h
    <3>5. (m + 1) - 1 = m
      OBVIOUS
    <3>6. h \in Begun(m + 1)
      BY <3>3, <3>4, <3>5
    <3> HIDE DEF Begun
    <3>7. QED BY <3>6
  <2> HIDE DEF S
  <2>3. QED BY <2>1, <2>2, SetInduction
<1>2. Nat \subseteq Alike
  <2>1. 0 \in Alike
    OBVIOUS
  <2>2. ASSUME NEW k \in Nat, k \in Alike PROVE k + 1 \in Alike
    <3>1. ASSUME NEW l \in Nat, NEW m \in Nat, k + 1 <= l, k + 1 <= m,
                 NEW f \in Begun(l), NEW h \in Begun(m)
          PROVE  f[k + 1] = h[k + 1]
      <4>1. f[k] = h[k]
        <5>1. k <= l /\ k <= m
          BY <3>1
        <5> HIDE DEF Begun
        <5>2. QED BY <2>2, <3>1, <5>1
      <4>2. k \in 0..l - 1 /\ k \in 0..m - 1
        BY <3>1
      <4>3. f[k + 1] = step[<<k, f[k]>>] /\ h[k + 1] = step[<<k, h[k]>>]
        BY <4>2
      <4>4. QED BY <4>1, <4>3
    <3> HIDE DEF Begun
    <3>2. QED BY <3>1
  <2> HIDE DEF Alike
  <2>3. QED BY <2>1, <2>2, SetInduction
<1> DEFINE F(m) == CHOOSE f : f \in Begun(m)
           g == [k \in Nat |-> F(k)[k]]
<1>3. \A m \in Nat : F(m) \in Begun(m)
  BY <1>1
<1> HIDE DEF F
<1>4. g \in [Nat -> V] /\ g[0] = a
  BY <1>3
<1>5. ASSUME NEW n \in Nat PROVE g[n + 1] = step[<<n, g[n]>>]
  <2>1. n + 1 \in Nat /\ n <= n + 1 /\ n \in 0..(n + 1) - 1
    OBVIOUS
  <2>2. F(n) \in Begun(n) /\ F(n + 1) \in Begun(n + 1)
    BY <1>3, <2>1
  <2>3. n \in Alike
    BY <1>2
  <2>4. F(n)[n] = F(n + 1)[n]
    <3> HIDE DEF Begun
    <3>1. QED BY <2>1, <2>2, <2>3
  <2>5. F(n + 1)[n + 1] = step[<<n, F(n + 1)[n]>>]
    BY <2>1, <2>2
  <2>6. QED BY <2>1, <2>4, <2>5
<1> HIDE DEF g
<1>6. QED BY <1>4, <1>5

\* The same for a sequence of numbers.
LEMMA NumberRecursion ==
  ASSUME NEW a \in Nat, NEW step \in [Nat \X Nat -> Nat]
  PROVE  \E g \in [Nat -> Nat] : g[0] = a /\ \A n \in Nat : g[n + 1] = step[<<n, g[n]>>]
<1> DEFINE Solves(V, b, s) ==
             \E g \in [Nat -> V] : g[0] = b /\ \A n \in Nat : g[n + 1] = s[<<n, g[n]>>]
<1>1. \A V : \A b \in V, s \in [Nat \X V -> V] : Solves(V, b, s)
  BY Recursion
<1>2. Solves(Nat, a, step)
  <2> HIDE DEF Solves
  <2>1. QED BY <1>1
<1>3. QED BY <1>2

-----------------------------------------------------------------------------
(***************************************************************************)
(* Powers of the base, and division                                        *)
(***************************************************************************)
\* The powers satisfy the equations they are defined by.
LEMMA PowerEquations ==
  /\ Power \in [Nat -> Nat] /\ Power[0] = 1
  /\ \A n \in Nat : Power[n + 1] = Base * Power[n]
<1> DEFINE step == [p \in Nat \X Nat |-> Base * p[2]]
           Equations(f) == f = [n \in Nat |-> IF n = 0 THEN 1 ELSE Base * f[n - 1]]
<1>1. step \in [Nat \X Nat -> Nat]
  BY AmountAssumption
<1>2. PICK g \in [Nat -> Nat] : g[0] = 1 /\ \A n \in Nat : g[n + 1] = step[<<n, g[n]>>]
  <2>1. 1 \in Nat
    OBVIOUS
  <2> HIDE DEF step
  <2>2. QED BY <1>1, <2>1, NumberRecursion
<1>3. \A n \in Nat : g[n + 1] = Base * g[n]
  BY <1>2
<1>4. ASSUME NEW n \in Nat \ {0} PROVE g[n] = Base * g[n - 1]
  <2>1. n - 1 \in Nat /\ (n - 1) + 1 = n
    OBVIOUS
  <2>2. QED BY <1>3, <2>1
<1>5. Equations(g)
  BY <1>2, <1>4
<1>6. Equations(Power)
  BY <1>5 DEF Power
<1>7. \A n \in Nat : Power[n] = IF n = 0 THEN 1 ELSE Base * Power[n - 1]
  BY <1>6
<1>8. Power[0] = 1 /\ \A n \in Nat : Power[n + 1] = Base * Power[n]
  BY <1>7
<1> DEFINE S == {n \in Nat : Power[n] \in Nat}
<1>9. Nat \subseteq S
  <2>1. 0 \in S /\ \A n \in Nat : n \in S => n + 1 \in S
    BY <1>8, AmountAssumption
  <2> HIDE DEF S
  <2>2. QED BY <2>1, SetInduction
<1>10. QED BY <1>6, <1>8, <1>9

\* Dividing gives the one quotient whose remainder is less than the divisor.
LEMMA Division ==
  ASSUME NEW v \in Nat, NEW p \in Nat \ {0}
  PROVE  /\ v \div p \in Nat /\ v % p \in 0..p - 1
         /\ v = (v \div p) * p + (v % p)
  OBVIOUS

LEMMA OneQuotient ==
  ASSUME NEW q \in Nat, NEW p \in Nat \ {0}, NEW r \in 0..p - 1
  PROVE  (q * p + r) \div p = q /\ (q * p + r) % p = r
  OBVIOUS

\* What is less than q times p has a quotient less than q.
LEMMA QuotientBound ==
  ASSUME NEW v \in Nat, NEW p \in Nat \ {0}, NEW q \in Nat
  PROVE  v < q * p <=> v \div p < q
<1> DEFINE w == v \div p
           r == v % p
<1>1. w \in Nat /\ r \in 0..p - 1 /\ v = w * p + r
  BY Division
<1> HIDE DEF w, r
<1>2. CASE w < q
  <2>1. PICK d \in Nat : q = w + 1 + d
    BY <1>1, <1>2
  <2>2. d * p \in Nat /\ (w + 1 + d) * p = w * p + p + d * p
    BY <1>1, <2>1
  <2>3. w * p \in Nat
    BY <1>1
  <2>4. v < q * p
    BY <1>1, <2>1, <2>2, <2>3
  <2>5. QED BY <1>2, <2>4 DEF w
<1>3. CASE ~ (w < q)
  <2>1. PICK d \in Nat : w = q + d
    BY <1>1, <1>3
  <2>2. d * p \in Nat /\ (q + d) * p = q * p + d * p
    BY <2>1
  <2>3. q * p \in Nat
    OBVIOUS
  <2>4. ~ (v < q * p)
    BY <1>1, <2>1, <2>2, <2>3
  <2>5. QED BY <1>3, <2>4 DEF w
<1>4. QED BY <1>2, <1>3

\* Dividing by p and then by b is dividing by their product.
LEMMA DivisionTwice ==
  ASSUME NEW v \in Nat, NEW p \in Nat \ {0}, NEW b \in Nat \ {0}
  PROVE  (v \div p) \div b = v \div (b * p)
<1> DEFINE w == v \div p
           x == w \div b
           r == v % p
           t == w % b
<1>1. w \in Nat /\ r \in 0..p - 1 /\ v = w * p + r
  BY Division
<1>2. x \in Nat /\ t \in 0..b - 1 /\ w = x * b + t
  BY <1>1, Division
<1> HIDE DEF w, x, r, t
<1>3. b * p \in Nat \ {0}
  OBVIOUS
<1>4. PICK d \in Nat : b = t + 1 + d
  BY <1>2
<1>5. t * p \in Nat /\ d * p \in Nat /\ (t + 1 + d) * p = t * p + p + d * p
  BY <1>2, <1>4
<1>6. t * p + r \in 0..(b * p) - 1
  BY <1>1, <1>4, <1>5
<1>7. w * p = x * (b * p) + t * p
  BY <1>2
<1>8. v = x * (b * p) + (t * p + r)
  <2>1. x * (b * p) \in Nat
    BY <1>2, <1>3
  <2>2. QED BY <1>1, <1>5, <1>7, <2>1
<1>9. v \div (b * p) = x
  BY <1>2, <1>3, <1>6, <1>8, OneQuotient
<1>10. QED BY <1>9 DEF w, x

\* No power is zero.
LEMMA PowerPositive == \A n \in Nat : Power[n] \in Nat \ {0}
<1> DEFINE S == {n \in Nat : Power[n] # 0}
<1>1. 0 \in S
  BY PowerEquations
<1>2. ASSUME NEW n \in Nat, n \in S PROVE n + 1 \in S
  <2>1. Power[n] \in Nat \ {0} /\ Base \in Nat \ {0}
    BY <1>2, PowerEquations, AmountAssumption
  <2>2. Base * Power[n] # 0
    BY <2>1
  <2>3. QED BY <2>2, PowerEquations
<1> HIDE DEF S
<1>3. Nat \subseteq S
  BY <1>1, <1>2, SetInduction
<1>4. QED BY <1>3, PowerEquations DEF S

\* Digits add up as exponents.
LEMMA PowerSum == \A m, n \in Nat : Power[m + n] = Power[m] * Power[n]
<1>1. SUFFICES ASSUME NEW m \in Nat PROVE \A n \in Nat : Power[m + n] = Power[m] * Power[n]
  OBVIOUS
<1> DEFINE S == {n \in Nat : Power[m + n] = Power[m] * Power[n]}
<1>2. 0 \in S
  BY PowerEquations
<1>3. ASSUME NEW n \in Nat, n \in S PROVE n + 1 \in S
  <2>1. m + (n + 1) = (m + n) + 1 /\ m + n \in Nat
    OBVIOUS
  <2>2. Power[m + (n + 1)] = Base * Power[m + n] /\ Power[n + 1] = Base * Power[n]
    BY <2>1, PowerEquations
  <2>3. Base * (Power[m] * Power[n]) = Power[m] * (Base * Power[n])
    BY PowerEquations, AmountAssumption
  <2>4. QED BY <1>3, <2>2, <2>3
<1> HIDE DEF S
<1>4. Nat \subseteq S
  BY <1>2, <1>3, SetInduction
<1>5. QED BY <1>4 DEF S

\* More digits, more numbers.
LEMMA PowerOrder == \A m, n \in Nat : m <= n => Power[m] <= Power[n]
<1>1. SUFFICES ASSUME NEW m \in Nat, NEW n \in Nat, m <= n PROVE Power[m] <= Power[n]
  OBVIOUS
<1>2. n - m \in Nat /\ n = m + (n - m)
  BY <1>1
<1>3. Power[n] = Power[m] * Power[n - m]
  BY <1>2, PowerSum
<1>4. PICK d \in Nat : Power[n - m] = 1 + d
  <2>1. Power[n - m] \in Nat \ {0}
    BY <1>2, PowerPositive
  <2>2. QED BY <2>1
<1>5. Power[m] \in Nat /\ Power[m] * d \in Nat /\ Power[m] * (1 + d) = Power[m] + Power[m] * d
  BY PowerPositive
<1>6. QED BY <1>3, <1>4, <1>5

-----------------------------------------------------------------------------
(***************************************************************************)
(* Digits, sequences of digits and their values                            *)
(***************************************************************************)
\* Ten digits, told apart from each other and from point, e and minus.
LEMMA DigitsDiffer ==
  \A m, n \in 0..9 : /\ Digit(m) = Digit(n) => m = n
                     /\ Digit(m) = "0" <=> m = 0
                     /\ Digit(m) \notin {".", "e", "-"}
<1>1. \A m, n \in 0..9 : Digit(m) = Digit(n) => m = n
  BY DEF Digit
<1>2. \A m \in 0..9 : Digit(m) = "0" <=> m = 0
  BY DEF Digit
<1>3. \A m \in 0..9 : Digit(m) \notin {".", "e", "-"}
  BY DEF Digit
<1>4. QED BY <1>1, <1>2, <1>3

\* A digit has a value below the base, and is the digit of its value.
LEMMA DigitValues ==
  /\ \A n \in 0..Base - 1 : Digit(n) \in Digits /\ ValueOf(Digit(n)) = n
  /\ \A c \in Digits : /\ ValueOf(c) \in 0..Base - 1 /\ Digit(ValueOf(c)) = c
                       /\ c = "0" <=> ValueOf(c) = 0
                       /\ c \notin {".", "e", "-"}
<1>1. 0..Base - 1 \subseteq 0..9
  BY AmountAssumption
<1>2. ASSUME NEW n \in 0..Base - 1 PROVE Digit(n) \in Digits /\ ValueOf(Digit(n)) = n
  <2>1. \A m \in 0..Base - 1 : Digit(m) = Digit(n) <=> m = n
    BY <1>1, DigitsDiffer
  <2>2. QED BY <2>1 DEF Digits, ValueOf
<1>3. ASSUME NEW c \in Digits
      PROVE  /\ ValueOf(c) \in 0..Base - 1 /\ Digit(ValueOf(c)) = c
             /\ c = "0" <=> ValueOf(c) = 0
             /\ c \notin {".", "e", "-"}
  <2>1. PICK n \in 0..Base - 1 : c = Digit(n)
    BY DEF Digits
  <2>2. QED BY <1>1, <1>2, <2>1, DigitsDiffer
<1>4. QED BY <1>2, <1>3

\* The values of the prefixes, one digit after the other.
LEMMA PrefixEquations ==
  ASSUME NEW ds \in Seq(Digits)
  PROVE  LET v == PrefixValues(ds)
         IN  /\ v[0] = 0 /\ v[Len(ds)] = Value(ds)
             /\ \A n \in 0..Len(ds) : v[n] \in Nat
             /\ \A n \in 1..Len(ds) : v[n] = v[n - 1] * Base + ValueOf(ds[n])
<1> DEFINE D == 0..Len(ds)
           v == PrefixValues(ds)
           Equations(f) ==
             f = [n \in D |-> IF n = 0 THEN 0 ELSE f[n - 1] * Base + ValueOf(ds[n])]
           step == [p \in Nat \X Nat |->
                      IF p[1] < Len(ds) THEN p[2] * Base + ValueOf(ds[p[1] + 1]) ELSE 0]
<1>1. \A n \in 1..Len(ds) : ValueOf(ds[n]) \in Nat
  BY DigitValues
<1>2. step \in [Nat \X Nat -> Nat]
  <2>1. ASSUME NEW p \in Nat \X Nat
        PROVE (IF p[1] < Len(ds) THEN p[2] * Base + ValueOf(ds[p[1] + 1]) ELSE 0) \in Nat
    <3>1. p[2] * Base \in Nat
      BY AmountAssumption
    <3>2. p[1] < Len(ds) => p[1] + 1 \in 1..Len(ds)
      OBVIOUS
    <3>3. QED BY <1>1, <3>1, <3>2
  <2>2. QED BY <2>1
<1>3. PICK g \in [Nat -> Nat] : g[0] = 0 /\ \A n \in Nat : g[n + 1] = step[<<n, g[n]>>]
  <2>1. 0 \in Nat
    OBVIOUS
  <2> HIDE DEF step
  <2>2. QED BY <1>2, <2>1, NumberRecursion
<1>4. ASSUME NEW n \in 1..Len(ds) PROVE g[n] = g[n - 1] * Base + ValueOf(ds[n])
  <2>1. n - 1 \in Nat /\ (n - 1) + 1 = n /\ n - 1 < Len(ds)
    OBVIOUS
  <2>2. g[n] = step[<<n - 1, g[n - 1]>>]
    BY <1>3, <2>1
  <2>3. QED BY <2>1, <2>2
<1> HIDE DEF step
<1>5. \E f : Equations(f)
  <2> DEFINE f == [n \in D |-> g[n]]
  <2>1. ASSUME NEW n \in D
        PROVE  f[n] = IF n = 0 THEN 0 ELSE f[n - 1] * Base + ValueOf(ds[n])
    <3>1. CASE n = 0
      BY <1>3, <3>1
    <3>2. CASE n # 0
      <4>1. n \in 1..Len(ds) /\ n - 1 \in D
        BY <3>2
      <4>2. f[n] = g[n] /\ f[n - 1] = g[n - 1]
        BY <4>1
      <4>3. QED BY <1>4, <3>2, <4>1, <4>2
    <3>3. QED BY <3>1, <3>2
  <2>2. f = [n \in D |-> f[n]]
    OBVIOUS
  <2>3. Equations(f)
    <3> HIDE DEF f
    <3>1. QED BY <2>1, <2>2
  <2>4. QED BY <2>3
<1>6. Equations(v)
  BY <1>5 DEF PrefixValues
<1>7. v[0] = 0 /\ \A n \in 1..Len(ds) : v[n] = v[n - 1] * Base + ValueOf(ds[n])
  <2>1. ASSUME NEW n \in D
        PROVE  v[n] = IF n = 0 THEN 0 ELSE v[n - 1] * Base + ValueOf(ds[n])
    <3> HIDE DEF v
    <3>1. QED BY <1>6
  <2> HIDE DEF v
  <2>2. \A n \in 1..Len(ds) : n \in D /\ n # 0
    OBVIOUS
  <2>3. 0 \in D
    OBVIOUS
  <2>4. QED BY <2>1, <2>2, <2>3
<1> HIDE DEF v
<1> DEFINE S == {n \in Nat : n \in D => v[n] \in Nat}
<1>8. Nat \subseteq S
  <2>1. 0 \in S
    BY <1>7
  <2>2. ASSUME NEW n \in Nat, n \in S PROVE n + 1 \in S
    <3>1. ASSUME n + 1 \in D PROVE v[n + 1] \in Nat
      <4>1. n \in D /\ n + 1 \in 1..Len(ds) /\ (n + 1) - 1 = n
        BY <3>1
      <4>2. v[n] \in Nat
        BY <2>2, <4>1
      <4>3. \A x, y \in Nat : x * Base + y \in Nat
        BY AmountAssumption
      <4>4. v[n + 1] = v[n] * Base + ValueOf(ds[n + 1]) /\ ValueOf(ds[n + 1]) \in Nat
        BY <1>1, <1>7, <4>1
      <4>5. QED BY <4>2, <4>3, <4>4
    <3>2. QED BY <3>1
  <2> HIDE DEF S
  <2>3. QED BY <2>1, <2>2, SetInduction
<1>9. v[Len(ds)] = Value(ds)
  BY DEF v, Value
<1>10. QED BY <1>7, <1>8, <1>9 DEF v

LEMMA NumeralIsDigits ==
  ASSUME NEW v \in Nat, NEW n \in Nat
  PROVE  /\ Numeral(v, n) \in Seq(Digits) /\ Len(Numeral(v, n)) = n
         /\ \A i \in 1..n : Numeral(v, n)[i] = Digit((v \div Power[n - i]) % Base)
<1>1. ASSUME NEW i \in 1..n PROVE Digit((v \div Power[n - i]) % Base) \in Digits
  <2>1. Power[n - i] \in Nat \ {0} /\ Base \in Nat \ {0}
    BY PowerPositive, AmountAssumption
  <2>2. v \div Power[n - i] \in Nat
    BY <2>1, Division
  <2>3. (v \div Power[n - i]) % Base \in 0..Base - 1
    BY <2>1, <2>2, Division
  <2>4. QED BY <2>3, DigitValues
<1>2. Numeral(v, n) \in [1..n -> Digits]
  BY <1>1 DEF Numeral
<1>3. QED BY <1>2 DEF Numeral

\* The number that n digits were taken of is their value.
LEMMA ValueOfNumeral ==
  ASSUME NEW n \in Nat, NEW u \in 0..Power[n] - 1
  PROVE  Value(Numeral(u, n)) = u
<1> DEFINE ds == Numeral(u, n)
           v == PrefixValues(ds)
           Q(k) == u \div Power[k]
<1>1. u \in Nat /\ \A k \in Nat : Power[k] \in Nat \ {0} /\ Base \in Nat \ {0}
  BY PowerPositive, AmountAssumption
<1>2. ds \in Seq(Digits) /\ Len(ds) = n /\ \A i \in 1..n : ds[i] = Digit(Q(n - i) % Base)
  BY <1>1, NumeralIsDigits
<1>3. \A k \in Nat : Q(k) \in Nat
  BY <1>1, Division
<1>4. ASSUME NEW k \in Nat PROVE Q(k) = Q(k + 1) * Base + (Q(k) % Base)
  <2>1. (u \div Power[k]) \div Base = u \div (Base * Power[k])
    BY <1>1, DivisionTwice
  <2>2. Power[k + 1] = Base * Power[k]
    BY PowerEquations
  <2>3. Q(k) \div Base = Q(k + 1)
    BY <2>1, <2>2
  <2>4. QED BY <1>1, <1>3, <2>3, Division
<1>5. Q(n) = 0 /\ Q(0) = u
  <2>1. u < 1 * Power[n]
    BY <1>1
  <2>2. Q(n) < 1
    BY <1>1, <2>1, QuotientBound
  <2>3. u = u * 1 + 0
    BY <1>1
  <2>4. u \div 1 = u
    BY <1>1
  <2>5. QED BY <1>3, <2>2, <2>4, PowerEquations
<1>6. \A k \in Nat : Q(k) % Base \in 0..Base - 1
  BY <1>1, <1>3, Division
<1> HIDE DEF Q, ds
<1>7. /\ v[0] = 0 /\ v[n] = Value(ds)
      /\ \A i \in 1..n : v[i] = v[i - 1] * Base + ValueOf(ds[i])
  BY <1>2, PrefixEquations
<1> HIDE DEF v
<1> DEFINE S == {i \in Nat : i <= n => v[i] = Q(n - i)}
<1>8. Nat \subseteq S
  <2>1. 0 \in S
    BY <1>5, <1>7
  <2>2. ASSUME NEW i \in Nat, i \in S PROVE i + 1 \in S
    <3>1. ASSUME i + 1 <= n PROVE v[i + 1] = Q(n - (i + 1))
      <4>1. i + 1 \in 1..n /\ (i + 1) - 1 = i /\ n - (i + 1) \in Nat
            /\ (n - (i + 1)) + 1 = n - i /\ i <= n
        BY <3>1
      <4>2. v[i] = Q(n - i)
        BY <2>2, <4>1
      <4>3. ValueOf(ds[i + 1]) = Q(n - (i + 1)) % Base
        BY <1>2, <1>6, <4>1, DigitValues
      <4>4. v[i + 1] = Q(n - i) * Base + (Q(n - (i + 1)) % Base)
        BY <1>7, <4>1, <4>2, <4>3
      <4>5. QED BY <1>4, <4>1, <4>4
    <3>2. QED BY <3>1
  <2> HIDE DEF S
  <2>3. QED BY <2>1, <2>2, SetInduction
<1>9. v[n] = Q(0)
  <2>1. n \in S /\ n - n = 0
    BY <1>8
  <2>2. QED BY <2>1
<1>10. QED BY <1>5, <1>7, <1>9 DEF ds

\* A sequence of digits is the numeral of its value.
LEMMA NumeralOfValue ==
  ASSUME NEW ds \in Seq(Digits)
  PROVE  /\ Len(ds) \in Nat /\ Value(ds) \in 0..Power[Len(ds)] - 1
         /\ ds = Numeral(Value(ds), Len(ds))
<1> DEFINE n == Len(ds)
           v == PrefixValues(ds)
           u == Value(ds)
<1>1. \A k \in Nat : Power[k] \in Nat \ {0} /\ Base \in Nat \ {0} /\ n \in Nat
  BY PowerPositive, AmountAssumption
<1>2. /\ v[0] = 0 /\ v[n] = u
      /\ \A i \in 0..n : v[i] \in Nat
      /\ \A i \in 1..n : v[i] = v[i - 1] * Base + ValueOf(ds[i])
  BY PrefixEquations
<1>3. \A i \in 1..n : ds[i] \in Digits /\ ValueOf(ds[i]) \in 0..Base - 1
  BY DigitValues
<1>4. \A x \in Nat, c \in 0..Base - 1 :
        (x * Base + c) \div Base = x /\ (x * Base + c) % Base = c
  BY <1>1, OneQuotient
<1> HIDE DEF v, u
<1>5. u \in Nat
  BY <1>1, <1>2
<1> DEFINE S == {i \in Nat : i <= n => v[i] < Power[i]}
<1>6. Nat \subseteq S
  <2>1. 0 \in S
    <3>1. v[0] < Power[0]
      BY <1>2, PowerEquations
    <3>2. QED BY <3>1
  <2>2. ASSUME NEW i \in Nat, i \in S PROVE i + 1 \in S
    <3>1. ASSUME i + 1 <= n PROVE v[i + 1] < Power[i + 1]
      <4>1. i + 1 \in 1..n /\ (i + 1) - 1 = i /\ i \in 0..n
        BY <3>1
      <4>2. v[i] < Power[i]
        BY <2>2, <4>1
      <4>3. \A x, p \in Nat, c \in 0..Base - 1 : x < p => x * Base + c < Base * p
        BY AmountAssumption
      <4>4. v[i + 1] = v[i] * Base + ValueOf(ds[i + 1])
        BY <1>2, <4>1
      <4>5. v[i] \in Nat /\ Power[i] \in Nat /\ ValueOf(ds[i + 1]) \in 0..Base - 1
        BY <1>1, <1>2, <1>3, <4>1
      <4>6. v[i] * Base + ValueOf(ds[i + 1]) < Base * Power[i]
        BY <4>2, <4>3, <4>5
      <4>7. QED BY <4>4, <4>6, PowerEquations
    <3>2. QED BY <3>1
  <2> HIDE DEF S
  <2>3. QED BY <2>1, <2>2, SetInduction
<1>7. u < Power[n]
  <2>1. n \in S
    BY <1>1, <1>6
  <2>2. QED BY <1>1, <1>2, <2>1
<1> DEFINE T == {k \in Nat : k <= n => v[n - k] = u \div Power[k]}
<1>8. Nat \subseteq T
  <2>1. 0 \in T
    <3>1. u \div 1 = u /\ n - 0 = n
      BY <1>1, <1>5
    <3>2. v[n - 0] = u \div Power[0]
      BY <1>2, <3>1, PowerEquations
    <3>3. QED BY <3>2
  <2>2. ASSUME NEW k \in Nat, k \in T PROVE k + 1 \in T
    <3>1. ASSUME k + 1 <= n PROVE v[n - (k + 1)] = u \div Power[k + 1]
      <4>1. n - k \in 1..n /\ (n - k) - 1 = n - (k + 1) /\ n - (k + 1) \in 0..n
        BY <3>1
      <4>2. v[n - k] = u \div Power[k]
        BY <2>2, <3>1
      <4>3. v[n - k] = v[n - (k + 1)] * Base + ValueOf(ds[n - k])
        BY <1>2, <4>1
      <4>4. v[n - k] \div Base = v[n - (k + 1)]
        <5>1. v[n - (k + 1)] \in Nat /\ ValueOf(ds[n - k]) \in 0..Base - 1
          BY <1>2, <1>3, <4>1
        <5>2. QED BY <1>4, <4>3, <5>1
      <4>5. (u \div Power[k]) \div Base = u \div (Base * Power[k])
        BY <1>1, <1>5, DivisionTwice
      <4>6. QED BY <4>2, <4>4, <4>5, PowerEquations
    <3>2. QED BY <3>1
  <2> HIDE DEF T
  <2>3. QED BY <2>1, <2>2, SetInduction
<1>9. ASSUME NEW i \in 1..n PROVE ds[i] = Digit((u \div Power[n - i]) % Base)
  <2>1. n - i \in T /\ n - (n - i) = i /\ i \in 0..n /\ i - 1 \in 0..n
    BY <1>1, <1>8
  <2>2. v[i] = u \div Power[n - i]
    BY <2>1
  <2>3. v[i] % Base = ValueOf(ds[i])
    <3>1. v[i - 1] \in Nat /\ ValueOf(ds[i]) \in 0..Base - 1
          /\ v[i] = v[i - 1] * Base + ValueOf(ds[i])
      BY <1>2, <1>3, <2>1
    <3>2. QED BY <1>4, <3>1
  <2>4. QED BY <1>3, <2>2, <2>3, DigitValues
<1>10. Numeral(u, n) \in Seq(Digits) /\ Len(Numeral(u, n)) = n
      /\ \A i \in 1..n : Numeral(u, n)[i] = Digit((u \div Power[n - i]) % Base)
  BY <1>1, <1>5, NumeralIsDigits
<1>11. ds = Numeral(u, n)
  BY <1>9, <1>10
<1>12. QED BY <1>1, <1>5, <1>7, <1>11 DEF u

\* The elements of two sequences in a row are those of both.
LEMMA ToSetOfConcat ==
  ASSUME NEW C, NEW s \in Seq(C), NEW t \in Seq(C)
  PROVE  ToSet(s \o t) = ToSet(s) \cup ToSet(t)
<1> DEFINE st == s \o t
<1>1. /\ Len(s) \in Nat /\ Len(t) \in Nat /\ st \in Seq(C) /\ Len(st) = Len(s) + Len(t)
      /\ \A i \in 1..Len(s) + Len(t) : st[i] = IF i <= Len(s) THEN s[i] ELSE t[i - Len(s)]
  BY ConcatProperties
<1> HIDE DEF st
<1>2. \A r \in Seq(C) : ToSet(r) = {r[i] : i \in 1..Len(r)}
  BY DEF ToSet
<1>3. ASSUME NEW i \in 1..Len(s) PROVE i \in 1..Len(st) /\ st[i] = s[i]
  BY <1>1
<1>4. ASSUME NEW i \in 1..Len(t) PROVE Len(s) + i \in 1..Len(st) /\ st[Len(s) + i] = t[i]
  <2>1. Len(s) + i \in 1..Len(st) /\ ~ (Len(s) + i <= Len(s)) /\ (Len(s) + i) - Len(s) = i
    BY <1>1
  <2>2. st[Len(s) + i] = t[(Len(s) + i) - Len(s)]
    BY <1>1, <2>1
  <2>3. QED BY <2>1, <2>2
<1>5. ASSUME NEW i \in 1..Len(st)
      PROVE  st[i] \in {s[k] : k \in 1..Len(s)} \cup {t[k] : k \in 1..Len(t)}
  <2>1. CASE i <= Len(s)
    <3>1. i \in 1..Len(s) /\ st[i] = s[i]
      BY <1>1, <2>1
    <3>2. QED BY <3>1
  <2>2. CASE ~ (i <= Len(s))
    <3>1. i - Len(s) \in 1..Len(t) /\ st[i] = t[i - Len(s)]
      BY <1>1, <2>2
    <3>2. QED BY <3>1
  <2>3. QED BY <2>1, <2>2
<1>6. ToSet(st) = ToSet(s) \cup ToSet(t)
  <2>1. ToSet(s) = {s[i] : i \in 1..Len(s)} /\ ToSet(t) = {t[i] : i \in 1..Len(t)}
        /\ ToSet(st) = {st[i] : i \in 1..Len(st)}
    BY <1>1, <1>2
  <2>2. QED BY <1>3, <1>4, <1>5, <2>1
<1>7. QED BY <1>6 DEF st

\* Zero is written with zeros only, and nothing else is.
LEMMA ZeroDigits ==
  ASSUME NEW ds \in Seq(Digits)
  PROVE  ToSet(ds) \subseteq {"0"} <=> Value(ds) = 0
<1> DEFINE n == Len(ds)
<1>1. /\ n \in Nat /\ Value(ds) \in 0..Power[n] - 1
      /\ ds = Numeral(Value(ds), n)
  BY NumeralOfValue
<1>2. \A k \in Nat : Power[k] \in Nat \ {0} /\ 0 \div Power[k] = 0 /\ 0 % Base = 0
  BY PowerPositive, AmountAssumption
<1>3. 0 \in Nat /\ 0 \in 0..Base - 1 /\ 0 \in 0..Power[n] - 1
  BY <1>1, <1>2, AmountAssumption
<1>4. \A i \in 1..n : Numeral(0, n)[i] = "0"
  <2>1. ASSUME NEW i \in 1..n PROVE Numeral(0, n)[i] = Digit(0)
    <3>1. n - i \in Nat
      BY <1>1
    <3>2. (0 \div Power[n - i]) % Base = 0
      BY <1>2, <3>1
    <3>3. Numeral(0, n)[i] = Digit((0 \div Power[n - i]) % Base)
      BY <1>1, <1>3, NumeralIsDigits
    <3>4. QED BY <3>2, <3>3
  <2>2. QED BY <1>3, <2>1, DigitValues, DigitsDiffer
<1>5. Numeral(0, n) \in Seq(Digits) /\ Len(Numeral(0, n)) = n
  BY <1>1, <1>3, NumeralIsDigits
<1>6. ToSet(ds) \subseteq {"0"} <=> ds = Numeral(0, n)
  <2>1. ToSet(ds) = {ds[i] : i \in 1..n}
    BY <1>1 DEF ToSet
  <2>2. QED BY <1>4, <1>5, <2>1, SeqEqual
<1>7. ds = Numeral(0, n) <=> Value(ds) = 0
  BY <1>1, <1>3, ValueOfNumeral
<1>8. QED BY <1>6, <1>7

\* A number has as many digits as it needs when the first is not a zero.
LEMMA LeadingDigit ==
  ASSUME NEW ds \in Seq(Digits), Len(ds) >= 1
  PROVE  ds[1] = "0" <=> Value(ds) < Power[Len(ds) - 1]
<1> DEFINE n == Len(ds)
           u == Value(ds)
           q == u \div Power[n - 1]
<1>1. n \in Nat \ {0} /\ n - 1 \in Nat /\ u \in 0..Power[n] - 1 /\ ds = Numeral(u, n)
  BY NumeralOfValue
<1> HIDE DEF u
<1>2. u \in Nat /\ Power[n - 1] \in Nat \ {0} /\ Power[n] = Base * Power[n - 1]
      /\ Power[n] \in Nat /\ Base \in Nat \ {0}
  <2>1. (n - 1) + 1 = n
    BY <1>1
  <2>2. Power[n - 1] \in Nat \ {0} /\ Power[n] \in Nat
    BY <1>1, PowerPositive
  <2>3. Power[n] = Base * Power[n - 1]
    BY <1>1, <2>1, PowerEquations
  <2>4. QED BY <1>1, <2>2, <2>3, AmountAssumption
<1>3. q \in Nat
  BY <1>2, Division
<1>4. q < Base
  <2>1. u < Base * Power[n - 1]
    BY <1>1, <1>2
  <2>2. QED BY <1>2, <2>1, QuotientBound
<1>5. q < 1 <=> u < Power[n - 1]
  <2>1. u < 1 * Power[n - 1] <=> q < 1
    BY <1>2, QuotientBound
  <2>2. QED BY <1>2, <2>1
<1>6. ds[1] = Digit(q % Base)
  <2>1. 1 \in 1..n /\ n \in Nat
    BY <1>1
  <2>2. Numeral(u, n)[1] = Digit((u \div Power[n - 1]) % Base)
    BY <1>2, <2>1, NumeralIsDigits
  <2>3. QED BY <1>1, <2>2
<1> HIDE DEF q
<1>7. q % Base = q /\ q \in 0..Base - 1
  BY <1>2, <1>3, <1>4
<1>8. ds[1] = "0" <=> q = 0
  BY <1>6, <1>7, DigitValues
<1>9. QED BY <1>3, <1>5, <1>8 DEF u

-----------------------------------------------------------------------------
(***************************************************************************)
(* Points                                                                  *)
(***************************************************************************)
LEMMA FirstPoint ==
  ASSUME NEW C, NEW s \in Seq(C), NEW k \in 1..Len(s), s[k] = ".",
         \A i \in 1..k - 1 : s[i] # "."
  PROVE  HasPoint(s) /\ Point(s) = k
<1>1. HasPoint(s)
  BY DEF HasPoint, Contains
<1> DEFINE I == {i \in 1..Len(s) : s[i] = "."}
<1>2. k \in I /\ \A i \in I : k <= i
  OBVIOUS
<1>3. Min(I) = k
  <2>1. k \in Nat /\ I \subseteq Nat /\ I # {}
    BY <1>2
  <2> HIDE DEF I
  <2>2. PICK m \in I : m = Min(I) /\ \A x \in I : m <= x
    BY <2>1, LeastMember
  <2>3. m <= k /\ k <= m /\ m \in Nat
    BY <1>2, <2>1, <2>2
  <2>4. QED BY <2>1, <2>2, <2>3
<1>4. Point(s) = IF I # {} THEN Min(I) ELSE 0
  BY DEF Point, SelectInSeq
<1>5. QED BY <1>1, <1>2, <1>3, <1>4

\* Text with a point is what is before it, the point, and what is after it.
LEMMA SplitAtPoint ==
  ASSUME NEW C, NEW s \in Seq(C), HasPoint(s)
  PROVE  /\ Point(s) \in 1..Len(s) /\ s[Point(s)] = "."
         /\ IntPart(s) \in Seq(C) /\ Len(IntPart(s)) = Point(s) - 1
         /\ Fraction(s) \in Seq(C) /\ Len(Fraction(s)) = Len(s) - Point(s)
         /\ \A i \in 1..Point(s) - 1 : IntPart(s)[i] = s[i]
         /\ \A i \in 1..Len(s) - Point(s) : Fraction(s)[i] = s[Point(s) + i]
<1> DEFINE I == {i \in 1..Len(s) : s[i] = "."}
<1>1. I # {} /\ I \subseteq Nat
  BY DEF HasPoint, Contains
<1>2. Min(I) \in I
  <2> HIDE DEF I
  <2>1. QED BY <1>1, LeastMember
<1>3. Point(s) = Min(I)
  <2>1. Point(s) = IF I # {} THEN Min(I) ELSE 0
    BY DEF Point, SelectInSeq
  <2>2. QED BY <1>1, <2>1
<1>4. Point(s) \in 1..Len(s) /\ s[Point(s)] = "."
  BY <1>2, <1>3
<1> DEFINE k == Point(s)
<1> HIDE DEF k
<1>5. k \in 1..Len(s) /\ Len(s) \in Nat
  BY <1>4 DEF k
<1>6. \A i \in 1..k - 1 : s[i] \in C
  BY <1>5
<1>7. /\ SubSeq(s, 1, k - 1) \in Seq(C) /\ Len(SubSeq(s, 1, k - 1)) = k - 1
      /\ \A i \in 1..k - 1 : SubSeq(s, 1, k - 1)[i] = s[i]
  BY <1>5, <1>6, SubSeqProperties
<1>8. \A i \in k + 1..Len(s) : s[i] \in C
  BY <1>5
<1>9. /\ SubSeq(s, k + 1, Len(s)) \in Seq(C) /\ Len(SubSeq(s, k + 1, Len(s))) = Len(s) - k
      /\ \A i \in 1..Len(s) - k : SubSeq(s, k + 1, Len(s))[i] = s[k + i]
  BY <1>5, <1>8, SubSeqProperties
<1>10. IntPart(s) = SubSeq(s, 1, k - 1) /\ Fraction(s) = SubSeq(s, k + 1, Len(s))
  BY DEF IntPart, Fraction, k
<1>11. QED BY <1>4, <1>7, <1>9, <1>10 DEF k

\* Digits before a point, and digits after it.
LEMMA DigitsAndPoint ==
  ASSUME NEW ds \in Seq(Digits), NEW fs \in Seq(Digits)
  PROVE  LET s == ds \o (<<".">> \o fs)
         IN  /\ s \in Seq(Digits \cup {"."}) /\ Len(s) = Len(ds) + 1 + Len(fs)
             /\ HasPoint(s) /\ IntPart(s) = ds /\ Fraction(s) = fs
             /\ \A i \in 1..Len(s) : s[i] = IF i <= Len(ds) THEN ds[i]
                                             ELSE IF i = Len(ds) + 1 THEN "."
                                             ELSE fs[i - Len(ds) - 1]
<1> DEFINE C == Digits \cup {"."}
           t == <<".">> \o fs
           s == ds \o t
           k == Len(ds) + 1
<1>1. ds \in Seq(C) /\ fs \in Seq(C) /\ <<".">> \in Seq(C) /\ Len(<<".">>) = 1 /\ <<".">>[1] = "."
  BY SeqMonotonic
<1>2. /\ t \in Seq(C) /\ Len(t) = 1 + Len(fs)
      /\ \A i \in 1..1 + Len(fs) : t[i] = IF i <= 1 THEN <<".">>[i] ELSE fs[i - 1]
  BY <1>1, ConcatProperties
<1> HIDE DEF t, C
<1>3. /\ s \in Seq(C) /\ Len(s) = Len(ds) + Len(t)
      /\ \A i \in 1..Len(ds) + Len(t) : s[i] = IF i <= Len(ds) THEN ds[i] ELSE t[i - Len(ds)]
  BY <1>1, <1>2, ConcatProperties
<1>4. Len(ds) \in Nat /\ Len(fs) \in Nat /\ Len(s) = Len(ds) + 1 + Len(fs)
  BY <1>1, <1>2, <1>3
<1> HIDE DEF s
<1>5. \A i \in 1..Len(s) : s[i] = IF i <= Len(ds) THEN ds[i]
                                   ELSE IF i = k THEN "." ELSE fs[i - Len(ds) - 1]
  <2>1. ASSUME NEW i \in 1..Len(s), ~ (i <= Len(ds))
        PROVE  s[i] = IF i = k THEN "." ELSE fs[i - Len(ds) - 1]
    <3>1. i - Len(ds) \in 1..1 + Len(fs) /\ i \in 1..Len(ds) + Len(t)
      BY <1>2, <1>4, <2>1
    <3>2. s[i] = t[i - Len(ds)]
      BY <1>3, <2>1, <3>1
    <3>3. t[i - Len(ds)] = IF i - Len(ds) <= 1 THEN <<".">>[i - Len(ds)]
                           ELSE fs[(i - Len(ds)) - 1]
      BY <1>2, <3>1
    <3>4. CASE i = k
      <4>1. i - Len(ds) = 1
        BY <1>4, <3>4
      <4>2. QED BY <1>1, <3>2, <3>3, <3>4, <4>1
    <3>5. CASE i # k
      <4>1. ~ (i - Len(ds) <= 1)
        BY <1>4, <2>1, <3>5
      <4>2. QED BY <3>2, <3>3, <3>5, <4>1
    <3>6. QED BY <3>4, <3>5
  <2>2. \A i \in 1..Len(s) : i <= Len(ds) => s[i] = ds[i]
    BY <1>2, <1>3, <1>4
  <2>3. QED BY <2>1, <2>2
<1>6. k \in 1..Len(s) /\ s[k] = "."
  BY <1>4, <1>5
<1>7. \A i \in 1..k - 1 : s[i] # "."
  <2>1. \A i \in 1..Len(ds) : ds[i] \in Digits
    OBVIOUS
  <2>2. QED BY <1>4, <1>5, <2>1, DigitValues
<1>8. HasPoint(s) /\ Point(s) = k
  BY <1>3, <1>6, <1>7, FirstPoint
<1>9. /\ IntPart(s) \in Seq(C) /\ Len(IntPart(s)) = k - 1
      /\ Fraction(s) \in Seq(C) /\ Len(Fraction(s)) = Len(s) - k
      /\ \A i \in 1..k - 1 : IntPart(s)[i] = s[i]
      /\ \A i \in 1..Len(s) - k : Fraction(s)[i] = s[k + i]
  <2> HIDE DEF k
  <2>1. s \in Seq(C)
    BY <1>3
  <2>2. /\ IntPart(s) \in Seq(C) /\ Len(IntPart(s)) = Point(s) - 1
        /\ Fraction(s) \in Seq(C) /\ Len(Fraction(s)) = Len(s) - Point(s)
        /\ \A i \in 1..Point(s) - 1 : IntPart(s)[i] = s[i]
        /\ \A i \in 1..Len(s) - Point(s) : Fraction(s)[i] = s[Point(s) + i]
    BY <1>8, <2>1, SplitAtPoint
  <2>3. QED BY <1>8, <2>2
<1>10. IntPart(s) = ds
  <2>1. Len(IntPart(s)) = Len(ds)
    BY <1>4, <1>9
  <2>2. \A i \in 1..Len(ds) : IntPart(s)[i] = ds[i]
    BY <1>4, <1>5, <1>9
  <2>3. QED BY <1>1, <1>9, <2>1, <2>2, SeqEqual
<1>11. Fraction(s) = fs
  <2>1. Len(Fraction(s)) = Len(fs)
    BY <1>4, <1>9
  <2>2. ASSUME NEW i \in 1..Len(fs) PROVE Fraction(s)[i] = fs[i]
    <3>1. i \in 1..Len(s) - k /\ k + i \in 1..Len(s)
          /\ ~ (k + i <= Len(ds)) /\ k + i # k /\ (k + i) - Len(ds) - 1 = i
      BY <1>4
    <3>2. Fraction(s)[i] = s[k + i]
      BY <1>9, <3>1
    <3>3. s[k + i] = fs[(k + i) - Len(ds) - 1]
      BY <1>5, <3>1
    <3>4. QED BY <3>1, <3>2, <3>3
  <2>3. QED BY <1>1, <1>9, <2>1, <2>2, SeqEqual
<1>12. QED BY <1>3, <1>4, <1>5, <1>8, <1>10, <1>11 DEF s, t, C

\* Digits alone have no point.
LEMMA DigitsAlone ==
  ASSUME NEW ds \in Seq(Digits)
  PROVE  ~HasPoint(ds) /\ IntPart(ds) = ds /\ Fraction(ds) = <<>>
<1>1. \A i \in 1..Len(ds) : ds[i] \in Digits
  OBVIOUS
<1>2. ~HasPoint(ds)
  BY <1>1, DigitValues DEF HasPoint, Contains
<1>3. QED BY <1>2 DEF IntPart, Fraction

-----------------------------------------------------------------------------
(***************************************************************************)
(* Decimal notations                                                       *)
(***************************************************************************)
\* u is written with n digits and no leading zero
Takes(u, n) == u < Power[n] /\ (n > 1 => u >= Power[n - 1])

\* A number takes one number of digits only.
LEMMA OneLength ==
  ASSUME NEW u \in Nat, NEW m \in Nat \ {0}, NEW n \in Nat \ {0}, Takes(u, m), Takes(u, n)
  PROVE  m = n
<1>1. ASSUME NEW a \in Nat \ {0}, NEW b \in Nat \ {0}, Takes(u, a), Takes(u, b), a < b
      PROVE  FALSE
  <2>1. b > 1 /\ a <= b - 1 /\ b - 1 \in Nat
    BY <1>1
  <2>2. Power[a] <= Power[b - 1] /\ Power[a] \in Nat /\ Power[b - 1] \in Nat
    BY <2>1, PowerOrder, PowerPositive
  <2>3. QED BY <1>1, <2>1, <2>2 DEF Takes
<1>2. m < n \/ n < m \/ m = n
  OBVIOUS
<1>3. QED BY <1>1, <1>2

LEMMA DigitsNeeded ==
  ASSUME NEW m \in 1..MaxInteger + MaxDecimals, NEW u \in 0..Power[m] - 1
  PROVE  IntegerDigits(u) \in 1..m /\ Takes(u, IntegerDigits(u))
<1>1. m \in Nat \ {0} /\ u \in Nat /\ u < Power[m] /\ MaxInteger + MaxDecimals \in Nat
      /\ \A n \in Nat : Power[n] \in Nat
  BY PowerPositive, AmountAssumption
<1> DEFINE I == {n \in Nat \ {0} : u < Power[n]}
           D == 1..MaxInteger + MaxDecimals
<1>2. m \in I /\ I \subseteq Nat
  BY <1>1
<1>3. PICK n \in I : \A x \in I : n <= x
  <2> HIDE DEF I
  <2>1. QED BY <1>2, LeastMember
<1>4. n \in 1..m /\ Takes(u, n)
  <2>1. n <= m
    BY <1>2, <1>3
  <2>2. ASSUME n > 1 PROVE u >= Power[n - 1]
    <3>1. n - 1 \in Nat \ {0} /\ ~ (n <= n - 1)
      BY <2>2
    <3>2. n - 1 \notin I
      BY <1>3, <3>1
    <3>3. QED BY <1>1, <3>1, <3>2
  <2>3. QED BY <2>1, <2>2 DEF Takes
<1>5. n \in D
  BY <1>1, <1>4
<1>6. IntegerDigits(u) = CHOOSE x \in D : Takes(u, x)
  BY DEF IntegerDigits, Takes
<1>7. IntegerDigits(u) \in D /\ Takes(u, IntegerDigits(u))
  BY <1>4, <1>5, <1>6
<1>8. IntegerDigits(u) = n
  BY <1>1, <1>4, <1>5, <1>7, OneLength
<1>9. QED BY <1>4, <1>8

Whole(u)   == u \div Power[MaxDecimals]
Rest(u)    == u % Power[MaxDecimals]
Part(u, d) == Rest(u) \div Power[MaxDecimals - d]

\* The number of units before the point, and those after it that d digits show.
LEMMA WholeAndPart ==
  ASSUME NEW u \in 0..Power[MaxInteger + MaxDecimals] - 1, NEW d \in 0..MaxDecimals
  PROVE  /\ Whole(u) \in 0..Power[MaxInteger] - 1
         /\ Rest(u) \in 0..Power[MaxDecimals] - 1
         /\ u = Whole(u) * Power[MaxDecimals] + Rest(u)
         /\ Part(u, d) \in 0..Power[d] - 1
         /\ Rest(u) = Part(u, d) * Power[MaxDecimals - d] + (Rest(u) % Power[MaxDecimals - d])
<1>1. /\ MaxInteger \in Nat /\ MaxDecimals \in Nat /\ MaxDecimals - d \in Nat /\ d \in Nat
      /\ MaxDecimals = d + (MaxDecimals - d) /\ u \in Nat
  BY PowerPositive, AmountAssumption
<1>2. /\ Power[MaxInteger] \in Nat \ {0} /\ Power[MaxDecimals] \in Nat \ {0}
      /\ Power[MaxDecimals - d] \in Nat \ {0} /\ Power[d] \in Nat \ {0}
  BY <1>1, PowerPositive
<1>3. Power[MaxInteger + MaxDecimals] = Power[MaxInteger] * Power[MaxDecimals]
  BY <1>1, PowerSum
<1>4. Power[MaxDecimals] = Power[d] * Power[MaxDecimals - d]
  BY <1>1, PowerSum
<1>5. /\ Whole(u) \in Nat /\ Rest(u) \in 0..Power[MaxDecimals] - 1
      /\ u = Whole(u) * Power[MaxDecimals] + Rest(u)
  BY <1>1, <1>2, Division DEF Whole, Rest
<1>6. Whole(u) < Power[MaxInteger]
  <2>1. u < Power[MaxInteger] * Power[MaxDecimals]
    BY <1>1, <1>2, <1>3
  <2>2. QED BY <1>1, <1>2, <2>1, QuotientBound DEF Whole
<1>7. /\ Part(u, d) \in Nat
      /\ Rest(u) = Part(u, d) * Power[MaxDecimals - d] + (Rest(u) % Power[MaxDecimals - d])
  <2>1. Rest(u) \in Nat
    BY <1>2, <1>5
  <2>2. QED BY <1>2, <2>1, Division DEF Part
<1>8. Part(u, d) < Power[d]
  <2>1. Rest(u) < Power[d] * Power[MaxDecimals - d] /\ Rest(u) \in Nat
    BY <1>2, <1>4, <1>5
  <2>2. QED BY <1>2, <2>1, QuotientBound DEF Part
<1>9. QED BY <1>2, <1>5, <1>6, <1>7, <1>8

\* The notation of u with d decimals, taken apart.
LEMMA FixedParts ==
  ASSUME NEW u \in 0..Power[MaxInteger + MaxDecimals] - 1, NEW d \in 0..MaxDecimals
  PROVE  LET s  == Fixed(u, d)
             n  == IntegerDigits(Whole(u))
             ds == Numeral(Whole(u), n)
             fs == Numeral(Part(u, d), d)
         IN  /\ n \in 1..MaxInteger /\ Takes(Whole(u), n)
             /\ ds \in Seq(Digits) /\ Len(ds) = n
             /\ fs \in Seq(Digits) /\ Len(fs) = d
             /\ IntPart(s) = ds /\ Fraction(s) = fs
             /\ HasPoint(s) <=> d > 0
             /\ s \in Seq(Digits \cup {"."}) /\ s[1] = ds[1]
             /\ Len(s) = IF d = 0 THEN n ELSE n + 1 + d
             /\ n = 1 /\ d > 0 => s[2] = "."
<1> DEFINE s  == Fixed(u, d)
           n  == IntegerDigits(Whole(u))
           ds == Numeral(Whole(u), n)
           fs == Numeral(Part(u, d), d)
<1>1. Whole(u) \in 0..Power[MaxInteger] - 1 /\ Part(u, d) \in 0..Power[d] - 1
  BY WholeAndPart
<1>2. MaxInteger \in 1..MaxInteger + MaxDecimals /\ d \in Nat
  BY AmountAssumption
<1>3. n \in 1..MaxInteger /\ Takes(Whole(u), n)
  BY <1>1, <1>2, DigitsNeeded
<1>4. Whole(u) \in Nat /\ Part(u, d) \in Nat /\ n \in Nat
  BY <1>1, <1>2, <1>3
<1>5. s = ds \o IF d = 0 THEN <<>> ELSE <<".">> \o fs
  BY DEF Fixed, Whole, Part, Rest
<1> HIDE DEF n
<1>6. ds \in Seq(Digits) /\ Len(ds) = n /\ fs \in Seq(Digits) /\ Len(fs) = d
  BY <1>2, <1>4, NumeralIsDigits
<1> HIDE DEF ds, fs, s
<1>7. CASE d = 0
  <2>1. s = ds
    BY <1>5, <1>6, <1>7, ConcatEmptySeq
  <2>2. fs = <<>>
    BY <1>6, <1>7
  <2>3. ds \in Seq(Digits \cup {"."})
    BY <1>6, SeqMonotonic
  <2>4. ~HasPoint(s) /\ IntPart(s) = ds /\ Fraction(s) = fs
    BY <1>6, <2>1, <2>2, DigitsAlone
  <2>5. QED BY <1>3, <1>6, <1>7, <2>1, <2>3, <2>4 DEF s, ds, fs, n
<1>8. CASE d # 0
  <2>1. s = ds \o (<<".">> \o fs)
    BY <1>5, <1>8
  <2>2. /\ s \in Seq(Digits \cup {"."}) /\ Len(s) = n + 1 + d
        /\ HasPoint(s) /\ IntPart(s) = ds /\ Fraction(s) = fs
        /\ \A i \in 1..Len(s) : s[i] = IF i <= n THEN ds[i]
                                        ELSE IF i = n + 1 THEN "." ELSE fs[i - n - 1]
    BY <1>6, <2>1, DigitsAndPoint
  <2>3. 1 \in 1..Len(s) /\ 2 \in 1..Len(s) /\ 1 <= n /\ d > 0
    BY <1>2, <1>3, <1>8, <2>2
  <2>4. s[1] = ds[1] /\ (n = 1 => s[2] = ".")
    BY <2>2, <2>3
  <2>5. QED BY <1>3, <1>6, <1>8, <2>2, <2>3, <2>4 DEF s, ds, fs, n
<1>9. QED BY <1>7, <1>8

\* u is a whole number of units of the d-th decimal
Divides(d, u) == u % Power[MaxDecimals - d] = 0

\* Whole and part with d decimals are all of u when d decimals are enough.
LEMMA ExactParts ==
  ASSUME NEW u \in 0..Power[MaxInteger + MaxDecimals] - 1, NEW d \in 0..MaxDecimals,
         Divides(d, u)
  PROVE  Whole(u) * Power[MaxDecimals] + Part(u, d) * Power[MaxDecimals - d] = u
<1> DEFINE p == Power[MaxDecimals - d]
           r == Rest(u) % p
           w == Whole(u)
           f == Part(u, d)
<1>1. /\ w \in Nat /\ f \in Nat /\ Rest(u) \in Nat
      /\ u = w * Power[MaxDecimals] + Rest(u) /\ Rest(u) = f * p + r
  <2>1. \A n \in Nat : Power[n] \in Nat
    BY PowerPositive
  <2>2. MaxInteger \in Nat /\ MaxDecimals \in Nat /\ d \in Nat
    BY AmountAssumption
  <2>3. QED BY <2>1, <2>2, WholeAndPart
<1>2. /\ MaxDecimals - d \in Nat /\ d \in Nat /\ d + (MaxDecimals - d) = MaxDecimals
      /\ p \in Nat \ {0} /\ Power[d] \in Nat
  BY PowerPositive, AmountAssumption
<1>3. Power[MaxDecimals] = Power[d] * p
  BY <1>2, PowerSum
<1>4. r \in 0..p - 1
  BY <1>1, <1>2, Division
<1> HIDE DEF p, r, w, f
<1>5. w * Power[d] + f \in Nat
  BY <1>1, <1>2
<1>6. u = (w * Power[d] + f) * p + r
  <2>1. \A a, b, c \in Nat : a * (b * c) = (a * b) * c
    OBVIOUS
  <2>2. \A a, b, c \in Nat : (a + b) * c = a * c + b * c
    OBVIOUS
  <2>3. w * Power[d] \in Nat
    BY <1>1, <1>2
  <2>4. w * (Power[d] * p) = (w * Power[d]) * p
    BY <1>1, <1>2, <2>1
  <2>5. (w * Power[d] + f) * p = (w * Power[d]) * p + f * p
    BY <1>1, <1>2, <2>2, <2>3
  <2>6. (w * Power[d]) * p \in Nat /\ f * p \in Nat
    BY <1>1, <1>2, <2>3
  <2>7. QED BY <1>1, <1>3, <1>4, <2>4, <2>5, <2>6
<1>7. u % p = r
  BY <1>2, <1>4, <1>5, <1>6, OneQuotient
<1>8. r = 0
  BY <1>7 DEF Divides, p
<1>9. f * p \in Nat
  BY <1>1, <1>2
<1>10. u = w * Power[MaxDecimals] + f * p
  BY <1>1, <1>8, <1>9
<1>11. QED BY <1>10 DEF w, f, p

\* What is written with d decimals has the syntax of an amount, whatever it
\* rounds off, and stands for u when d decimals are enough.
LEMMA FixedIsDecimal ==
  ASSUME NEW u \in 0..Power[MaxInteger + MaxDecimals] - 1, NEW d \in 0..MaxDecimals
  PROVE  LET s == Fixed(u, d)
         IN  /\ IsDecimal(s) /\ ~HasLeadingZero(s) /\ FitsColumn(s)
             /\ Divides(d, u) => Units(s) = u
             /\ Divides(d, u) /\ u > 0 => IsPositiveDecimalString(s)
<1> DEFINE s  == Fixed(u, d)
           n  == IntegerDigits(Whole(u))
           ds == Numeral(Whole(u), n)
           fs == Numeral(Part(u, d), d)
<1>1. /\ n \in 1..MaxInteger /\ Takes(Whole(u), n)
      /\ ds \in Seq(Digits) /\ Len(ds) = n
      /\ fs \in Seq(Digits) /\ Len(fs) = d
      /\ IntPart(s) = ds /\ Fraction(s) = fs
      /\ HasPoint(s) <=> d > 0
      /\ s[1] = ds[1]
      /\ Len(s) = IF d = 0 THEN n ELSE n + 1 + d
      /\ n = 1 /\ d > 0 => s[2] = "."
  BY FixedParts
<1>2. /\ Whole(u) \in 0..Power[MaxInteger] - 1
      /\ Part(u, d) \in 0..Power[d] - 1
  BY WholeAndPart
<1>3. n \in Nat /\ d \in Nat /\ MaxInteger \in Nat /\ MaxDecimals \in Nat
  BY <1>1, AmountAssumption
<1>4. Value(ds) = Whole(u) /\ Value(fs) = Part(u, d)
  <2>1. Whole(u) \in 0..Power[n] - 1
    <3>1. Power[n] \in Nat
      BY <1>3, PowerPositive
    <3>2. QED BY <1>1, <1>2, <3>1 DEF Takes
  <2>2. Value(ds) = Whole(u)
    <3> HIDE DEF n
    <3>1. QED BY <1>3, <2>1, ValueOfNumeral
  <2>3. QED BY <1>2, <1>3, <2>2, ValueOfNumeral
<1> HIDE DEF n, ds, fs, s
<1>5. FitsColumn(s)
  BY <1>1, <1>3 DEF FitsColumn
<1>6. IsDecimal(s)
  <2>1. ToSet(ds) \subseteq Digits /\ ToSet(fs) \subseteq Digits
    BY <1>1 DEF ToSet
  <2>2. QED BY <1>1, <1>3, <2>1 DEF IsDecimal
<1>7. ~HasLeadingZero(s)
  <2>1. CASE n = 1
    <3>1. "." \notin Digits
      BY DigitValues
    <3>2. QED BY <1>1, <1>3, <2>1, <3>1 DEF HasLeadingZero
  <2>2. CASE n # 1
    <3>1. n > 1 /\ Len(ds) >= 1
      BY <1>1, <1>3, <2>2
    <3>2. Whole(u) >= Power[n - 1]
      BY <1>1, <3>1 DEF Takes
    <3>3. ~ (Value(ds) < Power[n - 1])
      <4>1. Power[n - 1] \in Nat /\ Whole(u) \in Nat
        BY <1>2, <1>3, <3>1, PowerPositive
      <4>2. QED BY <1>4, <3>2, <4>1
    <3>4. ds[1] # "0"
      BY <1>1, <3>1, <3>3, LeadingDigit
    <3>5. QED BY <1>1, <3>4 DEF HasLeadingZero
  <2>3. QED BY <2>1, <2>2
<1>8. Units(s) = Whole(u) * Power[MaxDecimals] + Part(u, d) * Power[MaxDecimals - d]
  BY <1>1, <1>4 DEF Units
<1>9. Divides(d, u) => Units(s) = u
  BY <1>8, ExactParts
<1>10. ASSUME Divides(d, u), u > 0 PROVE ~IsZero(s)
  <2>1. SUFFICES ASSUME IsZero(s) PROVE FALSE
    OBVIOUS
  <2>2. ToSet(ds \o fs) = ToSet(ds) \cup ToSet(fs)
    BY <1>1, ToSetOfConcat
  <2>3. Value(ds) = 0 /\ Value(fs) = 0
    BY <1>1, <2>1, <2>2, ZeroDigits DEF IsZero
  <2>4. Units(s) = 0
    <3>1. \A x \in Nat : 0 * x = 0
      OBVIOUS
    <3>2. Power[MaxDecimals] \in Nat /\ Power[MaxDecimals - d] \in Nat
      BY <1>3, PowerPositive
    <3>3. 0 * Power[MaxDecimals] = 0 /\ 0 * Power[MaxDecimals - d] = 0
      BY <3>1, <3>2
    <3>4. QED BY <1>4, <1>8, <2>3, <3>3
  <2>5. QED BY <1>9, <1>10, <2>4
<1>11. QED BY <1>5, <1>6, <1>7, <1>9, <1>10 DEF IsPositiveDecimalString, s

\* The text before and after the point of an accepted amount.
LEMMA AcceptedParts ==
  ASSUME NEW C, NEW s \in Seq(C), IsPositiveDecimalString(s)
  PROVE  /\ IntPart(s) \in Seq(Digits) /\ Len(IntPart(s)) \in 1..MaxInteger
         /\ Fraction(s) \in Seq(Digits) /\ Len(Fraction(s)) \in 0..MaxDecimals
         /\ s = IF Len(Fraction(s)) = 0 THEN IntPart(s)
                ELSE IntPart(s) \o (<<".">> \o Fraction(s))
         /\ Len(IntPart(s)) > 1 => IntPart(s)[1] # "0"
         /\ Value(IntPart(s)) > 0 \/ Value(Fraction(s)) > 0
<1> DEFINE ds == IntPart(s)
           fs == Fraction(s)
<1>1. MaxInteger \in Nat \ {0} /\ MaxDecimals \in Nat \ {0}
  BY AmountAssumption
<1>2. /\ Len(ds) >= 1 /\ ToSet(ds) \subseteq Digits /\ Len(ds) <= MaxInteger
      /\ ToSet(fs) \subseteq Digits /\ ~HasLeadingZero(s) /\ ~IsZero(s)
      /\ HasPoint(s) => Len(fs) \in 1..MaxDecimals
  BY DEF IsPositiveDecimalString, IsDecimal, FitsColumn
<1>3. ds \in Seq(C) /\ fs \in Seq(C)
  <2>1. CASE HasPoint(s)
    BY <2>1, SplitAtPoint
  <2>2. CASE ~HasPoint(s)
    BY <2>2 DEF IntPart, Fraction
  <2>3. QED BY <2>1, <2>2
<1>4. ASSUME NEW r \in Seq(C), ToSet(r) \subseteq Digits PROVE r \in Seq(Digits)
  BY <1>4 DEF ToSet
<1>5. ds \in Seq(Digits) /\ fs \in Seq(Digits)
  BY <1>2, <1>3, <1>4
<1>6. Len(ds) \in 1..MaxInteger
  BY <1>1, <1>2, <1>3
<1>7. Value(ds) > 0 \/ Value(fs) > 0
  <2>1. ToSet(ds \o fs) = ToSet(ds) \cup ToSet(fs)
    BY <1>5, ToSetOfConcat
  <2>2. ~ (ToSet(ds) \subseteq {"0"} /\ ToSet(fs) \subseteq {"0"})
    BY <1>2, <2>1 DEF IsZero
  <2>3. ~ (Value(ds) = 0 /\ Value(fs) = 0)
    BY <1>5, <2>2, ZeroDigits
  <2>4. Value(ds) \in Nat /\ Value(fs) \in Nat
    <3>1. ASSUME NEW r \in Seq(Digits) PROVE Value(r) \in Nat
      <4>1. Len(r) \in Nat /\ Value(r) \in 0..Power[Len(r)] - 1
        BY NumeralOfValue
      <4>2. Power[Len(r)] \in Nat
        BY <4>1, PowerPositive
      <4>3. QED BY <4>1, <4>2
    <3>2. QED BY <1>5, <3>1
  <2>5. QED BY <2>3, <2>4
<1>8. CASE HasPoint(s)
  <2>1. Len(fs) \in 1..MaxDecimals
    BY <1>2, <1>8
  <2>2. /\ Point(s) \in 1..Len(s) /\ s[Point(s)] = "."
        /\ Len(ds) = Point(s) - 1 /\ Len(fs) = Len(s) - Point(s)
        /\ \A i \in 1..Point(s) - 1 : ds[i] = s[i]
        /\ \A i \in 1..Len(s) - Point(s) : fs[i] = s[Point(s) + i]
    BY <1>8, SplitAtPoint
  <2> DEFINE t == ds \o (<<".">> \o fs)
  <2>3. /\ t \in Seq(Digits \cup {"."}) /\ Len(t) = Len(ds) + 1 + Len(fs)
        /\ \A i \in 1..Len(t) : t[i] = IF i <= Len(ds) THEN ds[i]
                                        ELSE IF i = Len(ds) + 1 THEN "."
                                        ELSE fs[i - Len(ds) - 1]
    BY <1>5, DigitsAndPoint
  <2> HIDE DEF ds, fs, t
  <2>4. Len(s) \in Nat /\ Point(s) \in Nat /\ Len(t) = Len(s) /\ Point(s) = Len(ds) + 1
        /\ Len(ds) \in Nat
    BY <1>6, <2>2, <2>3
  <2>5. ASSUME NEW i \in 1..Len(s) PROVE t[i] = s[i]
    <3>1. CASE i < Point(s)
      <4>1. i \in 1..Point(s) - 1 /\ i <= Len(ds) /\ i \in 1..Len(t)
        BY <2>4, <3>1
      <4>2. QED BY <2>2, <2>3, <4>1
    <3>2. CASE i = Point(s)
      BY <2>2, <2>3, <2>4, <3>2
    <3>3. CASE i > Point(s)
      <4>1. i - Len(ds) - 1 \in 1..Len(s) - Point(s) /\ Point(s) + (i - Len(ds) - 1) = i
            /\ ~ (i <= Len(ds)) /\ i # Len(ds) + 1 /\ i \in 1..Len(t)
        BY <2>4, <3>3
      <4>2. t[i] = fs[i - Len(ds) - 1]
        BY <2>3, <4>1
      <4>3. fs[i - Len(ds) - 1] = s[Point(s) + (i - Len(ds) - 1)]
        BY <2>2, <4>1
      <4>4. QED BY <4>1, <4>2, <4>3
    <3>4. QED BY <2>4, <3>1, <3>2, <3>3
  <2>6. s = t
    <3>1. s \in Seq(C \cup Digits \cup {"."}) /\ t \in Seq(C \cup Digits \cup {"."})
      BY <2>3, SeqMonotonic
    <3>2. QED BY <2>4, <2>5, <3>1, SeqEqual
  <2>7. ASSUME Len(ds) > 1 PROVE ds[1] # "0"
    <3>1. 1 \in 1..Point(s) - 1 /\ 2 \in 1..Point(s) - 1 /\ Len(s) > 1
      BY <2>2, <2>4, <2>7
    <3>2. ds[1] = s[1] /\ ds[2] = s[2] /\ ds[2] \in Digits
      BY <1>5, <2>2, <2>4, <3>1
    <3>3. QED BY <1>2, <3>1, <3>2 DEF HasLeadingZero
  <2>8. Len(fs) # 0 /\ Len(fs) \in 0..MaxDecimals
    BY <2>1
  <2>9. QED BY <1>5, <1>6, <1>7, <2>6, <2>7, <2>8 DEF t, ds, fs
<1>9. CASE ~HasPoint(s)
  <2>1. s = ds /\ fs = <<>>
    BY <1>9 DEF IntPart, Fraction
  <2>2. Len(fs) = 0 /\ Len(fs) \in 0..MaxDecimals
    BY <1>1, <2>1
  <2>3. ASSUME Len(ds) > 1 PROVE ds[1] # "0"
    <3>1. s[2] \in Digits /\ Len(s) > 1
      BY <1>5, <2>1, <2>3
    <3>2. QED BY <1>2, <2>1, <3>1 DEF HasLeadingZero
  <2>4. QED BY <1>5, <1>6, <1>7, <2>1, <2>2, <2>3
<1>10. QED BY <1>8, <1>9

\* An accepted amount is the notation of the number of units stored for it.
LEMMA AcceptedIsFixed ==
  ASSUME NEW C, NEW s \in Seq(C), IsPositiveDecimalString(s)
  PROVE  LET u == Units(s)
             d == Len(Fraction(s))
         IN  /\ u \in 1..Power[MaxInteger + MaxDecimals] - 1
             /\ d \in 0..MaxDecimals /\ Divides(d, u) /\ s = Fixed(u, d)
<1> DEFINE ds == IntPart(s)
           fs == Fraction(s)
           n == Len(ds)
           d == Len(fs)
           W == Value(ds)
           F == Value(fs)
           u == Units(s)
           P == Power[MaxDecimals]
           p == Power[MaxDecimals - d]
<1>1. /\ ds \in Seq(Digits) /\ n \in 1..MaxInteger
      /\ fs \in Seq(Digits) /\ d \in 0..MaxDecimals
      /\ s = IF d = 0 THEN ds ELSE ds \o (<<".">> \o fs)
      /\ n > 1 => ds[1] # "0"
      /\ W > 0 \/ F > 0
  BY AcceptedParts
<1>2. /\ W \in 0..Power[n] - 1 /\ ds = Numeral(W, n)
      /\ F \in 0..Power[d] - 1 /\ fs = Numeral(F, d)
  BY <1>1, NumeralOfValue
<1>3. /\ MaxInteger \in Nat /\ MaxDecimals \in Nat /\ MaxDecimals - d \in Nat
      /\ n \in Nat /\ d \in Nat /\ n <= MaxInteger /\ d + (MaxDecimals - d) = MaxDecimals
  BY <1>1, AmountAssumption
<1>4. \A k \in Nat : Power[k] \in Nat \ {0}
  BY PowerPositive
<1>5. u = W * P + F * p
  BY DEF Units
<1>6. P = Power[d] * p /\ Power[MaxInteger + MaxDecimals] = Power[MaxInteger] * P
  BY <1>3, PowerSum
<1>7. n > 1 => W >= Power[n - 1]
  <2>1. ASSUME n > 1 PROVE W >= Power[n - 1]
    <3>1. n >= 1 /\ n - 1 \in Nat
      BY <1>3, <2>1
    <3>2. ~ (W < Power[n - 1])
      BY <1>1, <2>1, <3>1, LeadingDigit
    <3>3. W \in Nat /\ Power[n - 1] \in Nat
      BY <1>2, <1>3, <1>4, <3>1
    <3>4. QED BY <3>2, <3>3
  <2>2. QED BY <2>1
<1> HIDE DEF ds, fs, n, d, W, F, u, P, p
<1>8. P \in Nat \ {0} /\ p \in Nat \ {0} /\ Power[d] \in Nat /\ Power[n] \in Nat
      /\ Power[MaxInteger] \in Nat
  BY <1>3, <1>4 DEF P, p
<1>9. W \in Nat /\ F \in Nat /\ W < Power[n] /\ F < Power[d]
  BY <1>2, <1>8
<1>10. W < Power[MaxInteger]
  <2>1. Power[n] <= Power[MaxInteger]
    BY <1>3, PowerOrder
  <2>2. QED BY <1>8, <1>9, <2>1
<1>11. F * p \in 0..P - 1
  <2>1. \A a, b, c \in Nat : a < b /\ c # 0 => a * c < b * c /\ a * c \in Nat
    <3>1. SUFFICES ASSUME NEW a \in Nat, NEW b \in Nat, NEW c \in Nat \ {0}, a < b
                   PROVE  a * c < b * c /\ a * c \in Nat
      OBVIOUS
    <3>2. PICK e \in Nat : b = a + 1 + e
      BY <3>1
    <3>3. (a + 1 + e) * c = a * c + c + e * c /\ e * c \in Nat /\ a * c \in Nat
      BY <3>2
    <3>4. QED BY <3>2, <3>3
  <2>2. F * p < Power[d] * p /\ F * p \in Nat
    BY <1>8, <1>9, <2>1
  <2>3. QED BY <1>6, <1>8, <2>2
<1>12. u \div P = W /\ u % P = F * p /\ u \in Nat
  <2>1. u \div P = W /\ u % P = F * p
    BY <1>5, <1>8, <1>9, <1>11, OneQuotient
  <2>2. W * P \in Nat
    BY <1>8, <1>9
  <2>3. QED BY <1>5, <1>11, <2>1, <2>2
<1>13. u < Power[MaxInteger] * P
  BY <1>8, <1>10, <1>12, QuotientBound
<1>14. (F * p) \div p = F
  <2>1. F * p = F * p + 0
    BY <1>8, <1>9
  <2>2. (F * p + 0) \div p = F
    BY <1>8, <1>9, OneQuotient
  <2>3. QED BY <2>1, <2>2
<1>15. u % p = 0
  <2>1. W * P = (W * Power[d]) * p
    <3>1. \A a, b, c \in Nat : a * (b * c) = (a * b) * c
      OBVIOUS
    <3>2. QED BY <1>6, <1>8, <1>9, <3>1
  <2>2. W * Power[d] \in Nat /\ \A a, b, c \in Nat : (a + b) * c = a * c + b * c
    BY <1>8, <1>9
  <2>3. (W * Power[d] + F) * p = (W * Power[d]) * p + F * p
    BY <1>8, <1>9, <2>2
  <2>4. u = (W * Power[d] + F) * p + 0
    BY <1>5, <1>12, <2>1, <2>3
  <2>5. W * Power[d] + F \in Nat
    BY <1>9, <2>2
  <2>6. QED BY <1>8, <2>4, <2>5, OneQuotient
<1>16. u > 0
  <2>1. \A a \in Nat, b \in Nat \ {0} : a > 0 => a * b > 0
    OBVIOUS
  <2>2. W > 0 => W * P > 0
    BY <1>8, <1>9, <2>1
  <2>3. F > 0 => F * p > 0
    BY <1>8, <1>9, <2>1
  <2>4. W * P \in Nat /\ F * p \in Nat
    BY <1>8, <1>9
  <2>5. QED BY <1>1, <1>5, <1>9, <2>2, <2>3, <2>4
<1>17. u \in 1..Power[MaxInteger + MaxDecimals] - 1
  <2>1. Power[MaxInteger] * P \in Nat
    BY <1>8
  <2>2. QED BY <1>6, <1>12, <1>13, <1>16, <2>1
<1>18. Whole(u) = W /\ Rest(u) = F * p /\ Part(u, d) = F
  BY <1>12, <1>14 DEF Whole, Rest, Part, P, p
<1>19. IntegerDigits(W) = n
  <2>1. Takes(W, n)
    BY <1>7, <1>9 DEF Takes
  <2>2. MaxInteger \in 1..MaxInteger + MaxDecimals
    BY AmountAssumption
  <2>3. W \in 0..Power[MaxInteger] - 1
    BY <1>8, <1>9, <1>10
  <2>4. IntegerDigits(W) \in 1..MaxInteger /\ Takes(W, IntegerDigits(W))
    BY <2>2, <2>3, DigitsNeeded
  <2>5. n \in Nat \ {0} /\ IntegerDigits(W) \in Nat \ {0}
    BY <1>1, <1>3, <2>4
  <2>6. QED BY <1>9, <2>1, <2>4, <2>5, OneLength
<1>20. Fixed(u, d) = Numeral(W, n) \o IF d = 0 THEN <<>> ELSE <<".">> \o Numeral(F, d)
  BY <1>18, <1>19 DEF Fixed, Whole, Rest, Part
<1>21. s = Fixed(u, d)
  <2>1. CASE d = 0
    BY <1>1, <1>2, <1>20, <2>1, ConcatEmptySeq
  <2>2. CASE d # 0
    BY <1>1, <1>2, <1>20, <2>2
  <2>3. QED BY <2>1, <2>2
<1>22. Divides(d, u)
  BY <1>15 DEF Divides, p
<1>23. QED BY <1>1, <1>17, <1>21, <1>22 DEF u, d, fs

\* The validator accepts the decimal notations of the positive numbers the
\* column holds, and no other text.
THEOREM AcceptedAreNotations ==
  ASSUME NEW C, NEW s \in Seq(C)
  PROVE  IsPositiveDecimalString(s) <=> s \in Notations
<1> DEFINE M == Power[MaxInteger + MaxDecimals]
<1>1. ASSUME IsPositiveDecimalString(s) PROVE s \in Notations
  <2> DEFINE u == Units(s)
             d == Len(Fraction(s))
  <2>1. u \in 1..M - 1 /\ d \in 0..MaxDecimals /\ Divides(d, u) /\ s = Fixed(u, d)
    BY <1>1, AcceptedIsFixed
  <2> HIDE DEF u, d
  <2>2. QED BY <2>1 DEF Notations, Divides
<1>2. ASSUME s \in Notations PROVE IsPositiveDecimalString(s)
  <2>1. PICK d \in 0..MaxDecimals : \E u \in 1..M - 1 : Divides(d, u) /\ s = Fixed(u, d)
    BY <1>2 DEF Notations, Divides
  <2>2. PICK u \in 1..M - 1 : Divides(d, u) /\ s = Fixed(u, d)
    BY <2>1
  <2>3. u \in 0..M - 1 /\ u > 0
    OBVIOUS
  <2>4. QED BY <2>2, <2>3, FixedIsDecimal
<1>3. QED BY <1>1, <1>2

-----------------------------------------------------------------------------
(***************************************************************************)
(* The notation a notification gets, read back                             *)
(***************************************************************************)
\* A number of units needs no more decimals than the column has.
LEMMA DecimalsNeeded ==
  ASSUME NEW u \in Nat
  PROVE  Decimals(u) \in 0..MaxDecimals /\ Divides(Decimals(u), u)
<1> DEFINE I == {d \in 0..MaxDecimals : Divides(d, u)}
<1>1. MaxDecimals \in Nat /\ MaxDecimals - MaxDecimals = 0
  BY AmountAssumption
<1>2. MaxDecimals \in I
  <2>1. u % 1 = 0
    OBVIOUS
  <2>2. QED BY <1>1, <2>1, PowerEquations DEF Divides
<1>3. I \subseteq Nat
  BY <1>1
<1>4. PICK m \in I : \A x \in I : m <= x
  <2> HIDE DEF I
  <2>1. QED BY <1>2, <1>3, LeastMember
<1>5. \A c \in 0..m - 1 : c \in 0..MaxDecimals /\ ~Divides(c, u)
  <2>1. ASSUME NEW c \in 0..m - 1 PROVE c \in 0..MaxDecimals /\ ~Divides(c, u)
    <3>1. c \in 0..MaxDecimals /\ ~ (m <= c)
      BY <1>1, <1>4
    <3>2. QED BY <1>4, <3>1
  <2>2. QED BY <2>1
<1>6. \E d \in 0..MaxDecimals : Divides(d, u) /\ \A c \in 0..d - 1 : ~Divides(c, u)
  BY <1>4, <1>5
<1>7. Decimals(u) = CHOOSE d \in 0..MaxDecimals :
                       Divides(d, u) /\ \A c \in 0..d - 1 : ~Divides(c, u)
  BY DEF Decimals, Divides
<1>8. QED BY <1>6, <1>7

\* Without an exponent it is an amount again, and the same.
LEMMA PlainReadsBack ==
  ASSUME NEW u \in 1..Power[MaxInteger + MaxDecimals] - 1, ~IsSmall(u)
  PROVE  IsPositiveDecimalString(DecimalString(u)) /\ ReadBack(DecimalString(u)) = u
<1> DEFINE d == Decimals(u)
           s == Fixed(u, d)
<1>1. u \in 0..Power[MaxInteger + MaxDecimals] - 1 /\ u \in Nat /\ u > 0
  OBVIOUS
<1>2. d \in 0..MaxDecimals /\ Divides(d, u)
  BY <1>1, DecimalsNeeded
<1>3. DecimalString(u) = s
  BY DEF DecimalString
<1> HIDE DEF d
<1>4. IsPositiveDecimalString(s) /\ Units(s) = u
  BY <1>1, <1>2, FixedIsDecimal
<1>5. s \in Seq(Digits \cup {"."})
  BY <1>1, <1>2, FixedParts
<1>6. ~Contains(s, "e")
  <2>1. \A i \in 1..Len(s) : s[i] \in Digits \cup {"."}
    BY <1>5
  <2>2. QED BY <2>1, DigitValues DEF Contains
<1>7. ReadBack(s) = Units(s)
  BY <1>6 DEF ReadBack
<1>8. QED BY <1>3, <1>4, <1>7

\* A numeral without its last digits is the numeral of the quotient.
LEMMA NumeralPrefix ==
  ASSUME NEW n \in Nat, NEW z \in 0..n, NEW u \in 0..Power[n] - 1
  PROVE  /\ u \div Power[z] \in 0..Power[n - z] - 1
         /\ SubSeq(Numeral(u, n), 1, n - z) = Numeral(u \div Power[z], n - z)
<1> DEFINE q == u \div Power[z]
           a == Numeral(u, n)
           b == SubSeq(a, 1, n - z)
           c == Numeral(q, n - z)
<1>1. z \in Nat /\ n - z \in Nat /\ n = (n - z) + z /\ u \in Nat
      /\ \A k \in Nat : Power[k] \in Nat \ {0}
  BY PowerPositive
<1>2. q \in Nat /\ q < Power[n - z]
  <2>1. Power[n] = Power[n - z] * Power[z]
    BY <1>1, PowerSum
  <2>2. u < Power[n - z] * Power[z]
    BY <1>1, <2>1
  <2>3. QED BY <1>1, <2>2, Division, QuotientBound
<1>3. /\ a \in Seq(Digits) /\ Len(a) = n
      /\ \A i \in 1..n : a[i] = Digit((u \div Power[n - i]) % Base)
  BY <1>1, NumeralIsDigits
<1>4. /\ c \in Seq(Digits) /\ Len(c) = n - z
      /\ \A i \in 1..n - z : c[i] = Digit((q \div Power[(n - z) - i]) % Base)
  <2> HIDE DEF q
  <2>1. QED BY <1>1, <1>2, NumeralIsDigits
<1> HIDE DEF a, c
<1>5. /\ b \in Seq(Digits) /\ Len(b) = n - z
      /\ \A i \in 1..n - z : b[i] = a[i]
  <2>1. \A i \in 1..n - z : a[i] \in Digits
    BY <1>1, <1>3
  <2>2. 1 \in Int /\ n - z \in Int /\ (n - z) - 1 + 1 = n - z
    BY <1>1
  <2>3. QED BY <1>1, <2>1, <2>2, SubSeqProperties
<1>6. ASSUME NEW i \in 1..n - z PROVE b[i] = c[i]
  <2>1. (n - z) - i \in Nat /\ ((n - z) - i) + z = n - i /\ i \in 1..n
    BY <1>1
  <2>2. q \div Power[(n - z) - i] = u \div (Power[(n - z) - i] * Power[z])
    BY <1>1, <2>1, DivisionTwice
  <2>3. Power[(n - z) - i] * Power[z] = Power[n - i]
    BY <1>1, <2>1, PowerSum
  <2>4. QED BY <1>3, <1>4, <1>5, <2>1, <2>2, <2>3
<1> HIDE DEF b
<1>7. b = c
  BY <1>4, <1>5, <1>6, SeqEqual
<1>8. q \in 0..Power[n - z] - 1
  BY <1>1, <1>2
<1>9. QED BY <1>7, <1>8 DEF a, b, c

\* A mantissa has one digit before its point, if it has a point.
Mantissa(ds) == <<ds[1]>> \o (IF Len(ds) > 1 THEN <<".">> \o Tail(ds) ELSE <<>>)

LEMMA MantissaParts ==
  ASSUME NEW ds \in Seq(Digits), Len(ds) >= 1
  PROVE  /\ Mantissa(ds) \in Seq(Digits \cup {"."}) /\ Len(Mantissa(ds)) \in Nat
         /\ IntPart(Mantissa(ds)) \o Fraction(Mantissa(ds)) = ds
<1> DEFINE h == <<ds[1]>>
           t == Tail(ds)
           m == Mantissa(ds)
<1>1. Len(ds) \in Nat /\ ds # <<>> /\ ds[1] \in Digits
  OBVIOUS
<1>2. h \in Seq(Digits) /\ Len(h) = 1 /\ h[1] = ds[1]
  BY <1>1
<1>3. t \in Seq(Digits) /\ Len(t) = Len(ds) - 1 /\ \A i \in 1..Len(t) : t[i] = ds[i + 1]
  BY <1>1, HeadTailProperties
<1> HIDE DEF h, t, m
<1>4. h \o t = ds
  <2>1. /\ h \o t \in Seq(Digits) /\ Len(h \o t) = Len(ds)
        /\ \A i \in 1..Len(ds) : (h \o t)[i] = IF i <= 1 THEN h[i] ELSE t[i - 1]
    <3>1. /\ h \o t \in Seq(Digits) /\ Len(h \o t) = Len(h) + Len(t)
          /\ \A i \in 1..Len(h) + Len(t) : (h \o t)[i] = IF i <= Len(h) THEN h[i]
                                                       ELSE t[i - Len(h)]
      BY <1>2, <1>3, ConcatProperties
    <3>2. Len(h) + Len(t) = Len(ds)
      BY <1>1, <1>2, <1>3
    <3>3. QED BY <1>2, <3>1, <3>2
  <2>2. ASSUME NEW i \in 1..Len(ds) PROVE (h \o t)[i] = ds[i]
    <3>1. CASE i = 1
      BY <1>2, <2>1, <3>1
    <3>2. CASE i # 1
      <4>1. ~ (i <= 1) /\ i - 1 \in 1..Len(t) /\ (i - 1) + 1 = i
        BY <1>1, <1>3, <3>2
      <4>2. QED BY <1>3, <2>1, <4>1
    <3>3. QED BY <3>1, <3>2
  <2>3. QED BY <2>1, <2>2, SeqEqual
<1>5. CASE Len(ds) > 1
  <2>1. m = h \o (<<".">> \o t)
    BY <1>5 DEF m, h, t, Mantissa
  <2>2. /\ m \in Seq(Digits \cup {"."}) /\ IntPart(m) = h /\ Fraction(m) = t
        /\ Len(m) = Len(h) + 1 + Len(t)
    BY <1>2, <1>3, <2>1, DigitsAndPoint
  <2>3. QED BY <1>1, <1>2, <1>3, <1>4, <2>2 DEF m
<1>6. CASE ~ (Len(ds) > 1)
  <2>1. m = h
    BY <1>2, <1>6, ConcatEmptySeq DEF m, h, Mantissa
  <2>2. IntPart(m) = h /\ Fraction(m) = <<>>
    BY <1>2, <2>1, DigitsAlone
  <2>3. t = <<>>
    BY <1>1, <1>3, <1>6
  <2>4. m \in Seq(Digits \cup {"."})
    BY <1>2, <2>1, SeqMonotonic
  <2>5. QED BY <1>2, <1>4, <2>1, <2>2, <2>3, <2>4 DEF m
<1>7. QED BY <1>5, <1>6

\* With an exponent it reads back as the same number too.
LEMMA SmallReadsBack ==
  ASSUME NEW u \in 1..Power[MaxInteger + MaxDecimals] - 1, IsSmall(u)
  PROVE  ReadBack(DecimalString(u)) = u
<1> DEFINE D == 1..MaxDecimals
           n == CHOOSE x \in D : u < Power[x] /\ u >= Power[x - 1]
           z == MaxDecimals - Decimals(u)
           mantissa == Numeral(u, n)
           ds == SubSeq(mantissa, 1, n - z)
           x == MaxDecimals - n + 1
           m == Mantissa(ds)
           s == m \o <<"e", "-", Digit(x)>>
           C == Digits \cup {".", "e", "-"}
<1>1. Scientific(u) = s
  BY DEF Scientific, Mantissa
<1>2. /\ MaxDecimals \in 1..9 /\ MaxDecimals \in Nat /\ u \in Nat /\ u > 0
      /\ SmallExponent \in Nat /\ SmallExponent <= MaxDecimals + 1 /\ SmallExponent >= 1
      /\ MaxInteger \in Nat
      /\ \A k \in Nat : Power[k] \in Nat \ {0}
  BY PowerPositive, AmountAssumption
<1>3. n \in D /\ u < Power[n] /\ u >= Power[n - 1]
  <2> DEFINE l == MaxDecimals - SmallExponent + 1
  <2>1. l \in 0..MaxDecimals /\ l \in Nat /\ u < Power[l]
    BY <1>2 DEF IsSmall
  <2>2. l # 0
    BY <1>2, <2>1, PowerEquations
  <2>3. l \in 1..MaxInteger + MaxDecimals
    BY <1>2, <2>1, <2>2
  <2>4. u \in 0..Power[l] - 1
    BY <1>2, <2>1
  <2> DEFINE k == IntegerDigits(u)
  <2> HIDE DEF l
  <2>5. k \in 1..l /\ Takes(u, k)
    BY <2>3, <2>4, DigitsNeeded
  <2> HIDE DEF k
  <2>6. k \in D /\ u < Power[k]
    BY <1>2, <2>1, <2>5 DEF Takes
  <2>7. u >= Power[k - 1]
    <3>1. CASE k = 1
      BY <1>2, <3>1, PowerEquations
    <3>2. CASE k # 1
      <4>1. k > 1
        BY <2>6, <3>2
      <4>2. QED BY <2>5, <4>1 DEF Takes
    <3>3. QED BY <3>1, <3>2
  <2>8. QED BY <2>6, <2>7
<1> HIDE DEF n
<1>4. n \in Nat /\ n >= 1 /\ n <= MaxDecimals
  BY <1>2, <1>3
<1>5. z \in Nat /\ u % Power[z] = 0
  <2>1. Decimals(u) \in 0..MaxDecimals /\ Divides(Decimals(u), u)
    BY <1>2, DecimalsNeeded
  <2>2. QED BY <1>2, <2>1 DEF Divides
<1> HIDE DEF z
<1>6. u = (u \div Power[z]) * Power[z]
  <2>1. Power[z] \in Nat \ {0}
    BY <1>2, <1>5
  <2>2. u \div Power[z] \in Nat /\ u = (u \div Power[z]) * Power[z] + (u % Power[z])
    BY <1>2, <2>1, Division
  <2>3. (u \div Power[z]) * Power[z] \in Nat
    BY <2>1, <2>2
  <2>4. QED BY <1>5, <2>2, <2>3
<1>7. z < n
  <2>1. SUFFICES ASSUME n <= z PROVE FALSE
    BY <1>4, <1>5
  <2>2. Power[n] <= Power[z] /\ Power[n] \in Nat /\ Power[z] \in Nat \ {0}
    BY <1>2, <1>4, <1>5, <2>1, PowerOrder
  <2>3. u < 1 * Power[z]
    BY <1>2, <1>3, <2>2
  <2>4. u \div Power[z] < 1 /\ u \div Power[z] \in Nat
    BY <1>2, <2>2, <2>3, QuotientBound, Division
  <2>5. u \div Power[z] = 0 /\ \A k \in Nat : 0 * k = 0
    BY <2>4
  <2>6. u = 0
    BY <1>6, <2>2, <2>5
  <2>7. QED BY <1>2, <2>6
<1>8. u \in 0..Power[n] - 1 /\ z \in 0..n /\ n - z \in Nat /\ n - z >= 1
  BY <1>2, <1>3, <1>4, <1>5, <1>7
<1>9. /\ u \div Power[z] \in 0..Power[n - z] - 1
      /\ ds = Numeral(u \div Power[z], n - z)
  BY <1>4, <1>8, NumeralPrefix
<1>10. ds \in Seq(Digits) /\ Len(ds) = n - z /\ Value(ds) = u \div Power[z]
  <2> DEFINE q == u \div Power[z]
  <2>1. q \in Nat
    BY <1>2, <1>5, Division
  <2>2. q \in 0..Power[n - z] - 1 /\ ds = Numeral(q, n - z)
    BY <1>9
  <2> HIDE DEF q, ds
  <2>3. ds \in Seq(Digits) /\ Len(ds) = n - z
    BY <1>8, <2>1, <2>2, NumeralIsDigits
  <2>4. Value(ds) = q
    BY <1>8, <2>2, ValueOfNumeral
  <2>5. QED BY <2>3, <2>4 DEF q
<1> HIDE DEF ds, mantissa
<1>11. /\ m \in Seq(Digits \cup {"."}) /\ Len(m) \in Nat
       /\ IntPart(m) \o Fraction(m) = ds
  BY <1>8, <1>10, MantissaParts
<1> HIDE DEF m
<1>12. x \in 0..9
  BY <1>2, <1>4
<1>13. /\ m \in Seq(C \cup {Digit(x)}) /\ s \in Seq(C \cup {Digit(x)})
       /\ Len(s) = Len(m) + 3
       /\ \A i \in 1..Len(m) : s[i] = m[i]
       /\ s[Len(m) + 1] = "e" /\ s[Len(m) + 3] = Digit(x)
  <2> DEFINE E == <<"e", "-", Digit(x)>>
             CC == C \cup {Digit(x)}
  <2>1. E \in Seq(CC) /\ Len(E) = 3 /\ E[1] = "e" /\ E[3] = Digit(x)
    OBVIOUS
  <2>2. m \in Seq(CC)
    BY <1>11, SeqMonotonic
  <2> HIDE DEF E, CC
  <2>3. /\ m \o E \in Seq(CC) /\ Len(m \o E) = Len(m) + Len(E)
        /\ \A i \in 1..Len(m) + Len(E) : (m \o E)[i] = IF i <= Len(m) THEN m[i]
                                                        ELSE E[i - Len(m)]
    BY <2>1, <2>2, ConcatProperties
  <2>4. /\ Len(m) + 1 \in 1..Len(m) + 3 /\ ~ (Len(m) + 1 <= Len(m)) /\ (Len(m) + 1) - Len(m) = 1
        /\ Len(m) + 3 \in 1..Len(m) + 3 /\ ~ (Len(m) + 3 <= Len(m)) /\ (Len(m) + 3) - Len(m) = 3
        /\ 1..Len(m) \subseteq 1..Len(m) + 3
    BY <1>11
  <2>5. (m \o E)[Len(m) + 1] = E[1] /\ (m \o E)[Len(m) + 3] = E[3]
    BY <2>1, <2>3, <2>4
  <2>6. \A i \in 1..Len(m) : (m \o E)[i] = m[i]
    BY <1>11, <2>1, <2>3, <2>4
  <2>7. s = m \o E
    BY DEF s, E
  <2>8. QED BY <2>1, <2>2, <2>3, <2>5, <2>6, <2>7 DEF CC
<1> HIDE DEF s
<1>14. ExponentAt(s) = Len(m) + 1
  <2> DEFINE I == {i \in 1..Len(s) : s[i] = "e"}
  <2>1. Len(m) + 1 \in I /\ I \subseteq Nat /\ I # {}
    <3>1. Len(m) + 1 \in 1..Len(s)
      BY <1>11, <1>13
    <3>2. QED BY <1>13, <3>1
  <2>2. \A i \in 1..Len(m) : s[i] # "e"
    <3>1. \A i \in 1..Len(m) : m[i] \in Digits \cup {"."}
      BY <1>11
    <3>2. QED BY <1>13, <3>1, DigitValues
  <2>3. \A i \in I : Len(m) + 1 <= i
    BY <1>11, <2>2
  <2>4. ExponentAt(s) = IF I # {} THEN Min(I) ELSE 0
    BY DEF ExponentAt, SelectInSeq
  <2> HIDE DEF I
  <2>5. PICK k \in I : k = Min(I) /\ \A i \in I : k <= i
    BY <2>1, LeastMember
  <2>6. k <= Len(m) + 1 /\ Len(m) + 1 <= k /\ k \in Nat
    BY <2>1, <2>3, <2>5
  <2>7. QED BY <1>11, <2>1, <2>4, <2>5, <2>6
<1>15. SubSeq(s, 1, Len(m)) = m
  <2>1. \A i \in 1..Len(m) : s[i] \in C \cup {Digit(x)}
    BY <1>11, <1>13
  <2>2. /\ SubSeq(s, 1, Len(m)) \in Seq(C \cup {Digit(x)})
        /\ Len(SubSeq(s, 1, Len(m))) = Len(m)
        /\ \A i \in 1..Len(m) : SubSeq(s, 1, Len(m))[i] = s[i]
    <3>1. 1 \in Int /\ Len(m) \in Int /\ Len(m) - 1 + 1 = Len(m)
      BY <1>11
    <3>2. QED BY <1>11, <2>1, <3>1, SubSeqProperties
  <2>3. QED BY <1>13, <2>2, SeqEqual
<1>16. (CHOOSE k \in 0..9 : Digit(k) = s[(Len(m) + 1) + 2]) = x
  <2>1. (Len(m) + 1) + 2 = Len(m) + 3
    BY <1>11
  <2>2. s[(Len(m) + 1) + 2] = Digit(x)
    BY <1>13, <2>1
  <2>3. \A k \in 0..9 : Digit(k) = s[(Len(m) + 1) + 2] <=> k = x
    BY <1>12, <2>2, DigitsDiffer
  <2>4. QED BY <1>12, <2>3
<1>17. Contains(s, "e")
  <2>1. Len(m) + 1 \in 1..Len(s)
    BY <1>11, <1>13
  <2>2. QED BY <1>13, <2>1 DEF Contains
<1>18. ReadBack(s) = Value(ds) * Power[MaxDecimals - x - (Len(ds) - 1)]
  <2>1. (Len(m) + 1) - 1 = Len(m)
    BY <1>11
  <2> HIDE DEF x
  <2>2. QED BY <1>11, <1>14, <1>15, <1>16, <1>17, <2>1 DEF ReadBack
<1>19. MaxDecimals - x - (Len(ds) - 1) = z
  BY <1>2, <1>4, <1>5, <1>10
<1>20. DecimalString(u) = s
  BY <1>1 DEF DecimalString
<1>21. QED BY <1>6, <1>10, <1>18, <1>19, <1>20

\* The amount of a notification reads as the number of units it was made of,
\* and is an amount the API accepts unless it was written with an exponent.
THEOREM DecimalStringReadsBack ==
  ASSUME NEW u \in 1..Power[MaxInteger + MaxDecimals] - 1
  PROVE  /\ ReadBack(DecimalString(u)) = u
         /\ IsSmall(u) \/ IsPositiveDecimalString(DecimalString(u))
  BY PlainReadsBack, SmallReadsBack
=============================================================================
