------------------------------- MODULE Amount -------------------------------
(***************************************************************************)
(* Amounts: the validator IsPositiveDecimalString, the column              *)
(* Decimal(20,8), and the decimal.js notation the notification gets.       *)
(* An amount is a sequence of characters; the base, 10 in the code, and    *)
(* the numbers of digits are parameters.                                   *)
(***************************************************************************)
EXTENDS Integers, SequencesExt

CONSTANTS
  Base,           \* 10
  MaxInteger,     \* 12 digits before the point
  MaxDecimals,    \* 8 digits after it
  SmallExponent   \* 7: below, decimal.js writes an exponent (toExpNeg)

ASSUME AmountAssumption ==
  /\ Base \in 2..10 /\ MaxInteger \in Nat \ {0}
  /\ MaxDecimals \in 1..9   \* an exponent has one digit
  /\ SmallExponent \in 1..MaxDecimals + 1

Digit(n) == <<"0", "1", "2", "3", "4", "5", "6", "7", "8", "9">>[n + 1]
Digits == {Digit(n) : n \in 0..Base - 1}
ValueOf(c) == CHOOSE n \in 0..Base - 1 : Digit(n) = c

Power[n \in Nat] == IF n = 0 THEN 1 ELSE Base * Power[n - 1]

\* The values of the prefixes of a sequence of digits, and its own
PrefixValues(ds) ==
  LET v[n \in 0..Len(ds)] == IF n = 0 THEN 0 ELSE v[n - 1] * Base + ValueOf(ds[n])
  IN  v
Value(ds) == PrefixValues(ds)[Len(ds)]

\* A value as n digits
Numeral(v, n) == [i \in 1..n |-> Digit((v \div Power[n - i]) % Base)]

HasPoint(s) == Contains(s, ".")
Point(s) == SelectInSeq(s, LAMBDA c : c = ".")
IntPart(s) == IF HasPoint(s) THEN SubSeq(s, 1, Point(s) - 1) ELSE s
Fraction(s) == IF HasPoint(s) THEN SubSeq(s, Point(s) + 1, Len(s)) ELSE <<>>

-----------------------------------------------------------------------------
(***************************************************************************)
(* IsPositiveDecimalStringConstraint.validate, one operator per regex      *)
(***************************************************************************)
IsDecimal(s) ==
  /\ Len(IntPart(s)) >= 1 /\ ToSet(IntPart(s)) \subseteq Digits
  /\ HasPoint(s) => Len(Fraction(s)) \in 1..MaxDecimals
  /\ ToSet(Fraction(s)) \subseteq Digits

\* Seeded fault: /^0./
StartsWithZero(s) == Len(s) > 1 /\ s[1] = "0"

HasLeadingZero(s) == Len(s) > 1 /\ s[1] = "0" /\ s[2] \in Digits

\* Seeded fault: /^0+$/
IsZeroInteger(s) == ToSet(s) \subseteq {"0"}

IsZero(s) == ToSet(IntPart(s) \o Fraction(s)) \subseteq {"0"}

\* Seeded fault: the bound counts all digits
FitsInTotal(s) == Len(IntPart(s)) + Len(Fraction(s)) <= MaxInteger + MaxDecimals

FitsColumn(s) == Len(IntPart(s)) <= MaxInteger

IsPositiveDecimalString(s) ==
  IsDecimal(s) /\ ~HasLeadingZero(s) /\ ~IsZero(s) /\ FitsColumn(s)

-----------------------------------------------------------------------------
(***************************************************************************)
(* new Prisma.Decimal(amount): a number of units of the last decimal       *)
(***************************************************************************)
Units(s) == Value(IntPart(s)) * Power[MaxDecimals]
            + Value(Fraction(s)) * Power[MaxDecimals - Len(Fraction(s))]

\* The decimals a number of units needs
Decimals(u) == CHOOSE d \in 0..MaxDecimals :
                 /\ u % Power[MaxDecimals - d] = 0
                 /\ \A c \in 0..d - 1 : u % Power[MaxDecimals - c] # 0

IntegerDigits(v) == CHOOSE n \in 1..MaxInteger + MaxDecimals :
                      v < Power[n] /\ (n > 1 => v >= Power[n - 1])

\* u / Power[MaxDecimals] with d decimals
Fixed(u, d) ==
  LET whole == u \div Power[MaxDecimals]
      part  == (u % Power[MaxDecimals]) \div Power[MaxDecimals - d]
  IN  Numeral(whole, IntegerDigits(whole)) \o
      IF d = 0 THEN <<>> ELSE <<".">> \o Numeral(part, d)

\* The exponent of u / Power[MaxDecimals] is -SmallExponent or less
IsSmall(u) == u < Power[MaxDecimals - SmallExponent + 1]

Scientific(u) ==
  LET n == CHOOSE n \in 1..MaxDecimals : u < Power[n] /\ u >= Power[n - 1]
      mantissa == Numeral(u, n)
      digits   == SubSeq(mantissa, 1, n - (MaxDecimals - Decimals(u)))
  IN  <<digits[1]>> \o (IF Len(digits) > 1 THEN <<".">> \o Tail(digits) ELSE <<>>)
      \o <<"e", "-", Digit(MaxDecimals - n + 1)>>

\* Seeded fault: toFixed(1)
RoundedDown(u) == Fixed(u, 1)

\* Decimal.prototype.toString
DecimalString(u) == IF IsSmall(u) THEN Scientific(u) ELSE Fixed(u, Decimals(u))

\* Every decimal notation of every positive amount the column has
Notations ==
  UNION {{Fixed(u, d) : u \in {v \in 1..Power[MaxInteger + MaxDecimals] - 1 :
                                 v % Power[MaxDecimals - d] = 0}} : d \in 0..MaxDecimals}

ExponentAt(s) == SelectInSeq(s, LAMBDA c : c = "e")

\* The number of units a notation with or without an exponent stands for
ReadBack(s) ==
  IF ~Contains(s, "e") THEN Units(s)
  ELSE LET e == ExponentAt(s)
           digits == IntPart(SubSeq(s, 1, e - 1)) \o Fraction(SubSeq(s, 1, e - 1))
           exponent == CHOOSE n \in 0..9 : Digit(n) = s[e + 2]
       IN  Value(digits) * Power[MaxDecimals - exponent - (Len(digits) - 1)]
=============================================================================
