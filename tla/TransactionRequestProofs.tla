---------------------- MODULE TransactionRequestProofs ----------------------
(***************************************************************************)
(* What becomes of a request body, for every set of bodies, every base and *)
(* every number of digits.                                                 *)
(***************************************************************************)
EXTENDS TransactionRequest, AmountProofs

-----------------------------------------------------------------------------
(***************************************************************************)
(* The inductive invariant: the verdict, the row and the notification are  *)
(* what the properties of the body make them.                              *)
(***************************************************************************)
RowOfBody == [amount |-> Units(Field("amount").chars),
              fromAccount |-> Column("fromAccount"), toAccount |-> Column("toAccount")]

NoteOfBody ==
  LET r == Recipient(Column("fromAccount"), Column("toAccount"))
  IN  IF r \in {Null, Text(<<>>)} THEN None
      ELSE [recipient |-> r, amount |-> DecimalString(Units(Field("amount").chars))]

Progress ==
  /\ body \in Bodies
  /\ stage \in {"sent", "valid", "refused", "stored", "failed", "done"}
  /\ stage = "refused" => ~IsValid
  /\ stage \in {"valid", "stored", "failed", "done"} => IsValid
  /\ stage = "failed" => MayThrow
  /\ stage \in {"stored", "done"} => MayInsert /\ row = RowOfBody
  /\ stage \notin {"stored", "done"} => row = None
  /\ stage = "done" => note = NoteOfBody
  /\ stage # "done" => note = None

\* The verdicts are about the body alone, and the body stays.
LEMMA BodyStays ==
  ASSUME body' = body
  PROVE  /\ \A f : Field(f)' = Field(f)
         /\ IsValid' <=> IsValid
         /\ (MayInsert' <=> MayInsert) /\ (MayThrow' <=> MayThrow)
         /\ RowOfBody' = RowOfBody /\ NoteOfBody' = NoteOfBody
<1>1. ASSUME NEW f
      PROVE  /\ Field(f)' = Field(f) /\ Column(f)' = Column(f)
             /\ (IsText(f)' <=> IsText(f)) /\ (IsName(f)' <=> IsName(f))
             /\ (Storable(f)' <=> Storable(f)) /\ (IsClean(f)' <=> IsClean(f))
             /\ (IsInfinite(f)' <=> IsInfinite(f))
  BY DEF Field, Has, Column, IsClean, IsInfinite, IsText, IsName, Fits, Storable
<1>2. \A ts : IsType(ts)' <=> IsType(ts)
  BY <1>1 DEF IsType
<1>3. IsValid' <=> IsValid
  BY <1>1, <1>2 DEF IsValid, RestIsValid, AccountsValid
<1>4. (MayInsert' <=> MayInsert) /\ (MayThrow' <=> MayThrow)
  BY <1>1 DEF MayInsert, MayThrow
<1>5. QED BY <1>1, <1>3, <1>4 DEF RowOfBody, NoteOfBody

\* Each handler goes one stage further and adds what the body makes of it.
LEMMA ProgressStep == Progress /\ [Next]_vars => Progress'
<1>1. SUFFICES ASSUME Progress, [Next]_vars PROVE Progress'
  OBVIOUS
<1>2. body' = body
  BY <1>1 DEF Next, vars, Validate, Insert, Notify
<1>3. /\ \A f : Field(f)' = Field(f)
      /\ IsValid' <=> IsValid
      /\ (MayInsert' <=> MayInsert) /\ (MayThrow' <=> MayThrow)
      /\ RowOfBody' = RowOfBody /\ NoteOfBody' = NoteOfBody
  BY <1>2, BodyStays
<1>4. CASE Validate
  BY <1>1, <1>2, <1>3, <1>4 DEF Progress, Validate
<1>5. CASE Insert
  BY <1>1, <1>2, <1>3, <1>5 DEF Progress, Insert, RowOfBody
<1>6. CASE Notify
  BY <1>1, <1>2, <1>3, <1>6 DEF Progress, Notify, RowOfBody, NoteOfBody
<1>7. CASE UNCHANGED vars
  BY <1>1, <1>2, <1>3, <1>7 DEF Progress, vars
<1>8. QED BY <1>1, <1>4, <1>5, <1>6, <1>7 DEF Next

\* At every stage the verdict, the row and the notification there are by then
\* are the ones the body calls for.
THEOREM Invariance == Spec => []Progress
<1>1. Init => Progress
  BY DEF Init, Progress
<1>2. Progress /\ [Next]_vars => Progress'
  BY ProgressStep
<1>3. QED BY <1>1, <1>2, PTL DEF Spec

-----------------------------------------------------------------------------
(***************************************************************************)
(* What the invariant gives                                                *)
(***************************************************************************)
\* A property that is a text has a sequence of characters.
LEMMA TextsAreSequences ==
  ASSUME body \in Bodies, NEW f, IsText(f)
  PROVE  Has(f) /\ Field(f).chars \in Seq(STRING)
<1>1. Null.tag # "text"
  BY DEF Null
<1>2. Has(f)
  BY <1>1 DEF IsText, Field
<1>3. PICK m \in ToSet(body.fields) : Field(f) = m.value
  BY <1>2 DEF Has, Field
<1>4. QED BY <1>2, <1>3, BodiesAssumption DEF IsText

\* The amount of a valid body is the notation of the number of its row.
LEMMA ValidAmount ==
  ASSUME body \in Bodies, IsValid
  PROVE  LET s == Field("amount").chars
         IN  /\ Units(s) \in 1..Power[MaxInteger + MaxDecimals] - 1
             /\ s \in Notations
             /\ \E d \in 0..MaxDecimals : s = Fixed(Units(s), d)
<1> DEFINE s == Field("amount").chars
<1>1. s \in Seq(STRING) /\ IsPositiveDecimalString(s)
  BY TextsAreSequences DEF IsValid
<1> HIDE DEF s
<1>2. s \in Notations
  BY <1>1, AcceptedAreNotations
<1>3. /\ Units(s) \in 1..Power[MaxInteger + MaxDecimals] - 1
      /\ Len(Fraction(s)) \in 0..MaxDecimals /\ s = Fixed(Units(s), Len(Fraction(s)))
  BY <1>1, AcceptedIsFixed
<1>4. QED BY <1>2, <1>3 DEF s

\* An account that was told, or stored, is a text the column takes.
LEMMA ColumnsAreTexts ==
  ASSUME MayInsert, NEW f \in Columns
  PROVE  \/ Column(f) = Null
         \/ /\ Column(f).tag = "text"
            /\ Column(f).chars \notin {LongName, UncountedName}
BY DEF MayInsert, Column, Storable, Fits, IsText

LEMMA RecipientIsText ==
  ASSUME MayInsert
  PROVE  LET r == Recipient(Column("fromAccount"), Column("toAccount"))
         IN  r = Null \/ r.tag = "text"
BY ColumnsAreTexts DEF Columns, Recipient

\* A row and a notification are not "none".
LEMMA SomeIsNotNone ==
  /\ RowOfBody # None
  /\ NoteOfBody # None =>
       LET r == Recipient(Column("fromAccount"), Column("toAccount"))
       IN  /\ r \notin {Null, Text(<<>>)}
           /\ NoteOfBody = [recipient |-> r, amount |-> DecimalString(Units(Field("amount").chars))]
<1>1. DOMAIN RowOfBody # DOMAIN None
  BY DEF RowOfBody, None
<1>2. QED BY <1>1 DEF NoteOfBody

\* The row holds an amount the column holds and accounts its columns can, and
\* only what is done has a notification.
THEOREM TypeCorrect == Spec => []TypeOK
<1>1. ASSUME Progress PROVE TypeOK
  <2>1. stage \in {"stored", "done"} <=> row # None
    BY <1>1, SomeIsNotNone DEF Progress
  <2>2. ASSUME row # None
        PROVE  /\ row.amount \in 1..Power[MaxInteger + MaxDecimals] - 1
               /\ {row.fromAccount, row.toAccount}
                    \cap {Text(LongName), Text(UncountedName), Number(<<"1">>), Infinite("plus")}
                    = {}
    <3>1. row = RowOfBody /\ MayInsert /\ IsValid /\ body \in Bodies
      BY <1>1, <2>1, <2>2 DEF Progress
    <3>2. row.amount = Units(Field("amount").chars)
          /\ row.fromAccount = Column("fromAccount") /\ row.toAccount = Column("toAccount")
      BY <3>1 DEF RowOfBody
    <3>3. ASSUME NEW f \in Columns
          PROVE  Column(f) \notin {Text(LongName), Text(UncountedName),
                                  Number(<<"1">>), Infinite("plus")}
      <4>1. /\ Null.tag = "null" /\ \A s : Text(s).tag = "text" /\ Text(s).chars = s
            /\ Number(<<"1">>).tag = "number" /\ Infinite("plus").tag = "infinite"
        BY DEF Null, Text, Number, Infinite
      <4>2. QED BY <3>1, <4>1, ColumnsAreTexts
    <3>4. QED BY <3>1, <3>2, <3>3, ValidAmount DEF Columns
  <2>3. ASSUME note # None PROVE stage = "done" /\ note.recipient.tag = "text"
    <3>1. stage = "done" /\ note = NoteOfBody /\ MayInsert
      BY <1>1, <2>3 DEF Progress
    <3>2. QED BY <2>3, <3>1, SomeIsNotNone, RecipientIsText
  <2>4. QED BY <1>1, <2>1, <2>2, <2>3 DEF Progress, TypeOK
<1>2. QED BY <1>1, Invariance, PTL

\* The number stored is the one written, and what is refused for its amount
\* is no notation of an amount the column holds.
THEOREM AmountsExact == Spec => []AmountExact
<1>1. ASSUME Progress PROVE AmountExact
  <2>1. ASSUME row # None
        PROVE  /\ Field("amount").chars \in Notations
               /\ \E d \in 0..MaxDecimals : Field("amount").chars = Fixed(row.amount, d)
    <3>1. row = RowOfBody /\ IsValid /\ body \in Bodies
      BY <1>1, <2>1 DEF Progress
    <3>2. row.amount = Units(Field("amount").chars)
      BY <3>1 DEF RowOfBody
    <3>3. QED BY <3>1, <3>2, ValidAmount
  <2>2. ASSUME stage = "refused", RestIsValid, IsText("amount")
        PROVE  Field("amount").chars \notin Notations
    <3>1. ~IsPositiveDecimalString(Field("amount").chars)
      BY <1>1, <2>2 DEF Progress, IsValid
    <3>2. Field("amount").chars \in Seq(STRING)
      BY <1>1, <2>2, TextsAreSequences DEF Progress
    <3>3. QED BY <3>1, <3>2, AcceptedAreNotations
  <2>3. QED BY <2>1, <2>2 DEF AmountExact
<1>2. QED BY <1>1, Invariance, PTL

\* A text validated, or an account left out, is stored if PostgreSQL stores it.
LEMMA ValidIsStorable ==
  ASSUME RestIsValid, ~GivesUnused, ~GivesUnstorable
  PROVE  ~MayThrow
<1>1. ASSUME NEW f \in Columns, IsName(f) PROVE Storable(f)
  BY <1>1 DEF IsName, Storable, Fits, GivesUnstorable
<1>2. \A f : ~Has(f) => Storable(f)
  BY DEF Storable, Field
<1>3. \A f \in Columns : Storable(f)
  BY <1>1, <1>2 DEF RestIsValid, AccountsValid, GivesUnused, Columns
<1>4. IsClean("metadata")
  BY DEF GivesUnstorable
<1>5. QED BY <1>3, <1>4 DEF MayThrow

\* A validated body fails by nothing but what no decorator checks.
THEOREM FailsByUnchecked == Spec => []FailsOnlyByUnchecked
<1>1. Progress => FailsOnlyByUnchecked
  BY ValidIsStorable DEF Progress, FailsOnlyByUnchecked, IsValid
<1>2. QED BY <1>1, Invariance, PTL

\* Who is told is a party of the transaction, and only a refund tells nobody.
THEOREM PartyIsTold == Spec => []RecipientIsParty
<1>1. ASSUME Progress, stage = "done"
      PROVE  /\ IsType({"TRANSFER", "WITHDRAWAL"}) =>
                  note # None /\ note.recipient = Field("fromAccount")
             /\ ~GivesUnused =>
                  IF IsType({"REFUND"}) THEN note = None
                  ELSE IsType({"DEPOSIT"}) =>
                         note # None /\ note.recipient = Field("toAccount")
  <2> DEFINE r == Recipient(Column("fromAccount"), Column("toAccount"))
  <2>1. note = NoteOfBody /\ AccountsValid
    BY <1>1 DEF Progress, IsValid, RestIsValid
  <2>2. ASSUME NEW f, IsName(f) PROVE Column(f) = Field(f) /\ Field(f) \notin {Null, Text(<<>>)}
    <3>1. Null.tag = "null" /\ Text(<<>>).chars = <<>>
      BY DEF Null, Text
    <3>2. QED BY <2>2, <3>1 DEF IsName, IsText, Column, IsInfinite
  <2>3. \A f : ~Has(f) => Column(f) = Null
    BY DEF Field, Column
  <2>4. ASSUME r \notin {Null, Text(<<>>)} PROVE note # None /\ note.recipient = r
    <3> DEFINE n == [recipient |-> r, amount |-> DecimalString(Units(Field("amount").chars))]
    <3>1. note = n
      BY <2>1, <2>4 DEF NoteOfBody
    <3>2. "recipient" \in DOMAIN n /\ "recipient" \notin DOMAIN None
      BY DEF None
    <3>3. QED BY <3>1, <3>2
  <2>5. r \in {Null, Text(<<>>)} => note = None
    BY <2>1 DEF NoteOfBody
  <2>6. ASSUME IsType({"TRANSFER", "WITHDRAWAL"})
        PROVE  note # None /\ note.recipient = Field("fromAccount")
    <3>1. r = Field("fromAccount") /\ r \notin {Null, Text(<<>>)}
      BY <2>1, <2>2, <2>6 DEF AccountsValid, Recipient
    <3>2. QED BY <2>4, <3>1
  <2>7. /\ IsType({"REFUND"}) => ~IsType({"TRANSFER", "WITHDRAWAL"}) /\ ~IsType({"TRANSFER", "DEPOSIT"})
        /\ IsType({"DEPOSIT"}) => ~IsType({"TRANSFER", "WITHDRAWAL"}) /\ IsType({"TRANSFER", "DEPOSIT"})
    <3>1. \A s, t : Text(<<s>>) = Text(<<t>>) => s = t
      <4>1. \A s : Text(<<s>>).chars[1] = s
        BY DEF Text
      <4>2. QED BY <4>1
    <3>2. QED BY <3>1 DEF IsType
  <2>8. ASSUME ~GivesUnused, IsType({"REFUND"}) PROVE note = None
    <3>1. Column("fromAccount") = Null /\ Column("toAccount") = Null
      BY <2>3, <2>7, <2>8 DEF GivesUnused
    <3>2. QED BY <2>5, <3>1 DEF Recipient
  <2>9. ASSUME ~GivesUnused, IsType({"DEPOSIT"})
        PROVE  note # None /\ note.recipient = Field("toAccount")
    <3>1. Column("fromAccount") = Null /\ IsName("toAccount")
      BY <2>1, <2>3, <2>7, <2>9 DEF GivesUnused, AccountsValid
    <3>2. r = Field("toAccount") /\ r \notin {Null, Text(<<>>)}
      BY <2>2, <3>1 DEF Recipient
    <3>3. QED BY <2>4, <3>2
  <2>10. QED BY <2>6, <2>8, <2>9
<1>2. Progress => RecipientIsParty
  BY <1>1 DEF RecipientIsParty
<1>3. QED BY <1>2, Invariance, PTL

\* The amount of a notification reads as the amount of the row.
THEOREM PayloadReadsBack == Spec => []PayloadAmount
<1>1. ASSUME Progress, note # None
      PROVE  /\ ReadBack(note.amount) = row.amount
             /\ IsSmall(row.amount) \/ IsPositiveDecimalString(note.amount)
  <2> DEFINE u == Units(Field("amount").chars)
  <2>1. note = NoteOfBody /\ row = RowOfBody /\ IsValid /\ body \in Bodies
    BY <1>1 DEF Progress
  <2>2. note.amount = DecimalString(u)
    BY <1>1, <2>1, SomeIsNotNone
  <2>3. row.amount = u
    BY <2>1 DEF RowOfBody
  <2>4. u \in 1..Power[MaxInteger + MaxDecimals] - 1
    BY <2>1, ValidAmount
  <2> HIDE DEF u
  <2>5. QED BY <2>2, <2>3, <2>4, DecimalStringReadsBack
<1>2. Progress => PayloadAmount
  BY <1>1 DEF PayloadAmount
<1>3. QED BY <1>2, Invariance, PTL

\* The requests of the load tests are accepted, but for an amount toFixed
\* rounds to zero.
THEOREM GeneratedAccepted == Spec => []GeneratedIsAccepted
<1>1. ASSUME Progress, IsGenerated
      PROVE  stage # "failed" /\ (stage = "refused" => IsZero(Field("amount").chars))
  <2> DEFINE s == Field("amount").chars
  <2>1. AccountsValid /\ ~GivesUnused
    BY <1>1 DEF IsGenerated, IsPlain, AccountsValid, GivesUnused
  <2>2. RestIsValid
    <3>1. Field("metadata").tag \in {"null", "object"}
      BY <1>1 DEF IsGenerated, Field, Null
    <3>2. QED BY <1>1, <2>1, <3>1 DEF IsGenerated, IsPlain, RestIsValid
  <2>3. stage # "failed"
    <3>1. \A f \in Columns : Storable(f)
      <4>1. \A f : ~Has(f) => Storable(f)
        BY DEF Storable, Field
      <4>2. \A f : IsPlain(f) => Storable(f)
        BY DEF IsPlain, Storable
      <4>3. QED BY <1>1, <4>1, <4>2 DEF IsGenerated, Columns
    <3>2. IsClean("metadata")
      BY <1>1 DEF IsGenerated, IsClean, Field
    <3>3. QED BY <1>1, <3>1, <3>2 DEF Progress, MayThrow
  <2>4. PICK d \in 1..MaxDecimals : \E u \in 0..Power[MaxInteger + MaxDecimals] - 1 :
                                       s = Fixed(u, d)
    BY <1>1 DEF IsGenerated, GeneratedAmounts
  <2>5. PICK u \in 0..Power[MaxInteger + MaxDecimals] - 1 : s = Fixed(u, d)
    BY <2>4
  <2>6. d \in 0..MaxDecimals
    BY <2>4, AmountAssumption
  <2>7. IsDecimal(s) /\ ~HasLeadingZero(s) /\ FitsColumn(s)
    BY <2>5, <2>6, FixedIsDecimal
  <2>8. ASSUME stage = "refused" PROVE IsZero(s)
    <3>1. ~IsPositiveDecimalString(s)
      BY <1>1, <2>2, <2>8 DEF Progress, IsValid, IsGenerated
    <3>2. QED BY <2>7, <3>1 DEF IsPositiveDecimalString
  <2>9. QED BY <2>3, <2>8
<1>2. Progress => GeneratedIsAccepted
  BY <1>1 DEF GeneratedIsAccepted
<1>3. QED BY <1>2, Invariance, PTL
=============================================================================
