-------------------------- MODULE TransactionRequest --------------------------
(***************************************************************************)
(* What becomes of the body of a POST /transactions: validated by the      *)
(* ValidationPipe and CreateTransactionDto, stored, and in the end told to *)
(* a recipient.                                                            *)
(***************************************************************************)
EXTENDS Amount, JsonValue

CONSTANTS
  Bodies,         \* JSON objects clients send, no deeper than Prisma takes
  LongName,       \* characters longer than the columns for an account, a currency
  UncountedName,  \* the same, but @MaxLength takes them for short enough: it
                  \* leaves variation selectors uncounted, the columns count them
  Unstorable      \* characters, and member names with characters, that Prisma and
                  \* PostgreSQL refuse in text and jsonb: NUL, half a surrogate pair

ASSUME BodiesAssumption ==
  /\ \A b \in Bodies :
       /\ b \in Json /\ b.tag = "object"
       /\ \A m \in ToSet(b.fields) :
            m.value.tag = "text" => m.value.chars \in Seq(STRING)
  /\ UncountedName \notin {<<>>, LongName}

VARIABLES
  body,     \* of the request
  stage,    \* how far it is
  row,      \* what was inserted for it
  note      \* the notification job added for it, or none

vars == <<body, stage, row, note>>

None == [none |-> TRUE]

\* A property of the body; the code treats undefined and null alike
Has(f) == \E m \in ToSet(body.fields) : m.key = f
Field(f) == IF Has(f) THEN (CHOOSE m \in ToSet(body.fields) : m.key = f).value
            ELSE Null
IsText(f) == Field(f).tag = "text"

-----------------------------------------------------------------------------
(***************************************************************************)
(* CreateTransactionDto and the ValidationPipe                             *)
(***************************************************************************)
Properties == {"type", "amount", "currency", "fromAccount", "toAccount", "metadata"}
Types == {Text(<<t>>) : t \in {"DEPOSIT", "WITHDRAWAL", "TRANSFER", "REFUND"}}
IsType(ts) == Field("type") \in {Text(<<t>>) : t \in ts}

\* Seeded fault: no @MaxLength
IsNonEmpty(f) == IsText(f) /\ Field(f).chars # <<>>

\* @IsString @IsNotEmpty @MaxLength
IsName(f) == IsText(f) /\ Field(f).chars \notin {<<>>, LongName}

AccountsValid ==
  /\ IsType({"TRANSFER", "WITHDRAWAL"}) => IsName("fromAccount")
  /\ IsType({"TRANSFER", "DEPOSIT"}) => IsName("toAccount")

RestIsValid ==
  /\ {m.key : m \in ToSet(body.fields)} \subseteq Properties
  /\ Field("type") \in Types
  /\ IsName("currency")
  /\ Field("metadata").tag \in {"null", "object"}
  /\ AccountsValid

IsValid ==
  RestIsValid /\ IsText("amount") /\ IsPositiveDecimalString(Field("amount").chars)

-----------------------------------------------------------------------------
(***************************************************************************)
(* What the insert takes.  No decorator asks for all of it, and none of an *)
(* account the type does not use for any of it.                            *)
(***************************************************************************)
\* Every text in it, the names of members too, is one PostgreSQL stores
Clean[j \in Json] ==
  CASE j.tag = "text"   -> ToSet(j.chars) \cap Unstorable = {}
    [] j.tag = "array"  -> \A i \in DOMAIN j.items : Clean[j.items[i]]
    [] j.tag = "object" -> \A i \in DOMAIN j.fields :
                             j.fields[i].key \notin Unstorable /\ Clean[j.fields[i].value]
    [] OTHER -> TRUE

Columns == {"currency", "fromAccount", "toAccount"}

IsClean(f) == Field(f) = Null \/ Clean[Field(f)]
IsInfinite(f) == Field(f).tag = "infinite"
Fits(f) == IsText(f) /\ Field(f).chars \notin {LongName, UncountedName} /\ IsClean(f)
Storable(f) == Field(f) = Null \/ Fits(f)

\* The columns hold no number, and what Prisma sends of an infinite one, null
\* or nothing it can encode, is its own affair: the insert may take it or throw
MayInsert == IsClean("metadata") /\ \A f \in Columns : Storable(f) \/ IsInfinite(f)
MayThrow  == ~(IsClean("metadata") /\ \A f \in Columns : Storable(f))

\* What is stored, and what the job of the transaction says, of an account
Column(f) == IF IsInfinite(f) THEN Null ELSE Field(f)

-----------------------------------------------------------------------------
Init ==
  /\ body \in Bodies
  /\ stage = "sent" /\ row = None /\ note = None

Validate ==
  /\ stage = "sent"
  /\ stage' = IF IsValid THEN "valid" ELSE "refused"
  /\ UNCHANGED <<body, row, note>>

\* createTransaction: the insert throws on what a column cannot take
Insert ==
  /\ stage = "valid"
  /\ \/ /\ MayInsert
        /\ stage' = "stored"
        /\ row' = [amount |-> Units(Field("amount").chars),
                   fromAccount |-> Column("fromAccount"),
                   toAccount |-> Column("toAccount")]
     \/ /\ MayThrow
        /\ stage' = "failed"
        /\ UNCHANGED row
  /\ UNCHANGED <<body, note>>

\* Seeded fault: the other way round
ToFirst(from, to) == IF to # Null THEN to ELSE from

\* fromAccount ?? toAccount
Recipient(from, to) == IF from # Null THEN from ELSE to

\* enqueueNotification, if the recipient is not falsy
Notify ==
  /\ stage = "stored"
  /\ stage' = "done"
  /\ LET r == Recipient(row.fromAccount, row.toAccount)
     IN  note' = IF r \in {Null, Text(<<>>)} THEN None
                 ELSE [recipient |-> r, amount |-> DecimalString(row.amount)]
  /\ UNCHANGED <<body, row>>

Next == Validate \/ Insert \/ Notify

Spec == Init /\ [][Next]_vars

-----------------------------------------------------------------------------
(***************************************************************************)
(* The bodies of generateTransaction, which every load test sends          *)
(***************************************************************************)
GeneratedAmounts == {Fixed(u, d) : u \in 0..Power[MaxInteger + MaxDecimals] - 1,
                                   d \in 1..MaxDecimals}

IsPlain(f) == IsName(f) /\ Fits(f)

IsGenerated ==
  /\ {m.key : m \in ToSet(body.fields)} \subseteq Properties
  /\ Field("type") \in Types
  /\ IsText("amount") /\ Field("amount").chars \in GeneratedAmounts
  /\ IsPlain("currency")
  /\ IF IsType({"TRANSFER", "WITHDRAWAL"}) THEN IsPlain("fromAccount")
     ELSE ~Has("fromAccount")
  /\ IF IsType({"TRANSFER", "DEPOSIT"}) THEN IsPlain("toAccount")
     ELSE ~Has("toAccount")
  /\ Has("metadata") => Field("metadata").tag = "object" /\ IsClean("metadata")

-----------------------------------------------------------------------------
(***************************************************************************)
(* Properties                                                              *)
(***************************************************************************)
\* The body has an account its type does not use: @ValidateIf exempts it
GivesUnused ==
  \/ ~IsType({"TRANSFER", "WITHDRAWAL"}) /\ Has("fromAccount")
  \/ ~IsType({"TRANSFER", "DEPOSIT"}) /\ Has("toAccount")

\* Its texts have what the decorators do not look for
GivesUnstorable ==
  \/ \E f \in Columns : IsText(f) /\ Field(f).chars = UncountedName
  \/ \E f \in Columns \cup {"metadata"} : ~IsClean(f)

\* The row holds an amount Decimal(20,8) can, and accounts its columns can.
TypeOK ==
  /\ stage \in {"sent", "valid", "refused", "stored", "failed", "done"}
  /\ stage \in {"stored", "done"} <=> row # None
  /\ row # None =>
       /\ row.amount \in 1..Power[MaxInteger + MaxDecimals] - 1
       /\ {row.fromAccount, row.toAccount}
            \cap {Text(LongName), Text(UncountedName), Number(<<"1">>), Infinite("plus")} = {}
  /\ note # None => stage = "done" /\ note.recipient.tag = "text"

\* The four regular expressions and the split of the validator accept the
\* decimal notations of the positive numbers the column holds and nothing
\* else, and the number stored is the one written: no accepted amount is
\* rounded, cut off or refused by the column.
AmountExact ==
  /\ row # None =>
       /\ Field("amount").chars \in Notations
       /\ \E d \in 0..MaxDecimals : Field("amount").chars = Fixed(row.amount, d)
  /\ stage = "refused" /\ RestIsValid /\ IsText("amount") =>
       Field("amount").chars \notin Notations

\* A validated body makes the insert throw only by what no decorator checks: an
\* account its type does not use, a text @MaxLength counts short, a character or
\* the name of a member PostgreSQL does not store.  No missing, empty or too long
\* text and no value of another type the DTO lets through is answered with a 500.
FailsOnlyByUnchecked == stage = "failed" => GivesUnused \/ GivesUnstorable

\* Who is told: a TRANSFER or WITHDRAWAL its fromAccount, a DEPOSIT its
\* toAccount unless it gives a fromAccount too, and only a REFUND nobody.  The
\* processor's fromAccount ?? toAccount relies on the validator for this.
RecipientIsParty ==
  stage = "done" =>
    /\ IsType({"TRANSFER", "WITHDRAWAL"}) =>
         note # None /\ note.recipient = Field("fromAccount")
    /\ ~GivesUnused =>
         IF IsType({"REFUND"}) THEN note = None
         ELSE IsType({"DEPOSIT"}) => note # None /\ note.recipient = Field("toAccount")

\* The amount of a notification reads as the amount of the row, and is an
\* amount the API accepts unless decimal.js wrote it with an exponent.
PayloadAmount ==
  note # None =>
    /\ ReadBack(note.amount) = row.amount
    /\ IsSmall(row.amount) \/ IsPositiveDecimalString(note.amount)

\* The requests of the load tests are valid, but for an amount toFixed rounds
\* to zero: that one is a 400 where the checks expect a 202.
GeneratedIsAccepted ==
  IsGenerated => /\ stage # "failed"
                 /\ stage = "refused" => IsZero(Field("amount").chars)
=============================================================================
