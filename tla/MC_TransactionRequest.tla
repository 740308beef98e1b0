------------------------ MODULE MC_TransactionRequest ------------------------
(***************************************************************************)
(* RetriedRequest for TLC: every text up to six characters as an amount,   *)
(* and every choice of type, accounts, currency and metadata.              *)
(***************************************************************************)
EXTENDS RetriedRequest

MCKeyOrder == <<"amount", "currency", "extra", "fromAccount", "metadata",
                "note", "nul", "tags", "toAccount", "type">>

MCCharacters == {"0", "1", ".", "-", "USD", "A", "n", "m",
                 "long", "selectors", "NUL",
                 "DEPOSIT", "WITHDRAWAL", "TRANSFER", "REFUND", "OTHER"}

MCLongName      == <<"long">>
MCUncountedName == <<"selectors">>
MCUnstorable    == {"NUL", "nul"}

Given(k, j)  == <<Member(k, j)>>
Choice(k, S) == {<<>>} \cup {Given(k, j) : j \in S}

Usual == Given("currency", Text(<<"USD">>))
One   == Given("amount", Text(<<"1">>))

AmountBodies ==
  {Object(<<Member("type", Text(<<"DEPOSIT">>)), Member("amount", Text(s)),
            Member("toAccount", Text(<<"A">>))>> \o Usual) :
     s \in SeqOf({"0", "1", ".", "-"}, 6)}

AccountValues == {Null, Text(<<>>), Text(<<"A">>), Text(MCLongName), Text(MCUncountedName),
                  Text(<<"A", "NUL">>), Number(<<"1">>), Infinite("plus"), False}
Accounts(f) == Choice(f, AccountValues)

Note(s) == Member("note", Text(<<s>>))
Tags(x) == Member("tags", Array(x))
Metadata ==
  {Object(<<>>), Object(<<Note("n"), Tags(<<Number(<<"1">>), Number(<<"1">>)>>)>>),
   Object(<<Tags(<<Text(<<"NUL">>), Infinite("plus")>>)>>), Object(<<Member("nul", Null)>>)}

AccountBodies ==
  {Object(Given("type", Text(<<t>>)) \o One \o Usual \o from \o to) :
     t \in {"DEPOSIT", "WITHDRAWAL", "TRANSFER", "REFUND", "OTHER"},
     from \in Accounts("fromAccount"), to \in Accounts("toAccount")}

OtherBodies ==
  {Object(type \o amount \o currency \o metadata \o extra) :
     type \in Choice("type", {Text(<<"REFUND">>)}),
     amount \in Choice("amount", {Number(<<"1">>), Text(<<"1">>)}),
     currency \in Choice("currency", AccountValues),
     metadata \in Choice("metadata", Metadata \cup {Null, Array(<<>>)}),
     extra \in Choice("extra", {Null})}

MCBodies == AmountBodies \cup AccountBodies \cup OtherBodies

\* The members turned round, one left out, one added, one given another value;
\* the amounts, so many, are only turned round
MCVariants(b) ==
  IF b \in AmountBodies THEN {b, Object(Reverse(b.fields))} ELSE
  LET fields == b.fields
      Deep(j) == IF j.tag = "object" THEN Object(Reverse(j.fields)) ELSE j
      values  == {Null, Infinite("minus"), True, Text(<<"1">>), Object(<<Note("n")>>), Object(<<Note("m")>>),
                  Object(<<Note("n"), Tags(<<Number(<<"1", "1">>)>>)>>),
                  Object(<<Tags(<<Text(<<"NUL">>), Null>>)>>)}
  IN  {b, Object(Reverse(fields)),
       Object([i \in DOMAIN fields |-> Member(fields[i].key, Deep(fields[i].value))])}
      \cup {Object(RemoveAt(fields, i)) : i \in DOMAIN fields}
      \cup {Object(ReplaceAt(fields, i, Member(fields[i].key, v))) :
              i \in DOMAIN fields, v \in values}
      \cup (IF \E i \in DOMAIN fields : fields[i].key = "extra" THEN {}
            ELSE {Object(Given("extra", v) \o fields) : v \in values})
=============================================================================
