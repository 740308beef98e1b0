------------------------------ MODULE JsonValue ------------------------------
(***************************************************************************)
(* JSON values as JSON.parse returns them: tagged, an object the sequence  *)
(* of its members in the order they were sent, no two of one name, a text  *)
(* a sequence of characters.  A number is the digits JSON.stringify writes *)
(* for it (0 also for -0), or infinite, when what was sent is too great    *)
(* for a double.                                                           *)
(***************************************************************************)
EXTENDS Naturals, SequencesExt

CONSTANTS
  KeyOrder,     \* the member names, in the order sort() gives them
  Characters,   \* of the texts and numbers clients send
  MaxDepth      \* bound: how deep arrays and objects are nested

ASSUME JsonAssumption ==
  /\ KeyOrder \in Seq(ToSet(KeyOrder)) /\ IsInjective(KeyOrder)
  /\ MaxDepth \in Nat

Null           == [tag |-> "null"]
True           == [tag |-> "true"]
False          == [tag |-> "false"]
Number(n)      == [tag |-> "number", digits |-> n]
Infinite(s)    == [tag |-> "infinite", sign |-> s]
Text(s)        == [tag |-> "text", chars |-> s]
Array(items)   == [tag |-> "array", items |-> items]
Member(k, j)   == [key |-> k, value |-> j]
Object(fields) == [tag |-> "object", fields |-> fields]

-----------------------------------------------------------------------------
Literals == {"null", "true", "false"}
Scalars == [tag: Literals]
           \cup [tag: {"number"}, digits: Seq(Characters) \ {<<>>}]
           \cup [tag: {"infinite"}, sign: {"plus", "minus"}]
           \cup [tag: {"text"}, chars: Seq(Characters)]
Arrays(values) == [tag: {"array"}, items: Seq(values)]
Members(values) == [key: ToSet(KeyOrder), value: values]
NamesDiffer(fields) ==
  \A i, k \in DOMAIN fields : fields[i].key = fields[k].key => i = k
Objects(values) ==
  {o \in [tag: {"object"}, fields: Seq(Members(values))] : NamesDiffer(o.fields)}

JsonOfDepth[n \in Nat] ==
  IF n = 0 THEN Scalars
  ELSE Scalars \cup Arrays(JsonOfDepth[n - 1]) \cup Objects(JsonOfDepth[n - 1])
Json == JsonOfDepth[MaxDepth]
=============================================================================
