----------------------------- MODULE RequestHash -----------------------------
(***************************************************************************)
(* stableStringify: the text of a JSON value that SHA-256 is taken of.     *)
(* SHA-256 is taken for injective, so the text stands for the hash.        *)
(* The text is a sequence of tokens: a mark, the name of a member, or a    *)
(* character.  What JSON.stringify writes for one character is one token,  *)
(* so a quote inside a text, being escaped, is not the mark "quote".       *)
(***************************************************************************)
EXTENDS JsonValue

Marks == Literals \cup {"quote", "comma", "colon",
                       "arrayStart", "arrayEnd", "objectStart", "objectEnd"}

ASSUME HashAssumption == Characters \cap Marks = {}

-----------------------------------------------------------------------------
Names(fields) == {m.key : m \in ToSet(fields)}

\* The value of the member of an object with a given name
ValueAt(fields, k) == (CHOOSE m \in ToSet(fields) : m.key = k).value

\* Seeded fault: no sort()
AsSent(fields) == [i \in DOMAIN fields |-> fields[i].key]

\* Object.keys(), sort(): each name comes behind those the order puts before it
Rank(k) == CHOOSE i \in DOMAIN KeyOrder : KeyOrder[i] = k
Place(k, names) == Cardinality({l \in names : Rank(l) <= Rank(k)})
Sorted(fields) ==
  LET names == Names(fields)
  IN  [i \in 1..Cardinality(names) |-> CHOOSE k \in names : Place(k, names) = i]

\* join(',')
Joined(texts) ==
  FlattenSeq([i \in DOMAIN texts |->
                IF i = 1 THEN texts[i] ELSE <<"comma">> \o texts[i]])

\* JSON.stringify of what is neither an array nor an object: it has no way to
\* write an infinite number
ScalarText(j) ==
  CASE j.tag \in Literals -> <<j.tag>>
    [] j.tag = "infinite" -> <<"null">>
    [] j.tag = "number"   -> j.digits
    [] j.tag = "text"     -> <<"quote">> \o j.chars \o <<"quote">>

StableStringify[j \in Json] ==
  CASE j.tag = "array"  ->
         <<"arrayStart">> \o Joined([i \in DOMAIN j.items |-> StableStringify[j.items[i]]])
         \o <<"arrayEnd">>
    [] j.tag = "object" ->
         LET sorted == Sorted(j.fields)
         IN  <<"objectStart">> \o Joined([i \in DOMAIN sorted |->
                          <<"quote", sorted[i], "quote", "colon">>
                          \o StableStringify[ValueAt(j.fields, sorted[i])]])
             \o <<"objectEnd">>
    [] OTHER -> ScalarText(j)

\* The one exception from "different values have different texts": a number
\* too great for a double, whatever its digits and its sign, counts as null
ScalarMeaning(j) == IF j.tag = "infinite" THEN Null ELSE j

\* What a JSON value means: an object is a function of its member names
Meaning[j \in Json] ==
  CASE j.tag = "array"  -> [tag |-> "array",
                            items |-> [i \in DOMAIN j.items |-> Meaning[j.items[i]]]]
    [] j.tag = "object" ->
         [tag |-> "object",
          fields |-> [k \in Names(j.fields) |-> Meaning[ValueAt(j.fields, k)]]]
    [] OTHER -> ScalarMeaning(j)
=============================================================================
