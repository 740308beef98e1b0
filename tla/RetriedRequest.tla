---------------------------- MODULE RetriedRequest ----------------------------
(***************************************************************************)
(* A second request with the key of the first: the interceptor compares    *)
(* the two by the hash of their bodies, whatever has become of the first.  *)
(***************************************************************************)
EXTENDS TransactionRequest, RequestHash

CONSTANT Variants(_)  \* bodies the second request may carry

ASSUME RetriedAssumption == \A b \in Bodies : Variants(b) \subseteq Json

VARIABLE second       \* its body, and how it was judged

RetriedInit == Init /\ second = None

\* The hash is of the body as it was sent, before whitelisting and transforming
Compare(b) ==
  /\ stage \notin {"refused", "failed"} /\ second = None
  /\ second' = [body |-> b,
                same |-> StableStringify[b] = StableStringify[body]]
  /\ UNCHANGED vars

RetriedNext ==
  \/ Next /\ UNCHANGED second
  \/ \E b \in Variants(body) : Compare(b)

RetriedSpec == RetriedInit /\ [][RetriedNext]_<<vars, second>>

-----------------------------------------------------------------------------
\* Two bodies have one hash exactly when they mean the same JSON value: the
\* order in which a retry sends its members does not make it a conflict, and
\* no other difference, in depth or in a property the DTO refuses, is missed,
\* with one exception.  A number too great for a double counts as null, so
\* {"x": 1e400}, {"x": -1e400} and {"x": null} have one hash.
SameHashSameBody ==
  second # None => (second.same <=> Meaning[second.body] = Meaning[body])
=============================================================================
