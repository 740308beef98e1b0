---------------------------- MODULE KeyContract ----------------------------
(***************************************************************************)
(* What an idempotency key promises, without Redis, tables or awaits.      *)
(* A key has at most one holder, which alone creates, and records one      *)
(* answer.  The key is given up only by a holder that has created nothing, *)
(* or when its time is over.                                               *)
(*                                                                         *)
(* Breach is the one step the promise does not want and the code can take: *)
(* the cleanup in inspectFromDb deletes a live record.  From then on       *)
(* nothing is promised for that key.                                       *)
(***************************************************************************)
CONSTANTS Requests, Keys, Hashes, None

VARIABLES
  req,       \* the key and the body each request carries
  holder,    \* of each key: the request that claimed it
  answer,    \* of each key: the answer recorded for it, named by its creator
  created,   \* requests that created a transaction
  expired,   \* requests whose claim is over
  served,    \* what each request was answered: a creation, its own or another's
  breached   \* keys that lost a live claim

vars == <<req, holder, answer, created, expired, served, breached>>

Key(r)   == req[r].key
Holds(r) == holder[Key(r)] = r \/ Key(r) \in breached

Init ==
  /\ req \in [Requests -> [key: Keys, hash: Hashes]]
  /\ holder = [k \in Keys |-> None]
  /\ answer = [k \in Keys |-> None]
  /\ created = {}
  /\ expired = {}
  /\ served = [r \in Requests |-> None]
  /\ breached = {}

Claim(r) ==
  /\ holder[Key(r)] = None /\ r \notin created \cup expired
  /\ holder' = [holder EXCEPT ![Key(r)] = r]
  /\ UNCHANGED <<req, answer, created, expired, served, breached>>

Create(r) ==
  /\ Holds(r) /\ r \notin created \cup expired
  /\ created' = created \cup {r}
  /\ UNCHANGED <<req, holder, answer, expired, served, breached>>

Recorded(r) ==
  /\ holder[Key(r)] = r /\ r \in created /\ answer[Key(r)] = None
  /\ answer' = [answer EXCEPT ![Key(r)] = r]

Record(r) ==
  /\ Recorded(r)
  /\ UNCHANGED <<req, holder, created, expired, served, breached>>

Abandon(k) ==
  /\ holder[k] \in Requests \ created /\ answer[k] = None
  /\ holder' = [holder EXCEPT ![k] = None]
  /\ UNCHANGED <<req, answer, created, expired, served, breached>>

Expire(r) ==
  /\ Holds(r)
  /\ expired' = expired \cup {r}
  /\ UNCHANGED <<req, holder, answer, created, served, breached>>

\* The claims on some keys end together, as the cron deletes them
Lapse(K) ==
  /\ \A k \in K : holder[k] \in expired
  /\ holder' = [k \in Keys |-> IF k \in K THEN None ELSE holder[k]]
  /\ answer' = [k \in Keys |-> IF k \in K THEN None ELSE answer[k]]
  /\ UNCHANGED <<req, created, expired, served, breached>>

\* Only what the same key and the same body created is served; the creator
\* may learn that its answer was recorded, or failed to be, in the same step
Serve(r, b) ==
  /\ served[r] = None
  /\ \/ b \in created /\ req[b] = req[r]
     \/ Key(r) \in breached
  /\ served' = [served EXCEPT ![r] = b]
  /\ UNCHANGED answer \/ (b = r /\ Recorded(r))
  /\ UNCHANGED <<req, holder, created, expired, breached>>

Breach(k) ==
  /\ holder[k] \in Requests \ expired
  /\ holder' = [holder EXCEPT ![k] = None]
  /\ answer' = [answer EXCEPT ![k] = None]
  /\ breached' = breached \cup {k}
  /\ UNCHANGED <<req, created, expired, served>>

Next ==
  \/ \E r \in Requests : Claim(r) \/ Create(r) \/ Record(r) \/ Expire(r)
  \/ \E k \in Keys : Abandon(k) \/ Breach(k)
  \/ \E K \in SUBSET Keys : Lapse(K)
  \/ \E r, b \in Requests : Serve(r, b)

Spec == Init /\ [][Next]_vars

=============================================================================
