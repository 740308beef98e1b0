----------------------------- MODULE MC_Listing -----------------------------
(***************************************************************************)
(* Listing for TLC: three transactions, of which two touch the account a,  *)
(* or the notifications of these.                                          *)
(***************************************************************************)
EXTENDS Listing

CONSTANTS t1, t2, t3, a, b, s1, s2

Of(t, type, fromAccount, toAccount) ==
  [type |-> type, fromAccount |-> fromAccount, toAccount |-> toAccount,
   channel |-> "EMAIL", transactionId |-> t]

MCData ==
  t1 :> Of(t1, "TRANSFER", a, b) @@
  t2 :> Of(t2, "DEPOSIT", Absent, a) @@
  t3 :> Of(t3, "DEPOSIT", Absent, b)

MCQueries ==
  {[list |-> "transactions"],
   [list |-> "transactions", status |-> s1],
   [list |-> "transactions", account |-> a, endDate |-> 1],
   [list |-> "transactions", type |-> "DEPOSIT", startDate |-> 1],
   [list |-> "notifications", channel |-> "EMAIL", status |-> s2]}
=============================================================================
