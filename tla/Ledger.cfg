\* Three requests of one key, with the same body or different ones, and up to
\* four faults.  The system stops when every request and transaction has ended.
CONSTANTS
  Requests = {r1, r2, r3}
  Keys = {k1}
  Hashes = {h1, h2}
  None = None
  MaxFaults = 4
SPECIFICATION Spec
SYMMETRY Symmetry
INVARIANTS
  LInv
  AnsweredIsStored
  PaidOnce
  AnswersAsDocumented
CHECK_DEADLOCK FALSE
