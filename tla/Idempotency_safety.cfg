\* Four requests for one key, with the same body or different ones
CONSTANTS
  Requests = {r1, r2, r3, r4}
  Keys = {k1}
  Hashes = {h1, h2}
  None = None
SPECIFICATION Spec
SYMMETRY Symmetry
INVARIANTS
  IInv
  ExclusiveExecution
  AtMostOneCreation
  CachedFaithful
  CacheNeverAhead
PROPERTIES
  ResponseStays
