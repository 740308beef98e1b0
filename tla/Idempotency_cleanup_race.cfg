\* A first request whose row expires, one that cleans it up too late, and two
\* that both get to the handler: four requests for one key with one body
CONSTANTS
  Requests = {r1, r2, r3, r4}
  Keys = {k1}
  Hashes = {h1}
  None = None
SPECIFICATION Spec
SYMMETRY Symmetry
INVARIANTS
  NeverTwoHandlers
