\* Three requests for one key and one body: the third is what it
\* takes to clean up a live row.  No symmetry: one property is liveness.
CONSTANTS
  Requests = {r1, r2, r3}
  Keys = {k1}
  Hashes = {h1}
  None = None
SPECIFICATION FairSpec
PROPERTIES
  KeyRecovers
  KeepsContract
