\* Two queries and two uploads that keep coming, word by word.
SPECIFICATION FairSpec
CONSTANTS
  c0 = c0
  c1 = c1
  c2 = c2
  Reader = {r1, r2}
  Writer = {w1, w2}
  Catalog = {c0, c1, c2}
  Empty = c0
  Size <- MCSize
  Hit <- MCHit
  Nobody = Nobody
INVARIANTS
  TypeOK
  Exclusion
  AnswersWhole
PROPERTIES
  Linearizable
  CallsReturn
