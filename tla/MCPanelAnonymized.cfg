SPECIFICATION MCSpec
CONSTANTS
  k1 = k1
  k2 = k2
  b1 = b1
  b2 = b2
  c1 = c1
  c2 = c2
  g1 = g1
  g2 = g2
  o1 = o1
  NoKey = NoKey
  NoBatch = NoBatch
  Keys = {k1}
  Batches = {b1}
  Calls = {c1}
  Pages = {g1}
  Officers = {o1}
  MaxRecruits = 1
INVARIANT AnonymizedKeepsNothing
