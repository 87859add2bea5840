SPECIFICATION Spec
CONSTANTS
  q1 = q1
  q2 = q2
  q3 = q3
  Question <- MCQuestion
  Splitting <- MCSplitting
  Wide <- MCWide
  Draft = {d1, d2}
  NoDraft = NoDraft
  Client = {c1, c2}
  Nobody = Nobody
  Junk = Junk
  MaxRows = 3
  MaxTears = 2
  MaxReloads = 1
SYMMETRY Symmetry
INVARIANT OneRowPerQuestion
INVARIANT LossPerTear
INVARIANT WorkKept
