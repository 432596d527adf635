SPECIFICATION Spec
CONSTANTS
  l1 = l1
  l2 = l2
  k1 = k1
  k2 = k2
  c1 = c1
  c2 = c2
  Leaders = {l1}
  Keys = {k1, k2}
  Runs = {c1, c2}
  Strategies = {"modern", "replace", "merge"}
  Times = 2
  NoDigest = NoDigest
  MaxWrites = 2
  MaxFailures = 1
SYMMETRY RunSymmetry
INVARIANT TypeOK
INVARIANT Whole
INVARIANT NoRegress
PROPERTY NoGap
