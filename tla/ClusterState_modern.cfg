SPECIFICATION FairSpec
CONSTANTS
  l1 = l1
  l2 = l2
  k1 = k1
  k2 = k2
  c1 = c1
  c2 = c2
  Leaders = {l1}
  Keys = {k1, k2}
  Runs = {c1}
  Strategies = {"modern"}
  Times = 1
  NoDigest = NoDigest
  MaxWrites = 3
  MaxFailures = 1
INVARIANT Whole
INVARIANT NoRegress
 
PROPERTY EventuallyFresh
