SPECIFICATION FairSpec
CONSTANTS
  apikey = apikey
  custom = custom
  t1 = t1
  t2 = t2
  r1 = r1
  r2 = r2
  Keys = {apikey, custom}
  Restored = {apikey}
  Threads = {t1, t2}
  Requests = {r1, r2}
  None = None
  Times = 2
  MaxCalls = 2
  MaxFailures = 2
INVARIANT TypeOK
INVARIANT NoLoss
INVARIANT InflationBounded
PROPERTY EventualDelivery
