SPECIFICATION FairSpec
CONSTANTS
  r1 = r1
  r2 = r2
  main = main
  backup = backup
  Requests = {r1, r2}
  Hosts = {main, backup}
  Primary = {main}
  Weight <- EvenWeight
  Retries = 2
  MaxErrors = 1
  None = None
  MaxChanges = 1
CHECK_DEADLOCK FALSE
PROPERTY NoAttemptAfterTimeout
