CONSTANTS
  Models = {"m", "u", "v"}
  QuotaBackoffBase = 1
  QuotaBackoffMax = 1
  CloudflareMin = 1
  MaxLevel = 0
  Transient = 2
  Medium = 2
  Long = 3
  NoHint = noHint
  NoAuth = noAuth
  Requests = {"r"}
  MaxOthers = 1
  Auths = {1, 2}
  Route = "m"
  Pool <- OneAndPool
  Preparers = {2}
  CoolingOff = {}
  Retries <- Patience
  Limits = {0, 1}
  MaxWait = 1
  Failures = {"quota", "transient"}
  Hints = {1}
  MaxTime = 2
SPECIFICATION FairSpec
INVARIANTS TypeOK EveryCallIsReported CostIsBounded
PROPERTIES OneCredentialServes WaitPays RequestIsAnswered
CHECK_DEADLOCK FALSE
