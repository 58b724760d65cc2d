CONSTANTS
  Models = {m}
  QuotaBackoffBase = 1
  QuotaBackoffMax = 1
  CloudflareMin = 1
  MaxLevel = 0
  Transient = 2
  Medium = 2
  Long = 3
  NoHint = noHint
  NoAuth = noAuth
  Auths = {1, 2}
  Providers = {"p"}
  Orders <- NoOrder
  Priorities = {1, 2}
  Settings <- Pair
  WsProviders = {"p"}
  Asked <- NamedOrAny
  Strategies = {"round-robin"}
  Failures = {"quota", "transient"}
  Hints = {1}
  MaxTime = 3
SPECIFICATION Spec
INVARIANTS ViewsFollowCredentials PickIsBest
