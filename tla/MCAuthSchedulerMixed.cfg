CONSTANTS
  Models = {m}
  QuotaBackoffBase = 1
  QuotaBackoffMax = 1
  CloudflareMin = 1
  MaxLevel = 0
  Transient = 1
  Medium = 2
  Long = 3
  NoHint = noHint
  NoAuth = noAuth
  Auths = {1, 2, 3}
  Providers = {"p", "q"}
  Orders <- Both
  Priorities = {1, 2}
  Settings <- Mixture
  WsProviders = {}
  Asked <- Named
  Strategies = {"round-robin", "fill-first"}
  Failures = {}
  Hints = {1}
  MaxTime = 1
SPECIFICATION Spec
INVARIANTS TypeOK RoundRobinProgress MixedPickIsFairAndBest
