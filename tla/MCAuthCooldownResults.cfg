CONSTANTS
  Models = {m1, m2}
  QuotaBackoffBase = 1
  QuotaBackoffMax = 3
  MaxLevel = 2
  CloudflareMin = 2
  Transient = 1
  Medium = 2
  Long = 3
  NoHint = nohint
  Failures = {"support", "cloudflare", "credential", "missing", "quota", "transient", "other"}
  AuthFailures = {}
  Hints = {2}
  Storing = FALSE
  Savers = {s1}
  MaxTime = 3
  Admin = FALSE
SPECIFICATION Spec
SYMMETRY ModelSymmetry
INVARIANTS AggregateIsExact StatusTellsErrors
PROPERTIES ResultsAreIsolated BackoffFallsOnlyOnRelief
