CONSTANTS
  Models = {m1}
  QuotaBackoffBase = 1
  QuotaBackoffMax = 2
  MaxLevel = 1
  CloudflareMin = 1
  Transient = 1
  Medium = 1
  Long = 2
  NoHint = nohint
  Failures = {"quota"}
  AuthFailures = {"request"}
  Hints = {}
  Storing = TRUE
  Savers = {s1}
  MaxTime = 2
  Admin = TRUE
SPECIFICATION Spec
INVARIANTS BackoffLevelBounded OffBlocksOnlyUnsupported DiskIsExact
