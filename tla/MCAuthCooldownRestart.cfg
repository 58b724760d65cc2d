CONSTANTS
  Models = {m1}
  QuotaBackoffBase = 1
  QuotaBackoffMax = 3
  MaxLevel = 2
  CloudflareMin = 2
  Transient = 1
  Medium = 2
  Long = 3
  NoHint = nohint
  Failures = {"support", "quota"}
  AuthFailures = {}
  Hints = {}
  Storing = TRUE
  Savers = {s1}
  MaxTime = 3
  Admin = TRUE
SPECIFICATION Spec
PROPERTY RestartKeepsCooldowns
