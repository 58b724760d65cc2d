CONSTANTS
  Auths = {a1}
  Workers = {w1}
  Executors = {a1}
  Operations = {"edit", "remove", "results"}
  Lives = {0, 1}
  JobCap = 1
  Pending = 1
  Failure = 2
  Ineffective = 2
  Interval = 2
  MaxAhead = 2
  MaxLag = 1
  MaxCalls = 1
  MaxOperations = 2
  NoAuth = noAuth
SPECIFICATION FairSpec
INVARIANTS TypeOK NeverForgotten SleepsLightly
PROPERTIES NoTightLoop DueIsRefreshedIfTold
