CONSTANTS
  Requests = {r1, r2}
  Operators = {"refresh", "admin", "service", "models"}
  Programs = {"refresh", "patch", "add", "remove", "models"}
  Results = {"success", "quota", "rejected", "transient", "request"}
  MaxBusy = 2
  NoAuth = noAuth
SPECIFICATION Spec
SYMMETRY RequestSymmetry
INVARIANT TypeOK
PROPERTIES AloneSyncsScheduler AloneResultSyncsMarks OnlyTheServiceCreates
