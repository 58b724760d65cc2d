CONSTANTS
  Requests = {r1}
  Operators = {"refresh", "admin", "service"}
  Programs = {"add", "patch", "refresh"}
  Results = {"success", "quota", "rejected", "transient", "other", "request"}
  MaxBusy = 3
  NoAuth = noAuth
SPECIFICATION Spec
INVARIANT DisabledStaysDisabled
