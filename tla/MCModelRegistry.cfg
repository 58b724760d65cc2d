CONSTANTS
  Clients = {a, b}
  Models = {m}
  Providers = {p, q}
  Handlers = {h1}
  NoProvider = none
  MaxDup = 2
  Window = 1
  MaxTime = 2
  LateMarks = FALSE
SPECIFICATION Spec
SYMMETRY ClientSymmetry
INVARIANTS CountsMatchBindings CacheIsCurrent MarksOnlyOnBindings ProviderViewAgrees
