CONSTANTS
  file = file
  key = key
  socket = socket
  v1 = v1
  v0 = v0
  tokens = tokens
  e0 = e0
  e1 = e1
  None = None
  Empty = Empty
  Gone = Gone
  Files = {file}
  Keys = {key}
  Runtimes = {socket}
  Ids <- TheIds
  Values <- TheValues
  Contents = {v1}
  LoginContents = {tokens}
  Configs <- TheConfigs
  Affected = {file}
  StartFiles <- StartContent
  StartConfig <- Start
  Reloads = {"reload"}
  QueueCap = 1
  MaxChanges = 4
SPECIFICATION FairSpec
INVARIANTS LatestIsApplied FilesAreFollowed SourcesAreFollowed
PROPERTIES ImplementsMailbox DeliversInTheEnd
CHECK_DEADLOCK FALSE
