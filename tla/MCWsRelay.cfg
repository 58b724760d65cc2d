CONSTANTS
  Requests = {"r", "s"}
  Streams = {"s"}
  Capacity = 1
  MaxMessages <- Some
SPECIFICATION Spec
INVARIANTS AnswerIsWhole WaitersAreTold PanicsOnlyInRaces LeftOnlyByStop
CHECK_DEADLOCK FALSE
