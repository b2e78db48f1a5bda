SPECIFICATION TrackingSpec
CONSTANTS
  e1 = e1
  e2 = e2
  s1 = s1
  o1 = o1
  Events = {e1, e2}
  EventScope <- OneScope
  Aggregate <- OneOrder
  HandlerSeq <- SSEThenTracking
  Tracking = "channel-tracking"
  Broken = {"sse-broadcast"}
  Batch = 1
  Limit = 1
  MaxFaults = 1
INVARIANTS
  DoneWasRecorded
PROPERTIES
  HandlerDrains
  NoSilentGap
  StreamCatchesUp
