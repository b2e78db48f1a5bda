SPECIFICATION MCSpec
CONSTANTS
  o1 = o1
  o2 = o2
  o3 = o3
  s1 = s1
  s2 = s2
  c1 = c1
  c2 = c2
  Scopes = {s1, s2}
  Conns = {c1, c2}
  Devices = {}
  NilDevice = NilDevice
  Events = {o1, o2, o3}
  Frames = {o1, o2, o3}
  EventScope <- MCScope
  FrameScope <- MCScope
  Aggregate <- OneAggregate
  HandlerSeq <- SSEOnly
  SSE = "sse-broadcast"
  Batch = 1
  BufCap = 1
  MaxRows = 1
  MaxFaults = 1
  Mortal = {o1, o3}
PROPERTIES
  MeetsContract
  DeliveryGuarantee
