SPECIFICATION AgentSpec
CONSTANTS
  s1 = s1
  s2 = s2
  d1 = d1
  d2 = d2
  d3 = d3
  f1 = f1
  f2 = f2
  NilDevice = nil
  Scopes = {s1, s2}
  Conns = {c1}
  Devices = {d1, d2, d3}
  DeviceScope <- ScopeOf
  Frames = {f1, f2}
  FrameScope <- FramesOf
  BufCap = 1
  Links = {l1, l2}
  NoLink = nolink
  MaxFaults = 1
INVARIANTS
  NoPanic
  RegisteredIsLive
  ScopeIsolation
  LinkReplaces
PROPERTIES
  LinksReturn
  CutStreamEnds
