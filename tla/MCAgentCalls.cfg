SPECIFICATION Spec
CONSTANTS
  s1 = s1
  d1 = d1
  u1 = u1
  p1 = p1
  own = own
  Scopes = {s1}
  Conns = {c1}
  Devices = {d1}
  NilDevice = NilDevice
  Frames = {u1, p1, own}
  FrameScope <- MCFrameScope
  StoreOf <- MCStoreOf
  Kind <- MCKind
  BufCap = 1
  OfflineAfter = 2
  MaxFaults = 1
  MaxShifts = 2
INVARIANTS
  AnswerIsTrue
  PagesAlternate
PROPERTIES
  ReportWins
  DarkStorePaged
