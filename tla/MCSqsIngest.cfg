SPECIFICATION IngestSpec
CONSTANTS
  m1 = m1
  m2 = m2
  bad = bad
  k1 = k1
  k2 = k2
  c1 = c1
  c2 = c2
  Messages = {m1, m2, bad}
  Order <- TwiceAndBad
  Uncastable = {bad}
  Consumers = {c1, c2}
  MaxMessages = 2
  MaxReceive = 2
  MaxFaults = 2
INVARIANTS
  DeletedWasSaved
  SavedOnce
PROPERTY
  QueueDrains
