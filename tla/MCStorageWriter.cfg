\* Two handlers, queues of one, batches of two: every queue and every batch
\* is full at some point, and two events compete for each place.
SPECIFICATION FairSpec
CONSTANTS
  Handler = {h1, h2}
  NoOne = NoOne
  Urgent = {u1, u2}
  Log = {}
  Noise = Noise
  SecurityCap = 1
  RequestCap = 1
  BatchSize = 2
  MaxSends = 1
INVARIANTS
  TypeOK
  WaitsEndAtWriter
PROPERTIES
  CallsReturn
  EventsSettle
  ImplementsLog
CHECK_DEADLOCK FALSE
