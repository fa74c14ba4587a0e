\* Two concurrent requests, half tokens, one tick of delay before the lock.
SPECIFICATION Spec
CONSTANTS
  Client = {c1, c2}
  Host = {d1, d2}
  Path = {p1, p2}
  Exempt = {}
  Handler = {h1, h2}
  Cost = 2
  Burst = 2
  IdleTTL = 3
  MaxStall = 1
  MaxClock = 3
SYMMETRY Symmetry
INVARIANTS
  TypeOK
  TakenBounded
  GlobalDominates
  BucketsBounded
PROPERTIES
  ImplementsLeaky
CHECK_DEADLOCK FALSE
