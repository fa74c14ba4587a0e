\* Two requests and two administrators of one address; the queue and a batch
\* hold two events, and an administrator's ban is shorter than an automatic one.
SPECIFICATION Spec
CONSTANTS
  Ip = {i1}
  Handler = {h1, h2}
  Admin = {a1, a2}
  Duration = 2
  Term = {1}
  QueueSize = 2
  BatchSize = 2
  MaxBlock = 1
  MaxClock = 3
SYMMETRY Symmetry
INVARIANTS
  TypeOK
  TermRespected
  BansPersisted
  EditsStand
CHECK_DEADLOCK FALSE
