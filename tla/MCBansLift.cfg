\* One request and one administrator.
SPECIFICATION Spec
CONSTANTS
  Ip = {i1}
  Handler = {h1}
  Admin = {a1}
  Duration = 3
  Term = {3}
  QueueSize = 2
  BatchSize = 2
  MaxBlock = 1
  MaxClock = 1
INVARIANT LiftedStaysLifted
CHECK_DEADLOCK FALSE
