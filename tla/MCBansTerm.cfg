\* One request and one administrator, who asks for more than Duration.
SPECIFICATION Spec
CONSTANTS
  Ip = {i1}
  Handler = {h1}
  Admin = {a1}
  Duration = 3
  Term = {4}
  QueueSize = 2
  BatchSize = 2
  MaxBlock = 1
  MaxClock = 1
INVARIANT AdminTermStands
CHECK_DEADLOCK FALSE
