\* One address and one site, and two requests at a time.
SPECIFICATION Spec
CONSTANTS
  Client = {c1}
  Path = {p1, p2, p3}
  Site = {s1}
  Sensitive = {}
  Unscored = {}
  Handler = {h1, h2}
  SensitivePoints = 2
  MethodPoints = 1
  DiversityPoints = 2
  NotFoundPoints = 2
  FailurePoints = 2
  LimitAt = 3
  BanAt = 4
  MaxPaths = 2
  Max404 = 2
  Window = 2
  IdleTTL = 3
  PathCap = 3
  RiskCap = 1
  MaxCount = 5
  BanDuration = 2
  CookieTTL = 2
  MaxStall = 0
  MaxClock = 2
SYMMETRY Symmetry
INVARIANT DiversityIsScored
CHECK_DEADLOCK FALSE
