\* One address and one site, and two requests at a time.
SPECIFICATION Spec
CONSTANTS
  Client = {c1}
  Path = {p1, p2}
  Site = {s1}
  Sensitive = {p1}
  Unscored = {}
  Handler = {h1, h2}
  SensitivePoints = 2
  MethodPoints = 1
  DiversityPoints = 2
  NotFoundPoints = 2
  FailurePoints = 2
  LimitAt = 3
  BanAt = 4
  MaxPaths = 1
  Max404 = 1
  Window = 2
  IdleTTL = 3
  PathCap = 2
  RiskCap = 1
  MaxCount = 4
  BanDuration = 2
  CookieTTL = 2
  MaxStall = 1
  MaxClock = 2
SYMMETRY Symmetry
INVARIANTS
  PointsAreRecent
  NoNotFoundWhileVerifying
  DiversityScoredOnArrival
CHECK_DEADLOCK FALSE
