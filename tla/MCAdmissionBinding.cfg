\* Two addresses, requests one at a time, one risk entry at most.
SPECIFICATION Spec
CONSTANTS
  Client = {c1, c2}
  Path = {p1}
  Site = {s1}
  Sensitive = {}
  Unscored = {}
  Handler = {h1}
  SensitivePoints = 2
  MethodPoints = 1
  DiversityPoints = 2
  NotFoundPoints = 2
  FailurePoints = 2
  LimitAt = 3
  BanAt = 4
  MaxPaths = 1
  Max404 = 1
  Window = 2
  IdleTTL = 3
  PathCap = 2
  RiskCap = 1
  MaxCount = 4
  BanDuration = 1
  CookieTTL = 1
  MaxStall = 0
  MaxClock = 2
SYMMETRY Symmetry
INVARIANTS
  TypeOK
  OnlyVerifiedForwarded
CHECK_DEADLOCK FALSE
