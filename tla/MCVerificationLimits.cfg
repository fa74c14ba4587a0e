\* The limits on attempts, on routes and on open challenges, and the binding
\* to an address: two visitors and two handlers that may be delayed as long as
\* a redirect lives.
SPECIFICATION Spec
CONSTANTS
  Site = {s1}
  Client = {c1, c2}
  Token = {t1, t2, t3}
  Id = {i1}
  Handler = {h1, h2}
  NoIp = NoIp
  TTL = 2
  CookieTTL = 1
  MaxAttempts = 1
  MaxActive = 1
  BindIp = TRUE
  MaxStall = 2
  MaxClock = 4
SYMMETRY Symmetry
INVARIANTS
  RoutesBounded
  CookieSound
CHECK_DEADLOCK FALSE
