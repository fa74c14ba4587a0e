\* Races: one visitor, two concurrent handlers, delays between lock sections.
SPECIFICATION Spec
CONSTANTS
  Site = {s1}
  Client = {c1}
  Token = {t1, t2}
  Id = {i1, i2}
  Handler = {h1, h2}
  NoIp = NoIp
  TTL = 2
  CookieTTL = 3
  MaxAttempts = 2
  MaxActive = 2
  BindIp = TRUE
  MaxStall = 1
  MaxClock = 4
SYMMETRY Symmetry
INVARIANTS
  TypeOK
  GuessesBounded
  RoutedWhilePending
  AnswerFindsRedirect
PROPERTY ImplementsGrant
CHECK_DEADLOCK FALSE
