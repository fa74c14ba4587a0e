SPECIFICATION Spec
CONSTANTS
  Worker = {w1, w2}
  Host = {a, b}
  Listen = {l1, l2}
  None = None
  MaxCalls = 2
  MaxStops = 1
SYMMETRY Symmetry
INVARIANTS
  TypeOK
  FilesAgree
  AddressCurrent
  NeverInvalid
  RuntimeAgrees
PROPERTIES
  ResyncHeals
CHECK_DEADLOCK FALSE
