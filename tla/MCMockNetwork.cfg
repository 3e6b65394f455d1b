SPECIFICATION Spec
CONSTANTS
  quick = quick
  slow = slow
  p = p
  q = q
  v1 = v1
  Devices <- Order
  Params = {p, q}
  Vals = {v0, v1}
  Factory = v0
  Senders = {s}
  Receivers = {r}
  Writes <- OneEach
  Slow = {slow}
  Unreachable = {}
  FailOn <- Failing
  Drop <- Dropping
  MaxSends = 3
SYMMETRY Alike
CHECK_DEADLOCK FALSE
INVARIANT TypeOK
INVARIANT AckedSurvives
INVARIANT NoLostWakeup
PROPERTY SilentInWindow
PROPERTY IsPort
