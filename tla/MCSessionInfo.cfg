SPECIFICATION Spec
CONSTANTS
  Nodes = {sbr, other}
  Target = sbr
  Addrs = {a1}
  NoAddr = noaddr
  Params = {p, q}
  Vals = {v0, v1}
  Zero = v0
  Retries = 0
  Links = {eth}
  OneShot = TRUE
  Scripts <- DiscoverInfo
  Rejectable <- Acting
  MaxLoss = 0
  ForeignParams = {}
  Patient = TRUE
CHECK_DEADLOCK FALSE
INVARIANT InfoAnswered
