SPECIFICATION Spec
CONSTANTS
  Nodes = {sbr}
  Target = sbr
  Addrs = {a1, a2}
  NoAddr = noaddr
  Params = {p, q}
  Vals = {v0, v1}
  Zero = v0
  Retries = 0
  Links = {eth}
  OneShot = FALSE
  Scripts <- LibraryScripts
  Rejectable <- Acting
  MaxLoss = 1
  ForeignParams = {p}
  Patient = TRUE
CHECK_DEADLOCK FALSE
INVARIANT Turn
INVARIANT EntryFromDiscovery
