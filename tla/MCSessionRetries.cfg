SPECIFICATION Spec
CONSTANTS
  Nodes = {sbr}
  Target = sbr
  Addrs = {a1}
  NoAddr = noaddr
  Params = {p}
  Vals = {v0, v1}
  Zero = v0
  Retries = 1
  Links = {eth}
  OneShot = TRUE
  Scripts <- FindScripts
  Rejectable <- Refusing
  MaxLoss = 2
  ForeignParams = {}
  Patient = TRUE
CHECK_DEADLOCK FALSE
INVARIANT RetriesMaskLoss
