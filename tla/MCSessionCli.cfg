SPECIFICATION FairSpec
CONSTANTS
  Nodes = {sbr, other}
  Target = sbr
  Addrs = {a1}
  NoAddr = noaddr
  Params = {p, q}
  Vals = {v0, v1}
  Zero = v0
  Retries = 0
  Links = {eth}
  OneShot = TRUE
  Scripts <- CliScripts
  Rejectable <- Acting
  MaxLoss = 1
  ForeignParams = {p}
  Patient = FALSE
CHECK_DEADLOCK FALSE
INVARIANT TypeOK
INVARIANT CorrelatedReplies
INVARIANT VerdictIsTrue
INVARIANT CacheNeverPhantom
INVARIANT CacheIsCurrent
PROPERTY OnlyNamedWritten
PROPERTY KeepsCalls
PROPERTY Terminates
