SPECIFICATION FairSpec
CONSTANTS
  Children = {eth, wlan}
  Receivers = {r}
  Closers = {k1, k2}
  Arrivals = 2
  Echo = echo
  Capacity = 1
  Unsound = {wlan}
INVARIANT TypeOK
INVARIANT NothingAfterClose
PROPERTY IsPort
PROPERTY CloseReturns
PROPERTY NoLeak
PROPERTY EveryReplyComes
