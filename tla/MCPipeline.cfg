SPECIFICATION Spec
CONSTANTS
  Params <- NetworkParams
  Files <- SomeFiles
  Stdins <- SomeStdins
  FlagSets <- SomeFlags
  Requests <- SomeRequests
  Foreign <- SomeForeign
  Extra <- UnknownOffsets
  Breaks <- LineBreaks
INVARIANT TypeOK
INVARIANT ValidatedFits
INVARIANT BackupAccepted
INVARIANT ShownIsStored
PROPERTY RestoreRebuilds
PROPERTY OthersReadTheSame
PROPERTY LastLayerWins
PROPERTY InterfaceUsable
