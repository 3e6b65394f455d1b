SPECIFICATION Spec
CONSTANTS
  Params <- NetworkParams
  Files <- AliasFile
  Stdins = {}
  FlagSets <- NoFlags
  Requests = {}
  Foreign = {}
  Extra = {}
  Breaks <- NoBreaks
PROPERTY AliasWrites
