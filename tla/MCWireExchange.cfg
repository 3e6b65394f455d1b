SPECIFICATION Spec
CONSTANTS
  Base = 16
  Creds = 2
  Table <- MCTable
  Unknown <- MCUnknown
  Discovery <- MCDiscovery
  Network <- MCNetwork
  UUID <- MCUUID
  Message <- MCMessage
  UUIDSize = 3
  Buffer = 27
  Memories <- MCMemories
  Exchanges <- MCExchanges
CHECK_DEADLOCK FALSE
INVARIANT ReadsWhatIsThere
INVARIANT TakenIsTrue
PROPERTY SetIsWhole
