SPECIFICATION QuietSpec
CONSTANTS
  istiqlal = istiqlal
  alaqsa = alaqsa
  imam = imam
  bilal = bilal
  Mosque = {istiqlal, alaqsa}
  Account = {imam}
  Founder = imam
  TxKind = {"verify", "donate"}
  MaxRequests = 1
  Genesis <- OneVerifiedOnePending
  MaxBlocks = 6
  MaxReorgs = 0
  ChunkSize = 2
  Fault = {"protocolLogs"}
  MaxFaults = 1
INVARIANTS
  AllInstanceEventsSynced
