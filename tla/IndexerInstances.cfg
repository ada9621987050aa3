SPECIFICATION QuietSpec
CONSTANTS
  istiqlal = istiqlal
  alaqsa = alaqsa
  imam = imam
  bilal = bilal
  Mosque = {istiqlal, alaqsa}
  Account = {imam}
  Founder = imam
  TxKind = {"verify", "donate", "request"}
  MaxRequests = 1
  Genesis <- OneVerifiedOnePending
  MaxBlocks = 6
  MaxReorgs = 1
  ChunkSize = 2
  Fault = {"crash", "protocolLogs", "instanceLogs"}
  MaxFaults = 2
INVARIANTS
  InstancesSynced
  NoPhantomRows
PROPERTIES
  EventuallyCaughtUp
