SPECIFICATION QuietSpec
CONSTANTS
  istiqlal = istiqlal
  alaqsa = alaqsa
  imam = imam
  bilal = bilal
  Mosque = {istiqlal}
  Account = {imam}
  Founder = imam
  TxKind = {"vote", "verify", "status", "verifier"}
  MaxRequests = 1
  Genesis <- OnePending
  MaxBlocks = 5
  MaxReorgs = 0
  ChunkSize = 2
  Fault = {"crash", "protocolLogs", "registryLogs", "instanceLogs", "handler", "checkpointRead", "checkpointWrite", "noAnswer"}
  MaxFaults = 2
INVARIANTS
  TypeOK
  MasjidsSynced
  VerifiersSynced
CHECK_DEADLOCK FALSE
