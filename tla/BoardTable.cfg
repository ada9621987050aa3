SPECIFICATION QuietSpec
CONSTANTS
  istiqlal = istiqlal
  alaqsa = alaqsa
  imam = imam
  bilal = bilal
  Mosque = {istiqlal}
  Account = {imam, bilal}
  Founder = imam
  TxKind = {"board"}
  MaxRequests = 1
  Genesis <- OneVerified
  MaxBlocks = 5
  MaxReorgs = 0
  ChunkSize = 2
  Fault = {}
  MaxFaults = 0
INVARIANTS
  BoardsSynced
