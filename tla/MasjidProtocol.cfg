SPECIFICATION Spec
CONSTANTS
  v1 = v1
  v2 = v2
  v3 = v3
  idrx = idrx
  ZeroAddress = ZeroAddress
  EmptyName = EmptyName
  Address <- MCAddress
  InitialAuthority = v1
  ProtocolAdmin = v1
  Proposer = {v1}
  Name = {"Istiqlal", "AlAqsa"}
  Stablecoin = {idrx}
  BoardList <- MCBoardList
  MaxMasjid = 2
INVARIANTS
  TypeOK
  OneVotePerAccount
  LiveMasjidHoldsItsName
  InstanceMirrorsProtocol
  DeployedBoardHasMajorityThreshold
PROPERTIES
  StatusMovesForward
  VerdictKeepsItsVotes
  VerdictHasMajority
