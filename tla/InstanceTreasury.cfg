SPECIFICATION FixedBoardSpec
CONSTANTS
  imam = imam
  bilal = bilal
  umar = umar
  ZeroAddress = ZeroAddress
  Self = Self
  Address = {imam, bilal}
  Payee = {umar, Self}
  FoundingAdmin = imam
  FoundingBoard = {imam, bilal}
  FoundingThreshold = 2
  Amount = {0, 1, 2}
  Lifetime = {1, 7}
  Uint64 = 8
  MaxRequests = 2
  MaxBoardCount = 2
  MaxFunds = 2
  MaxTime = 3
INVARIANTS
  TreasuryBalances
PROPERTIES
  SettledIsFinal
  ExpiredIsNeverPaid
  ImplementsTreasury
