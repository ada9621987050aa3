SPECIFICATION Spec
CONSTANTS
  imam = imam
  bilal = bilal
  umar = umar
  ZeroAddress = ZeroAddress
  Self = Self
  Address = {imam, bilal, umar}
  Payee = {umar}
  FoundingAdmin = imam
  FoundingBoard = {bilal, umar}
  FoundingThreshold = 2
  Amount = {1}
  Lifetime = {0, 1}
  Uint64 = 8
  MaxRequests = 1
  MaxBoardCount = 3
  MaxFunds = 1
  MaxTime = 3
INVARIANTS
  TypeOK
  ApprovalsAreDistinct
  ThresholdWithinCount
  OnlyRecordedAdminHoldsRole
PROPERTIES
  PayoutIsAuthorised
  ApprovedTermsAreFixed

