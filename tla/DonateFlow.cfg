SPECIFICATION Spec
CONSTANTS
  fatimah = fatimah
  umar = umar
  Account = {fatimah, umar}
  Nobody = Nobody
  Amount <- Amounts
  Funds = 2
  MaxSubmissions = 2
INVARIANTS
  TypeOK
  FormShowsItsFlow
  ThanksForReceived
  RefusedIsUnpaid
  AllowanceHasACause
PROPERTIES
  BusyFormSettles
