SPECIFICATION Spec
CONSTANTS
  fatimah = fatimah
  umar = umar
  Account = {fatimah, umar}
  Nobody = Nobody
  Amount <- Amounts
  Funds = 2
  MaxSubmissions = 2
PROPERTIES
  ApprovesWhenNeeded
