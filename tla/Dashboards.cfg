SPECIFICATION Spec
CONSTANTS
  alFalah = alFalah
  anNur = anNur
  Account = {imam}
  Nobody = Nobody
  Nothing = Nothing
  MaxCalls = 2
  Masjid = {alFalah, anNur}
  Begun <- BegunRequests
  Lists <- MasjidLists
  MaxRequests = 2
  MaxThreshold = 2
  MaxEvents = 2
  Name = {alFalah}
  Person = {anNur}
  MaxLabels = 1
INVARIANTS
  TypeOK
  RowsAreHistory
  OneCallPerComponent
  SuccessIsOfLastPress
PROPERTIES
  SpinnersEnd
