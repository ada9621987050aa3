SPECIFICATION Spec
CONSTANTS
  aisha = aisha
  zayd = zayd
  Account = {aisha, zayd}
  Nobody = Nobody
  NoToken = NoToken
  Head = {aisha}
  EventRole <- Events
  MaxRoleEvents = 1
  MaxJobs = 2
  MaxDay = 1
INVARIANTS
  TypeOK
  GuardedPageIsEarned
  ShownClaimsAreStored
PROPERTIES
  BlankPageIsLeft
  SigningEnds
