CONSTANTS
  Infinity = 100000000
  NoTier = NoTier
  adm = adm
  ext = ext
  prefix = prefix
  Addresses <- MCAddresses
  SeedUsers <- MCSeedUsers
  ssoId <- MCssoId
  Names = {n1, n2}
  Positions = {"APPROVER"}
  NoCookie = NoCookie
  BudgetMax = 1
  Window = 1
  MaxTime = 0
  MaxCalls = 2
  MaxLogins <- MCMaxLogins
  MaxLog = 1
  MaxStops = 0
SPECIFICATION Spec
PROPERTIES ProfileIsOnesOwn
