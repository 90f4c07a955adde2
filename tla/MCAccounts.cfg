CONSTANTS
  Infinity = 100000000
  NoTier = NoTier
  adm = adm
  ext = ext
  prefix = prefix
  Addresses <- MCAddresses
  SeedUsers <- MCSeedUsers
  ssoId <- MCssoId
  Names = {n1, n2}
  Positions = {"APPROVER"}
  NoCookie = NoCookie
  BudgetMax = 2
  Window = 2
  MaxTime = 2
  MaxCalls = 2
  MaxLogins <- MCMaxLogins
  MaxLog = 1
  MaxStops = 1
SPECIFICATION Spec
INVARIANTS OneAccountPerAddress CredentialsAreKnown TriesAreBounded
PROPERTIES AccountsAreKept EverySignInIsAnswered
