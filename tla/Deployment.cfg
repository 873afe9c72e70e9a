SPECIFICATION DeploymentSpec
CONSTANTS
  a1 = a1
  a2 = a2
  created = created
  f0 = f0
  f2 = f2
  Account = {a1, a2}
  Contract = proxy
  KycKey = FALSE
  ADMIN_ROLE = admin
  CASHIN_ROLE = cashin
  BURN_ROLE = burn
  WIPE_ROLE = wipe
  RESCUE_ROLE = rescue
  PAUSE_ROLE = pause
  FREEZE_ROLE = freeze
  DELETE_ROLE = delete
  KYC_ROLE = kycRole
  HOLD_CREATOR_ROLE = holdCreator
  Role <- MCRole
  InitialRoles <- AdminAndBurner
  CashinAccounts = {}
  CashinAllowance = unlimitedAmount
  Unlimited = unlimitedAmount
  RoleChanges <- SupplierChanges
  Allowances = {1}
  MaxAllowance = 2
  NoAddress = noAddress
  NoHold = noHold
  MaxHolds = 0
  MaxTime = 1
  Amounts = {1}
  NewHolds = {}
  InitialSupply = 0
  MaxSupply = 2
  MaxRescued = 0
  Feed = {created, f0, f2}
  NoFeed = noFeed
  Base = 2
  TokenDecimals = 1
  ReserveDecimals <- FeedDecimals
  Answers = {1, 4}
  Thresholds = {}
  Created = created
  Age = 1
  Deployments <- Structs
  CreateRequests <- Requests
  omitted = omitted
  Omitted = omitted
  RESERVE_DECIMALS = 2
INVARIANTS
  UnlimitedHasNoAllowance
  AllowanceWithinEntitlement
  PassedCreationIsAccepted
PROPERTIES
  CreationIsNotRefused
  CoverLostOnlyToTheFeed
