SPECIFICATION Spec
CONSTANTS
  a1 = a1
  a2 = a2
  Account = {a1, a2}
  Contract = proxy
  KycKey = TRUE
  ADMIN_ROLE = admin
  CASHIN_ROLE = cashin
  BURN_ROLE = burn
  WIPE_ROLE = wipe
  RESCUE_ROLE = rescue
  PAUSE_ROLE = pause
  FREEZE_ROLE = freeze
  DELETE_ROLE = delete
  KYC_ROLE = kycRole
  HOLD_CREATOR_ROLE = holdCreator
  Role <- MCRole
  InitialRoles <- HoldRoles
  CashinAccounts = {a1}
  CashinAllowance = unlimitedAmount
  Unlimited = unlimitedAmount
  RoleChanges = {}
  Allowances = {}
  MaxAllowance = 0
  NoAddress = noAddress
  NoHold = noHold
  MaxHolds = 2
  MaxTime = 2
  Amounts <- HoldAmounts
  NewHolds <- EscrowedHolds
  InitialSupply = 0
  MaxSupply = 2
  MaxRescued = 1
  Feed = {}
  NoFeed = noFeed
  Base = 2
  TokenDecimals = 1
  ReserveDecimals <- NoDecimals
  Answers = {}
  Thresholds = {}
INVARIANT
  HoldsBacked
