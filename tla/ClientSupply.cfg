SPECIFICATION ClientSpec
CONSTANTS
  a1 = a1
  a2 = a2
  f0 = f0
  f2 = f2
  Account = {a1, a2}
  Contract = proxy
  KycKey = TRUE
  ADMIN_ROLE = admin
  CASHIN_ROLE = cashin
  BURN_ROLE = burn
  WIPE_ROLE = wipe
  RESCUE_ROLE = rescue
  PAUSE_ROLE = pause
  FREEZE_ROLE = freeze
  DELETE_ROLE = delete
  KYC_ROLE = kycRole
  HOLD_CREATOR_ROLE = holdCreator
  Role <- MCRole
  InitialRoles <- Operator
  CashinAccounts = {a1}
  CashinAllowance = unlimitedAmount
  Unlimited = unlimitedAmount
  RoleChanges = {}
  Allowances = {}
  MaxAllowance = 0
  NoAddress = noAddress
  NoHold = noHold
  MaxHolds = 0
  MaxTime = 0
  Amounts = {1}
  NewHolds = {}
  InitialSupply = 0
  MaxSupply = 3
  MaxRescued = 1
  Feed = {f0, f2}
  NoFeed = noFeed
  Base = 2
  TokenDecimals = 1
  ReserveDecimals <- FeedDecimals
  Answers <- FeedAnswers
  Thresholds = {0, 1}
  KeyKind <- MCKeyKind
  Handovers <- NoHandovers
  NativeSigners = {a2}
  Requests <- SupplyRequests
  RESERVE_DECIMALS = 2
INVARIANTS
  CheckedCallsAreAccepted
PROPERTY
  RefusedCallsWouldFail
  MintWithinReserve
