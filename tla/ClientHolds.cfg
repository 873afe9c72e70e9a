SPECIFICATION ClientSpec
CONSTANTS
  a1 = a1
  a2 = a2
  f0 = f0
  f2 = f2
  Account = {a1, a2}
  Contract = proxy
  KycKey = FALSE
  ADMIN_ROLE = admin
  CASHIN_ROLE = cashin
  BURN_ROLE = burn
  WIPE_ROLE = wipe
  RESCUE_ROLE = rescue
  PAUSE_ROLE = pause
  FREEZE_ROLE = freeze
  DELETE_ROLE = delete
  KYC_ROLE = kycRole
  HOLD_CREATOR_ROLE = holdCreator
  Role <- MCRole
  InitialRoles <- Operator
  CashinAccounts = {a1}
  CashinAllowance = unlimitedAmount
  Unlimited = unlimitedAmount
  RoleChanges = {}
  Allowances = {}
  MaxAllowance = 0
  NoAddress = noAddress
  NoHold = noHold
  MaxHolds = 1
  MaxTime = 1
  Amounts = {2}
  NewHolds = {}
  InitialSupply = 0
  MaxSupply = 2
  MaxRescued = 1
  Feed = {}
  NoFeed = noFeed
  Base = 2
  TokenDecimals = 0
  ReserveDecimals <- NoDecimals
  Answers = {}
  Thresholds = {}
  KeyKind <- MCKeyKind
  Handovers <- WipeKeyHandovers
  NativeSigners = {a2}
  Requests <- HoldRequests
  RESERVE_DECIMALS = 0
INVARIANTS
  ClientTypeOK
  CheckedCallsAreAccepted
PROPERTY
  RefusedCallsWouldFail
  HaltedTokenKeepsItsRecords
