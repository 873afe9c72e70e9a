SPECIFICATION WalletsSpec
CONSTANTS
  a = a
  b = b
  testnet = testnet
  mainnet = mainnet
  Address = {a, b}
  Network = {testnet, mainnet}
  Registered <- BOnTestnetOnly
  None = None
  Unrecognized = unrecognized
  MaxRoutines = 2
  MaxChanges = 3
INVARIANTS
  ShownIsHeld
  SessionFollowsWallet
  ProviderBehindPairing
CHECK_DEADLOCK FALSE
