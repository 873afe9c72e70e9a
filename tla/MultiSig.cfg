SPECIFICATION FairSpec
CONSTANTS
  k1 = k1
  k2 = k2
  Tx = {t1}
  Key = {k1, k2}
  Signer = {r1}
  Deleter = {r2}
  Job = {j1, j2}
  NoRow = noRow
  NewRows <- OneOrAll
  PageSize = 1
  Validity = 1
  MaxTime = 2
  MaxRestarts = 1
INVARIANTS
  MultiSigTypeOK
  StatusTellsSignatures
  SubmissionsAreSigned
  ExecutedIsTrue
  ExpiredAfterWindow
PROPERTY
  SignaturesAreKept
  AutoExpire
