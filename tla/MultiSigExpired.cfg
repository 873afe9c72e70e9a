SPECIFICATION Spec
CONSTANTS
  k1 = k1
  k2 = k2
  Tx = {t1}
  Key = {k1, k2}
  Signer = {r1}
  Deleter = {}
  Job = {j1}
  NoRow = noRow
  NewRows <- OneOfTwo
  PageSize = 1
  Validity = 1
  MaxTime = 1
  MaxRestarts = 0
INVARIANT
  ExpiredMeansNotExecuted
