SPECIFICATION Spec
CONSTANTS
  Account = {a1, a2, a3}
  Role = {admin, cashin}
  ADMIN_ROLE = admin
  CASHIN_ROLE = cashin
  MaxBatch = 2
INVARIANTS
  RegistryTypeOK
  RegistryConsistent
  AdminListNeverEmpty
PROPERTY
  ImplementsRoles
