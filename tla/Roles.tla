------------------------------- MODULE Roles -------------------------------
(***************************************************************************)
(* What the role registry of a stablecoin promises to the other facets:    *)
(* who holds which role, every call atomic.  An administrator grants or    *)
(* revokes a set of roles for a set of accounts in one call, and the call  *)
(* that would leave no administrator changes nothing (it reverts).         *)
(*                                                                         *)
(* RoleRegistry is the storage-level specification (arrays, positions, the *)
(* loops of one transaction) and implements this one; StableCoin composes  *)
(* with this one.                                                          *)
(***************************************************************************)

EXTENDS Accounts

CONSTANTS
  Role,         \* the roles of constants/roles.sol
  ADMIN_ROLE    \* the role that administers all the others

ASSUME AdminRoleAssumption == ADMIN_ROLE \in Role

VARIABLE
  hasRole       \* hasRole[r]: the accounts holding role r

HasRole(role, account) == account \in hasRole[role]

(* The sender of the deployment holds the administrator role and nothing   *)
(* else is granted: a deployment whose role list is empty.  Every other    *)
(* assignment is a grant away.                                             *)
RolesInit ==
  \E originalSender \in Account :
    hasRole = [r \in Role |-> IF r = ADMIN_ROLE THEN {originalSender} ELSE {}]

(* The registry after roles R are granted to accounts A.                   *)
Granted(R, A) == [r \in Role |-> IF r \in R THEN hasRole[r] \cup A ELSE hasRole[r]]

(* The registry after roles R are revoked from accounts A.                 *)
Revoked(R, A) == [r \in Role |-> IF r \in R THEN hasRole[r] \ A ELSE hasRole[r]]

GrantRoles(caller, R, A) ==
  /\ HasRole(ADMIN_ROLE, caller)
  /\ hasRole' = Granted(R, A)

RevokeRoles(caller, R, A) ==
  /\ HasRole(ADMIN_ROLE, caller)
  /\ Revoked(R, A)[ADMIN_ROLE] # {}      \* else NoAdminsLeft
  /\ hasRole' = Revoked(R, A)

RolesNext ==
  \E caller \in Account, R \in SUBSET Role, A \in SUBSET Account :
    \/ GrantRoles(caller, R, A)
    \/ RevokeRoles(caller, R, A)

RolesSpec == RolesInit /\ [][RolesNext]_hasRole

-----------------------------------------------------------------------------

RolesTypeOK == hasRole \in [Role -> SUBSET Account]

(* An administrator is left after every call: without one nobody could     *)
(* grant a role, lower an allowance or change the reserve ever again.      *)
AdminExists == hasRole[ADMIN_ROLE] # {}
=============================================================================
