--------------------------- MODULE SupplierAdmin ---------------------------
(***************************************************************************)
(* Roles and the allowances of the suppliers (the accounts that may cash   *)
(* in): RolesFacet, RoleManagementFacet and SupplierAdminFacet over        *)
(* SupplierAdminStorageWrapper.  One call is one transaction, hence one    *)
(* action.                                                                 *)
(*                                                                         *)
(* The plain role calls of RolesFacet accept CASHIN_ROLE like any other    *)
(* role and do not touch the allowances; RoleManagementFacet and           *)
(* SupplierAdminFacet keep role and allowance together.                    *)
(***************************************************************************)
EXTENDS Roles, Integers

CONSTANTS
  CASHIN_ROLE,
  Unlimited,      \* the allowance type(uint256).max in call data
  RoleChanges,    \* bound: the <<role, account>> pairs calls are made for
  Allowances,     \* bound: the amounts in the call data of a grant
  MaxAllowance    \* bound: largest allowance, and largest entitlement

ASSUME SupplierAssumption ==
  /\ CASHIN_ROLE \in Role \ {ADMIN_ROLE}
  /\ RoleChanges \subseteq Role \X Account
  /\ Allowances \subseteq Nat
  /\ Unlimited \notin Nat
  /\ MaxAllowance \in Nat

VARIABLES
  allowance,      \* supplierAllowances
  unlimited,      \* the suppliers flagged in unlimitedSupplierAllowances
  entitled        \* history: what each account was ever allowed to cash in
                  \* under a limited allowance and has not yet cashed in

supplierVars == <<allowance, unlimited, entitled>>
accessVars == <<hasRole, allowance, unlimited, entitled>>

SupplierTypeOK ==
  /\ RolesTypeOK
  /\ allowance \in [Account -> Nat]
  /\ unlimited \subseteq Account
  /\ entitled \in [Account -> Nat]

(* The cashinRole of the deployment: nobody, or one account with an        *)
(* allowance or with none to respect (_grantInitialRoles).                 *)
SupplierInit(cashinAccounts, amount) ==
  /\ allowance = [a \in Account |->
       IF a \in cashinAccounts /\ amount # Unlimited THEN amount ELSE 0]
  /\ unlimited = IF amount = Unlimited THEN cashinAccounts ELSE {}
  /\ entitled = allowance

IsAdmin(caller) == HasRole(ADMIN_ROLE, caller)
Suppliers == {a \in Account : <<CASHIN_ROLE, a>> \in RoleChanges}

Grant(role, account) == hasRole' = Granted({role}, {account})

SetAllowance(account, amount) == allowance' = [allowance EXCEPT ![account] = amount]
Entitle(account, amount) ==
  /\ entitled[account] + amount <= MaxAllowance
  /\ entitled' = [entitled EXCEPT ![account] = @ + amount]

-----------------------------------------------------------------------------
(* RolesFacet                                                              *)

GrantRole(caller, role, account) ==
  /\ IsAdmin(caller)
  /\ Grant(role, account)
  /\ UNCHANGED supplierVars

RevokeRole(caller, role, account) ==
  /\ RevokeRoles(caller, {role}, {account})
  /\ UNCHANGED supplierVars

-----------------------------------------------------------------------------
(* SupplierAdminFacet                                                      *)

GrantSupplierRole(caller, supplier, amount) ==
  /\ IsAdmin(caller)
  /\ amount > 0
  /\ supplier \notin unlimited          \* AccountHasUnlimitedSupplierAllowance
  /\ SetAllowance(supplier, amount)
  /\ Grant(CASHIN_ROLE, supplier)
  /\ Entitle(supplier, amount)
  /\ UNCHANGED unlimited

(* A slip: the limited allowance stays beside the unlimited one.           *)
GrantUnlimitedKeepingAllowance(caller, supplier) ==
  /\ IsAdmin(caller)
  /\ unlimited' = unlimited \cup {supplier}
  /\ Grant(CASHIN_ROLE, supplier)
  /\ UNCHANGED <<allowance, entitled>>

GrantUnlimitedSupplierRole(caller, supplier) ==
  /\ IsAdmin(caller)
  /\ unlimited' = unlimited \cup {supplier}
  /\ SetAllowance(supplier, 0)
  /\ Grant(CASHIN_ROLE, supplier)
  /\ UNCHANGED entitled

RevokeSupplierRole(caller, supplier) ==
  /\ RevokeRoles(caller, {CASHIN_ROLE}, {supplier})
  /\ SetAllowance(supplier, 0)
  /\ unlimited' = unlimited \ {supplier}
  /\ UNCHANGED entitled

ResetSupplierAllowance(caller, supplier) ==
  /\ IsAdmin(caller)
  /\ SetAllowance(supplier, 0)
  /\ UNCHANGED <<hasRole, unlimited, entitled>>

(* Neither change of an allowance asks whether the account has the role.   *)
IncreaseSupplierAllowance(caller, supplier, amount) ==
  /\ IsAdmin(caller)
  /\ amount > 0
  /\ supplier \notin unlimited
  /\ SetAllowance(supplier, allowance[supplier] + amount)
  /\ Entitle(supplier, amount)
  /\ UNCHANGED <<hasRole, unlimited>>

DecreaseSupplierAllowance(caller, supplier, amount) ==
  /\ IsAdmin(caller)
  /\ amount > 0
  /\ supplier \notin unlimited
  /\ amount <= allowance[supplier]      \* else GreaterThan
  /\ SetAllowance(supplier, allowance[supplier] - amount)
  /\ UNCHANGED <<hasRole, unlimited, entitled>>

-----------------------------------------------------------------------------
(* RoleManagementFacet: all of `roles' for all of `accounts' in one call.  *)
(* amounts[a] is the entry of `amounts' that stands beside account a; call *)
(* data names an account once (duplicates are RoleRegistry's subject).     *)

GrantRolesWithAmounts(caller, R, A, amounts) ==
  /\ GrantRoles(caller, R, A)
  /\ IF CASHIN_ROLE \in R
       THEN LET limited == {a \in A : amounts[a] # Unlimited}
            IN /\ \A a \in limited : /\ amounts[a] # 0 /\ a \notin unlimited
                                      /\ entitled[a] + amounts[a] <= MaxAllowance
               /\ unlimited' = unlimited \cup (A \ limited)
               /\ allowance' = [a \in Account |->
                    IF a \in limited THEN amounts[a]
                    ELSE IF a \in A THEN 0 ELSE allowance[a]]
               /\ entitled' = [a \in Account |->
                    IF a \in limited THEN entitled[a] + amounts[a] ELSE entitled[a]]
       ELSE UNCHANGED supplierVars

RevokeRolesAndAllowances(caller, R, A) ==
  /\ RevokeRoles(caller, R, A)
  /\ entitled' = entitled
  /\ IF CASHIN_ROLE \in R
       THEN /\ unlimited' = unlimited \ A
            /\ allowance' = [a \in Account |-> IF a \in A THEN 0 ELSE allowance[a]]
       ELSE UNCHANGED <<unlimited, allowance>>

AdminNext ==
  \E caller \in Account :
    \/ \E pair \in RoleChanges :
         \/ GrantRole(caller, pair[1], pair[2])
         \/ RevokeRole(caller, pair[1], pair[2])
    \/ \E supplier \in Suppliers :
         \/ GrantUnlimitedSupplierRole(caller, supplier)
         \/ RevokeSupplierRole(caller, supplier)
         \/ ResetSupplierAllowance(caller, supplier)
         \/ \E amount \in Allowances :
              \/ GrantSupplierRole(caller, supplier, amount)
              \/ IncreaseSupplierAllowance(caller, supplier, amount)
              \/ DecreaseSupplierAllowance(caller, supplier, amount)
    \/ \E R \in SUBSET {pair[1] : pair \in RoleChanges},
          A \in SUBSET {pair[2] : pair \in RoleChanges} :
         /\ R \X A \subseteq RoleChanges
         /\ \/ \E amounts \in [A -> Allowances \cup {Unlimited}] :
                 GrantRolesWithAmounts(caller, R, A, amounts)
            \/ RevokeRolesAndAllowances(caller, R, A)

-----------------------------------------------------------------------------

(* The two records of how much a supplier may cash in agree: an unlimited  *)
(* supplier has no allowance left over, which would otherwise come back    *)
(* when the unlimited flag is taken away, possibly by a call that meant to *)
(* leave the account nothing.                                              *)
UnlimitedHasNoAllowance == \A a \in unlimited : allowance[a] = 0

(* A limited supplier never gets to cash in more than the administrators   *)
(* granted it in all, whatever the interleaving of grants, resets, role    *)
(* revocations that leave the allowance behind, and cash-ins.              *)
AllowanceWithinEntitlement == \A a \in Account : allowance[a] <= entitled[a]
=============================================================================
