---------------------------- MODULE RoleRegistry ----------------------------
(***************************************************************************)
(* The role registry as RolesStorageWrapper.sol keeps it: for each role an *)
(* array of accounts and, for each account, whether it is a member and its *)
(* position in the array.  A revocation moves the last element of the      *)
(* array into the hole and pops the end (swap and pop).                    *)
(*                                                                         *)
(* A call of grantRoles / revokeRoles is a transaction that runs two       *)
(* nested loops over the `roles' and `accounts' of its call data; one      *)
(* iteration of the inner loop is one step here, and a revert restores the *)
(* storage the transaction started from.  The single calls of RolesFacet   *)
(* and SupplierAdminFacet are transactions of one iteration.               *)
(***************************************************************************)
EXTENDS Integers, Sequences

CONSTANTS
  Account, Role, ADMIN_ROLE,
  CASHIN_ROLE,  \* the role whose grant also writes the supplier's allowance
  MaxBatch      \* bound: longest array in a call's data

ASSUME RegistryAssumption ==
  /\ ADMIN_ROLE \in Role
  /\ CASHIN_ROLE \in Role
  /\ ADMIN_ROLE # CASHIN_ROLE
  /\ MaxBatch \in Nat \ {0}

VARIABLES
  accounts,     \* accounts[r]: the array of the accounts holding role r
  members,      \* members[r][a]: MemberData of account a for role r
  tx            \* the running transaction, Idle between transactions

vars == <<accounts, members, tx>>

-----------------------------------------------------------------------------

MemberData == [active : BOOLEAN, pos : Nat]
NoMember == [active |-> FALSE, pos |-> 0]       \* a deleted storage slot

Idle == [op |-> "idle"]

(* What a running transaction remembers: its call data, its two loop       *)
(* counters, and the storage a revert goes back to.                        *)
Transaction ==
  [op : {"grant", "revoke"},
   roles : Seq(Role), accts : Seq(Account), i : Nat, j : Nat,
   savedAccounts : [Role -> Seq(Account)],
   savedMembers : [Role -> [Account -> MemberData]]]

Running == tx # Idle

RegistryTypeOK ==
  /\ accounts \in [Role -> Seq(Account)]
  /\ members \in [Role -> [Account -> MemberData]]
  /\ tx \in Transaction \cup {Idle}

-----------------------------------------------------------------------------

Init ==
  \E originalSender \in Account :
    /\ accounts = [r \in Role |-> IF r = ADMIN_ROLE THEN <<originalSender>> ELSE <<>>]
    /\ members = [r \in Role |-> [a \in Account |->
                    IF r = ADMIN_ROLE /\ a = originalSender
                      THEN [active |-> TRUE, pos |-> 0] ELSE NoMember]]
    /\ tx = Idle

Arrays(S) == UNION {[1..n -> S] : n \in 0..MaxBatch}

(* The administrator's call enters the contract: onlyRole(ADMIN_ROLE).     *)
Begin(op, caller, rs, as) ==
  /\ ~Running
  /\ members[ADMIN_ROLE][caller].active
  /\ tx' = [op |-> op, roles |-> rs, accts |-> as, i |-> 1, j |-> 1,
            savedAccounts |-> accounts, savedMembers |-> members]
  /\ UNCHANGED <<accounts, members>>

InLoop(op) ==
  /\ Running
  /\ tx.op = op
  /\ tx.i <= Len(tx.roles) /\ tx.j <= Len(tx.accts)

(* for (i ...) for (j ...): the counters after this iteration.             *)
Advance ==
  IF tx.j < Len(tx.accts)
    THEN tx' = [tx EXCEPT !.j = tx.j + 1]
    ELSE tx' = [tx EXCEPT !.i = tx.i + 1, !.j = 1]

(* A slip: the writes of the failed transaction stay.                      *)
RevertKeepsWrites == tx' = Idle /\ UNCHANGED <<accounts, members>>

Revert ==
  /\ accounts' = tx.savedAccounts
  /\ members' = tx.savedMembers
  /\ tx' = Idle

(* One iteration of grantRoles: _grantRole, which does nothing for an      *)
(* account that already has the role and else pushes it on the array.      *)
GrantIteration ==
  /\ InLoop("grant")
  /\ Advance
  /\ LET role == tx.roles[tx.i]
         account == tx.accts[tx.j]
     IN \/ /\ members[role][account].active
           /\ UNCHANGED <<accounts, members>>
        \/ /\ ~members[role][account].active
           /\ members' = [members EXCEPT ![role][account] =
                            [active |-> TRUE, pos |-> Len(accounts[role])]]
           /\ accounts' = [accounts EXCEPT ![role] = Append(@, account)]

(* A cash-in grant can also revert, for what it finds in the allowances    *)
(* (AmountIsZero, ArraysLengthNotEqual, AccountHasUnlimitedSupplier-       *)
(* Allowance): those are StableCoin's state, so here it may always happen. *)
CashInReverts ==
  /\ InLoop("grant")
  /\ tx.roles[tx.i] = CASHIN_ROLE
  /\ Revert

(* The array of a role after _revokeRole moved its last element into the   *)
(* position of the revoked account and popped the end.                     *)
SwapAndPop(list, position) ==
  LET lastIndex == Len(list) - 1
  IN  [k \in 1..lastIndex |-> IF k = position + 1 THEN list[lastIndex + 1] ELSE list[k]]

(* Slips: the moved account keeps its old position, or is given the one    *)
(* before the hole.                                                        *)
MembersNotRelocated(mem, list, account) == [mem EXCEPT ![account] = NoMember]
MembersRelocatedWrongly(mem, list, account) ==
  LET position == mem[account].pos
  IN  [[mem EXCEPT ![list[Len(list)]].pos = position - 1] EXCEPT ![account] = NoMember]

(* The members of a role after the same: the moved account learns its new  *)
(* position, the revoked one's data is deleted.                            *)
RevokedMembers(mem, list, account) ==
  LET position == mem[account].pos
      moved == list[Len(list)]
      relocated == IF position < Len(list) - 1
                     THEN [mem EXCEPT ![moved].pos = position] ELSE mem
  IN  [relocated EXCEPT ![account] = NoMember]

(* A slip: the administrators are counted before the array is popped.      *)
AdminsBefore(role, list) == Len(accounts[ADMIN_ROLE])

(* getRoleMemberCount(ADMIN_ROLE) once `list' is the array of the role.    *)
AdminsAfter(role, list) ==
  IF role = ADMIN_ROLE THEN Len(list) ELSE Len(accounts[ADMIN_ROLE])

(* One iteration of revokeRoles: _revokeRole, which does nothing for an    *)
(* account without the role, and which reverts the transaction with        *)
(* NoAdminsLeft when the array of administrators has become empty.         *)
RevokeIteration ==
  /\ InLoop("revoke")
  /\ LET role == tx.roles[tx.i]
         account == tx.accts[tx.j]
         list == SwapAndPop(accounts[role], members[role][account].pos)
         adminsLeft == AdminsAfter(role, list)
     IN \/ /\ ~members[role][account].active
           /\ Advance
           /\ UNCHANGED <<accounts, members>>
        \/ /\ members[role][account].active
           /\ adminsLeft > 0
           /\ accounts' = [accounts EXCEPT ![role] = list]
           /\ members' = [members EXCEPT ![role] =
                            RevokedMembers(members[role], accounts[role], account)]
           /\ Advance
        \/ /\ members[role][account].active
           /\ adminsLeft = 0
           /\ Revert

(* Both loops are done: the transaction's writes stay.                     *)
Commit ==
  /\ Running
  /\ tx.i > Len(tx.roles) \/ tx.j > Len(tx.accts)
  /\ tx' = Idle
  /\ UNCHANGED <<accounts, members>>

Next ==
  \/ \E op \in {"grant", "revoke"}, caller \in Account,
        rs \in Arrays(Role), as \in Arrays(Account) : Begin(op, caller, rs, as)
  \/ GrantIteration
  \/ CashInReverts
  \/ RevokeIteration
  \/ Commit

Spec == Init /\ [][Next]_vars

-----------------------------------------------------------------------------

(* The array and the positions of a role are two views of one set: an      *)
(* active member stands at its position of the array and every element of  *)
(* the array is an active member whose position is that index.  A swap     *)
(* that forgot to update the moved account's position, or an account       *)
(* pushed twice, breaks it some calls later, when the wrong account is     *)
(* removed (_grantRole, _revokeRole).                                      *)
RegistryConsistent ==
  \A r \in Role :
    /\ \A a \in Account : members[r][a].active =>
         /\ members[r][a].pos < Len(accounts[r])
         /\ accounts[r][members[r][a].pos + 1] = a
    /\ \A k \in 1..Len(accounts[r]) :
         /\ members[r][accounts[r][k]].active
         /\ members[r][accounts[r][k]].pos = k - 1

(* An administrator is left at every moment another transaction could      *)
(* start and at every step of a running one (NoAdminsLeft in _revokeRole). *)
AdminListNeverEmpty == accounts[ADMIN_ROLE] # <<>>

(* The roles as the rest of the contract sees them: `active' as of the     *)
(* last committed transaction, a running one being invisible until it      *)
(* commits.                                                                *)
CommittedMembers == IF Running THEN tx.savedMembers ELSE members
CommittedRoles ==
  [r \in Role |-> {a \in Account : CommittedMembers[r][a].active}]

Abstract == INSTANCE Roles WITH hasRole <- CommittedRoles

(* The loops over arrays with swap and pop, committed or reverted as a     *)
(* whole, are one atomic grant or revocation of a set of roles for a set   *)
(* of accounts: duplicates in the call data, the order of the loops and a  *)
(* NoAdminsLeft half way through make no difference.                       *)
ImplementsRoles == Abstract!RolesSpec
=============================================================================
