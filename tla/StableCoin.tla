----------------------------- MODULE StableCoin -----------------------------
(***************************************************************************)
(* One deployed stablecoin: the facets of the diamond over the storage of  *)
(* the proxy and the token in the Hedera Token Service.  Composes the role *)
(* and allowance calls of SupplierAdmin, the holds of HoldManagement, the  *)
(* reserve check of Reserve and the ledger of HederaToken, and adds the    *)
(* facets that use several of them: cash-in, burn, wipe, rescue, pause,    *)
(* freeze, KYC and deletion.                                               *)
(*                                                                         *)
(* A call is a transaction of the EVM: it runs alone and a revert leaves   *)
(* no trace, so each call is one action and a revert is a disabled guard.  *)
(* What interleaves is the order of the calls of different accounts, the   *)
(* clock, the feed and the transfers holders make without the contract.    *)
(***************************************************************************)
EXTENDS SupplierAdmin, HoldManagement, Reserve

CONSTANTS
  BURN_ROLE, WIPE_ROLE, RESCUE_ROLE, PAUSE_ROLE, FREEZE_ROLE, DELETE_ROLE,
  KYC_ROLE, HOLD_CREATOR_ROLE,
  InitialRoles,     \* the `roles' of the deployment and its sender as admin
  CashinAccounts,   \* the account of the deployment's `cashinRole', if any
  CashinAllowance,  \* and its allowance
  InitialSupply,
  MaxSupply,        \* bound: largest supply a cash-in reaches
  MaxRescued        \* bound: most that is rescued in all

ASSUME StableCoinAssumption ==
  /\ {BURN_ROLE, WIPE_ROLE, RESCUE_ROLE, PAUSE_ROLE, FREEZE_ROLE, DELETE_ROLE,
      KYC_ROLE, HOLD_CREATOR_ROLE} \subseteq Role
  /\ InitialRoles \in [Role -> SUBSET Account]
  /\ InitialRoles[ADMIN_ROLE] # {}
  /\ CashinAccounts \subseteq InitialRoles[CASHIN_ROLE]
  /\ CashinAllowance \in (Nat \ {0}) \cup {Unlimited}
  /\ InitialSupply \in Nat
  /\ MaxSupply \in Nat
  /\ MaxRescued \in Nat

VARIABLE
  rescued           \* history: all that was ever rescued from the treasury

vars == <<accessVars, tokenVars, holdVars, reserveVars, now, rescued>>

TypeOK ==
  /\ SupplierTypeOK
  /\ TokenTypeOK
  /\ HoldTypeOK
  /\ ReserveTypeOK
  /\ rescued \in Nat

(* HederaTokenManagerFacet.initialize: roles, allowance, token.            *)
Init ==
  /\ hasRole = InitialRoles
  /\ SupplierInit(CashinAccounts, CashinAllowance)
  /\ TokenInit(InitialSupply)
  /\ HoldInit
  /\ ReserveInit
  /\ rescued = 0

-----------------------------------------------------------------------------

(* A slip: the allowance is compared and not decreased.                    *)
SpendNothing(supplier, amount) ==
  /\ supplier \in unlimited \/ amount <= allowance[supplier]
  /\ entitled' = IF supplier \in unlimited THEN entitled
                   ELSE [entitled EXCEPT ![supplier] = @ - amount]
  /\ UNCHANGED allowance

(* An unlimited supplier mints without one, any other out of its allowance *)
(* (_decreaseSupplierAllowance).                                           *)
SpendAllowance(supplier, amount) ==
  \/ /\ supplier \in unlimited
     /\ UNCHANGED <<allowance, entitled>>
  \/ /\ supplier \notin unlimited
     /\ amount <= allowance[supplier]
     /\ allowance' = [allowance EXCEPT ![supplier] = @ - amount]
     /\ entitled' = [entitled EXCEPT ![supplier] = @ - amount]

(* CashInFacet.mint.  The supply is minted to the treasury and moved on to *)
(* the account, unless the account is the treasury itself.                 *)
Mint(caller, account, amount) ==
  /\ HasRole(CASHIN_ROLE, caller)
  /\ amount > 0
  /\ CheckReserveAmount(amount, totalSupply, now)
  /\ SpendAllowance(caller, amount)
  /\ CanMint
  /\ totalSupply + amount <= MaxSupply
  /\ totalSupply' = totalSupply + amount
  /\ LET minted == Credit(balance, Contract, amount)
     IN \/ /\ account = Contract
           /\ balance' = minted
        \/ /\ account # Contract
           /\ CanTransfer(minted, Contract, account, amount)
           /\ balance' = Moved(minted, Contract, account, amount)
  /\ UNCHANGED <<hasRole, unlimited, statusVars, holdVars, reserveVars, now, rescued>>

(* A slip: all of the treasury's balance.                                  *)
TreasuryBalance == balance[Contract]

(* BurnableFacet.getBurnableAmount: what the treasury has beyond the holds.*)
BurnableAmount == balance[Contract] - totalHeld

Burn(caller, amount) ==
  /\ HasRole(BURN_ROLE, caller)
  /\ amount > 0
  /\ amount <= BurnableAmount
  /\ CanBurn(amount)
  /\ balance' = Debit(balance, Contract, amount)
  /\ totalSupply' = totalSupply - amount
  /\ UNCHANGED <<accessVars, statusVars, holdVars, reserveVars, now, rescued>>

Wipe(caller, account, amount) ==
  /\ HasRole(WIPE_ROLE, caller)
  /\ amount > 0
  /\ CanWipe(account, amount)
  /\ balance' = Debit(balance, account, amount)
  /\ totalSupply' = totalSupply - amount
  /\ UNCHANGED <<accessVars, statusVars, holdVars, reserveVars, now, rescued>>

(* RescuableFacet.rescue: any part of the treasury's balance, held or not. *)
Rescue(caller, amount) ==
  /\ HasRole(RESCUE_ROLE, caller)
  /\ amount > 0
  /\ amount <= balance[Contract]
  /\ CanTransfer(balance, Contract, caller, amount)
  /\ balance' = Moved(balance, Contract, caller, amount)
  /\ rescued + amount <= MaxRescued
  /\ rescued' = rescued + amount
  /\ UNCHANGED <<accessVars, totalSupply, statusVars, holdVars, reserveVars, now>>

SetStatus(f, k, p, d) ==
  /\ frozen' = f /\ kyc' = k /\ paused' = p /\ deleted' = d
  /\ UNCHANGED <<accessVars, balance, totalSupply, holdVars, reserveVars, now, rescued>>

Pause(caller) ==
  HasRole(PAUSE_ROLE, caller) /\ ~deleted /\ SetStatus(frozen, kyc, TRUE, deleted)

Unpause(caller) ==
  HasRole(PAUSE_ROLE, caller) /\ ~deleted /\ SetStatus(frozen, kyc, FALSE, deleted)

Freeze(caller, account) ==
  HasRole(FREEZE_ROLE, caller) /\ Usable
    /\ SetStatus(frozen \cup {account}, kyc, paused, deleted)

Unfreeze(caller, account) ==
  HasRole(FREEZE_ROLE, caller) /\ Usable
    /\ SetStatus(frozen \ {account}, kyc, paused, deleted)

GrantKyc(caller, account) ==
  HasRole(KYC_ROLE, caller) /\ Usable /\ KycKey
    /\ SetStatus(frozen, kyc \cup {account}, paused, deleted)

RevokeKyc(caller, account) ==
  HasRole(KYC_ROLE, caller) /\ Usable /\ KycKey
    /\ SetStatus(frozen, kyc \ {account}, paused, deleted)

DeleteToken(caller) ==
  HasRole(DELETE_ROLE, caller) /\ Usable /\ SetStatus(frozen, kyc, paused, TRUE)

-----------------------------------------------------------------------------

(* HoldManagementFacet.createHold: of the caller's own tokens.             *)
CreateHold(caller, hold) ==
  /\ CreateHoldInternal(caller, hold)
  /\ UNCHANGED <<accessVars, reserveVars, rescued>>

(* createHoldByController: of anyone's tokens, with HOLD_CREATOR_ROLE.     *)
CreateHoldByController(caller, from, hold) ==
  /\ HasRole(HOLD_CREATOR_ROLE, caller)
  /\ CreateHoldInternal(from, hold)
  /\ UNCHANGED <<accessVars, reserveVars, rescued>>

Settle ==
  /\ SettleHold
  /\ UNCHANGED <<accessVars, reserveVars, rescued>>

Administer ==
  /\ AdminNext
  /\ UNCHANGED <<tokenVars, holdVars, reserveVars, now, rescued>>

ReserveNext ==
  /\ \/ \E caller \in Account :
          /\ IsAdmin(caller)
          /\ \/ \E f \in Feed \cup {NoFeed} : UpdateReserveAddress(f)
             \/ \E t \in Thresholds : UpdateUpdatedAtThreshold(t)
     \/ \E f \in Feed, answer \in Answers : FeedUpdates(f, answer, now)
  /\ UNCHANGED <<accessVars, tokenVars, holdVars, now, rescued>>

Environment ==
  \/ /\ \E from \in Account, to \in Holder, amount \in Amounts :
          UserTransfer(from, to, amount)
     /\ UNCHANGED <<accessVars, holdVars, reserveVars, now, rescued>>
  \/ /\ Tick
     /\ UNCHANGED <<accessVars, tokenVars, holdVars, reserveVars, rescued>>

Next ==
  \/ Administer
  \/ ReserveNext
  \/ Environment
  \/ Settle
  \/ \E caller \in Account :
       \/ \E amount \in Amounts :
            \/ \E account \in Holder : Mint(caller, account, amount)
            \/ \E account \in Account : Wipe(caller, account, amount)
            \/ Burn(caller, amount)
            \/ Rescue(caller, amount)
       \/ \E hold \in NewHolds :
            \/ CreateHold(caller, hold)
            \/ \E from \in Account : CreateHoldByController(caller, from, hold)
       \/ \E account \in Account :
            \/ Freeze(caller, account)
            \/ Unfreeze(caller, account)
            \/ GrantKyc(caller, account)
            \/ RevokeKyc(caller, account)
       \/ Pause(caller)
       \/ Unpause(caller)
       \/ DeleteToken(caller)

Spec == Init /\ [][Next]_vars

-----------------------------------------------------------------------------

(* The treasury backs the holds, short at most of what was rescued from    *)
(* it: burning stops at the held amount, creating, executing, releasing    *)
(* and reclaiming move as much as they record, and only a rescue may dig   *)
(* into held tokens (getBurnableAmount, rescue).                           *)
HoldsBackedUpToRescues == totalHeld <= balance[Contract] + rescued

(* The documented reading of rescue, that it recovers tokens sent to the   *)
(* contract by mistake, would leave the held tokens alone.                 *)
HoldsBacked == totalHeld <= balance[Contract]

(* All the holds of all the holders together are the recorded total.       *)
TotalMatchesHolds ==
  totalHeld = Cardinality(UNION {{a} \X HeldUnits(a) : a \in Account})

(* The supply is what all the holders have together, the treasury's holds  *)
(* included: cash-in, burn and wipe account for every token they make or   *)
(* destroy, and a hold's wipe and mint for each other.  One element for    *)
(* every token unit of a holder.                                           *)
SupplyMatchesBalances ==
  totalSupply = Cardinality(UNION {{h} \X (1..balance[h]) : h \in Holder})

(* A cash-in never takes the supply above what the feed last answered, in  *)
(* whatever decimals token and feed have: compared here by multiplying     *)
(* both sides out, the token's by the feed's decimals and the reverse.     *)
(* Only a cash-in: the supply may exceed the reserve when the feed drops   *)
(* or the administrator changes it, and a hold's wipe and mint net to 0.   *)
CoveredByReserve(supply) ==
  supply * Power[ReserveDecimals[reserveAddress]]
    <= feed[reserveAddress].answer * Power[TokenDecimals]
MintWithinReserve ==
  [][totalSupply' > totalSupply /\ reserveAddress # NoFeed
       => CoveredByReserve(totalSupply')]_vars

(* A hold pays only its own: while the hold shrinks, its holder's or its   *)
(* destination's balance grows by as much, and once it has expired only    *)
(* the holder is paid.                                                     *)
AmountOf(slot) == IF slot = NoHold THEN 0 ELSE slot.amount
HoldPaysItsParties ==
  [][\A a \in Account, id \in HoldId :
       LET paid == AmountOf(holds[a][id]) - AmountOf(holds'[a][id])
       IN holds[a][id] # NoHold /\ paid # 0 =>
            \E h \in Account :
              /\ balance'[h] = balance[h] + paid
              /\ h # a => /\ now < holds[a][id].expiration
                          /\ holds[a][id].to \in {NoAddress, h}]_vars

(* An id names one hold forever: once a hold is gone its id never comes    *)
(* back to life, so a settlement signed for it cannot hit a later hold.    *)
HoldIdsAreNeverReused ==
  [][\A a \in Account, id \in HoldId :
       id <= nextHoldId[a] /\ id \notin holdIds[a] => id \notin holdIds'[a]]_vars

(* A call whose transfer, wipe, mint or burn the token service refuses     *)
(* leaves no trace in the holds and balances: nothing moves while the      *)
(* token is paused, nor ever again once it is deleted.                     *)
HaltedTokenKeepsItsRecords ==
  [][~Usable => UNCHANGED <<balance, totalSupply, holdVars>>]_vars

(* Locking tokens creates and destroys none: when the amount held for a    *)
(* holder grows, its own balance falls by as much and the supply, which    *)
(* the wipe lowers and the mint restores, is what it was.                  *)
LockingConservesTokens ==
  [][\A a \in Account : heldByAccount'[a] > heldByAccount[a] =>
       /\ balance'[a] + heldByAccount'[a] = balance[a] + heldByAccount[a]
       /\ totalSupply' = totalSupply
       /\ \A h \in Account \ {a} : balance'[h] = balance[h]]_vars
=============================================================================
