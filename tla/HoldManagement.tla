--------------------------- MODULE HoldManagement ---------------------------
(***************************************************************************)
(* Holds: tokens of a holder locked under an escrow account until they are *)
(* executed to a destination, released or, once expired, reclaimed.        *)
(* HoldManagementFacet over HoldManagementStorageWrapper.                  *)
(*                                                                         *)
(* Creating a hold wipes the amount from the holder and mints it to the    *)
(* treasury, and the facet keeps four records that must agree: the data of *)
(* each hold, the set of live ids of each holder, the amount held for each *)
(* holder and the amount held in all.                                      *)
(***************************************************************************)
EXTENDS HederaToken, FiniteSets

CONSTANTS
  NoAddress,    \* address(0), as the destination of a hold
  NoHold,       \* a deleted or never written slot of holdsByAccountAndId
  MaxHolds,     \* bound: holds created per holder
  MaxTime,      \* bound: block timestamps
  Amounts,      \* bound: the amounts in call data
  NewHolds      \* bound: the holds in call data

HoldData ==
  [amount : Int, expiration : Nat, escrow : Account, to : Account \cup {NoAddress}]

ASSUME HoldAssumption ==
  /\ NoAddress \notin Holder
  /\ MaxHolds \in Nat
  /\ MaxTime \in Nat
  /\ NoHold \notin HoldData
  /\ Amounts \subseteq Int
  /\ \A hold \in NewHolds : hold \in HoldData

HoldId == 1..MaxHolds

VARIABLES
  holds,            \* holdsByAccountAndId
  holdIds,          \* holdIdsByAccount
  nextHoldId,       \* nextHoldIdByAccount: the last id given out
  heldByAccount,    \* totalHeldAmountByAccount
  totalHeld,        \* totalHeldAmount
  now               \* block.timestamp

holdVars == <<holds, holdIds, nextHoldId, heldByAccount, totalHeld>>


HoldTypeOK ==
  /\ holds \in [Account -> [HoldId -> HoldData \cup {NoHold}]]
  /\ holdIds \in [Account -> SUBSET HoldId]
  /\ nextHoldId \in [Account -> 0..MaxHolds]
  /\ heldByAccount \in [Account -> Int]
  /\ totalHeld \in Int
  /\ now \in 0..MaxTime

HoldInit ==
  /\ holds = [a \in Account |-> [id \in HoldId |-> NoHold]]
  /\ holdIds = [a \in Account |-> {}]
  /\ nextHoldId = [a \in Account |-> 0]
  /\ heldByAccount = [a \in Account |-> 0]
  /\ totalHeld = 0
  /\ now = 0

Tick == now < MaxTime /\ now' = now + 1

-----------------------------------------------------------------------------

(* Slips: the id is read before it is incremented, or is the number of     *)
(* live holds plus one.                                                    *)
RegisterHoldUnderLastId(holder, hold) ==
  LET id == nextHoldId[holder]
  IN  /\ id + 1 \in HoldId
      /\ nextHoldId' = [nextHoldId EXCEPT ![holder] = id + 1]
      /\ holds' = [holds EXCEPT ![holder][id + 1] = hold]
      /\ holdIds' = [holdIds EXCEPT ![holder] = @ \cup {id}]
      /\ heldByAccount' = [heldByAccount EXCEPT ![holder] = @ + hold.amount]
      /\ totalHeld' = totalHeld + hold.amount
RegisterHoldByCount(holder, hold) ==
  LET id == Cardinality(holdIds[holder]) + 1
  IN  /\ id \in HoldId
      /\ nextHoldId' = [nextHoldId EXCEPT ![holder] = id]
      /\ holds' = [holds EXCEPT ![holder][id] = hold]
      /\ holdIds' = [holdIds EXCEPT ![holder] = @ \cup {id}]
      /\ heldByAccount' = [heldByAccount EXCEPT ![holder] = @ + hold.amount]
      /\ totalHeld' = totalHeld + hold.amount

(* _registerHold: the new hold under the next id, and the two totals.      *)
RegisterHold(holder, hold) ==
  LET id == nextHoldId[holder] + 1
  IN  /\ id \in HoldId                            \* bound
      /\ nextHoldId' = [nextHoldId EXCEPT ![holder] = id]
      /\ holds' = [holds EXCEPT ![holder][id] = hold]
      /\ holdIds' = [holdIds EXCEPT ![holder] = @ \cup {id}]
      /\ heldByAccount' = [heldByAccount EXCEPT ![holder] = @ + hold.amount]
      /\ totalHeld' = totalHeld + hold.amount

(* A slip: the tokens are minted to the treasury but not wiped.            *)
CreateHoldWithoutWipe(holder, hold) ==
  /\ hold.expiration > now
  /\ hold.amount > 0
  /\ CanWipe(holder, hold.amount)
  /\ CanMint
  /\ balance' = Credit(balance, Contract, hold.amount)
  /\ RegisterHold(holder, hold)
  /\ UNCHANGED <<totalSupply, statusVars, now>>

(* _createHoldInternal: wipe from the holder, mint to the treasury,        *)
(* register.  The supply dips and comes back within the transaction.       *)
CreateHoldInternal(holder, hold) ==
  /\ hold.expiration > now                        \* validExpiration
  /\ hold.amount > 0
  /\ CanWipe(holder, hold.amount)
  /\ CanMint
  /\ balance' = Moved(balance, holder, Contract, hold.amount)
  /\ RegisterHold(holder, hold)
  /\ UNCHANGED <<totalSupply, statusVars, now>>

Live(holder, id) == id \in holdIds[holder]        \* validHold

(* Slips: a hold that reaches zero keeps its id; a total is not decreased. *)
DecreaseKeepingId(holder, id, amount) ==
  LET left == holds[holder][id].amount - amount
  IN  /\ heldByAccount' = [heldByAccount EXCEPT ![holder] = @ - amount]
      /\ totalHeld' = totalHeld - amount
      /\ UNCHANGED <<nextHoldId, holdIds>>
      /\ holds' = [holds EXCEPT ![holder][id].amount = left]
DecreaseTotals(holder, id, amount, byAccount, total) ==
  LET left == holds[holder][id].amount - amount
  IN  /\ heldByAccount' = byAccount
      /\ totalHeld' = total
      /\ UNCHANGED nextHoldId
      /\ holds' = [holds EXCEPT ![holder][id] =
                      IF left = 0 THEN NoHold ELSE [@ EXCEPT !.amount = left]]
      /\ holdIds' = [holdIds EXCEPT ![holder] = IF left = 0 THEN @ \ {id} ELSE @]
DecreaseKeepingAccountTotal(holder, id, amount) ==
  DecreaseTotals(holder, id, amount, heldByAccount, totalHeld - amount)
DecreaseKeepingTotal(holder, id, amount) ==
  DecreaseTotals(holder, id, amount,
                 [heldByAccount EXCEPT ![holder] = @ - amount], totalHeld)

(* _decreaseHoldAmount: a hold that reaches zero is forgotten.             *)
DecreaseHoldAmount(holder, id, amount) ==
  LET left == holds[holder][id].amount - amount
  IN  /\ heldByAccount' = [heldByAccount EXCEPT ![holder] = @ - amount]
      /\ totalHeld' = totalHeld - amount
      /\ UNCHANGED nextHoldId
      /\ \/ /\ left # 0
            /\ holds' = [holds EXCEPT ![holder][id].amount = left]
            /\ UNCHANGED holdIds
         \/ /\ left = 0
            /\ holds' = [holds EXCEPT ![holder][id] = NoHold]
            /\ holdIds' = [holdIds EXCEPT ![holder] = @ \ {id}]

(* A slip: the answer of the token service is not looked at.               *)
PayOutUnchecked(to, amount) ==
  /\ balance' = IF CanTransfer(balance, Contract, to, amount)
                  THEN Moved(balance, Contract, to, amount) ELSE balance
  /\ UNCHANGED <<totalSupply, statusVars, now>>

PayOut(to, amount) ==
  /\ CanTransfer(balance, Contract, to, amount)
  /\ balance' = Moved(balance, Contract, to, amount)
  /\ UNCHANGED <<totalSupply, statusVars, now>>

(* A slip: the destination the hold names is not looked at.                *)
ExecuteHoldToAnyone(caller, holder, id, to, amount) ==
  /\ Live(holder, id)
  /\ LET hold == holds[holder][id]
     IN amount > 0 /\ amount <= hold.amount /\ hold.expiration > now /\ hold.escrow = caller
  /\ DecreaseHoldAmount(holder, id, amount)
  /\ PayOut(to, amount)

(* The escrow pays part or all of a hold that has not expired to its       *)
(* destination, or to anyone when the hold names none.                     *)
ExecuteHold(caller, holder, id, to, amount) ==
  /\ Live(holder, id)
  /\ LET hold == holds[holder][id]
     IN /\ amount > 0
        /\ amount <= hold.amount
        /\ hold.expiration > now                  \* nonExpired
        /\ hold.escrow = caller
        /\ hold.to \in {NoAddress, to}
  /\ DecreaseHoldAmount(holder, id, amount)
  /\ PayOut(to, amount)

(* The escrow gives part or all of it back.  No lower bound on the amount  *)
(* here: only the transfer rejects a negative one.                         *)
ReleaseHold(caller, holder, id, amount) ==
  /\ Live(holder, id)
  /\ LET hold == holds[holder][id]
     IN /\ amount <= hold.amount
        /\ hold.expiration > now
        /\ hold.escrow = caller
  /\ DecreaseHoldAmount(holder, id, amount)
  /\ PayOut(holder, amount)

(* Anyone sends what is left of an expired hold back to the holder.        *)
ReclaimHold(holder, id) ==
  /\ Live(holder, id)
  /\ holds[holder][id].expiration <= now          \* expired
  /\ DecreaseHoldAmount(holder, id, holds[holder][id].amount)
  /\ PayOut(holder, holds[holder][id].amount)

(* Any settlement by any caller.                                           *)
SettleHold ==
  \/ \E caller \in Account, holder \in Account, id \in HoldId, amount \in Amounts :
       \/ \E to \in Account : ExecuteHold(caller, holder, id, to, amount)
       \/ ReleaseHold(caller, holder, id, amount)
  \/ \E holder \in Account, id \in HoldId : ReclaimHold(holder, id)

-----------------------------------------------------------------------------

(* One element for every token unit of a live hold of a holder, so that    *)
(* sums of amounts are cardinalities.                                      *)
HeldUnits(holder) ==
  UNION {{id} \X (1..holds[holder][id].amount) : id \in holdIds[holder]}

(* The four records of what is held agree: a live id has data with a       *)
(* positive amount, a dead one has none, and no id beyond the last one     *)
(* given out is live.  A hold that lost its id could never be released or  *)
(* reclaimed, an id that lost its data would pay out nothing forever.      *)
HoldRegistryConsistent ==
  \A a \in Account, id \in HoldId :
    /\ id \in holdIds[a] => holds[a][id] # NoHold /\ holds[a][id].amount > 0
    /\ id \notin holdIds[a] => holds[a][id] = NoHold
    /\ id > nextHoldId[a] => id \notin holdIds[a]

(* The amount recorded as held for a holder is the sum over its live holds.*)
AccountTotalMatchesHolds ==
  \A a \in Account : heldByAccount[a] = Cardinality(HeldUnits(a))
=============================================================================
