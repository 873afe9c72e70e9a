-------------------------- MODULE StableCoinProofs --------------------------
(***************************************************************************)
(* The safety of one stablecoin, for any accounts, roles, amounts, holds,  *)
(* feeds, decimals and bounds: the types, the records of what is held, the *)
(* backing of the holds by the treasury and the allowances of the          *)
(* suppliers as invariants; and what a step may do to ids, payments and    *)
(* balances.                                                               *)
(*                                                                         *)
(* The invariant has three parts that no step mixes: who may do what       *)
(* (AccessInv), what is held and owned (LedgerInv), and the feed.          *)
(***************************************************************************)
EXTENDS StableCoin, WellFoundedInduction, TLAPS

(* Roles and allowances.                                                   *)
AccessInv ==
  /\ SupplierTypeOK
  /\ UnlimitedHasNoAllowance
  /\ AllowanceWithinEntitlement

(* Balances and holds.                                                     *)
LedgerInv ==
  /\ TokenTypeOK
  /\ HoldTypeOK
  /\ rescued \in Nat
  /\ HoldRegistryConsistent
  /\ HoldsBackedUpToRescues

Inv == AccessInv /\ LedgerInv /\ ReserveTypeOK

-----------------------------------------------------------------------------
(* Balances                                                                *)

(* What a credit does to the balances.                                     *)
LEMMA CreditIs ==
  ASSUME NEW b \in [Holder -> Nat], NEW h \in Holder,
         NEW amount \in Int, 0 <= amount
  PROVE  /\ Credit(b, h, amount) \in [Holder -> Nat]
         /\ Credit(b, h, amount)[h] = b[h] + amount
         /\ \A other \in Holder \ {h} : Credit(b, h, amount)[other] = b[other]
<1>1. b[h] + amount \in Nat
  OBVIOUS
<1> QED
  BY <1>1 DEF Credit

(* What a debit that the balance covers does to the balances.              *)
LEMMA DebitIs ==
  ASSUME NEW b \in [Holder -> Nat], NEW h \in Holder,
         NEW amount \in Int, 0 <= amount, amount <= b[h]
  PROVE  /\ Debit(b, h, amount) \in [Holder -> Nat]
         /\ Debit(b, h, amount)[h] = b[h] - amount
         /\ \A other \in Holder \ {h} : Debit(b, h, amount)[other] = b[other]
<1>1. b[h] - amount \in Nat
  OBVIOUS
<1> QED
  BY <1>1 DEF Debit

(* A movement between two holders takes from the one what it gives to the  *)
(* other and touches nobody else.                                          *)
LEMMA MovedIs ==
  ASSUME NEW b \in [Holder -> Nat], NEW from \in Holder, NEW to \in Holder,
         from # to, NEW amount \in Int, 0 <= amount, amount <= b[from]
  PROVE  /\ Moved(b, from, to, amount) \in [Holder -> Nat]
         /\ Moved(b, from, to, amount)[from] = b[from] - amount
         /\ Moved(b, from, to, amount)[to] = b[to] + amount
         /\ \A other \in Holder \ {from, to} :
              Moved(b, from, to, amount)[other] = b[other]
<1> DEFINE d == Debit(b, from, amount)
<1>1. /\ d \in [Holder -> Nat]
      /\ d[from] = b[from] - amount
      /\ \A other \in Holder \ {from} : d[other] = b[other]
  BY DebitIs
<1> HIDE DEF d
<1>2. /\ Credit(d, to, amount) \in [Holder -> Nat]
      /\ Credit(d, to, amount)[to] = d[to] + amount
      /\ \A other \in Holder \ {to} : Credit(d, to, amount)[other] = d[other]
  BY <1>1, CreditIs
<1>3. Moved(b, from, to, amount) = Credit(d, to, amount)
  BY DEF Moved, d
<1> QED
  BY <1>1, <1>2, <1>3

-----------------------------------------------------------------------------
(* The records of holds                                                    *)

(* What _registerHold writes keeps the records of holds in agreement, and  *)
(* it never overwrites a hold: the slot of the next id is empty.           *)
LEMMA RegisterKeepsRecords ==
  ASSUME HoldTypeOK, HoldRegistryConsistent, UNCHANGED now,
         NEW holder \in Account, NEW hold \in HoldData, hold.amount > 0,
         RegisterHold(holder, hold)
  PROVE  /\ HoldTypeOK'
         /\ HoldRegistryConsistent'
         /\ totalHeld' = totalHeld + hold.amount
         /\ \A a \in Account, id \in HoldId :
              holds[a][id] # NoHold => holds'[a][id] = holds[a][id]
<1> DEFINE new == nextHoldId[holder] + 1
<1>1. /\ new \in HoldId
      /\ nextHoldId[holder] \in 0..MaxHolds
      /\ MaxHolds \in Nat
  BY HoldAssumption DEF RegisterHold, HoldTypeOK
<1>2. new \notin holdIds[holder] /\ holds[holder][new] = NoHold
  BY <1>1 DEF HoldRegistryConsistent, HoldId
<1>3. HoldTypeOK'
  <2>1. holds' \in [Account -> [HoldId -> HoldData \cup {NoHold}]]
    BY <1>1 DEF RegisterHold, HoldTypeOK
  <2>2. holdIds' \in [Account -> SUBSET HoldId]
    BY <1>1 DEF RegisterHold, HoldTypeOK
  <2>3. new \in 0..MaxHolds
    BY <1>1 DEF HoldId
  <2>4. nextHoldId' \in [Account -> 0..MaxHolds]
    BY <2>3 DEF RegisterHold, HoldTypeOK
  <2>5. hold.amount \in Int
    BY DEF HoldData
  <2>6. heldByAccount' \in [Account -> Int] /\ totalHeld' \in Int
    BY <2>5 DEF RegisterHold, HoldTypeOK
  <2> QED
    BY <2>1, <2>2, <2>4, <2>6 DEF HoldTypeOK
<1>4. \A a \in Account, id \in HoldId :
        /\ holds'[a][id] = IF a = holder /\ id = new THEN hold ELSE holds[a][id]
        /\ id \in holdIds'[a] <=> id \in holdIds[a] \/ (a = holder /\ id = new)
  BY <1>1 DEF RegisterHold, HoldTypeOK
<1>5. \A a \in Account : nextHoldId'[a] = IF a = holder THEN new ELSE nextHoldId[a]
  BY <1>1 DEF RegisterHold, HoldTypeOK
<1>6. hold # NoHold
  BY HoldAssumption
<1>7. HoldRegistryConsistent'
  <2> SUFFICES ASSUME NEW a \in Account, NEW id \in HoldId
               PROVE  /\ id \in holdIds'[a] => holds'[a][id] # NoHold /\ holds'[a][id].amount > 0
                      /\ id \notin holdIds'[a] => holds'[a][id] = NoHold
                      /\ id > nextHoldId'[a] => id \notin holdIds'[a]
    BY DEF HoldRegistryConsistent
  <2>1. CASE a = holder /\ id = new
    BY <1>1, <1>4, <1>5, <1>6, <2>1
  <2>2. CASE ~(a = holder /\ id = new)
    <3>1. /\ holds'[a][id] = holds[a][id]
          /\ id \in holdIds'[a] <=> id \in holdIds[a]
      BY <1>4, <2>2
    <3>2. id > nextHoldId'[a] => id > nextHoldId[a]
      BY <1>1, <1>5 DEF HoldId
    <3> QED
      BY <3>1, <3>2 DEF HoldRegistryConsistent
  <2> QED
    BY <2>1, <2>2
<1> QED
  BY <1>2, <1>3, <1>4, <1>7 DEF RegisterHold

(* What _decreaseHoldAmount writes for a live hold and an amount it covers *)
(* keeps the records of holds in agreement: the hold is forgotten in both  *)
(* or in none.                                                             *)
LEMMA DecreaseKeepsRecords ==
  ASSUME HoldTypeOK, HoldRegistryConsistent, UNCHANGED now,
         NEW holder \in Account, NEW id \in HoldId, Live(holder, id),
         NEW amount \in Int, amount <= holds[holder][id].amount,
         DecreaseHoldAmount(holder, id, amount)
  PROVE  /\ HoldTypeOK'
         /\ HoldRegistryConsistent'
         /\ totalHeld' = totalHeld - amount
         /\ UNCHANGED nextHoldId
         /\ \A a \in Account : holdIds'[a] \subseteq holdIds[a]
         /\ \A a \in Account, k \in HoldId :
              a # holder \/ k # id => holds'[a][k] = holds[a][k]
         /\ AmountOf(holds[holder][id]) - AmountOf(holds'[holder][id]) = amount
<1> DEFINE old == holds[holder][id]
           left == old.amount - amount
<1>1. old \in HoldData /\ old # NoHold /\ old.amount > 0
  BY DEF HoldTypeOK, HoldRegistryConsistent, Live
<1>2. left \in Int /\ left >= 0
  BY <1>1 DEF HoldData
<1> DEFINE rest == [old EXCEPT !.amount = left]
<1>3. rest \in HoldData /\ rest.amount = left /\ rest # NoHold
  BY <1>1, <1>2, HoldAssumption DEF HoldData
<1> DEFINE slot == IF left = 0 THEN NoHold ELSE rest
<1>4. /\ holds' = [holds EXCEPT ![holder][id] = slot]
      /\ holdIds' = [holdIds EXCEPT ![holder] = IF left = 0 THEN @ \ {id} ELSE @]
      /\ UNCHANGED nextHoldId
      /\ heldByAccount' = [heldByAccount EXCEPT ![holder] = @ - amount]
      /\ totalHeld' = totalHeld - amount
  <2>1. holdIds = [holdIds EXCEPT ![holder] = @]
    BY DEF HoldTypeOK
  <2> QED
    BY <1>2, <2>1 DEF DecreaseHoldAmount
<1>5. slot \in HoldData \cup {NoHold}
  BY <1>3
<1>6. /\ left = 0 => slot = NoHold
      /\ left # 0 => slot # NoHold /\ slot.amount = left
  BY <1>3
<1> HIDE DEF rest, slot
<1>7. \A a \in Account, k \in HoldId :
        /\ holds'[a][k] = IF a = holder /\ k = id THEN slot ELSE holds[a][k]
        /\ k \in holdIds'[a] <=> k \in holdIds[a] /\ ~(a = holder /\ k = id /\ left = 0)
  BY <1>4 DEF HoldTypeOK
<1>8. HoldTypeOK'
  <2>1. holds' \in [Account -> [HoldId -> HoldData \cup {NoHold}]]
    BY <1>4, <1>5 DEF HoldTypeOK
  <2>2. holdIds' \in [Account -> SUBSET HoldId]
    BY <1>4 DEF HoldTypeOK
  <2>3. heldByAccount' \in [Account -> Int] /\ totalHeld' \in Int
    BY <1>4 DEF HoldTypeOK
  <2> QED
    BY <1>4, <2>1, <2>2, <2>3 DEF HoldTypeOK
<1>9. HoldRegistryConsistent'
  <2> SUFFICES ASSUME NEW a \in Account, NEW k \in HoldId
               PROVE  /\ k \in holdIds'[a] => holds'[a][k] # NoHold /\ holds'[a][k].amount > 0
                      /\ k \notin holdIds'[a] => holds'[a][k] = NoHold
                      /\ k > nextHoldId'[a] => k \notin holdIds'[a]
    BY DEF HoldRegistryConsistent
  <2>1. CASE a = holder /\ k = id
    BY <1>2, <1>4, <1>6, <1>7, <2>1 DEF HoldRegistryConsistent, Live
  <2>2. CASE ~(a = holder /\ k = id)
    BY <1>4, <1>7, <2>2 DEF HoldRegistryConsistent
  <2> QED
    BY <2>1, <2>2
<1>10. \A a \in Account : holdIds'[a] \subseteq holdIds[a]
  BY <1>7, <1>8 DEF HoldTypeOK
<1>11. AmountOf(old) = old.amount /\ AmountOf(slot) = left
  BY <1>1, <1>6 DEF AmountOf
<1>12. AmountOf(holds[holder][id]) - AmountOf(holds'[holder][id]) = amount
  BY <1>1, <1>7, <1>11 DEF HoldData
<1> QED
  BY <1>4, <1>7, <1>8, <1>9, <1>10, <1>12

-----------------------------------------------------------------------------
(* Settling a hold                                                         *)

(* Executing, releasing and reclaiming are one thing: a live hold shrinks  *)
(* by what it pays to one account, its holder or, before it has expired,   *)
(* a destination it allows.                                                *)
LEMMA EverySettlementPays ==
  ASSUME LedgerInv, SettleHold
  PROVE  \E holder \in Account, id \in HoldId, to \in Account, amount \in Int :
           /\ Live(holder, id)
           /\ amount <= holds[holder][id].amount
           /\ DecreaseHoldAmount(holder, id, amount)
           /\ PayOut(to, amount)
           /\ to # holder => /\ now < holds[holder][id].expiration
                             /\ holds[holder][id].to \in {NoAddress, to}
<1>1. \A holder \in Account, id \in HoldId :
        Live(holder, id) => /\ holds[holder][id] \in HoldData
                            /\ holds[holder][id].amount \in Int
                            /\ holds[holder][id].expiration \in Nat
  <2>1. \A holder \in Account, id \in HoldId :
          Live(holder, id) => holds[holder][id] \in HoldData
    BY DEF LedgerInv, HoldTypeOK, HoldRegistryConsistent, Live
  <2> QED
    BY <2>1 DEF HoldData
<1>2. now \in Nat /\ Amounts \subseteq Int
  BY HoldAssumption DEF LedgerInv, HoldTypeOK
<1>3. CASE \E caller, holder, to \in Account, id \in HoldId, amount \in Amounts :
             ExecuteHold(caller, holder, id, to, amount)
  <2>1. PICK caller \in Account, holder \in Account, to \in Account,
             id \in HoldId, amount \in Amounts :
               ExecuteHold(caller, holder, id, to, amount)
    BY <1>3
  <2>2. /\ Live(holder, id) /\ amount <= holds[holder][id].amount
        /\ DecreaseHoldAmount(holder, id, amount) /\ PayOut(to, amount)
        /\ holds[holder][id].expiration > now
        /\ holds[holder][id].to \in {NoAddress, to}
    BY <2>1 DEF ExecuteHold
  <2>3. now < holds[holder][id].expiration
    BY <1>1, <1>2, <2>2
  <2>4. amount \in Int
    BY <1>2
  <2> QED
    BY <2>2, <2>3, <2>4
<1>4. CASE \E caller, holder \in Account, id \in HoldId, amount \in Amounts :
             ReleaseHold(caller, holder, id, amount)
  <2>1. PICK caller \in Account, holder \in Account, id \in HoldId, amount \in Amounts :
               ReleaseHold(caller, holder, id, amount)
    BY <1>4
  <2>2. /\ Live(holder, id) /\ amount <= holds[holder][id].amount
        /\ DecreaseHoldAmount(holder, id, amount) /\ PayOut(holder, amount)
    BY <2>1 DEF ReleaseHold
  <2>3. amount \in Int
    BY <1>2
  <2> QED
    BY <2>2, <2>3
<1>5. CASE \E holder \in Account, id \in HoldId : ReclaimHold(holder, id)
  <2>1. PICK holder \in Account, id \in HoldId : ReclaimHold(holder, id)
    BY <1>5
  <2>2. /\ Live(holder, id)
        /\ DecreaseHoldAmount(holder, id, holds[holder][id].amount)
        /\ PayOut(holder, holds[holder][id].amount)
    BY <2>1 DEF ReclaimHold
  <2>3. /\ holds[holder][id].amount \in Int
        /\ holds[holder][id].amount <= holds[holder][id].amount
    BY <1>1, <2>2
  <2> QED
    BY <2>2, <2>3
<1> QED
  BY <1>3, <1>4, <1>5 DEF SettleHold

(* A payment out of the treasury leaves the types of the ledger alone and  *)
(* moves exactly the amount.                                               *)
LEMMA PayOutMoves ==
  ASSUME TokenTypeOK, NEW to \in Account, NEW amount \in Int, PayOut(to, amount)
  PROVE  /\ TokenTypeOK'
         /\ amount >= 0
         /\ balance'[Contract] = balance[Contract] - amount
         /\ balance'[to] = balance[to] + amount
<1>1. Contract \in Holder /\ to \in Holder /\ Contract # to
  BY TokenAssumption DEF Holder
<1>2. /\ 0 <= amount /\ amount <= balance[Contract]
      /\ balance' = Moved(balance, Contract, to, amount)
  BY DEF PayOut, CanTransfer
<1>3. balance \in [Holder -> Nat]
  BY DEF TokenTypeOK
<1>4. /\ balance' \in [Holder -> Nat]
      /\ balance'[Contract] = balance[Contract] - amount
      /\ balance'[to] = balance[to] + amount
  BY <1>1, <1>2, <1>3, MovedIs
<1>5. TokenTypeOK'
  BY <1>4 DEF PayOut, TokenTypeOK, statusVars
<1> QED
  BY <1>2, <1>4, <1>5

(* A payment for a hold keeps the ledger in order: totals and treasury     *)
(* fall together.                                                          *)
LEMMA PaymentSafe ==
  ASSUME LedgerInv, UNCHANGED rescued,
         NEW holder \in Account, NEW id \in HoldId, NEW to \in Account, NEW amount \in Int,
         Live(holder, id), amount <= holds[holder][id].amount,
         DecreaseHoldAmount(holder, id, amount), PayOut(to, amount)
  PROVE  LedgerInv'
<1>1. UNCHANGED now
  BY DEF PayOut
<1>2. /\ HoldTypeOK' /\ HoldRegistryConsistent'
      /\ totalHeld' = totalHeld - amount
  BY <1>1, DecreaseKeepsRecords DEF LedgerInv
<1>3. TokenTypeOK' /\ balance'[Contract] = balance[Contract] - amount
  BY PayOutMoves DEF LedgerInv
<1>4. balance[Contract] \in Nat /\ totalHeld \in Int /\ rescued \in Nat
  BY DEF LedgerInv, TokenTypeOK, HoldTypeOK, Holder
<1>5. HoldsBackedUpToRescues'
  BY <1>2, <1>3, <1>4 DEF LedgerInv, HoldsBackedUpToRescues
<1> QED
  BY <1>2, <1>3, <1>5 DEF LedgerInv

(* So does any settlement.                                                 *)
LEMMA SettleSafe ==
  ASSUME LedgerInv, Settle
  PROVE  LedgerInv'
<1>1. SettleHold /\ UNCHANGED rescued
  BY DEF Settle
<1> QED
  BY <1>1, EverySettlementPays, PaymentSafe

-----------------------------------------------------------------------------
(* Creating a hold                                                         *)

(* The wipe and the mint together move the amount from the holder to the   *)
(* treasury and leave the supply as it was.                                *)
LEMMA CreateHoldMoves ==
  ASSUME TokenTypeOK, NEW holder \in Account, NEW hold \in HoldData,
         CreateHoldInternal(holder, hold)
  PROVE  /\ TokenTypeOK'
         /\ hold.amount \in Int /\ hold.amount > 0
         /\ totalSupply' = totalSupply
         /\ balance'[Contract] = balance[Contract] + hold.amount
         /\ balance'[holder] = balance[holder] - hold.amount
         /\ \A h \in Account \ {holder} : balance'[h] = balance[h]
<1>1. hold.amount \in Int
  BY DEF HoldData
<1>2. /\ hold.amount > 0 /\ hold.amount <= balance[holder]
      /\ balance' = Moved(balance, holder, Contract, hold.amount)
  BY DEF CreateHoldInternal, CanWipe
<1>3. Contract \in Holder /\ holder \in Holder /\ Contract # holder
  BY TokenAssumption DEF Holder
<1>4. balance \in [Holder -> Nat]
  BY DEF TokenTypeOK
<1>5. /\ balance' \in [Holder -> Nat]
      /\ balance'[Contract] = balance[Contract] + hold.amount
      /\ balance'[holder] = balance[holder] - hold.amount
      /\ \A h \in Holder \ {holder, Contract} : balance'[h] = balance[h]
  BY <1>1, <1>2, <1>3, <1>4, MovedIs
<1>6. TokenTypeOK'
  BY <1>5 DEF CreateHoldInternal, TokenTypeOK, statusVars
<1>7. \A h \in Account \ {holder} : h \in Holder \ {holder, Contract}
  BY TokenAssumption DEF Holder
<1> QED
  BY <1>1, <1>2, <1>5, <1>6, <1>7 DEF CreateHoldInternal

(* Creating a hold keeps the ledger in order: totals and treasury rise     *)
(* together.                                                               *)
LEMMA CreateHoldSafe ==
  ASSUME LedgerInv, NEW holder \in Account, NEW hold \in HoldData,
         CreateHoldInternal(holder, hold), UNCHANGED rescued
  PROVE  LedgerInv'
<1>1. /\ TokenTypeOK'
      /\ hold.amount \in Int /\ hold.amount > 0
      /\ balance'[Contract] = balance[Contract] + hold.amount
  BY CreateHoldMoves DEF LedgerInv
<1>2. RegisterHold(holder, hold) /\ UNCHANGED now
  BY DEF CreateHoldInternal
<1>3. /\ HoldTypeOK' /\ HoldRegistryConsistent'
      /\ totalHeld' = totalHeld + hold.amount
  BY <1>1, <1>2, RegisterKeepsRecords DEF LedgerInv
<1>4. balance[Contract] \in Nat /\ totalHeld \in Int /\ rescued \in Nat
  BY DEF LedgerInv, TokenTypeOK, HoldTypeOK, Holder
<1>5. HoldsBackedUpToRescues'
  BY <1>1, <1>3, <1>4 DEF LedgerInv, HoldsBackedUpToRescues
<1> QED
  BY <1>1, <1>3, <1>5 DEF LedgerInv

-----------------------------------------------------------------------------
(* The other steps that move tokens                                        *)

(* A step that leaves the holds alone keeps the ledger in order if it      *)
(* keeps the types and takes no more from the treasury than it records as  *)
(* rescued.                                                                *)
LEMMA TreasurySuffices ==
  ASSUME LedgerInv, UNCHANGED holdVars, now' \in 0..MaxTime,
         TokenTypeOK', rescued' \in Nat,
         \/ balance'[Contract] + rescued' >= balance[Contract] + rescued
         \/ balance'[Contract] >= totalHeld
  PROVE  LedgerInv'
<1>1. HoldTypeOK' /\ HoldRegistryConsistent'
  BY DEF LedgerInv, HoldTypeOK, HoldRegistryConsistent, holdVars
<1>2. /\ balance[Contract] \in Nat /\ balance'[Contract] \in Nat
      /\ totalHeld \in Int /\ rescued \in Nat
  BY DEF LedgerInv, TokenTypeOK, HoldTypeOK, Holder
<1>3. totalHeld' = totalHeld
  BY DEF holdVars
<1>4. HoldsBackedUpToRescues'
  BY <1>2, <1>3 DEF LedgerInv, HoldsBackedUpToRescues
<1> QED
  BY <1>1, <1>4 DEF LedgerInv

(* Cash-in: the treasury is where it was, or richer when it is the target. *)
LEMMA MintSafe ==
  ASSUME LedgerInv, NEW caller \in Account, NEW account \in Holder,
         NEW amount \in Int, Mint(caller, account, amount)
  PROVE  LedgerInv'
<1> DEFINE minted == Credit(balance, Contract, amount)
<1>1. /\ amount > 0 /\ totalSupply' = totalSupply + amount
      /\ UNCHANGED <<statusVars, holdVars, now, rescued>>
      /\ \/ account = Contract /\ balance' = minted
         \/ /\ account # Contract
            /\ CanTransfer(minted, Contract, account, amount)
            /\ balance' = Moved(minted, Contract, account, amount)
  BY DEF Mint
<1>2. /\ balance \in [Holder -> Nat] /\ Contract \in Holder
      /\ totalSupply \in Nat /\ now \in 0..MaxTime /\ rescued \in Nat
  BY DEF LedgerInv, TokenTypeOK, HoldTypeOK, Holder
<1>3. minted \in [Holder -> Nat] /\ minted[Contract] = balance[Contract] + amount
  BY <1>1, <1>2, CreditIs
<1> HIDE DEF minted
<1>4. balance' \in [Holder -> Nat] /\ balance'[Contract] >= balance[Contract]
  <2>1. CASE account = Contract /\ balance' = minted
    BY <1>1, <1>2, <1>3, <2>1
  <2>2. CASE /\ account # Contract
             /\ CanTransfer(minted, Contract, account, amount)
             /\ balance' = Moved(minted, Contract, account, amount)
    <3>1. 0 <= amount /\ amount <= minted[Contract]
      BY <2>2 DEF CanTransfer
    <3>2. /\ balance' \in [Holder -> Nat]
          /\ balance'[Contract] = minted[Contract] - amount
      BY <1>2, <1>3, <2>2, <3>1, MovedIs
    <3> QED
      BY <1>2, <1>3, <3>2
  <2> QED
    BY <1>1, <2>1, <2>2
<1>5. TokenTypeOK'
  <2>1. totalSupply' \in Nat
    BY <1>1, <1>2
  <2> QED
    BY <1>1, <1>4, <2>1 DEF LedgerInv, TokenTypeOK, statusVars
<1> QED
  BY <1>1, <1>2, <1>4, <1>5, TreasurySuffices

(* Burning stops at what the treasury has beyond the holds.                *)
LEMMA BurnSafe ==
  ASSUME LedgerInv, NEW caller \in Account, NEW amount \in Int, Burn(caller, amount)
  PROVE  LedgerInv'
<1>1. /\ amount > 0 /\ amount <= balance[Contract] - totalHeld
      /\ amount <= balance[Contract] /\ amount <= totalSupply
      /\ balance' = Debit(balance, Contract, amount)
      /\ totalSupply' = totalSupply - amount
      /\ UNCHANGED <<statusVars, holdVars, now, rescued>>
  BY DEF Burn, BurnableAmount, CanBurn
<1>2. /\ balance \in [Holder -> Nat] /\ Contract \in Holder /\ totalHeld \in Int
      /\ totalSupply \in Nat /\ now \in 0..MaxTime /\ rescued \in Nat
  BY DEF LedgerInv, TokenTypeOK, HoldTypeOK, Holder
<1>3. /\ balance' \in [Holder -> Nat]
      /\ balance'[Contract] = balance[Contract] - amount
  BY <1>1, <1>2, DebitIs
<1>4. balance'[Contract] >= totalHeld
  BY <1>1, <1>2, <1>3
<1>5. TokenTypeOK'
  <2>1. totalSupply' \in Nat
    BY <1>1, <1>2
  <2> QED
    BY <1>1, <1>3, <2>1 DEF LedgerInv, TokenTypeOK, statusVars
<1> QED
  BY <1>1, <1>2, <1>4, <1>5, TreasurySuffices

(* A wipe never touches the treasury.                                      *)
LEMMA WipeSafe ==
  ASSUME LedgerInv, NEW caller \in Account, NEW account \in Account,
         NEW amount \in Int, Wipe(caller, account, amount)
  PROVE  LedgerInv'
<1>1. /\ amount > 0 /\ amount <= balance[account] /\ amount <= totalSupply
      /\ balance' = Debit(balance, account, amount)
      /\ totalSupply' = totalSupply - amount
      /\ UNCHANGED <<statusVars, holdVars, now, rescued>>
  BY DEF Wipe, CanWipe
<1>2. /\ balance \in [Holder -> Nat] /\ Contract \in Holder
      /\ account \in Holder /\ account # Contract
      /\ totalSupply \in Nat /\ now \in 0..MaxTime /\ rescued \in Nat
  BY TokenAssumption DEF LedgerInv, TokenTypeOK, HoldTypeOK, Holder
<1>3. /\ balance' \in [Holder -> Nat]
      /\ balance'[Contract] = balance[Contract]
  BY <1>1, <1>2, DebitIs
<1>4. TokenTypeOK'
  <2>1. totalSupply' \in Nat
    BY <1>1, <1>2
  <2> QED
    BY <1>1, <1>3, <2>1 DEF LedgerInv, TokenTypeOK, statusVars
<1>5. balance'[Contract] + rescued' >= balance[Contract] + rescued
  BY <1>1, <1>2, <1>3
<1> QED
  BY <1>1, <1>2, <1>4, <1>5, TreasurySuffices

(* A rescue takes from the treasury what it adds to `rescued'.             *)
LEMMA RescueSafe ==
  ASSUME LedgerInv, NEW caller \in Account, NEW amount \in Int, Rescue(caller, amount)
  PROVE  LedgerInv'
<1>1. /\ amount > 0 /\ amount <= balance[Contract]
      /\ balance' = Moved(balance, Contract, caller, amount)
      /\ rescued' = rescued + amount
      /\ UNCHANGED <<totalSupply, statusVars, holdVars, now>>
  BY DEF Rescue
<1>2. /\ balance \in [Holder -> Nat] /\ Contract \in Holder
      /\ caller \in Holder /\ caller # Contract
      /\ now \in 0..MaxTime /\ rescued \in Nat
  BY TokenAssumption DEF LedgerInv, TokenTypeOK, HoldTypeOK, Holder
<1>3. /\ balance' \in [Holder -> Nat]
      /\ balance'[Contract] = balance[Contract] - amount
  BY <1>1, <1>2, MovedIs
<1>4. TokenTypeOK'
  BY <1>1, <1>3 DEF LedgerInv, TokenTypeOK, statusVars
<1>5. /\ rescued' \in Nat
      /\ balance'[Contract] + rescued' >= balance[Contract] + rescued
  BY <1>1, <1>2, <1>3
<1> QED
  BY <1>1, <1>2, <1>4, <1>5, TreasurySuffices

(* A holder can only give to the treasury.                                 *)
LEMMA UserTransferSafe ==
  ASSUME LedgerInv, NEW from \in Account, NEW to \in Holder, NEW amount \in Int,
         UserTransfer(from, to, amount), UNCHANGED <<holdVars, now, rescued>>
  PROVE  LedgerInv'
<1>1. /\ amount > 0 /\ amount <= balance[from] /\ from # to
      /\ balance' = Moved(balance, from, to, amount)
      /\ UNCHANGED <<totalSupply, statusVars>>
  BY DEF UserTransfer, CanTransfer
<1>2. /\ balance \in [Holder -> Nat] /\ Contract \in Holder
      /\ from \in Holder /\ from # Contract
      /\ now \in 0..MaxTime /\ rescued \in Nat
  BY TokenAssumption DEF LedgerInv, TokenTypeOK, HoldTypeOK, Holder
<1>3. /\ balance' \in [Holder -> Nat]
      /\ balance'[to] = balance[to] + amount
      /\ \A other \in Holder \ {from, to} : balance'[other] = balance[other]
  BY <1>1, <1>2, MovedIs
<1>4. balance'[Contract] >= balance[Contract]
  BY <1>1, <1>2, <1>3
<1>5. TokenTypeOK'
  BY <1>1, <1>3 DEF LedgerInv, TokenTypeOK, statusVars
<1>6. balance'[Contract] \in Nat /\ balance[Contract] \in Nat
  BY <1>2, <1>3
<1> QED
  BY <1>2, <1>4, <1>5, <1>6, TreasurySuffices

-----------------------------------------------------------------------------
(* Roles and allowances                                                    *)

(* The role calls keep the registry a set of accounts for each role.       *)
LEMMA RolesType ==
  ASSUME RolesTypeOK, NEW R \in SUBSET Role, NEW A \in SUBSET Account
  PROVE  /\ Granted(R, A) \in [Role -> SUBSET Account]
         /\ Revoked(R, A) \in [Role -> SUBSET Account]
  BY DEF RolesTypeOK, Granted, Revoked

(* A call that writes the allowance of one supplier, to no more than it is *)
(* entitled to and to nothing if it is unlimited, keeps them in order.     *)
LEMMA OneAllowance ==
  ASSUME AccessInv, NEW supplier \in Account, NEW amount \in Nat,
         SetAllowance(supplier, amount),
         hasRole' \in [Role -> SUBSET Account],
         unlimited' \subseteq unlimited \cup {supplier},
         entitled' \in [Account -> Nat],
         supplier \in unlimited' => amount = 0,
         amount <= entitled'[supplier],
         \A a \in Account \ {supplier} : entitled'[a] = entitled[a]
  PROVE  AccessInv'
<1>1. /\ allowance' \in [Account -> Nat] /\ allowance'[supplier] = amount
      /\ \A a \in Account \ {supplier} : allowance'[a] = allowance[a]
  BY DEF SetAllowance, AccessInv, SupplierTypeOK
<1>2. SupplierTypeOK'
  BY <1>1 DEF AccessInv, SupplierTypeOK, RolesTypeOK
<1>3. UnlimitedHasNoAllowance'
  BY <1>1 DEF AccessInv, UnlimitedHasNoAllowance, SupplierTypeOK
<1>4. AllowanceWithinEntitlement'
  BY <1>1 DEF AccessInv, AllowanceWithinEntitlement
<1> QED
  BY <1>2, <1>3, <1>4 DEF AccessInv

(* What Entitle does.                                                      *)
LEMMA EntitleIs ==
  ASSUME AccessInv, NEW supplier \in Account, NEW amount \in Nat,
         Entitle(supplier, amount)
  PROVE  /\ entitled' \in [Account -> Nat]
         /\ entitled'[supplier] = entitled[supplier] + amount
         /\ \A a \in Account \ {supplier} : entitled'[a] = entitled[a]
  BY DEF Entitle, AccessInv, SupplierTypeOK

(* The calls for one supplier (SupplierAdminFacet).                        *)
LEMMA SupplierCallSafe ==
  ASSUME AccessInv, NEW caller \in Account, NEW supplier \in Account,
         NEW amount \in Nat,
         \/ GrantSupplierRole(caller, supplier, amount)
         \/ GrantUnlimitedSupplierRole(caller, supplier)
         \/ RevokeSupplierRole(caller, supplier)
         \/ ResetSupplierAllowance(caller, supplier)
         \/ IncreaseSupplierAllowance(caller, supplier, amount)
         \/ DecreaseSupplierAllowance(caller, supplier, amount)
  PROVE  AccessInv'
<1>1. /\ RolesTypeOK /\ hasRole \in [Role -> SUBSET Account]
      /\ entitled \in [Account -> Nat] /\ allowance \in [Account -> Nat]
      /\ unlimited \subseteq Account /\ 0 \in Nat
      /\ allowance[supplier] <= entitled[supplier]
      /\ 0 <= entitled[supplier]
  BY DEF AccessInv, SupplierTypeOK, RolesTypeOK, AllowanceWithinEntitlement
<1>2. /\ Granted({CASHIN_ROLE}, {supplier}) \in [Role -> SUBSET Account]
      /\ Revoked({CASHIN_ROLE}, {supplier}) \in [Role -> SUBSET Account]
  BY <1>1, RolesType, SupplierAssumption
<1>3. CASE GrantSupplierRole(caller, supplier, amount)
  <2>1. /\ SetAllowance(supplier, amount) /\ Entitle(supplier, amount)
        /\ hasRole' = Granted({CASHIN_ROLE}, {supplier})
        /\ UNCHANGED unlimited /\ supplier \notin unlimited
    BY <1>3 DEF GrantSupplierRole, Grant
  <2>2. /\ entitled' \in [Account -> Nat]
        /\ entitled'[supplier] = entitled[supplier] + amount
        /\ \A a \in Account \ {supplier} : entitled'[a] = entitled[a]
    BY <2>1, EntitleIs
  <2>3. amount <= entitled'[supplier]
    BY <1>1, <2>2
  <2> QED
    BY <1>2, <2>1, <2>2, <2>3, OneAllowance
<1>4. CASE GrantUnlimitedSupplierRole(caller, supplier)
  <2>1. /\ SetAllowance(supplier, 0) /\ UNCHANGED entitled
        /\ hasRole' = Granted({CASHIN_ROLE}, {supplier})
        /\ unlimited' = unlimited \cup {supplier}
    BY <1>4 DEF GrantUnlimitedSupplierRole, Grant
  <2> QED
    BY <1>1, <1>2, <2>1, OneAllowance
<1>5. CASE RevokeSupplierRole(caller, supplier)
  <2>1. /\ SetAllowance(supplier, 0) /\ UNCHANGED entitled
        /\ hasRole' = Revoked({CASHIN_ROLE}, {supplier})
        /\ unlimited' = unlimited \ {supplier}
    BY <1>5 DEF RevokeSupplierRole, RevokeRoles
  <2> QED
    BY <1>1, <1>2, <2>1, OneAllowance
<1>6. CASE ResetSupplierAllowance(caller, supplier)
  <2>1. /\ SetAllowance(supplier, 0) /\ UNCHANGED <<hasRole, unlimited, entitled>>
    BY <1>6 DEF ResetSupplierAllowance
  <2> QED
    BY <1>1, <2>1, OneAllowance
<1>7. CASE IncreaseSupplierAllowance(caller, supplier, amount)
  <2>1. /\ SetAllowance(supplier, allowance[supplier] + amount)
        /\ Entitle(supplier, amount)
        /\ UNCHANGED <<hasRole, unlimited>> /\ supplier \notin unlimited
    BY <1>7 DEF IncreaseSupplierAllowance
  <2>2. /\ entitled' \in [Account -> Nat]
        /\ entitled'[supplier] = entitled[supplier] + amount
        /\ \A a \in Account \ {supplier} : entitled'[a] = entitled[a]
    BY <2>1, EntitleIs
  <2>3. /\ allowance[supplier] + amount \in Nat
        /\ allowance[supplier] + amount <= entitled'[supplier]
    BY <1>1, <2>2
  <2> QED
    BY <1>1, <2>1, <2>2, <2>3, OneAllowance
<1>8. CASE DecreaseSupplierAllowance(caller, supplier, amount)
  <2>1. /\ SetAllowance(supplier, allowance[supplier] - amount)
        /\ amount <= allowance[supplier]
        /\ UNCHANGED <<hasRole, unlimited, entitled>> /\ supplier \notin unlimited
    BY <1>8 DEF DecreaseSupplierAllowance
  <2>2. /\ allowance[supplier] - amount \in Nat
        /\ allowance[supplier] - amount <= entitled'[supplier]
    BY <1>1, <2>1
  <2> QED
    BY <1>1, <2>1, <2>2, OneAllowance
<1> QED
  BY <1>3, <1>4, <1>5, <1>6, <1>7, <1>8

(* The calls for several roles and accounts (RoleManagementFacet).         *)
LEMMA RoleBatchSafe ==
  ASSUME AccessInv, NEW caller \in Account,
         NEW R \in SUBSET Role, NEW A \in SUBSET Account,
         \/ \E amounts \in [A -> Allowances \cup {Unlimited}] :
              GrantRolesWithAmounts(caller, R, A, amounts)
         \/ RevokeRolesAndAllowances(caller, R, A)
  PROVE  AccessInv'
<1>1. /\ RolesTypeOK /\ entitled \in [Account -> Nat]
      /\ allowance \in [Account -> Nat] /\ unlimited \subseteq Account
  BY DEF AccessInv, SupplierTypeOK
<1>2. /\ Granted(R, A) \in [Role -> SUBSET Account]
      /\ Revoked(R, A) \in [Role -> SUBSET Account]
  BY <1>1, RolesType
<1>3. ASSUME NEW amounts \in [A -> Allowances \cup {Unlimited}],
             GrantRolesWithAmounts(caller, R, A, amounts)
      PROVE  AccessInv'
  <2>1. hasRole' \in [Role -> SUBSET Account]
    BY <1>2, <1>3 DEF GrantRolesWithAmounts, GrantRoles
  <2>2. CASE CASHIN_ROLE \notin R
    <3>1. UNCHANGED <<allowance, unlimited, entitled>>
      BY <1>3, <2>2 DEF GrantRolesWithAmounts, supplierVars
    <3> QED
      BY <2>1, <3>1 DEF AccessInv, SupplierTypeOK, RolesTypeOK,
                        UnlimitedHasNoAllowance, AllowanceWithinEntitlement
  <2>3. CASE CASHIN_ROLE \in R
    <3> DEFINE limited == {a \in A : amounts[a] # Unlimited}
    <3>1. /\ \A a \in limited : a \notin unlimited
          /\ unlimited' = unlimited \cup (A \ limited)
          /\ allowance' = [a \in Account |->
               IF a \in limited THEN amounts[a]
               ELSE IF a \in A THEN 0 ELSE allowance[a]]
          /\ entitled' = [a \in Account |->
               IF a \in limited THEN entitled[a] + amounts[a] ELSE entitled[a]]
      BY <1>3, <2>3 DEF GrantRolesWithAmounts
    <3>2. limited \subseteq A /\ \A a \in limited : amounts[a] \in Nat
      BY SupplierAssumption
    <3> HIDE DEF limited
    <3>3. /\ allowance' \in [Account -> Nat] /\ entitled' \in [Account -> Nat]
          /\ unlimited' \subseteq Account
      BY <1>1, <3>1, <3>2
    <3>4. UnlimitedHasNoAllowance'
      BY <1>1, <3>1, <3>2 DEF AccessInv, UnlimitedHasNoAllowance
    <3>5. AllowanceWithinEntitlement'
      BY <1>1, <3>1, <3>2 DEF AccessInv, AllowanceWithinEntitlement
    <3> QED
      BY <2>1, <3>3, <3>4, <3>5 DEF AccessInv, SupplierTypeOK, RolesTypeOK
  <2> QED
    BY <2>2, <2>3
<1>4. CASE RevokeRolesAndAllowances(caller, R, A)
  <2>1. /\ hasRole' \in [Role -> SUBSET Account] /\ UNCHANGED entitled
        /\ \/ UNCHANGED <<unlimited, allowance>>
           \/ /\ unlimited' = unlimited \ A
              /\ allowance' = [a \in Account |-> IF a \in A THEN 0 ELSE allowance[a]]
    BY <1>2, <1>4 DEF RevokeRolesAndAllowances, RevokeRoles
  <2>2. /\ allowance' \in [Account -> Nat] /\ unlimited' \subseteq unlimited
        /\ \A a \in Account : allowance'[a] \in {0, allowance[a]}
    BY <1>1, <2>1
  <2> QED
    BY <1>1, <2>1, <2>2 DEF AccessInv, SupplierTypeOK, RolesTypeOK,
                            UnlimitedHasNoAllowance, AllowanceWithinEntitlement
<1> QED
  BY <1>3, <1>4

(* Whatever an administrator does keeps roles and allowances in order.     *)
LEMMA AdministerSafe ==
  ASSUME AccessInv, AdminNext
  PROVE  AccessInv'
<1>1. RoleChanges \subseteq Role \X Account /\ Allowances \subseteq Nat
  BY SupplierAssumption
<1>2. PICK caller \in Account :
        \/ \E pair \in RoleChanges :
             \/ GrantRole(caller, pair[1], pair[2])
             \/ RevokeRole(caller, pair[1], pair[2])
        \/ \E supplier \in Suppliers :
             \/ GrantUnlimitedSupplierRole(caller, supplier)
             \/ RevokeSupplierRole(caller, supplier)
             \/ ResetSupplierAllowance(caller, supplier)
             \/ \E amount \in Allowances :
                  \/ GrantSupplierRole(caller, supplier, amount)
                  \/ IncreaseSupplierAllowance(caller, supplier, amount)
                  \/ DecreaseSupplierAllowance(caller, supplier, amount)
        \/ \E R \in SUBSET {pair[1] : pair \in RoleChanges},
              A \in SUBSET {pair[2] : pair \in RoleChanges} :
             /\ R \X A \subseteq RoleChanges
             /\ \/ \E amounts \in [A -> Allowances \cup {Unlimited}] :
                     GrantRolesWithAmounts(caller, R, A, amounts)
                \/ RevokeRolesAndAllowances(caller, R, A)
  BY DEF AdminNext
<1>3. ASSUME NEW pair \in RoleChanges,
             \/ GrantRole(caller, pair[1], pair[2])
             \/ RevokeRole(caller, pair[1], pair[2])
      PROVE  AccessInv'
  <2>1. pair[1] \in Role /\ pair[2] \in Account
    BY <1>1
  <2>2. /\ Granted({pair[1]}, {pair[2]}) \in [Role -> SUBSET Account]
        /\ Revoked({pair[1]}, {pair[2]}) \in [Role -> SUBSET Account]
    BY <2>1, RolesType DEF AccessInv, SupplierTypeOK
  <2>3. hasRole' \in [Role -> SUBSET Account] /\ UNCHANGED supplierVars
    BY <1>3, <2>2 DEF GrantRole, RevokeRole, Grant, RevokeRoles
  <2> QED
    BY <2>3 DEF AccessInv, SupplierTypeOK, RolesTypeOK, supplierVars,
                UnlimitedHasNoAllowance, AllowanceWithinEntitlement
<1>4. ASSUME NEW supplier \in Suppliers,
             \/ GrantUnlimitedSupplierRole(caller, supplier)
             \/ RevokeSupplierRole(caller, supplier)
             \/ ResetSupplierAllowance(caller, supplier)
             \/ \E amount \in Allowances :
                  \/ GrantSupplierRole(caller, supplier, amount)
                  \/ IncreaseSupplierAllowance(caller, supplier, amount)
                  \/ DecreaseSupplierAllowance(caller, supplier, amount)
      PROVE  AccessInv'
  <2>1. supplier \in Account
    BY DEF Suppliers
  <2>2. 0 \in Nat
    OBVIOUS
  <2> QED
    BY <1>1, <1>4, <2>1, <2>2, SupplierCallSafe
<1>5. ASSUME NEW R \in SUBSET {pair[1] : pair \in RoleChanges},
             NEW A \in SUBSET {pair[2] : pair \in RoleChanges},
             \/ \E amounts \in [A -> Allowances \cup {Unlimited}] :
                  GrantRolesWithAmounts(caller, R, A, amounts)
             \/ RevokeRolesAndAllowances(caller, R, A)
      PROVE  AccessInv'
  <2>1. R \in SUBSET Role /\ A \in SUBSET Account
    BY <1>1
  <2> QED
    BY <1>5, <2>1, RoleBatchSafe
<1> QED
  BY <1>2, <1>3, <1>4, <1>5

(* A cash-in lowers an allowance and what its supplier is entitled to by   *)
(* the same amount.                                                        *)
LEMMA SpendSafe ==
  ASSUME AccessInv, NEW supplier \in Account, NEW amount \in Int, amount > 0,
         SpendAllowance(supplier, amount), UNCHANGED <<hasRole, unlimited>>
  PROVE  AccessInv'
<1>1. CASE UNCHANGED <<allowance, entitled>>
  BY <1>1 DEF AccessInv, SupplierTypeOK, RolesTypeOK,
              UnlimitedHasNoAllowance, AllowanceWithinEntitlement
<1>2. CASE /\ supplier \notin unlimited
           /\ amount <= allowance[supplier]
           /\ allowance' = [allowance EXCEPT ![supplier] = @ - amount]
           /\ entitled' = [entitled EXCEPT ![supplier] = @ - amount]
  <2>1. /\ allowance \in [Account -> Nat] /\ entitled \in [Account -> Nat]
        /\ allowance[supplier] <= entitled[supplier]
    BY DEF AccessInv, SupplierTypeOK, AllowanceWithinEntitlement
  <2>2. allowance[supplier] - amount \in Nat /\ entitled[supplier] - amount \in Nat
    BY <1>2, <2>1
  <2>3. SupplierTypeOK'
    BY <1>2, <2>1, <2>2 DEF AccessInv, SupplierTypeOK, RolesTypeOK
  <2>4. UnlimitedHasNoAllowance'
    BY <1>2, <2>1 DEF AccessInv, SupplierTypeOK, UnlimitedHasNoAllowance
  <2>5. AllowanceWithinEntitlement'
    BY <1>2, <2>1, <2>2 DEF AccessInv, AllowanceWithinEntitlement
  <2> QED
    BY <2>3, <2>4, <2>5 DEF AccessInv
<1> QED
  BY <1>1, <1>2 DEF SpendAllowance

-----------------------------------------------------------------------------
(* The invariant                                                           *)

(* The status calls move nothing.                                          *)
LEMMA StatusSafe ==
  ASSUME Inv, NEW f \in SUBSET Account, NEW k \in SUBSET Holder,
         NEW p \in BOOLEAN, NEW d \in BOOLEAN, SetStatus(f, k, p, d)
  PROVE  Inv'
<1>1. /\ frozen' = f /\ kyc' = k /\ paused' = p /\ deleted' = d
      /\ UNCHANGED <<accessVars, balance, totalSupply, holdVars, reserveVars, now, rescued>>
  BY DEF SetStatus
<1>2. AccessInv'
  BY <1>1 DEF Inv, AccessInv, SupplierTypeOK, RolesTypeOK, accessVars,
              UnlimitedHasNoAllowance, AllowanceWithinEntitlement
<1>3. TokenTypeOK'
  BY <1>1 DEF Inv, LedgerInv, TokenTypeOK
<1>4. HoldTypeOK' /\ HoldRegistryConsistent' /\ HoldsBackedUpToRescues' /\ rescued' \in Nat
  BY <1>1 DEF Inv, LedgerInv, HoldTypeOK, HoldRegistryConsistent, holdVars,
              HoldsBackedUpToRescues
<1>5. ReserveTypeOK'
  BY <1>1 DEF Inv, ReserveTypeOK, reserveVars
<1> QED
  BY <1>2, <1>3, <1>4, <1>5 DEF Inv, LedgerInv

(* Nor does it matter which call it is.                                    *)
LEMMA StatusCallSafe ==
  ASSUME Inv, NEW caller \in Account, NEW account \in Account,
         \/ Freeze(caller, account)
         \/ Unfreeze(caller, account)
         \/ GrantKyc(caller, account)
         \/ RevokeKyc(caller, account)
         \/ Pause(caller)
         \/ Unpause(caller)
         \/ DeleteToken(caller)
  PROVE  Inv'
<1>1. /\ frozen \subseteq Account /\ kyc \subseteq Holder
      /\ paused \in BOOLEAN /\ deleted \in BOOLEAN /\ account \in Holder
  BY DEF Inv, LedgerInv, TokenTypeOK, Holder
<1>2. \E f \in SUBSET Account, k \in SUBSET Holder, p, d \in BOOLEAN : SetStatus(f, k, p, d)
  <2>1. CASE Freeze(caller, account)
    BY <1>1, <2>1 DEF Freeze
  <2>2. CASE Unfreeze(caller, account)
    BY <1>1, <2>2 DEF Unfreeze
  <2>3. CASE GrantKyc(caller, account)
    BY <1>1, <2>3 DEF GrantKyc
  <2>4. CASE RevokeKyc(caller, account)
    BY <1>1, <2>4 DEF RevokeKyc
  <2>5. CASE Pause(caller)
    BY <1>1, <2>5 DEF Pause
  <2>6. CASE Unpause(caller)
    BY <1>1, <2>6 DEF Unpause
  <2>7. CASE DeleteToken(caller)
    BY <1>1, <2>7 DEF DeleteToken
  <2> QED
    BY <2>1, <2>2, <2>3, <2>4, <2>5, <2>6, <2>7
<1> QED
  BY <1>2, StatusSafe

(* The three parts of the invariant only read their own variables.         *)
LEMMA Frames ==
  ASSUME Inv
  PROVE  /\ UNCHANGED accessVars => AccessInv'
         /\ UNCHANGED <<tokenVars, holdVars, now, rescued>> => LedgerInv'
         /\ UNCHANGED reserveVars => ReserveTypeOK'
<1>1. ASSUME UNCHANGED accessVars PROVE AccessInv'
  BY <1>1 DEF Inv, AccessInv, SupplierTypeOK, RolesTypeOK, accessVars,
              UnlimitedHasNoAllowance, AllowanceWithinEntitlement
<1>2. ASSUME UNCHANGED <<tokenVars, holdVars, now, rescued>> PROVE LedgerInv'
  BY <1>2 DEF Inv, LedgerInv, TokenTypeOK, tokenVars, HoldTypeOK,
              HoldRegistryConsistent, holdVars, HoldsBackedUpToRescues
<1>3. ASSUME UNCHANGED reserveVars PROVE ReserveTypeOK'
  BY <1>3 DEF Inv, ReserveTypeOK, reserveVars
<1> QED
  BY <1>1, <1>2, <1>3

(* A fresh deployment is in order.                                         *)
LEMMA InitSafe == Init => Inv
<1> SUFFICES ASSUME Init PROVE Inv
  OBVIOUS
<1>1. /\ hasRole = InitialRoles
      /\ SupplierInit(CashinAccounts, CashinAllowance)
      /\ TokenInit(InitialSupply) /\ HoldInit /\ ReserveInit /\ rescued = 0
  BY DEF Init
<1>2. /\ InitialRoles \in [Role -> SUBSET Account] /\ CashinAccounts \subseteq Account
      /\ CashinAllowance \in (Nat \ {0}) \cup {Unlimited} /\ InitialSupply \in Nat
  BY StableCoinAssumption, SupplierAssumption
<1>3. AccessInv
  <2>1. /\ allowance = [a \in Account |->
             IF a \in CashinAccounts /\ CashinAllowance # Unlimited
               THEN CashinAllowance ELSE 0]
        /\ unlimited = IF CashinAllowance = Unlimited THEN CashinAccounts ELSE {}
        /\ entitled = allowance
    BY <1>1 DEF SupplierInit
  <2>2. allowance \in [Account -> Nat] /\ \A a \in unlimited : allowance[a] = 0
    <3>1. CASE CashinAllowance = Unlimited
      BY <1>2, <2>1, <3>1
    <3>2. CASE CashinAllowance \in Nat /\ CashinAllowance # Unlimited
      BY <2>1, <3>2
    <3> QED
      BY <1>2, <3>1, <3>2, SupplierAssumption
  <2>3. SupplierTypeOK
    <3>1. unlimited \subseteq Account
      BY <1>2, <2>1
    <3> QED
      BY <1>1, <1>2, <2>1, <2>2, <3>1 DEF SupplierTypeOK, RolesTypeOK
  <2>4. \A a \in Account : allowance[a] <= entitled[a]
    <3>1. ASSUME NEW a \in Account PROVE allowance[a] <= entitled[a]
      <4>1. allowance[a] \in Nat
        BY <2>2
      <4>2. entitled[a] = allowance[a]
        BY <2>1
      <4> QED
        BY <4>1, <4>2
    <3> QED
      BY <3>1
  <2> QED
    BY <2>2, <2>3, <2>4 DEF AccessInv, UnlimitedHasNoAllowance, AllowanceWithinEntitlement
<1>4. TokenTypeOK /\ balance[Contract] = InitialSupply
  <2>1. /\ balance = [h \in Holder |-> IF h = Contract THEN InitialSupply ELSE 0]
        /\ totalSupply = InitialSupply /\ frozen = {} /\ kyc = {Contract}
        /\ paused = FALSE /\ deleted = FALSE
    BY <1>1 DEF TokenInit
  <2>2. Contract \in Holder
    BY DEF Holder
  <2>3. balance \in [Holder -> Nat] /\ balance[Contract] = InitialSupply
    BY <1>2, <2>1, <2>2
  <2>4. frozen \subseteq Account /\ kyc \subseteq Holder
        /\ paused \in BOOLEAN /\ deleted \in BOOLEAN
    BY <2>1, <2>2
  <2> QED
    BY <1>2, <2>1, <2>3, <2>4 DEF TokenTypeOK
<1>5. HoldTypeOK
  BY <1>1, HoldAssumption DEF HoldInit, HoldTypeOK, HoldId
<1>6. HoldRegistryConsistent
  BY <1>1 DEF HoldInit, HoldRegistryConsistent
<1>7. HoldsBackedUpToRescues
  BY <1>1, <1>2, <1>4 DEF HoldInit, HoldsBackedUpToRescues
<1>8. ReserveTypeOK
  <2>1. Answers \subseteq Int /\ {0} \subseteq Nat
    BY ReserveAssumption
  <2>2. ASSUME NEW round \in [answer : Answers, updatedAt : {0}]
        PROVE  round \in [answer : Int, updatedAt : Nat]
    BY <2>1, <2>2
  <2>3. feed \in [Feed -> [answer : Int, updatedAt : Nat]]
    BY <1>1, <2>2 DEF ReserveInit
  <2> QED
    BY <1>1, <2>3 DEF ReserveInit, ReserveTypeOK
<1> QED
  BY <1>1, <1>3, <1>4, <1>5, <1>6, <1>7, <1>8 DEF Inv, LedgerInv

(* Every step keeps the stablecoin in order.                               *)
LEMMA StepSafe == Inv /\ [Next]_vars => Inv'
<1> SUFFICES ASSUME Inv, [Next]_vars PROVE Inv'
  OBVIOUS
<1>1. AccessInv /\ LedgerInv /\ ReserveTypeOK /\ Amounts \subseteq Int
  BY HoldAssumption DEF Inv
<1>2. CASE Administer
  <2>1. AdminNext /\ UNCHANGED <<tokenVars, holdVars, reserveVars, now, rescued>>
    BY <1>2 DEF Administer
  <2> QED
    BY <1>1, <2>1, AdministerSafe, Frames DEF Inv
<1>3. CASE ReserveNext
  <2>1. UNCHANGED <<accessVars, tokenVars, holdVars, now, rescued>>
    BY <1>3 DEF ReserveNext
  <2>2. now \in Nat
    BY <1>1, HoldAssumption DEF LedgerInv, HoldTypeOK
  <2>3. ReserveTypeOK'
    BY <1>1, <1>3, <2>2, ReserveAssumption
      DEF ReserveNext, ReserveTypeOK, UpdateReserveAddress,
          UpdateUpdatedAtThreshold, FeedUpdates
  <2> QED
    BY <2>1, <2>3, Frames DEF Inv
<1>4. CASE Environment
  <2>1. UNCHANGED <<accessVars, reserveVars>>
    BY <1>4 DEF Environment
  <2>2. CASE \E from \in Account, to \in Holder, amount \in Amounts :
               /\ UserTransfer(from, to, amount)
               /\ UNCHANGED <<holdVars, now, rescued>>
    BY <1>1, <2>1, <2>2, UserTransferSafe, Frames DEF Inv
  <2>3. CASE Tick /\ UNCHANGED <<tokenVars, holdVars, rescued>>
    <3>1. now' \in 0..MaxTime
      BY <1>1, <2>3, HoldAssumption DEF Tick, LedgerInv, HoldTypeOK
    <3>2. TokenTypeOK' /\ rescued' \in Nat
      BY <1>1, <2>3 DEF LedgerInv, TokenTypeOK, tokenVars
    <3>3. HoldTypeOK' /\ HoldRegistryConsistent' /\ HoldsBackedUpToRescues'
      BY <1>1, <2>3, <3>1 DEF LedgerInv, HoldTypeOK, HoldRegistryConsistent,
                              HoldsBackedUpToRescues, holdVars, tokenVars
    <3> QED
      BY <2>1, <3>2, <3>3, Frames DEF Inv, LedgerInv
  <2> QED
    BY <1>4, <2>2, <2>3 DEF Environment
<1>5. CASE Settle
  <2>1. UNCHANGED <<accessVars, reserveVars>>
    BY <1>5 DEF Settle
  <2> QED
    BY <1>1, <1>5, <2>1, SettleSafe, Frames DEF Inv
<1>6. ASSUME NEW caller \in Account, NEW account \in Holder, NEW amount \in Amounts,
             Mint(caller, account, amount)
      PROVE  Inv'
  <2>1. amount \in Int /\ amount > 0 /\ SpendAllowance(caller, amount)
        /\ UNCHANGED <<hasRole, unlimited, reserveVars>>
    BY <1>1, <1>6 DEF Mint
  <2>2. AccessInv'
    BY <1>1, <2>1, SpendSafe
  <2>3. LedgerInv'
    BY <1>1, <1>6, <2>1, MintSafe
  <2> QED
    BY <2>1, <2>2, <2>3, Frames DEF Inv
<1>7. ASSUME NEW caller \in Account, NEW account \in Account, NEW amount \in Amounts,
             \/ Wipe(caller, account, amount)
             \/ Burn(caller, amount)
             \/ Rescue(caller, amount)
      PROVE  Inv'
  <2>1. UNCHANGED <<accessVars, reserveVars>>
    BY <1>7 DEF Wipe, Burn, Rescue
  <2>2. LedgerInv'
    BY <1>1, <1>7, WipeSafe, BurnSafe, RescueSafe
  <2> QED
    BY <2>1, <2>2, Frames DEF Inv
<1>8. ASSUME NEW caller \in Account, NEW from \in Account, NEW hold \in NewHolds,
             \/ CreateHold(caller, hold)
             \/ CreateHoldByController(caller, from, hold)
      PROVE  Inv'
  <2>1. UNCHANGED <<accessVars, reserveVars, rescued>> /\ hold \in HoldData
    BY <1>8, HoldAssumption DEF CreateHold, CreateHoldByController
  <2>2. LedgerInv'
    BY <1>1, <1>8, <2>1, CreateHoldSafe DEF CreateHold, CreateHoldByController
  <2> QED
    BY <2>1, <2>2, Frames DEF Inv
<1>9. ASSUME NEW caller \in Account, NEW account \in Account,
             \/ Freeze(caller, account)
             \/ Unfreeze(caller, account)
             \/ GrantKyc(caller, account)
             \/ RevokeKyc(caller, account)
             \/ Pause(caller)
             \/ Unpause(caller)
             \/ DeleteToken(caller)
      PROVE  Inv'
  BY <1>9, StatusCallSafe
<1>10. CASE UNCHANGED vars
  BY <1>10, Frames DEF Inv, vars
<1> QED
  BY <1>2, <1>3, <1>4, <1>5, <1>6, <1>7, <1>8, <1>9, <1>10 DEF Next

(* The invariant holds in every reachable state of every deployment.       *)
THEOREM Invariance == Spec => []Inv
<1> QED
  BY InitSafe, StepSafe, PTL DEF Spec

(* The state of a stablecoin is well typed: no balance, supply, allowance  *)
(* or clock leaves its range (checked arithmetic of the facets).           *)
THEOREM TypeCorrect == Spec => []TypeOK
<1>1. Inv => TypeOK
  BY DEF Inv, AccessInv, LedgerInv, TypeOK
<1> QED
  BY Invariance, <1>1, PTL

(* The records of holds agree: ids, data and the next id (_registerHold,   *)
(* _decreaseHoldAmount).                                                   *)
THEOREM RecordsCorrect == Spec => []HoldRegistryConsistent
<1>1. Inv => HoldRegistryConsistent
  BY DEF Inv, LedgerInv
<1> QED
  BY Invariance, <1>1, PTL

(* What is held is in the treasury but for what was rescued from it        *)
(* (getBurnableAmount, rescue).                                            *)
THEOREM BackingCorrect == Spec => []HoldsBackedUpToRescues
<1>1. Inv => HoldsBackedUpToRescues
  BY DEF Inv, LedgerInv
<1> QED
  BY Invariance, <1>1, PTL

(* An unlimited supplier has no allowance left over, whichever of the      *)
(* three facets changed its role (_grantUnlimitedSupplierRole).            *)
THEOREM UnlimitedCorrect == Spec => []UnlimitedHasNoAllowance
<1>1. Inv => UnlimitedHasNoAllowance
  BY DEF Inv, AccessInv
<1> QED
  BY Invariance, <1>1, PTL

(* No supplier may cash in more than it was granted and has not cashed in  *)
(* yet (_decreaseSupplierAllowance).                                       *)
THEOREM AllowanceCorrect == Spec => []AllowanceWithinEntitlement
<1>1. Inv => AllowanceWithinEntitlement
  BY DEF Inv, AccessInv
<1> QED
  BY Invariance, <1>1, PTL
-----------------------------------------------------------------------------
(* What a step may do                                                      *)

(* Only the creation and the settlement of a hold touch the records of     *)
(* holds, and balances only move while the token is usable.                *)
LEMMA StepKinds ==
  ASSUME [Next]_vars
  PROVE  \/ /\ UNCHANGED holdVars
            /\ Usable \/ UNCHANGED <<balance, totalSupply>>
         \/ \E holder \in Account, hold \in HoldData : CreateHoldInternal(holder, hold)
         \/ SettleHold
<1>1. CASE Administer
  BY <1>1 DEF Administer, tokenVars
<1>2. CASE ReserveNext
  BY <1>2 DEF ReserveNext, tokenVars
<1>3. CASE Environment
  <2>1. CASE Tick /\ UNCHANGED <<tokenVars, holdVars>>
    BY <2>1 DEF tokenVars
  <2>2. CASE /\ \E from \in Account, to \in Holder, amount \in Amounts :
                  UserTransfer(from, to, amount)
             /\ UNCHANGED holdVars
    BY <2>2 DEF UserTransfer, CanTransfer
  <2> QED
    BY <1>3, <2>1, <2>2 DEF Environment
<1>4. CASE Settle
  BY <1>4 DEF Settle
<1>5. ASSUME NEW caller \in Account, NEW account \in Holder, NEW amount \in Amounts,
             \/ Mint(caller, account, amount)
             \/ Wipe(caller, account, amount)
             \/ Burn(caller, amount)
             \/ Rescue(caller, amount)
      PROVE  UNCHANGED holdVars /\ Usable
  BY <1>5 DEF Mint, Wipe, Burn, Rescue, CanMint, CanWipe, CanBurn, CanTransfer
<1>6. ASSUME NEW caller \in Account, NEW from \in Account, NEW hold \in NewHolds,
             \/ CreateHold(caller, hold)
             \/ CreateHoldByController(caller, from, hold)
      PROVE  \E holder \in Account, h \in HoldData : CreateHoldInternal(holder, h)
  BY <1>6, HoldAssumption DEF CreateHold, CreateHoldByController
<1>7. ASSUME NEW caller \in Account, NEW account \in Account,
             \/ Freeze(caller, account)
             \/ Unfreeze(caller, account)
             \/ GrantKyc(caller, account)
             \/ RevokeKyc(caller, account)
             \/ Pause(caller)
             \/ Unpause(caller)
             \/ DeleteToken(caller)
      PROVE  UNCHANGED <<holdVars, balance, totalSupply>>
  BY <1>7 DEF Freeze, Unfreeze, GrantKyc, RevokeKyc, Pause, Unpause, DeleteToken, SetStatus
<1>8. CASE UNCHANGED vars
  BY <1>8 DEF vars, tokenVars
<1>9. Account \subseteq Holder
  BY DEF Holder
<1> QED
  BY <1>1, <1>2, <1>3, <1>4, <1>5, <1>6, <1>7, <1>8, <1>9 DEF Next

(* What the creation of a hold does to the records.                        *)
LEMMA CreateHoldRegisters ==
  ASSUME LedgerInv, NEW holder \in Account, NEW hold \in HoldData,
         CreateHoldInternal(holder, hold)
  PROVE  /\ \A a \in Account, id \in HoldId :
              /\ holds[a][id] # NoHold => holds'[a][id] = holds[a][id]
              /\ id <= nextHoldId[a] /\ id \notin holdIds[a] => id \notin holdIds'[a]
         /\ heldByAccount'[holder] = heldByAccount[holder] + hold.amount
         /\ \A a \in Account \ {holder} : heldByAccount'[a] = heldByAccount[a]
<1>1. /\ hold.amount > 0 /\ RegisterHold(holder, hold) /\ UNCHANGED now
      /\ HoldTypeOK /\ HoldRegistryConsistent
  BY DEF CreateHoldInternal, LedgerInv
<1>2. \A a \in Account, id \in HoldId : holds[a][id] # NoHold => holds'[a][id] = holds[a][id]
  BY <1>1, RegisterKeepsRecords
<1>3. ASSUME NEW a \in Account, NEW id \in HoldId, id <= nextHoldId[a], id \notin holdIds[a]
      PROVE  id \notin holdIds'[a]
  <2>1. nextHoldId[holder] \in Int /\ id \in Int
    BY <1>1, HoldAssumption DEF HoldTypeOK, HoldId
  <2>2. holdIds' = [holdIds EXCEPT ![holder] = @ \cup {nextHoldId[holder] + 1}]
    BY <1>1 DEF RegisterHold
  <2> QED
    BY <1>1, <1>3, <2>1, <2>2 DEF HoldTypeOK
<1>4. /\ heldByAccount \in [Account -> Int]
      /\ heldByAccount' = [heldByAccount EXCEPT ![holder] = @ + hold.amount]
  BY <1>1 DEF HoldTypeOK, RegisterHold
<1> QED
  BY <1>2, <1>3, <1>4

(* Part or all of a hold is paid out: to its holder or, before it expires, *)
(* to the destination it allows.                                           *)
Settlement(holder, id, to, amount) ==
  /\ Live(holder, id)
  /\ amount <= holds[holder][id].amount
  /\ DecreaseHoldAmount(holder, id, amount)
  /\ PayOut(to, amount)
  /\ to # holder => /\ now < holds[holder][id].expiration
                    /\ holds[holder][id].to \in {NoAddress, to}

(* What any call may do to the holds.                                      *)
HoldsMove ==
  \/ UNCHANGED holdVars
  \/ \E holder \in Account, hold \in HoldData : CreateHoldInternal(holder, hold)
  \/ \E holder \in Account, id \in HoldId, to \in Account, amount \in Int :
       Settlement(holder, id, to, amount)

(* Every step of the system is one of these.                               *)
LEMMA StepMovesHolds ==
  ASSUME LedgerInv, [Next]_vars
  PROVE  HoldsMove
<1>1. SettleHold => \E holder \in Account, id \in HoldId, to \in Account, amount \in Int :
                      Settlement(holder, id, to, amount)
  BY EverySettlementPays DEF Settlement
<1> QED
  BY <1>1, StepKinds DEF HoldsMove

(* The id of a hold that is gone stays unused.                             *)
LEMMA MoveKeepsIds ==
  ASSUME LedgerInv, HoldsMove, NEW a \in Account, NEW id \in HoldId,
         id <= nextHoldId[a], id \notin holdIds[a]
  PROVE  id \notin holdIds'[a]
<1>1. CASE UNCHANGED holdVars
  BY <1>1 DEF holdVars
<1>2. ASSUME NEW holder \in Account, NEW hold \in HoldData, CreateHoldInternal(holder, hold)
      PROVE  id \notin holdIds'[a]
  BY <1>2, CreateHoldRegisters
<1>3. ASSUME NEW holder \in Account, NEW k \in HoldId, NEW to \in Account, NEW amount \in Int,
             Settlement(holder, k, to, amount)
      PROVE  id \notin holdIds'[a]
  <2>1. \A b \in Account : holdIds'[b] \subseteq holdIds[b]
    BY <1>3, DecreaseKeepsRecords DEF LedgerInv, Settlement, PayOut
  <2> QED
    BY <2>1
<1> QED
  BY <1>1, <1>2, <1>3 DEF HoldsMove

(* What leaves a hold arrives with one of its parties.                     *)
LEMMA MovePaysParties ==
  ASSUME LedgerInv, HoldsMove, NEW a \in Account, NEW id \in HoldId,
         holds[a][id] # NoHold,
         AmountOf(holds[a][id]) - AmountOf(holds'[a][id]) # 0
  PROVE  \E h \in Account :
           /\ balance'[h] = balance[h] + (AmountOf(holds[a][id]) - AmountOf(holds'[a][id]))
           /\ h # a => /\ now < holds[a][id].expiration
                       /\ holds[a][id].to \in {NoAddress, h}
<1>1. holds'[a][id] # holds[a][id]
  <2>1. holds[a][id] \in HoldData
    BY DEF LedgerInv, HoldTypeOK
  <2>2. AmountOf(holds[a][id]) \in Int
    BY <2>1 DEF AmountOf, HoldData
  <2> QED
    BY <2>2
<1>2. ~UNCHANGED holdVars
  BY <1>1 DEF holdVars
<1>3. ~\E holder \in Account, hold \in HoldData : CreateHoldInternal(holder, hold)
  BY <1>1, CreateHoldRegisters
<1>4. PICK holder \in Account, k \in HoldId, to \in Account, amount \in Int :
        Settlement(holder, k, to, amount)
  BY <1>2, <1>3 DEF HoldsMove
<1>5. /\ \A b \in Account, j \in HoldId :
           b # holder \/ j # k => holds'[b][j] = holds[b][j]
      /\ AmountOf(holds[holder][k]) - AmountOf(holds'[holder][k]) = amount
  BY <1>4, DecreaseKeepsRecords DEF LedgerInv, Settlement, PayOut
<1>6. a = holder /\ id = k
  BY <1>1, <1>5
<1>7. balance'[to] = balance[to] + amount
  BY <1>4, PayOutMoves DEF LedgerInv, Settlement
<1> QED
  BY <1>4, <1>5, <1>6, <1>7 DEF Settlement

(* What is newly held of an account comes from that account.               *)
LEMMA MoveConservesTokens ==
  ASSUME LedgerInv, HoldsMove, NEW a \in Account, heldByAccount'[a] > heldByAccount[a]
  PROVE  /\ balance'[a] + heldByAccount'[a] = balance[a] + heldByAccount[a]
         /\ totalSupply' = totalSupply
         /\ \A h \in Account \ {a} : balance'[h] = balance[h]
<1>1. heldByAccount \in [Account -> Int] /\ balance \in [Holder -> Nat] /\ a \in Holder
  BY DEF LedgerInv, HoldTypeOK, TokenTypeOK, Holder
<1>2. ~UNCHANGED holdVars
  BY <1>1 DEF holdVars
<1>3. ASSUME NEW holder \in Account, NEW id \in HoldId, NEW to \in Account, NEW amount \in Int,
             Settlement(holder, id, to, amount)
      PROVE  FALSE
  <2>1. amount >= 0
    BY <1>3 DEF Settlement, PayOut, CanTransfer
  <2>2. heldByAccount' = [heldByAccount EXCEPT ![holder] = @ - amount]
    BY <1>3 DEF Settlement, DecreaseHoldAmount
  <2> QED
    BY <1>1, <2>1, <2>2
<1>4. PICK holder \in Account, hold \in HoldData : CreateHoldInternal(holder, hold)
  BY <1>2, <1>3 DEF HoldsMove
<1>5. /\ hold.amount \in Int /\ totalSupply' = totalSupply
      /\ balance'[holder] = balance[holder] - hold.amount
      /\ \A h \in Account \ {holder} : balance'[h] = balance[h]
  BY <1>4, CreateHoldMoves DEF LedgerInv
<1>6. /\ heldByAccount'[holder] = heldByAccount[holder] + hold.amount
      /\ \A b \in Account \ {holder} : heldByAccount'[b] = heldByAccount[b]
  BY <1>4, CreateHoldRegisters
<1>7. a = holder
  BY <1>1, <1>6
<1> QED
  BY <1>1, <1>5, <1>6, <1>7

(* A hold that is gone never comes back under its id (_registerHold        *)
(* increments nextHoldId before it uses it, and nothing lowers it).        *)
THEOREM IdsCorrect == Spec => HoldIdsAreNeverReused
<1>1. ASSUME Inv, [Next]_vars
      PROVE  \A a \in Account, id \in HoldId :
               id <= nextHoldId[a] /\ id \notin holdIds[a] => id \notin holdIds'[a]
  BY <1>1, StepMovesHolds, MoveKeepsIds DEF Inv
<1> QED
  BY Invariance, <1>1, PTL DEF Spec, HoldIdsAreNeverReused

(* What leaves a hold goes to its holder or, before it expires, to the     *)
(* destination it allows (executeHold, releaseHold, reclaimHold).          *)
THEOREM PaymentsCorrect == Spec => HoldPaysItsParties
<1>1. ASSUME Inv, [Next]_vars
      PROVE  \A a \in Account, id \in HoldId :
               LET paid == AmountOf(holds[a][id]) - AmountOf(holds'[a][id])
               IN holds[a][id] # NoHold /\ paid # 0 =>
                    \E h \in Account :
                      /\ balance'[h] = balance[h] + paid
                      /\ h # a => /\ now < holds[a][id].expiration
                                  /\ holds[a][id].to \in {NoAddress, h}
  BY <1>1, StepMovesHolds, MovePaysParties DEF Inv
<1> QED
  BY Invariance, <1>1, PTL DEF Spec, HoldPaysItsParties

(* While the token is paused, and once it is deleted, balances and holds   *)
(* stay as they are (_checkResponse after every call of the precompile).   *)
THEOREM HaltCorrect == Spec => HaltedTokenKeepsItsRecords
<1>1. ASSUME Inv, [Next]_vars
      PROVE  ~Usable => UNCHANGED <<balance, totalSupply, holdVars>>
  <2>1. ASSUME NEW holder \in Account, NEW hold \in HoldData, CreateHoldInternal(holder, hold)
        PROVE  Usable
    BY <2>1 DEF CreateHoldInternal, CanMint
  <2>2. CASE SettleHold
    <3>1. \E to \in Account, amount \in Int : PayOut(to, amount)
      BY <1>1, <2>2, EverySettlementPays DEF Inv
    <3> QED
      BY <3>1 DEF PayOut, CanTransfer
  <2> QED
    BY <1>1, <2>1, <2>2, StepKinds
<1> QED
  BY Invariance, <1>1, PTL DEF Spec, HaltedTokenKeepsItsRecords

(* Locking tokens takes from the holder what it records as held and leaves *)
(* every other account and the supply alone (_createHoldInternal).         *)
THEOREM LockingCorrect == Spec => LockingConservesTokens
<1>1. ASSUME Inv, [Next]_vars
      PROVE  \A a \in Account : heldByAccount'[a] > heldByAccount[a] =>
               /\ balance'[a] + heldByAccount'[a] = balance[a] + heldByAccount[a]
               /\ totalSupply' = totalSupply
               /\ \A h \in Account \ {a} : balance'[h] = balance[h]
  BY <1>1, StepMovesHolds, MoveConservesTokens DEF Inv
<1> QED
  BY Invariance, <1>1, PTL DEF Spec, LockingConservesTokens
-----------------------------------------------------------------------------
(* Proof of reserve                                                        *)

(* A set of natural numbers has a least one.                               *)
LEMMA LeastExists ==
  ASSUME NEW T \in SUBSET Nat, T # {}
  PROVE  \E x \in T : \A y \in T : x <= y
<1> DEFINE R == {ss \in Nat \X Nat : ss[1] < ss[2]}
<1>1. \A x \in T, y \in T : y < x => <<y, x>> \in R
  OBVIOUS
<1>2. IsWellFoundedOn(R, Nat)
  BY NatLessThanWellFounded DEF OpToRel
<1>3. \E x \in T : \A y \in T : ~(<<y, x>> \in R)
  <2> HIDE DEF R
  <2> QED BY <1>2, WFMin
<1>4. PICK x \in T : \A y \in T : ~(<<y, x>> \in R)
  BY <1>3
<1> HIDE DEF R
<1>5. \A y \in T : ~(y < x)
  BY <1>1, <1>4
<1> QED
  BY <1>5

(* The powers up to the n-th.                                              *)
PowersUpTo(f, n) ==
  /\ f \in [0..n -> Nat]
  /\ f[0] = 1
  /\ \A i \in 1..n : f[i] = Base * f[i - 1]

(* There are as many as one likes.                                         *)
LEMMA PowersExist == \A n \in Nat : \E f : PowersUpTo(f, n)
<1> DEFINE T == {n \in Nat : ~ \E f : PowersUpTo(f, n)}
<1> SUFFICES ASSUME T # {} PROVE FALSE
  OBVIOUS
<1>1. PICK n \in T : \A m \in T : n <= m
  BY LeastExists
<1>2. Base \in Nat
  BY ReserveAssumption
<1>3. n \in Nat /\ ~ \E f : PowersUpTo(f, n)
  OBVIOUS
<1>4. n # 0
  <2>1. PowersUpTo([i \in 0..0 |-> 1], 0)
    BY DEF PowersUpTo
  <2> QED
    BY <1>3, <2>1
<1>5. n - 1 \in Nat /\ n - 1 \notin T
  BY <1>1, <1>3, <1>4
<1>6. PICK f : PowersUpTo(f, n - 1)
  BY <1>5
<1> DEFINE g == [i \in 0..n |-> IF i = n THEN Base * f[n - 1] ELSE f[i]]
<1>7. /\ g \in [0..n -> Nat] /\ g[0] = 1
      /\ \A i \in 1..n : g[i] = Base * g[i - 1]
  <2>1. /\ f[0] = 1
        /\ \A i \in 0..(n - 1) : f[i] \in Nat
        /\ \A i \in 1..(n - 1) : f[i] = Base * f[i - 1]
    BY <1>6 DEF PowersUpTo
  <2>2. \A i \in 0..n : g[i] = IF i = n THEN Base * f[n - 1] ELSE f[i]
    OBVIOUS
  <2>3. Base * f[n - 1] \in Nat
    <3>1. f[n - 1] \in Nat
      BY <1>5, <2>1
    <3> QED
      BY <1>2, <3>1
  <2>4. \A i \in 0..n : g[i] \in Nat
    BY <1>3, <2>1, <2>2, <2>3
  <2>5. \A i \in 1..n : g[i] = Base * g[i - 1]
    <3> TAKE i \in 1..n
    <3>1. g[i - 1] = f[i - 1]
      BY <1>3, <2>2
    <3>2. CASE i = n
      BY <2>2, <3>1, <3>2
    <3>3. CASE i # n
      BY <1>3, <2>1, <2>2, <3>1, <3>3
    <3> QED
      BY <3>2, <3>3
  <2>6. g[0] = 1
    BY <1>3, <1>4, <2>1, <2>2
  <2> QED
    BY <2>4, <2>5, <2>6
<1> QED
  BY <1>3, <1>7 DEF PowersUpTo

(* And only one of each.                                                   *)
LEMMA PowersAgree ==
  ASSUME NEW m \in Nat, NEW n \in Nat, NEW f, NEW g, PowersUpTo(f, m), PowersUpTo(g, n)
  PROVE  \A i \in Nat : i <= m /\ i <= n => f[i] = g[i]
<1> DEFINE T == {i \in Nat : i <= m /\ i <= n /\ f[i] # g[i]}
<1> SUFFICES ASSUME T # {} PROVE FALSE
  OBVIOUS
<1>1. PICK i \in T : \A k \in T : i <= k
  BY LeastExists
<1>2. i # 0
  BY DEF PowersUpTo
<1>3. i - 1 \in Nat /\ i - 1 \notin T /\ i \in 1..m /\ i \in 1..n
  BY <1>1, <1>2
<1>4. f[i - 1] = g[i - 1]
  BY <1>3
<1> QED
  BY <1>3, <1>4 DEF PowersUpTo

(* Hence the recursive definition defines something.                       *)
LEMMA PowerIs == Power = [n \in Nat |-> IF n = 0 THEN 1 ELSE Base * Power[n - 1]]
<1> DEFINE upTo(n) == CHOOSE f : PowersUpTo(f, n)
           G == [n \in Nat |-> upTo(n)[n]]
<1>1. \A n \in Nat : PowersUpTo(upTo(n), n)
  BY PowersExist
<1> HIDE DEF upTo
<1>2. ASSUME NEW n \in Nat
      PROVE  G[n] = IF n = 0 THEN 1 ELSE Base * G[n - 1]
  <2>1. CASE n = 0
    BY <1>1, <2>1 DEF PowersUpTo
  <2>2. CASE n # 0
    <3>1. n - 1 \in Nat /\ n \in 1..n
      BY <2>2
    <3>2. PowersUpTo(upTo(n), n) /\ PowersUpTo(upTo(n - 1), n - 1)
      BY <1>1, <3>1
    <3>3. upTo(n)[n] = Base * upTo(n)[n - 1]
      BY <3>1, <3>2 DEF PowersUpTo
    <3>4. upTo(n)[n - 1] = upTo(n - 1)[n - 1]
      BY <3>1, <3>2, PowersAgree
    <3> QED
      BY <2>2, <3>1, <3>3, <3>4
  <2> QED
    BY <2>1, <2>2
<1>3. G = [n \in Nat |-> IF n = 0 THEN 1 ELSE Base * G[n - 1]]
  BY <1>2
<1> HIDE DEF G
<1> QED
  BY <1>3, Zenon DEF Power

(* The zeroth power, and the next one.                                     *)
LEMMA PowerStep ==
  /\ Power[0] = 1
  /\ \A n \in Nat : Power[n + 1] = Base * Power[n]
<1>1. \A n \in Nat : Power[n] = IF n = 0 THEN 1 ELSE Base * Power[n - 1]
  BY PowerIs, Zenon
<1> QED
  BY <1>1

(* Powers are positive.                                                    *)
LEMMA PowerPositive == \A n \in Nat : Power[n] \in Nat \ {0}
<1> DEFINE T == {n \in Nat : Power[n] \notin Nat \ {0}}
<1> SUFFICES ASSUME T # {} PROVE FALSE
  OBVIOUS
<1>1. PICK n \in T : \A m \in T : n <= m
  BY LeastExists
<1>2. n # 0
  BY PowerStep
<1>3. n - 1 \in Nat /\ Power[n - 1] \in Nat \ {0} /\ n - 1 + 1 = n
  BY <1>1, <1>2
<1>4. Power[n] = Base * Power[n - 1]
  BY <1>3, PowerStep
<1>5. Base \in Nat \ {0}
  BY ReserveAssumption
<1>6. \A a, b \in Nat \ {0} : a * b \in Nat \ {0}
  OBVIOUS
<1> QED
  BY <1>3, <1>4, <1>5, <1>6

(* The power of a sum.                                                     *)
LEMMA PowerSum == \A m, n \in Nat : Power[m + n] = Power[m] * Power[n]
<1> TAKE m \in Nat
<1> DEFINE T == {n \in Nat : Power[m + n] # Power[m] * Power[n]}
<1> SUFFICES ASSUME T # {} PROVE FALSE
  OBVIOUS
<1>1. PICK n \in T : \A k \in T : n <= k
  BY LeastExists
<1>2. Power[m] \in Nat /\ Base \in Nat
  BY PowerPositive, ReserveAssumption
<1>3. n # 0
  <2>1. Power[m + 0] = Power[m] * Power[0]
    BY <1>2, PowerStep
  <2> QED
    BY <2>1
<1>4. n - 1 \in Nat /\ n - 1 \notin T /\ Power[n - 1] \in Nat
  BY <1>1, <1>3, PowerPositive
<1>5. Power[m + (n - 1)] = Power[m] * Power[n - 1]
  BY <1>4
<1>6. Power[n] = Base * Power[n - 1]
  <2>1. n = (n - 1) + 1
    OBVIOUS
  <2> QED
    BY <1>4, <2>1, PowerStep
<1>7. Power[m + n] = Base * Power[m + (n - 1)]
  <2>1. m + n = (m + (n - 1)) + 1 /\ m + (n - 1) \in Nat
    BY <1>4
  <2> QED
    BY <2>1, PowerStep
<1>8. \A a, b, c \in Nat : a * (b * c) = b * (a * c)
  OBVIOUS
<1>9. Base * (Power[m] * Power[n - 1]) = Power[m] * (Base * Power[n - 1])
  BY <1>2, <1>4, <1>8
<1> QED
  BY <1>5, <1>6, <1>7, <1>9

(* Multiplying both sides of a comparison by a positive number.            *)
LEMMA TimesBoth ==
  ASSUME NEW a \in Int, NEW b \in Int, NEW c \in Nat \ {0}
  PROVE  a <= b <=> a * c <= b * c
OBVIOUS

(* A sum times a number.                                                   *)
LEMMA SumTimes ==
  ASSUME NEW a \in Int, NEW b \in Int, NEW c \in Int
  PROVE  a * c + b * c = (a + b) * c
OBVIOUS

(* A product of three.                                                     *)
LEMMA TimesTwice ==
  ASSUME NEW a \in Int, NEW b \in Int, NEW c \in Int
  PROVE  (a * b) * c = a * (c * b)
OBVIOUS

(* A comparison of products, made in whole parts.                          *)
LEMMA WholePartsCompare ==
  ASSUME NEW a \in Int, NEW b \in Int, NEW p \in Nat \ {0}, NEW q \in Nat \ {0},
         a * q <= b * p
  PROVE  a \div p <= b \div q
<1> DEFINE x == a \div p
           y == b \div q
<1>1. x \in Int /\ y \in Int /\ x * p <= a /\ b < (y + 1) * q
  OBVIOUS
<1> HIDE DEF x, y
<1>2. SUFFICES ASSUME y + 1 <= x
               PROVE  FALSE
  BY <1>1 DEF x, y
<1>3. (x * p) * q <= a * q
  BY <1>1, TimesBoth
<1>4. ~(((y + 1) * q) * p <= b * p)
  <2>1. (y + 1) * q \in Int /\ ~((y + 1) * q <= b)
    BY <1>1
  <2> QED
    BY <2>1, TimesBoth
<1>5. (y + 1) * (q * p) <= x * (q * p)
  <2>1. q * p \in Nat \ {0} /\ y + 1 \in Int
    BY <1>1
  <2> QED
    BY <1>1, <1>2, <2>1, TimesBoth
<1>6. ((y + 1) * q) * p = (y + 1) * (q * p) /\ (x * p) * q = x * (q * p)
  BY <1>1
<1>7. /\ (x * p) * q \in Int /\ ((y + 1) * q) * p \in Int
      /\ a * q \in Int /\ b * p \in Int
  BY <1>1
<1> QED
  BY <1>3, <1>4, <1>5, <1>6, <1>7

(* Scaling one side by the difference of the decimals, as the code does,   *)
(* compares the same as multiplying both sides out.                        *)
LEMMA ScalingIs ==
  ASSUME NEW f \in Feed, NEW answer \in Int, NEW supply \in Int
  PROVE  answer * TokenUnit(f) >= supply * ReserveUnit(f)
           <=> supply * Power[ReserveDecimals[f]] <= answer * Power[TokenDecimals]
<1> DEFINE r == ReserveDecimals[f]
           t == TokenDecimals
<1>1. t \in Nat /\ r \in Nat
  BY ReserveAssumption
<1>2. CASE t > r
  <2>1. t - r \in Nat /\ r + (t - r) = t
    BY <1>1, <1>2
  <2>2. /\ Power[r] \in Nat \ {0} /\ Power[t - r] \in Nat \ {0}
        /\ Power[t] = Power[r] * Power[t - r]
    <3> HIDE DEF r, t
    <3>1. Power[r] \in Nat \ {0} /\ Power[t - r] \in Nat \ {0}
      BY <1>1, <2>1, PowerPositive
    <3>2. Power[r + (t - r)] = Power[r] * Power[t - r]
      BY <1>1, <2>1, PowerSum
    <3> QED
      BY <2>1, <3>1, <3>2
  <2>3. TokenUnit(f) = Power[t - r] /\ ReserveUnit(f) = 1
    BY <1>1, <1>2 DEF TokenUnit, ReserveUnit
  <2>4. (answer * Power[t - r]) * Power[r] = answer * Power[t]
    BY <2>2, TimesTwice
  <2>5. answer * Power[t - r] \in Int
    BY <2>2
  <2>6. supply <= answer * Power[t - r]
          <=> supply * Power[r] <= (answer * Power[t - r]) * Power[r]
    BY <2>2, <2>5, TimesBoth
  <2>7. supply * 1 = supply
    OBVIOUS
  <2> HIDE DEF r, t
  <2>8. answer * Power[t - r] >= supply <=> supply * Power[r] <= answer * Power[t]
    BY <2>4, <2>5, <2>6
  <2> QED
    BY <2>3, <2>7, <2>8 DEF r, t
<1>3. CASE t < r
  <2>1. r - t \in Nat /\ t + (r - t) = r
    BY <1>1, <1>3
  <2>2. /\ Power[t] \in Nat \ {0} /\ Power[r - t] \in Nat \ {0}
        /\ Power[r] = Power[t] * Power[r - t]
    <3> HIDE DEF r, t
    <3>1. Power[t] \in Nat \ {0} /\ Power[r - t] \in Nat \ {0}
      BY <1>1, <2>1, PowerPositive
    <3>2. Power[t + (r - t)] = Power[t] * Power[r - t]
      BY <1>1, <2>1, PowerSum
    <3> QED
      BY <2>1, <3>1, <3>2
  <2>3. ReserveUnit(f) = Power[r - t] /\ TokenUnit(f) = 1
    BY <1>1, <1>3 DEF TokenUnit, ReserveUnit
  <2>4. (supply * Power[r - t]) * Power[t] = supply * Power[r]
    BY <2>2, TimesTwice
  <2>5. supply * Power[r - t] \in Int
    BY <2>2
  <2>6. supply * Power[r - t] <= answer
          <=> (supply * Power[r - t]) * Power[t] <= answer * Power[t]
    BY <2>2, <2>5, TimesBoth
  <2>7. answer * 1 = answer
    OBVIOUS
  <2> HIDE DEF r, t
  <2>8. answer >= supply * Power[r - t] <=> supply * Power[r] <= answer * Power[t]
    BY <2>4, <2>5, <2>6
  <2> QED
    BY <2>3, <2>7, <2>8 DEF r, t
<1>4. CASE t = r
  <2>1. Power[t] \in Nat \ {0}
    BY <1>1, PowerPositive
  <2>2. TokenUnit(f) = 1 /\ ReserveUnit(f) = 1
    BY <1>1, <1>4 DEF TokenUnit, ReserveUnit
  <2>3. answer * 1 = answer /\ supply * 1 = supply
    OBVIOUS
  <2>4. supply <= answer <=> supply * Power[t] <= answer * Power[t]
    BY <2>1, TimesBoth
  <2> QED
    BY <1>4, <2>2, <2>3, <2>4
<1> QED
  BY <1>1, <1>2, <1>3, <1>4

(* What the check lets a cash-in add is covered by the feed.               *)
LEMMA CheckedIsCovered ==
  ASSUME ReserveTypeOK, totalSupply \in Nat, NEW amount \in Int,
         reserveAddress # NoFeed, CheckReserveAmount(amount, totalSupply, now)
  PROVE  CoveredByReserve(totalSupply + amount)
<1> DEFINE f == reserveAddress
           answer == feed[f].answer
<1>1. f \in Feed /\ answer \in Int
  BY DEF ReserveTypeOK
<1>2. answer * TokenUnit(f)
        >= totalSupply * ReserveUnit(f) + amount * ReserveUnit(f)
  BY DEF CheckReserveAmount
<1>3. ReserveUnit(f) \in Int
  <2>1. ReserveDecimals[f] \in Nat /\ TokenDecimals \in Nat
    BY <1>1, ReserveAssumption
  <2> QED
    BY <2>1, PowerPositive DEF ReserveUnit
<1>4. totalSupply * ReserveUnit(f) + amount * ReserveUnit(f)
        = (totalSupply + amount) * ReserveUnit(f)
  BY <1>3, SumTimes
<1>5. answer * TokenUnit(f) >= (totalSupply + amount) * ReserveUnit(f)
  BY <1>2, <1>4
<1>6. totalSupply + amount \in Int
  OBVIOUS
<1> QED
  BY <1>1, <1>5, <1>6, ScalingIs DEF CoveredByReserve

(* No call but a cash-in raises the supply: the creation of a hold wipes   *)
(* what it mints.                                                          *)
LEMMA OnlyMintRaisesSupply ==
  ASSUME Inv, [Next]_vars
  PROVE  \/ totalSupply' <= totalSupply
         \/ \E amount \in Int : /\ CheckReserveAmount(amount, totalSupply, now)
                                /\ totalSupply' = totalSupply + amount
                                /\ UNCHANGED reserveVars
<1>1. totalSupply \in Nat /\ Amounts \subseteq Int
  BY HoldAssumption DEF Inv, LedgerInv, TokenTypeOK
<1>2. CASE Administer \/ ReserveNext \/ UNCHANGED vars
  BY <1>1, <1>2 DEF Administer, ReserveNext, vars, tokenVars
<1>3. CASE Environment
  BY <1>1, <1>3 DEF Environment, UserTransfer, tokenVars
<1>4. CASE Settle
  <2>1. \E to \in Account, amount \in Int : PayOut(to, amount)
    BY <1>4, EverySettlementPays DEF Settle, Inv
  <2> QED
    BY <1>1, <2>1 DEF PayOut
<1>5. ASSUME NEW caller \in Account, NEW account \in Holder, NEW amount \in Amounts,
             Mint(caller, account, amount)
      PROVE  /\ CheckReserveAmount(amount, totalSupply, now)
             /\ totalSupply' = totalSupply + amount
             /\ UNCHANGED reserveVars
  BY <1>5 DEF Mint
<1>6. ASSUME NEW caller \in Account, NEW account \in Account, NEW amount \in Amounts,
             \/ Wipe(caller, account, amount)
             \/ Burn(caller, amount)
             \/ Rescue(caller, amount)
      PROVE  totalSupply' <= totalSupply
  BY <1>1, <1>6 DEF Wipe, Burn, Rescue
<1>7. ASSUME NEW caller \in Account, NEW from \in Account, NEW hold \in NewHolds,
             \/ CreateHold(caller, hold)
             \/ CreateHoldByController(caller, from, hold)
      PROVE  totalSupply' <= totalSupply
  BY <1>1, <1>7 DEF CreateHold, CreateHoldByController, CreateHoldInternal
<1>8. ASSUME NEW caller \in Account, NEW account \in Account,
             \/ Freeze(caller, account)
             \/ Unfreeze(caller, account)
             \/ GrantKyc(caller, account)
             \/ RevokeKyc(caller, account)
             \/ Pause(caller)
             \/ Unpause(caller)
             \/ DeleteToken(caller)
      PROVE  totalSupply' <= totalSupply
  BY <1>1, <1>8 DEF Freeze, Unfreeze, GrantKyc, RevokeKyc, Pause, Unpause, DeleteToken, SetStatus
<1> QED
  BY <1>1, <1>2, <1>3, <1>4, <1>5, <1>6, <1>7, <1>8 DEF Next

(* A cash-in never takes the supply above the reserve, whatever decimals   *)
(* token and feed have (_checkReserveAmount).                              *)
THEOREM ReserveCorrect == Spec => MintWithinReserve
<1>1. ASSUME Inv, [Next]_vars
      PROVE  totalSupply' > totalSupply /\ reserveAddress # NoFeed
               => CoveredByReserve(totalSupply')
  <2> SUFFICES ASSUME totalSupply' > totalSupply, reserveAddress # NoFeed
               PROVE  CoveredByReserve(totalSupply')
    OBVIOUS
  <2>1. totalSupply \in Nat /\ ReserveTypeOK
    BY <1>1 DEF Inv, LedgerInv, TokenTypeOK
  <2>2. \/ totalSupply' <= totalSupply
        \/ \E amount \in Int : /\ CheckReserveAmount(amount, totalSupply, now)
                               /\ totalSupply' = totalSupply + amount
    BY <1>1, OnlyMintRaisesSupply
  <2>3. ASSUME NEW amount \in Int, CheckReserveAmount(amount, totalSupply, now),
               totalSupply' = totalSupply + amount
        PROVE  CoveredByReserve(totalSupply')
    <3>1. CoveredByReserve(totalSupply + amount)
      BY <2>1, <2>3, CheckedIsCovered
    <3> QED
      BY <2>3, <3>1
  <2>4. totalSupply' \in Nat
    BY <1>1, StepSafe DEF Inv, LedgerInv, TokenTypeOK
  <2> QED
    BY <2>1, <2>2, <2>3, <2>4
<1> QED
  BY Invariance, <1>1, PTL DEF Spec, MintWithinReserve
=============================================================================
