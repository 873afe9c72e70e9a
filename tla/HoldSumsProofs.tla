--------------------------- MODULE HoldSumsProofs ---------------------------
(***************************************************************************)
(* The sums over holds, for any accounts, holds and bounds: the amount     *)
(* recorded as held for an account is the sum over its live holds, and the *)
(* amount recorded in all is the sum over all of them.                     *)
(*                                                                         *)
(* A sum is the cardinality of a set with one element for every unit held, *)
(* so a step that changes the amount of one hold adds a finite set of new  *)
(* units to what was held, or takes one away.                              *)
(***************************************************************************)
EXTENDS StableCoinProofs, FiniteSetTheorems

(* The holds of one account, by id.                                        *)
Slots == [HoldId -> HoldData \cup {NoHold}]

(* One element for every unit of the holds of one account, and of all.     *)
Units(slots) == UNION {{id} \X (1..AmountOf(slots[id])) : id \in HoldId}
AllUnits(h) == UNION {{a} \X Units(h[a]) : a \in Account}

(* The recorded totals are the sums over the holds.                        *)
SumsOK(h, byAccount, total) ==
  /\ \A a \in Account : /\ IsFiniteSet(Units(h[a]))
                        /\ byAccount[a] = Cardinality(Units(h[a]))
  /\ IsFiniteSet(AllUnits(h))
  /\ total = Cardinality(AllUnits(h))

SumsInv == SumsOK(holds, heldByAccount, totalHeld)

-----------------------------------------------------------------------------
(* Units                                                                   *)

(* The units of an account's holds are numbered within each hold.          *)
LEMMA UnitsAre ==
  ASSUME NEW slots, NEW u
  PROVE  u \in Units(slots) <=>
           \E id \in HoldId : \E n \in 1..AmountOf(slots[id]) : u = <<id, n>>
BY DEF Units

(* The units of all holds are those of each account, apart.                *)
LEMMA AllUnitsAre ==
  ASSUME NEW h, NEW u
  PROVE  u \in AllUnits(h) <=> \E a \in Account : \E x \in Units(h[a]) : u = <<a, x>>
BY DEF AllUnits

(* A set that grows by finitely many new elements.                         *)
LEMMA GrownBy ==
  ASSUME NEW S, NEW D, S \cap D = {}, IsFiniteSet(D)
  PROVE  /\ IsFiniteSet(S \cup D) <=> IsFiniteSet(S)
         /\ IsFiniteSet(S) => Cardinality(S \cup D) = Cardinality(S) + Cardinality(D)
<1>1. IsFiniteSet(S) => IsFiniteSet(S \cup D)
  BY FS_Union
<1>2. IsFiniteSet(S \cup D) => IsFiniteSet(S)
  <2>1. S \in SUBSET (S \cup D)
    OBVIOUS
  <2> QED
    BY <2>1, FS_Subset
<1>3. ASSUME IsFiniteSet(S)
      PROVE  Cardinality(S \cup D) = Cardinality(S) + Cardinality(D)
  <2>1. Cardinality(S) \in Nat /\ Cardinality(D) \in Nat
    BY <1>3, FS_CardinalityType
  <2>2. Cardinality(S \cup D) = Cardinality(S) + Cardinality(D) - Cardinality({})
    BY <1>3, FS_Union
  <2> QED
    BY <2>1, <2>2, FS_EmptySet
<1> QED
  BY <1>1, <1>2, <1>3

(* Copies of a finite set with a first component have its cardinality.     *)
LEMMA TaggedIsFinite ==
  ASSUME NEW x, NEW S, IsFiniteSet(S)
  PROVE  IsFiniteSet({x} \X S) /\ Cardinality({x} \X S) = Cardinality(S)
<1>1. IsFiniteSet({x}) /\ Cardinality({x}) = 1
  BY FS_Singleton
<1>2. /\ IsFiniteSet({x} \X S)
      /\ Cardinality({x} \X S) = Cardinality({x}) * Cardinality(S)
  BY <1>1, FS_Product
<1>3. Cardinality(S) \in Nat
  BY FS_CardinalityType
<1> QED
  BY <1>1, <1>2, <1>3

(* The new units of a hold that grows from one amount to another.          *)
Between(id, lo, hi) == {id} \X ((lo + 1)..hi)

(* There are as many as the hold grows.                                    *)
LEMMA BetweenIs ==
  ASSUME NEW id, NEW lo \in Nat, NEW hi \in Nat, lo <= hi
  PROVE  /\ IsFiniteSet(Between(id, lo, hi))
         /\ Cardinality(Between(id, lo, hi)) = hi - lo
<1>1. /\ IsFiniteSet((lo + 1)..hi)
      /\ Cardinality((lo + 1)..hi) = IF lo + 1 > hi THEN 0 ELSE hi - (lo + 1) + 1
  BY FS_Interval
<1>2. Cardinality((lo + 1)..hi) = hi - lo
  BY <1>1
<1> QED
  BY <1>1, <1>2, TaggedIsFinite DEF Between

(* Two states of the holds that differ in one hold, which is larger in the *)
(* second.                                                                 *)
OneHoldGrows(small, large, a, id, lo, hi) ==
  /\ lo \in Nat /\ hi \in Nat /\ lo <= hi
  /\ lo = AmountOf(small[a][id])
  /\ hi = AmountOf(large[a][id])
  /\ \A b \in Account, k \in HoldId : b # a \/ k # id => large[b][k] = small[b][k]

(* Its account has the new units besides the old ones, the other accounts  *)
(* have what they had.                                                     *)
LEMMA UnitsGrow ==
  ASSUME NEW small \in [Account -> Slots], NEW large \in [Account -> Slots],
         NEW a \in Account, NEW id \in HoldId, NEW lo, NEW hi,
         OneHoldGrows(small, large, a, id, lo, hi)
  PROVE  /\ Units(large[a]) = Units(small[a]) \cup Between(id, lo, hi)
         /\ Units(small[a]) \cap Between(id, lo, hi) = {}
         /\ \A b \in Account \ {a} : Units(large[b]) = Units(small[b])
<1>1. /\ lo \in Nat /\ hi \in Nat /\ lo <= hi
      /\ lo = AmountOf(small[a][id])
      /\ hi = AmountOf(large[a][id])
      /\ \A b \in Account, k \in HoldId : b # a \/ k # id => large[b][k] = small[b][k]
  BY DEF OneHoldGrows
<1>2. \A u : u \in Between(id, lo, hi) <=> \E n \in (lo + 1)..hi : u = <<id, n>>
  BY DEF Between
<1>3. ASSUME NEW u
      PROVE  u \in Units(large[a]) <=> u \in Units(small[a]) \cup Between(id, lo, hi)
  <2>1. ASSUME NEW k \in HoldId, NEW n \in 1..AmountOf(large[a][k]), u = <<k, n>>
        PROVE  u \in Units(small[a]) \cup Between(id, lo, hi)
    <3>1. CASE k = id
      <4>1. n \in 1..lo \/ n \in (lo + 1)..hi
        BY <1>1, <2>1, <3>1
      <4> QED
        BY <1>1, <1>2, <2>1, <3>1, <4>1, UnitsAre
    <3>2. CASE k # id
      <4>1. n \in 1..AmountOf(small[a][k])
        BY <1>1, <3>2
      <4> QED
        BY <2>1, <4>1, UnitsAre
    <3> QED
      BY <3>1, <3>2
  <2>2. ASSUME NEW k \in HoldId, NEW n \in 1..AmountOf(small[a][k]), u = <<k, n>>
        PROVE  u \in Units(large[a])
    <3>1. CASE k = id
      <4>1. n \in 1..hi
        BY <1>1, <2>2, <3>1
      <4> QED
        BY <1>1, <2>2, <3>1, <4>1, UnitsAre
    <3>2. CASE k # id
      <4>1. n \in 1..AmountOf(large[a][k])
        BY <1>1, <3>2
      <4> QED
        BY <2>2, <4>1, UnitsAre
    <3> QED
      BY <3>1, <3>2
  <2>3. ASSUME NEW n \in (lo + 1)..hi, u = <<id, n>>
        PROVE  u \in Units(large[a])
    <3>1. n \in 1..hi
      BY <1>1
    <3> QED
      BY <1>1, <2>3, <3>1, UnitsAre
  <2> QED
    BY <1>2, <2>1, <2>2, <2>3, UnitsAre
<1>4. ASSUME NEW u, u \in Units(small[a]), u \in Between(id, lo, hi)
      PROVE  FALSE
  <2>1. PICK n \in (lo + 1)..hi : u = <<id, n>>
    BY <1>2, <1>4
  <2>2. PICK k \in HoldId : \E m \in 1..AmountOf(small[a][k]) : u = <<k, m>>
    BY <1>4, UnitsAre
  <2>3. PICK m \in 1..AmountOf(small[a][k]) : u = <<k, m>>
    BY <2>2
  <2>4. k = id /\ m = n
    BY <2>1, <2>3
  <2>5. n \in 1..lo
    BY <1>1, <2>3, <2>4
  <2> QED
    BY <1>1, <2>5
<1>5. ASSUME NEW b \in Account \ {a}
      PROVE  Units(large[b]) = Units(small[b])
  <2>1. \A k \in HoldId : large[b][k] = small[b][k]
    BY <1>1
  <2> QED
    BY <2>1 DEF Units
<1> QED
  BY <1>3, <1>4, <1>5

(* So has the union over all accounts.                                     *)
LEMMA AllUnitsGrow ==
  ASSUME NEW small \in [Account -> Slots], NEW large \in [Account -> Slots],
         NEW a \in Account, NEW id \in HoldId, NEW lo, NEW hi,
         OneHoldGrows(small, large, a, id, lo, hi)
  PROVE  /\ AllUnits(large) = AllUnits(small) \cup ({a} \X Between(id, lo, hi))
         /\ AllUnits(small) \cap ({a} \X Between(id, lo, hi)) = {}
<1>1. /\ Units(large[a]) = Units(small[a]) \cup Between(id, lo, hi)
      /\ Units(small[a]) \cap Between(id, lo, hi) = {}
      /\ \A b \in Account \ {a} : Units(large[b]) = Units(small[b])
  BY UnitsGrow
<1>2. \A u : u \in {a} \X Between(id, lo, hi) <=>
               \E x \in Between(id, lo, hi) : u = <<a, x>>
  OBVIOUS
<1>3. ASSUME NEW u
      PROVE  u \in AllUnits(large) <=> u \in AllUnits(small) \cup ({a} \X Between(id, lo, hi))
  <2>1. ASSUME NEW b \in Account, NEW x \in Units(large[b]), u = <<b, x>>
        PROVE  u \in AllUnits(small) \cup ({a} \X Between(id, lo, hi))
    BY <1>1, <1>2, <2>1, AllUnitsAre
  <2>2. ASSUME NEW b \in Account, NEW x \in Units(small[b]), u = <<b, x>>
        PROVE  u \in AllUnits(large)
    BY <1>1, <2>2, AllUnitsAre
  <2>3. ASSUME NEW x \in Between(id, lo, hi), u = <<a, x>>
        PROVE  u \in AllUnits(large)
    BY <1>1, <2>3, AllUnitsAre
  <2> QED
    BY <1>2, <2>1, <2>2, <2>3, AllUnitsAre
<1>4. ASSUME NEW u, u \in AllUnits(small), u \in {a} \X Between(id, lo, hi)
      PROVE  FALSE
  <2>1. PICK x \in Between(id, lo, hi) : u = <<a, x>>
    BY <1>2, <1>4
  <2>2. PICK b \in Account : \E y \in Units(small[b]) : u = <<b, y>>
    BY <1>4, AllUnitsAre
  <2>3. x \in Units(small[a])
    BY <2>1, <2>2
  <2> QED
    BY <1>1, <2>1, <2>3
<1> QED
  BY <1>3, <1>4

(* Totals that follow the change of one hold stay the sums, whether the    *)
(* hold grows or shrinks.                                                  *)
LEMMA SumsFollow ==
  ASSUME NEW small \in [Account -> Slots], NEW large \in [Account -> Slots],
         NEW a \in Account, NEW id \in HoldId, NEW lo, NEW hi,
         OneHoldGrows(small, large, a, id, lo, hi),
         NEW byAccount \in [Account -> Int], NEW grown \in [Account -> Int],
         NEW total \in Int,
         grown[a] = byAccount[a] + (hi - lo),
         \A b \in Account \ {a} : grown[b] = byAccount[b]
  PROVE  SumsOK(small, byAccount, total) <=> SumsOK(large, grown, total + (hi - lo))
<1> DEFINE D == Between(id, lo, hi)
<1>1. lo \in Nat /\ hi \in Nat /\ lo <= hi
  BY DEF OneHoldGrows
<1>2. IsFiniteSet(D) /\ Cardinality(D) = hi - lo
  BY <1>1, BetweenIs
<1>3. IsFiniteSet({a} \X D) /\ Cardinality({a} \X D) = hi - lo
  BY <1>2, TaggedIsFinite
<1>4. /\ Units(large[a]) = Units(small[a]) \cup D
      /\ Units(small[a]) \cap D = {}
      /\ \A b \in Account \ {a} : Units(large[b]) = Units(small[b])
  BY UnitsGrow
<1>5. /\ AllUnits(large) = AllUnits(small) \cup ({a} \X D)
      /\ AllUnits(small) \cap ({a} \X D) = {}
  BY AllUnitsGrow
<1> HIDE DEF D
<1>6. /\ IsFiniteSet(Units(large[a])) <=> IsFiniteSet(Units(small[a]))
      /\ IsFiniteSet(Units(small[a])) =>
           Cardinality(Units(large[a])) = Cardinality(Units(small[a])) + (hi - lo)
  BY <1>2, <1>4, GrownBy
<1>7. /\ IsFiniteSet(AllUnits(large)) <=> IsFiniteSet(AllUnits(small))
      /\ IsFiniteSet(AllUnits(small)) =>
           Cardinality(AllUnits(large)) = Cardinality(AllUnits(small)) + (hi - lo)
  <2> DEFINE E == {a} \X D
  <2>1. /\ IsFiniteSet(E) /\ Cardinality(E) = hi - lo
        /\ AllUnits(large) = AllUnits(small) \cup E
        /\ AllUnits(small) \cap E = {}
    BY <1>3, <1>5
  <2> HIDE DEF E
  <2> QED
    <3>1. /\ IsFiniteSet(AllUnits(small) \cup E) <=> IsFiniteSet(AllUnits(small))
          /\ IsFiniteSet(AllUnits(small)) =>
               Cardinality(AllUnits(small) \cup E) =
                 Cardinality(AllUnits(small)) + Cardinality(E)
      BY <2>1, GrownBy
    <3> QED
      BY <2>1, <3>1
<1>8. /\ IsFiniteSet(Units(small[a])) => Cardinality(Units(small[a])) \in Nat
      /\ IsFiniteSet(AllUnits(small)) => Cardinality(AllUnits(small)) \in Nat
  BY FS_CardinalityType
<1>9. (IsFiniteSet(Units(small[a])) /\ byAccount[a] = Cardinality(Units(small[a])))
        <=> (IsFiniteSet(Units(large[a])) /\ grown[a] = Cardinality(Units(large[a])))
  BY <1>1, <1>6, <1>8
<1>10. (IsFiniteSet(AllUnits(small)) /\ total = Cardinality(AllUnits(small)))
        <=> (IsFiniteSet(AllUnits(large)) /\ total + (hi - lo) = Cardinality(AllUnits(large)))
  BY <1>1, <1>7, <1>8
<1>11. (\A b \in Account : /\ IsFiniteSet(Units(small[b]))
                           /\ byAccount[b] = Cardinality(Units(small[b])))
         <=> (\A b \in Account : /\ IsFiniteSet(Units(large[b]))
                                 /\ grown[b] = Cardinality(Units(large[b])))
  BY <1>4, <1>9
<1> QED
  BY <1>10, <1>11 DEF SumsOK
-----------------------------------------------------------------------------
(* The steps                                                               *)

(* The units of the model are those of the ids that are live.              *)
LEMMA HeldUnitsAre ==
  ASSUME HoldTypeOK, HoldRegistryConsistent, NEW a \in Account
  PROVE  HeldUnits(a) = Units(holds[a])
<1>1. ASSUME NEW id \in HoldId
      PROVE  /\ id \in holdIds[a] => AmountOf(holds[a][id]) = holds[a][id].amount
             /\ id \notin holdIds[a] => AmountOf(holds[a][id]) = 0
  BY DEF HoldRegistryConsistent, AmountOf
<1>2. holdIds[a] \in SUBSET HoldId
  BY DEF HoldTypeOK
<1>3. \A u : u \in HeldUnits(a) <=>
        \E id \in holdIds[a] : \E n \in 1..holds[a][id].amount : u = <<id, n>>
  BY DEF HeldUnits
<1>4. ASSUME NEW u
      PROVE  u \in HeldUnits(a) <=> u \in Units(holds[a])
  <2>1. ASSUME NEW id \in holdIds[a], NEW n \in 1..holds[a][id].amount, u = <<id, n>>
        PROVE  u \in Units(holds[a])
    <3>1. id \in HoldId /\ n \in 1..AmountOf(holds[a][id])
      BY <1>1, <1>2
    <3> QED
      BY <2>1, <3>1, UnitsAre
  <2>2. ASSUME NEW id \in HoldId, NEW n \in 1..AmountOf(holds[a][id]), u = <<id, n>>
        PROVE  u \in HeldUnits(a)
    <3>1. id \in holdIds[a]
      BY <1>1
    <3>2. n \in 1..holds[a][id].amount
      BY <1>1, <3>1
    <3> QED
      BY <1>3, <2>2, <3>1, <3>2
  <2> QED
    BY <1>3, <2>1, <2>2, UnitsAre
<1> QED
  BY <1>4

(* Nothing is held at the start.                                           *)
LEMMA SumsInit ==
  ASSUME HoldInit
  PROVE  SumsInv
<1>1. /\ \A a \in Account, id \in HoldId : holds[a][id] = NoHold
      /\ \A a \in Account : heldByAccount[a] = 0
      /\ totalHeld = 0
  BY DEF HoldInit
<1>2. ASSUME NEW a \in Account
      PROVE  Units(holds[a]) = {}
  <2>1. \A id \in HoldId : 1..AmountOf(holds[a][id]) = {}
    BY <1>1 DEF AmountOf
  <2> QED
    BY <2>1, UnitsAre
<1>3. AllUnits(holds) = {}
  BY <1>2, AllUnitsAre
<1> QED
  BY <1>1, <1>2, <1>3, FS_EmptySet DEF SumsInv, SumsOK

(* A new hold is added to the sums as to the totals (_registerHold).       *)
LEMMA RegisterKeepsSums ==
  ASSUME HoldTypeOK, HoldRegistryConsistent, UNCHANGED now, SumsInv,
         NEW holder \in Account, NEW hold \in HoldData, hold.amount > 0,
         RegisterHold(holder, hold)
  PROVE  SumsInv'
<1> DEFINE new == nextHoldId[holder] + 1
<1>1. HoldTypeOK'
  BY RegisterKeepsRecords
<1>2. new \in HoldId /\ holds[holder][new] = NoHold
  BY HoldAssumption DEF RegisterHold, HoldTypeOK, HoldId, HoldRegistryConsistent
<1>3. hold # NoHold /\ hold.amount \in Nat
  BY HoldAssumption DEF HoldData
<1>4. /\ holds' = [holds EXCEPT ![holder][new] = hold]
      /\ heldByAccount' = [heldByAccount EXCEPT ![holder] = @ + hold.amount]
      /\ totalHeld' = totalHeld + hold.amount
  BY DEF RegisterHold
<1>5. /\ holds \in [Account -> Slots] /\ holds' \in [Account -> Slots]
      /\ heldByAccount \in [Account -> Int] /\ heldByAccount' \in [Account -> Int]
      /\ totalHeld \in Int
  BY <1>1 DEF HoldTypeOK, Slots
<1> HIDE DEF new
<1>6. /\ holds'[holder][new] = hold
      /\ \A b \in Account, k \in HoldId : b # holder \/ k # new => holds'[b][k] = holds[b][k]
  BY <1>2, <1>4, <1>5 DEF Slots
<1>7. OneHoldGrows(holds, holds', holder, new, 0, hold.amount)
  BY <1>2, <1>3, <1>6 DEF OneHoldGrows, AmountOf
<1>8. /\ heldByAccount'[holder] = heldByAccount[holder] + (hold.amount - 0)
      /\ \A b \in Account \ {holder} : heldByAccount'[b] = heldByAccount[b]
      /\ totalHeld' = totalHeld + (hold.amount - 0)
  BY <1>3, <1>4, <1>5
<1> QED
  BY <1>2, <1>5, <1>7, <1>8, SumsFollow DEF SumsInv

(* What a hold pays is taken from the sums as from the totals              *)
(* (_decreaseHoldAmount).                                                  *)
LEMMA DecreaseKeepsSums ==
  ASSUME HoldTypeOK, HoldRegistryConsistent, UNCHANGED now, SumsInv,
         NEW holder \in Account, NEW id \in HoldId, Live(holder, id),
         NEW amount \in Int, 0 <= amount, amount <= holds[holder][id].amount,
         DecreaseHoldAmount(holder, id, amount)
  PROVE  SumsInv'
<1> DEFINE hi == AmountOf(holds[holder][id])
           lo == AmountOf(holds'[holder][id])
<1>1. /\ HoldTypeOK'
      /\ \A b \in Account, k \in HoldId :
           b # holder \/ k # id => holds'[b][k] = holds[b][k]
      /\ hi - lo = amount
      /\ HoldRegistryConsistent'
  BY DecreaseKeepsRecords
<1>2. holds[holder][id] \in HoldData /\ hi = holds[holder][id].amount /\ hi \in Nat
  BY DEF HoldTypeOK, HoldRegistryConsistent, Live, AmountOf, HoldData
<1>3. lo \in Nat
  BY <1>1, HoldAssumption DEF HoldTypeOK, HoldRegistryConsistent, AmountOf, HoldData
<1>4. /\ heldByAccount' = [heldByAccount EXCEPT ![holder] = @ - amount]
      /\ totalHeld' = totalHeld - amount
  BY DEF DecreaseHoldAmount
<1>5. /\ holds \in [Account -> Slots] /\ holds' \in [Account -> Slots]
      /\ heldByAccount \in [Account -> Int] /\ heldByAccount' \in [Account -> Int]
      /\ totalHeld \in Int /\ totalHeld' \in Int
  BY <1>1 DEF HoldTypeOK, Slots
<1>6. OneHoldGrows(holds', holds, holder, id, lo, hi)
  BY <1>1, <1>2, <1>3 DEF OneHoldGrows
<1> HIDE DEF lo, hi
<1>7. /\ heldByAccount[holder] = heldByAccount'[holder] + (hi - lo)
      /\ \A b \in Account \ {holder} : heldByAccount[b] = heldByAccount'[b]
      /\ totalHeld = totalHeld' + (hi - lo)
  BY <1>1, <1>2, <1>3, <1>4, <1>5
<1> QED
  BY <1>5, <1>6, <1>7, SumsFollow DEF SumsInv

(* Whatever a call does to the holds, it keeps the sums.                   *)
LEMMA MoveKeepsSums ==
  ASSUME LedgerInv, SumsInv, HoldsMove
  PROVE  SumsInv'
<1>1. CASE UNCHANGED holdVars
  BY <1>1 DEF holdVars, SumsInv
<1>2. ASSUME NEW holder \in Account, NEW hold \in HoldData, CreateHoldInternal(holder, hold)
      PROVE  SumsInv'
  BY <1>2, RegisterKeepsSums DEF CreateHoldInternal, LedgerInv
<1>3. ASSUME NEW holder \in Account, NEW id \in HoldId, NEW to \in Account, NEW amount \in Int,
             Settlement(holder, id, to, amount)
      PROVE  SumsInv'
  <2>1. /\ Live(holder, id) /\ amount <= holds[holder][id].amount
        /\ DecreaseHoldAmount(holder, id, amount)
        /\ 0 <= amount /\ UNCHANGED now
    BY <1>3 DEF Settlement, PayOut, CanTransfer
  <2> QED
    BY <2>1, DecreaseKeepsSums DEF LedgerInv
<1> QED
  BY <1>1, <1>2, <1>3 DEF HoldsMove

(* The sums are the totals the properties speak of.                        *)
LEMMA SumsAreTotals ==
  ASSUME LedgerInv, SumsInv
  PROVE  AccountTotalMatchesHolds /\ TotalMatchesHolds
<1>1. \A a \in Account : HeldUnits(a) = Units(holds[a])
  BY HeldUnitsAre DEF LedgerInv
<1>2. UNION {{a} \X HeldUnits(a) : a \in Account} = AllUnits(holds)
  BY <1>1 DEF AllUnits
<1> QED
  BY <1>1, <1>2 DEF SumsInv, SumsOK, AccountTotalMatchesHolds, TotalMatchesHolds

(* No hold is larger than all of them together.                            *)
LEMMA HoldWithinTotal ==
  ASSUME LedgerInv, SumsInv, NEW a \in Account, NEW id \in HoldId, Live(a, id)
  PROVE  holds[a][id].amount <= totalHeld
<1> DEFINE amount == holds[a][id].amount
<1>1. amount \in Nat /\ AmountOf(holds[a][id]) = amount
  BY DEF LedgerInv, HoldTypeOK, HoldRegistryConsistent, Live, HoldData, AmountOf
<1>2. Between(id, 0, amount) \subseteq Units(holds[a])
  <2>1. \A u : u \in Between(id, 0, amount) => \E n \in 1..amount : u = <<id, n>>
    BY <1>1 DEF Between
  <2> QED
    BY <1>1, <2>1, UnitsAre
<1>3. /\ IsFiniteSet(Between(id, 0, amount))
      /\ Cardinality(Between(id, 0, amount)) = amount
  BY <1>1, BetweenIs
<1> HIDE DEF amount
<1>4. {a} \X Between(id, 0, amount) \subseteq AllUnits(holds)
  BY <1>2, AllUnitsAre
<1>5. Cardinality({a} \X Between(id, 0, amount)) = amount
  BY <1>3, TaggedIsFinite
<1>6. IsFiniteSet(AllUnits(holds)) /\ totalHeld = Cardinality(AllUnits(holds))
  BY DEF SumsInv, SumsOK
<1>7. Cardinality({a} \X Between(id, 0, amount)) <= Cardinality(AllUnits(holds))
  BY <1>4, <1>6, FS_Subset
<1> QED
  BY <1>5, <1>6, <1>7 DEF amount

(* In every reachable state the recorded totals are the sums of the        *)
(* amounts of the holds, and only finitely many tokens are held.           *)
THEOREM SumsInvariance == Spec => []SumsInv
<1>1. Init => SumsInv
  BY SumsInit DEF Init
<1>2. Inv /\ SumsInv /\ [Next]_vars => SumsInv'
  BY StepMovesHolds, MoveKeepsSums DEF Inv
<1> QED
  BY <1>1, <1>2, Invariance, PTL DEF Spec

(* The amount recorded as held for a holder is the sum over its live holds *)
(* (totalHeldAmountByAccount).                                             *)
THEOREM AccountSumCorrect == Spec => []AccountTotalMatchesHolds
<1>1. Inv /\ SumsInv => AccountTotalMatchesHolds
  BY SumsAreTotals DEF Inv
<1> QED
  BY <1>1, Invariance, SumsInvariance, PTL

(* The amount recorded as held in all is the sum over all live holds: the  *)
(* burnable amount is what the treasury has beyond them                    *)
(* (totalHeldAmount, getBurnableAmount).                                   *)
THEOREM TotalSumCorrect == Spec => []TotalMatchesHolds
<1>1. Inv /\ SumsInv => TotalMatchesHolds
  BY SumsAreTotals DEF Inv
<1> QED
  BY <1>1, Invariance, SumsInvariance, PTL

-----------------------------------------------------------------------------
(* The supply                                                              *)

(* One element for every token unit of a holder.                           *)
Tokens(b) == UNION {{h} \X (1..b[h]) : h \in Holder}

SupplyOK(b, supply) == IsFiniteSet(Tokens(b)) /\ supply = Cardinality(Tokens(b))

SupplyInv == SupplyOK(balance, totalSupply)

(* The tokens of each holder are numbered.                                 *)
LEMMA TokensAre ==
  ASSUME NEW b, NEW u
  PROVE  u \in Tokens(b) <=> \E h \in Holder : \E n \in 1..b[h] : u = <<h, n>>
BY DEF Tokens

(* A holder who gets more has new tokens besides the old ones; everybody   *)
(* else has what they had.                                                 *)
LEMMA TokensGrow ==
  ASSUME NEW small \in [Holder -> Nat], NEW large \in [Holder -> Nat], NEW h \in Holder,
         small[h] <= large[h], \A other \in Holder \ {h} : large[other] = small[other]
  PROVE  /\ Tokens(large) = Tokens(small) \cup Between(h, small[h], large[h])
         /\ Tokens(small) \cap Between(h, small[h], large[h]) = {}
<1> DEFINE lo == small[h]
           hi == large[h]
<1>1. lo \in Nat /\ hi \in Nat /\ lo <= hi
  OBVIOUS
<1> HIDE DEF lo, hi
<1>2. \A u : u \in Between(h, lo, hi) <=> \E n \in (lo + 1)..hi : u = <<h, n>>
  BY DEF Between
<1>3. ASSUME NEW u
      PROVE  u \in Tokens(large) <=> u \in Tokens(small) \cup Between(h, lo, hi)
  <2>1. ASSUME NEW k \in Holder, NEW n \in 1..large[k], u = <<k, n>>
        PROVE  u \in Tokens(small) \cup Between(h, lo, hi)
    <3>1. CASE k = h
      <4>1. n \in 1..lo \/ n \in (lo + 1)..hi
        BY <1>1, <2>1, <3>1 DEF hi
      <4> QED
        BY <1>2, <2>1, <3>1, <4>1, TokensAre DEF lo
    <3>2. CASE k # h
      BY <2>1, <3>2, TokensAre
    <3> QED
      BY <3>1, <3>2
  <2>2. ASSUME NEW k \in Holder, NEW n \in 1..small[k], u = <<k, n>>
        PROVE  u \in Tokens(large)
    <3>1. n \in 1..large[k]
      BY <1>1, <2>2 DEF lo, hi
    <3> QED
      BY <2>2, <3>1, TokensAre
  <2>3. ASSUME NEW n \in (lo + 1)..hi, u = <<h, n>>
        PROVE  u \in Tokens(large)
    <3>1. n \in 1..large[h]
      BY <1>1 DEF hi
    <3> QED
      BY <2>3, <3>1, TokensAre
  <2> QED
    BY <1>2, <2>1, <2>2, <2>3, TokensAre
<1>4. ASSUME NEW u, u \in Tokens(small), u \in Between(h, lo, hi)
      PROVE  FALSE
  <2>1. PICK n \in (lo + 1)..hi : u = <<h, n>>
    BY <1>2, <1>4
  <2>2. PICK k \in Holder : \E m \in 1..small[k] : u = <<k, m>>
    BY <1>4, TokensAre
  <2>3. PICK m \in 1..small[k] : u = <<k, m>>
    BY <2>2
  <2>4. k = h /\ m = n
    BY <2>1, <2>3
  <2>5. n \in 1..lo
    BY <2>3, <2>4 DEF lo
  <2> QED
    BY <1>1, <2>1, <2>5
<1> QED
  BY <1>3, <1>4 DEF lo, hi

(* A supply that follows the change of one balance stays the sum, whether  *)
(* the balance grows or shrinks.                                           *)
LEMMA SupplyFollows ==
  ASSUME NEW small \in [Holder -> Nat], NEW large \in [Holder -> Nat], NEW h \in Holder,
         small[h] <= large[h], \A other \in Holder \ {h} : large[other] = small[other],
         NEW supply \in Int
  PROVE  SupplyOK(small, supply) <=> SupplyOK(large, supply + (large[h] - small[h]))
<1> DEFINE grown == large[h] - small[h]
           D == Between(h, small[h], large[h])
<1>1. grown \in Int /\ IsFiniteSet(D) /\ Cardinality(D) = grown
  BY BetweenIs
<1>2. Tokens(large) = Tokens(small) \cup D /\ Tokens(small) \cap D = {}
  BY TokensGrow
<1> HIDE DEF grown, D
<1>3. /\ IsFiniteSet(Tokens(large)) <=> IsFiniteSet(Tokens(small))
      /\ IsFiniteSet(Tokens(small)) =>
           Cardinality(Tokens(large)) = Cardinality(Tokens(small)) + grown
  BY <1>1, <1>2, GrownBy
<1>4. IsFiniteSet(Tokens(small)) => Cardinality(Tokens(small)) \in Nat
  BY FS_CardinalityType
<1>5. SupplyOK(small, supply) <=> SupplyOK(large, supply + grown)
  BY <1>1, <1>3, <1>4 DEF SupplyOK
<1> QED
  BY <1>5 DEF grown

(* Tokens that are added to a balance and to the supply.                   *)
LEMMA CreditedSupply ==
  ASSUME NEW b \in [Holder -> Nat], NEW supply \in Int, SupplyOK(b, supply),
         NEW h \in Holder, NEW amount \in Int, 0 <= amount
  PROVE  SupplyOK(Credit(b, h, amount), supply + amount)
<1> DEFINE c == Credit(b, h, amount)
<1>1. /\ c \in [Holder -> Nat] /\ c[h] = b[h] + amount
      /\ \A other \in Holder \ {h} : c[other] = b[other]
  BY CreditIs
<1> HIDE DEF c
<1>2. b[h] <= c[h] /\ c[h] - b[h] = amount
  BY <1>1
<1>3. SupplyOK(c, supply + (c[h] - b[h]))
  BY <1>1, <1>2, SupplyFollows
<1>4. SupplyOK(c, supply + amount)
  BY <1>2, <1>3
<1> QED
  BY <1>4 DEF c

(* Tokens that are taken from both.                                        *)
LEMMA DebitedSupply ==
  ASSUME NEW b \in [Holder -> Nat], NEW supply \in Int, SupplyOK(b, supply),
         NEW h \in Holder, NEW amount \in Int, 0 <= amount, amount <= b[h]
  PROVE  SupplyOK(Debit(b, h, amount), supply - amount)
<1> DEFINE c == Debit(b, h, amount)
<1>1. /\ c \in [Holder -> Nat] /\ c[h] = b[h] - amount
      /\ \A other \in Holder \ {h} : c[other] = b[other]
  BY DebitIs
<1> HIDE DEF c
<1>2. /\ c[h] <= b[h] /\ supply - amount \in Int
      /\ supply - amount + (b[h] - c[h]) = supply
      /\ \A other \in Holder \ {h} : b[other] = c[other]
  BY <1>1
<1>3. SupplyOK(c, supply - amount) <=> SupplyOK(b, supply - amount + (b[h] - c[h]))
  BY <1>1, <1>2, SupplyFollows
<1>4. SupplyOK(c, supply - amount)
  BY <1>2, <1>3
<1> QED
  BY <1>4 DEF c

(* Tokens that change hands.                                               *)
LEMMA MovedSupply ==
  ASSUME NEW b \in [Holder -> Nat], NEW supply \in Int, SupplyOK(b, supply),
         NEW from \in Holder, NEW to \in Holder,
         NEW amount \in Int, 0 <= amount, amount <= b[from]
  PROVE  SupplyOK(Moved(b, from, to, amount), supply)
<1> DEFINE c == Debit(b, from, amount)
<1>1. c \in [Holder -> Nat] /\ SupplyOK(c, supply - amount) /\ supply - amount \in Int
  BY DebitIs, DebitedSupply
<1> HIDE DEF c
<1>2. SupplyOK(Credit(c, to, amount), supply - amount + amount)
  BY <1>1, CreditedSupply
<1>3. SupplyOK(Credit(c, to, amount), supply)
  BY <1>2
<1> QED
  BY <1>3 DEF c, Moved

(* No holder has more than there is.                                       *)
LEMMA BalanceWithinSupply ==
  ASSUME TokenTypeOK, SupplyInv, NEW h \in Holder
  PROVE  balance[h] <= totalSupply
<1> DEFINE amount == balance[h]
<1>1. amount \in Nat
  BY DEF TokenTypeOK
<1>2. Between(h, 0, amount) \subseteq Tokens(balance)
  <2>1. \A u : u \in Between(h, 0, amount) => \E n \in 1..amount : u = <<h, n>>
    BY <1>1 DEF Between
  <2> QED
    BY <2>1, TokensAre
<1>3. /\ IsFiniteSet(Between(h, 0, amount))
      /\ Cardinality(Between(h, 0, amount)) = amount
  BY <1>1, BetweenIs
<1> HIDE DEF amount
<1>4. IsFiniteSet(Tokens(balance)) /\ totalSupply = Cardinality(Tokens(balance))
  BY DEF SupplyInv, SupplyOK
<1>5. Cardinality(Between(h, 0, amount)) <= Cardinality(Tokens(balance))
  BY <1>2, <1>4, FS_Subset
<1> QED
  BY <1>3, <1>4, <1>5 DEF amount

(* What any call, with or without the facets, may do to balances and       *)
(* supply.                                                                 *)
TokensMove ==
  \/ UNCHANGED <<balance, totalSupply>>
  \/ \E from \in Holder, to \in Holder, amount \in Int :
       /\ 0 <= amount /\ amount <= balance[from]
       /\ balance' = Moved(balance, from, to, amount)
       /\ totalSupply' = totalSupply
  \/ \E h \in Holder, amount \in Int :
       /\ 0 <= amount /\ amount <= balance[h]
       /\ balance' = Debit(balance, h, amount)
       /\ totalSupply' = totalSupply - amount
  \/ \E h \in Holder, amount \in Int :
       /\ 0 <= amount
       /\ \/ balance' = Credit(balance, Contract, amount)
          \/ balance' = Moved(Credit(balance, Contract, amount), Contract, h, amount)
       /\ totalSupply' = totalSupply + amount

(* Each of them keeps the supply what the holders have.                    *)
LEMMA MoveKeepsSupply ==
  ASSUME TokenTypeOK, SupplyInv, TokensMove
  PROVE  SupplyInv'
<1>1. /\ balance \in [Holder -> Nat] /\ totalSupply \in Int
      /\ SupplyOK(balance, totalSupply) /\ Contract \in Holder
  BY DEF TokenTypeOK, SupplyInv, Holder
<1>2. CASE UNCHANGED <<balance, totalSupply>>
  BY <1>1, <1>2 DEF SupplyInv
<1>3. ASSUME NEW from \in Holder, NEW to \in Holder, NEW amount \in Int,
             0 <= amount, amount <= balance[from],
             balance' = Moved(balance, from, to, amount), totalSupply' = totalSupply
      PROVE  SupplyInv'
  BY <1>1, <1>3, MovedSupply DEF SupplyInv
<1>4. ASSUME NEW h \in Holder, NEW amount \in Int, 0 <= amount, amount <= balance[h],
             balance' = Debit(balance, h, amount), totalSupply' = totalSupply - amount
      PROVE  SupplyInv'
  BY <1>1, <1>4, DebitedSupply DEF SupplyInv
<1>5. ASSUME NEW h \in Holder, NEW amount \in Int, 0 <= amount,
             \/ balance' = Credit(balance, Contract, amount)
             \/ balance' = Moved(Credit(balance, Contract, amount), Contract, h, amount),
             totalSupply' = totalSupply + amount
      PROVE  SupplyInv'
  <2> DEFINE minted == Credit(balance, Contract, amount)
  <2>1. /\ minted \in [Holder -> Nat] /\ amount <= minted[Contract]
        /\ SupplyOK(minted, totalSupply + amount)
    <3>1. minted \in [Holder -> Nat] /\ minted[Contract] = balance[Contract] + amount
      BY <1>1, <1>5, CreditIs
    <3>2. balance[Contract] \in Nat
      BY <1>1
    <3>3. SupplyOK(minted, totalSupply + amount)
      BY <1>1, <1>5, CreditedSupply
    <3> HIDE DEF minted
    <3> QED
      BY <1>5, <3>1, <3>2, <3>3
  <2>2. totalSupply + amount \in Int
    BY <1>1
  <2> HIDE DEF minted
  <2>3. SupplyOK(Moved(minted, Contract, h, amount), totalSupply + amount)
    BY <1>1, <1>5, <2>1, <2>2, MovedSupply
  <2>4. balance' = minted \/ balance' = Moved(minted, Contract, h, amount)
    BY <1>5 DEF minted
  <2> QED
    BY <1>5, <2>1, <2>3, <2>4 DEF SupplyInv
<1> QED
  BY <1>2, <1>3, <1>4, <1>5 DEF TokensMove

(* Locking tokens moves them to the treasury.                              *)
LEMMA LockMovesTokens ==
  ASSUME NEW holder \in Account, NEW hold \in HoldData, CreateHoldInternal(holder, hold)
  PROVE  TokensMove
<1>1. holder \in Holder /\ Contract \in Holder /\ hold.amount \in Int
  BY DEF Holder, HoldData
<1>2. /\ 0 <= hold.amount /\ hold.amount <= balance[holder]
      /\ balance' = Moved(balance, holder, Contract, hold.amount)
      /\ totalSupply' = totalSupply
  BY <1>1 DEF CreateHoldInternal, CanWipe
<1> QED
  BY <1>1, <1>2 DEF TokensMove

(* Paying out a hold moves them back out.                                  *)
LEMMA PaymentMovesTokens ==
  ASSUME NEW to \in Account, NEW amount \in Int, PayOut(to, amount)
  PROVE  TokensMove
<1>1. to \in Holder /\ Contract \in Holder
  BY DEF Holder
<1>2. /\ 0 <= amount /\ amount <= balance[Contract]
      /\ balance' = Moved(balance, Contract, to, amount)
      /\ totalSupply' = totalSupply
  BY DEF PayOut, CanTransfer
<1> QED
  BY <1>1, <1>2 DEF TokensMove

(* Cash-in, burn, wipe and rescue, and what a holder moves on its own.     *)
LEMMA CashMovesTokens ==
  ASSUME NEW caller \in Account, NEW account \in Holder, NEW amount \in Int,
         \/ Mint(caller, account, amount)
         \/ Burn(caller, amount)
         \/ Wipe(caller, account, amount)
         \/ Rescue(caller, amount)
         \/ UserTransfer(caller, account, amount)
  PROVE  TokensMove
<1>1. caller \in Holder /\ Contract \in Holder
  BY DEF Holder
<1>2. amount > 0
  BY DEF Mint, Burn, Wipe, Rescue, UserTransfer
<1>3. CASE Mint(caller, account, amount)
  <2>1. /\ totalSupply' = totalSupply + amount
        /\ \/ balance' = Credit(balance, Contract, amount)
           \/ balance' = Moved(Credit(balance, Contract, amount), Contract, account, amount)
    BY <1>3 DEF Mint
  <2> QED
    BY <1>2, <2>1 DEF TokensMove
<1>4. CASE Burn(caller, amount) \/ Wipe(caller, account, amount)
  <2>1. PICK h \in Holder : /\ amount <= balance[h]
                            /\ balance' = Debit(balance, h, amount)
                            /\ totalSupply' = totalSupply - amount
    BY <1>1, <1>4 DEF Burn, CanBurn, Wipe, CanWipe
  <2> QED
    BY <1>2, <2>1 DEF TokensMove
<1>5. CASE Rescue(caller, amount)
  BY <1>1, <1>2, <1>5 DEF Rescue, TokensMove
<1>6. CASE UserTransfer(caller, account, amount)
  <2>1. /\ amount <= balance[caller] /\ totalSupply' = totalSupply
        /\ balance' = Moved(balance, caller, account, amount)
    BY <1>6 DEF UserTransfer, CanTransfer
  <2> QED
    BY <1>1, <1>2, <2>1 DEF TokensMove
<1> QED
  BY <1>3, <1>4, <1>5, <1>6

(* So does every step of the stablecoin.                                   *)
LEMMA StepMovesTokens ==
  ASSUME LedgerInv, [Next]_vars
  PROVE  TokensMove
<1>1. CASE Administer \/ ReserveNext \/ UNCHANGED vars
  BY <1>1 DEF Administer, ReserveNext, vars, tokenVars, TokensMove
<1>2. CASE Environment
  <2>1. CASE Tick /\ UNCHANGED tokenVars
    BY <2>1 DEF tokenVars, TokensMove
  <2>2. ASSUME NEW from \in Account, NEW to \in Holder, NEW amount \in Amounts,
               UserTransfer(from, to, amount)
        PROVE  TokensMove
    <3>1. amount \in Int
      BY HoldAssumption
    <3> QED
      BY <2>2, <3>1, CashMovesTokens
  <2> QED
    BY <1>2, <2>1, <2>2 DEF Environment
<1>3. CASE Settle
  BY <1>3, EverySettlementPays, PaymentMovesTokens DEF Settle
<1>4. ASSUME NEW caller \in Account, NEW account \in Holder, NEW amount \in Amounts,
             \/ Mint(caller, account, amount)
             \/ Wipe(caller, account, amount)
             \/ Burn(caller, amount)
             \/ Rescue(caller, amount)
      PROVE  TokensMove
  <2>1. amount \in Int
    BY HoldAssumption
  <2> QED
    BY <1>4, <2>1, CashMovesTokens
<1>5. ASSUME NEW caller \in Account, NEW from \in Account, NEW hold \in NewHolds,
             \/ CreateHold(caller, hold)
             \/ CreateHoldByController(caller, from, hold)
      PROVE  TokensMove
  <2>1. hold \in HoldData
    BY HoldAssumption
  <2> QED
    BY <1>5, <2>1, LockMovesTokens DEF CreateHold, CreateHoldByController
<1>6. ASSUME NEW caller \in Account, NEW account \in Account,
             \/ Freeze(caller, account)
             \/ Unfreeze(caller, account)
             \/ GrantKyc(caller, account)
             \/ RevokeKyc(caller, account)
             \/ Pause(caller)
             \/ Unpause(caller)
             \/ DeleteToken(caller)
      PROVE  TokensMove
  BY <1>6 DEF Freeze, Unfreeze, GrantKyc, RevokeKyc, Pause, Unpause, DeleteToken, SetStatus,
              TokensMove
<1>7. Account \subseteq Holder
  BY DEF Holder
<1> QED
  BY <1>1, <1>2, <1>3, <1>4, <1>5, <1>6, <1>7 DEF Next

(* A token that is created has its supply in the treasury, and nothing     *)
(* anywhere else.                                                          *)
LEMMA SupplyInit ==
  ASSUME NEW supply \in Nat,
         NEW b, b = [h \in Holder |-> IF h = Contract THEN supply ELSE 0]
  PROVE  SupplyOK(b, supply)
<1> DEFINE none == [h \in Holder |-> 0]
<1>1. /\ none \in [Holder -> Nat] /\ b \in [Holder -> Nat] /\ Contract \in Holder
      /\ none[Contract] = 0 /\ b[Contract] = supply
      /\ \A h \in Holder : none[h] = 0
      /\ \A other \in Holder \ {Contract} : b[other] = none[other]
  BY DEF Holder
<1> HIDE DEF none
<1>2. SupplyOK(none, 0)
  <2>1. \A h \in Holder : 1..none[h] = {}
    BY <1>1
  <2>2. Tokens(none) = {}
    BY <2>1, TokensAre
  <2> QED
    BY <2>2, FS_EmptySet DEF SupplyOK
<1>3. none[Contract] <= b[Contract]
  BY <1>1
<1>4. SupplyOK(b, 0 + (b[Contract] - none[Contract]))
  BY <1>1, <1>2, <1>3, SupplyFollows
<1>5. 0 + (b[Contract] - none[Contract]) = supply
  BY <1>1
<1> QED
  BY <1>4, <1>5

(* In every reachable state there are as many tokens as the supply says,   *)
(* and finitely many.                                                      *)
THEOREM SupplyInvariance == Spec => []SupplyInv
<1>1. Init => SupplyInv
  BY SupplyInit, StableCoinAssumption DEF Init, TokenInit, SupplyInv
<1>2. Inv /\ SupplyInv /\ [Next]_vars => SupplyInv'
  BY StepMovesTokens, MoveKeepsSupply DEF Inv, LedgerInv
<1> QED
  BY <1>1, <1>2, Invariance, PTL DEF Spec

(* The supply is what all the holders have together: every cash-in, burn,  *)
(* wipe, rescue and hold accounts for each token it makes, moves or        *)
(* destroys (mint, burn, wipe, rescue, _createHoldInternal).               *)
THEOREM SupplyCorrect == Spec => []SupplyMatchesBalances
<1>1. SupplyInv => SupplyMatchesBalances
  BY DEF SupplyInv, SupplyOK, Tokens, SupplyMatchesBalances
<1> QED
  BY <1>1, SupplyInvariance, PTL
=============================================================================
