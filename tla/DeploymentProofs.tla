-------------------------- MODULE DeploymentProofs --------------------------
(***************************************************************************)
(* A stablecoin from before its deployment on, for any requests, feeds,    *)
(* accounts and bounds: the invariants of StableCoin hold of what the      *)
(* factory makes and of all that happens to it.  StableCoinProofs has the  *)
(* calls; left are the factory, the created reserve and its clock.         *)
(***************************************************************************)
EXTENDS Deployment, HoldSumsProofs

(* Before the deployment nothing is held, so that the treasury backs the   *)
(* holds with whatever the token is created with, and there is no reserve  *)
(* to be covered by.  The created reserve has an administrator only when   *)
(* the clock is old enough for the age its rounds claim.                   *)
DeploymentInv ==
  /\ Inv
  /\ ~deployed => totalHeld = 0 /\ reserveAddress = NoFeed
  /\ reserveAdmin \subseteq Account
  /\ reserveAdmin # {} => Age <= now

-----------------------------------------------------------------------------

(* A round of the created reserve is a round.                              *)
LEMMA RoundIs ==
  ASSUME NEW amount \in Int, NEW time \in Nat, Age <= time
  PROVE  Round(amount, time) \in [answer : Int, updatedAt : Nat]
<1>1. Age \in Nat
  BY DeploymentAssumption
<1>2. time - Age \in Nat
  BY <1>1
<1> QED
  BY <1>2 DEF Round

(* Before the deployment nobody has a role, an allowance or a token.       *)
LEMMA DeploymentInitSafe == DeploymentInit => DeploymentInv
<1> SUFFICES ASSUME DeploymentInit PROVE DeploymentInv
  OBVIOUS
<1>1. /\ hasRole = [r \in Role |-> {}]
      /\ SupplierInit({}, Unlimited) /\ TokenInit(0) /\ HoldInit /\ ReserveInit
      /\ rescued = 0 /\ reserveAdmin = {}
  BY DEF DeploymentInit
<1>2. AccessInv
  <2>1. allowance = [a \in Account |-> 0] /\ unlimited = {} /\ entitled = allowance
    BY <1>1 DEF SupplierInit
  <2>2. SupplierTypeOK
    BY <1>1, <2>1 DEF SupplierTypeOK, RolesTypeOK
  <2>3. UnlimitedHasNoAllowance /\ AllowanceWithinEntitlement
    BY <2>1 DEF UnlimitedHasNoAllowance, AllowanceWithinEntitlement
  <2> QED
    BY <2>2, <2>3 DEF AccessInv
<1>3. TokenTypeOK /\ balance[Contract] = 0
  <2>1. balance = [h \in Holder |-> 0]
    BY <1>1 DEF TokenInit
  <2>2. balance \in [Holder -> Nat] /\ balance[Contract] = 0
    BY <2>1 DEF Holder
  <2>3. /\ totalSupply \in Nat /\ frozen \subseteq Account /\ kyc \subseteq Holder
        /\ paused \in BOOLEAN /\ deleted \in BOOLEAN
    BY <1>1 DEF TokenInit, Holder
  <2> QED
    BY <2>2, <2>3 DEF TokenTypeOK
<1>4. HoldTypeOK /\ HoldRegistryConsistent /\ totalHeld = 0
  BY <1>1, HoldAssumption DEF HoldInit, HoldTypeOK, HoldId, HoldRegistryConsistent
<1>5. HoldsBackedUpToRescues
  BY <1>1, <1>3, <1>4 DEF HoldsBackedUpToRescues
<1>6. ReserveTypeOK
  <2>1. Answers \subseteq Int /\ {0} \subseteq Nat
    BY ReserveAssumption
  <2>2. ASSUME NEW round \in [answer : Answers, updatedAt : {0}]
        PROVE  round \in [answer : Int, updatedAt : Nat]
    BY <2>1, <2>2
  <2>3. feed \in [Feed -> [answer : Int, updatedAt : Nat]]
    BY <1>1, <2>2 DEF ReserveInit
  <2> QED
    BY <1>1, <2>3 DEF ReserveInit, ReserveTypeOK
<1> QED
  BY <1>1, <1>2, <1>3, <1>4, <1>5, <1>6 DEF DeploymentInv, Inv, LedgerInv, ReserveInit

(* The factory leaves a stablecoin in order.                               *)
LEMMA DeploySafe ==
  ASSUME DeploymentInv, NEW caller \in Account, NEW d \in Deployments,
         DeployStableCoin(caller, d)
  PROVE  DeploymentInv'
<1>1. /\ d.supply \in Nat /\ d.amount \in Int /\ d.threshold \in Nat
      /\ d.reserve \in Feed \cup {NoFeed}
      /\ d.cashin \subseteq Account /\ d.allowance \in Nat \cup {Unlimited}
      /\ Created \in Feed
  BY DeploymentAssumption
<1>2. /\ ~deployed /\ deployed'
      /\ HandleReserve(caller, d) /\ GrantInitialRoles(caller, d) /\ CreateToken(d)
      /\ updatedAtThreshold' = d.threshold
      /\ UNCHANGED <<holdVars, now, rescued>>
  BY DEF DeployStableCoin
<1>3. AccessInv'
  <2>1. hasRole' \in [Role -> SUBSET Account]
    <3>1. InitialRoles \in [Role -> SUBSET Account]
      BY StableCoinAssumption
    <3> QED
      BY <1>1, <1>2, <3>1 DEF GrantInitialRoles
  <2>2. /\ allowance' = [a \in Account |->
             IF a \in d.cashin /\ d.allowance # Unlimited THEN d.allowance ELSE 0]
        /\ unlimited' = IF d.allowance = Unlimited THEN d.cashin ELSE {}
        /\ entitled' = allowance'
    BY <1>2 DEF GrantInitialRoles
  <2>3. allowance' \in [Account -> Nat] /\ \A a \in unlimited' : allowance'[a] = 0
    <3>1. CASE d.allowance = Unlimited
      BY <1>1, <2>2, <3>1
    <3>2. CASE d.allowance # Unlimited
      BY <1>1, <2>2, <3>2
    <3> QED
      BY <3>1, <3>2
  <2>4. unlimited' \subseteq Account
    BY <1>1, <2>2
  <2>5. \A a \in Account : allowance'[a] <= entitled'[a]
    BY <2>2, <2>3
  <2> QED
    BY <2>1, <2>2, <2>3, <2>4, <2>5
      DEF AccessInv, SupplierTypeOK, RolesTypeOK,
          UnlimitedHasNoAllowance, AllowanceWithinEntitlement
<1>4. TokenTypeOK' /\ balance'[Contract] = d.supply
  <2>1. /\ balance' = [balance EXCEPT ![Contract] = d.supply]
        /\ totalSupply' = d.supply /\ UNCHANGED statusVars
    BY <1>2 DEF CreateToken
  <2>2. TokenTypeOK /\ Contract \in Holder
    BY DEF DeploymentInv, Inv, LedgerInv, Holder
  <2> QED
    BY <1>1, <2>1, <2>2 DEF TokenTypeOK, statusVars
<1>5. HoldTypeOK' /\ HoldRegistryConsistent' /\ totalHeld' = 0
  BY <1>2 DEF DeploymentInv, Inv, LedgerInv, HoldTypeOK, HoldRegistryConsistent, holdVars
<1>6. rescued' \in Nat /\ HoldsBackedUpToRescues'
  <2>1. rescued' \in Nat
    BY <1>2 DEF DeploymentInv, Inv, LedgerInv
  <2> QED
    BY <1>1, <1>4, <1>5, <2>1 DEF HoldsBackedUpToRescues
<1>7. /\ ReserveTypeOK' /\ reserveAdmin' \subseteq Account
      /\ reserveAdmin' # {} => Age <= now'
  <2>1. /\ ReserveTypeOK /\ now \in Nat /\ now' = now /\ Age \in Nat
        /\ reserveAdmin \subseteq Account /\ (reserveAdmin # {} => Age <= now)
    BY <1>2, HoldAssumption, DeploymentAssumption
      DEF DeploymentInv, Inv, LedgerInv, HoldTypeOK
  <2>2. CASE /\ now >= Age
             /\ reserveAddress' = Created
             /\ feed' = [feed EXCEPT ![Created] = Round(d.amount, now)]
             /\ reserveAdmin' = {caller}
    <3>1. Round(d.amount, now) \in [answer : Int, updatedAt : Nat]
      BY <1>1, <2>1, <2>2, RoundIs
    <3>2. feed' \in [Feed -> [answer : Int, updatedAt : Nat]]
      BY <2>1, <2>2, <3>1 DEF ReserveTypeOK
    <3> QED
      BY <1>1, <1>2, <2>1, <2>2, <3>2 DEF ReserveTypeOK
  <2>3. CASE reserveAddress' \in Feed \cup {NoFeed} /\ UNCHANGED <<feed, reserveAdmin>>
    BY <1>1, <1>2, <2>1, <2>3 DEF ReserveTypeOK
  <2>4. \/ /\ now >= Age
           /\ reserveAddress' = Created
           /\ feed' = [feed EXCEPT ![Created] = Round(d.amount, now)]
           /\ reserveAdmin' = {caller}
        \/ reserveAddress' \in Feed \cup {NoFeed} /\ UNCHANGED <<feed, reserveAdmin>>
    BY <1>1, <1>2 DEF HandleReserve
  <2> QED
    BY <2>2, <2>3, <2>4
<1> QED
  BY <1>2, <1>3, <1>4, <1>5, <1>6, <1>7 DEF DeploymentInv, Inv, LedgerInv

(* A call of the stablecoin is one that StableCoin knows.                  *)
LEMMA OperateSafe ==
  ASSUME DeploymentInv, Operate
  PROVE  DeploymentInv'
<1>1. Inv'
  BY StepSafe DEF Operate, DeploymentInv
<1>2. deployed' /\ UNCHANGED <<now, reserveAdmin>>
  BY DEF Operate
<1> QED
  BY <1>1, <1>2 DEF DeploymentInv

(* So is a round of a feed before the deployment.                          *)
LEMMA PublishSafe ==
  ASSUME DeploymentInv, Publish
  PROVE  DeploymentInv'
<1>1. PICK f \in Feed \ {Created}, answer \in Answers : FeedUpdates(f, answer, now)
  BY DEF Publish
<1>2. ReserveNext
  BY <1>1 DEF Publish, ReserveNext
<1>3. Inv'
  BY <1>2, StepSafe DEF DeploymentInv, Next
<1>4. UNCHANGED <<totalHeld, reserveAddress, now, deployed, reserveAdmin>>
  BY DEF Publish, FeedUpdates, holdVars
<1> QED
  BY <1>3, <1>4 DEF DeploymentInv

(* The administrator of the created reserve sets what it answers.          *)
LEMMA OperateReserveSafe ==
  ASSUME DeploymentInv, OperateReserve
  PROVE  DeploymentInv'
<1>1. UNCHANGED <<accessVars, tokenVars, holdVars, now, rescued>>
  BY DEF OperateReserve
<1>2. /\ Inv /\ ReserveTypeOK /\ now \in Nat /\ Created \in Feed /\ Answers \subseteq Int
      /\ reserveAdmin \subseteq Account /\ (reserveAdmin # {} => Age <= now)
  BY HoldAssumption, ReserveAssumption, DeploymentAssumption
    DEF DeploymentInv, Inv, LedgerInv, HoldTypeOK
<1>3. /\ ReserveTypeOK' /\ reserveAdmin' \subseteq Account
      /\ reserveAdmin # {}
  <2>1. PICK caller \in Account :
          \/ \E amount \in Answers : SetAmount(caller, amount)
          \/ \E account \in Account : SetAdmin(caller, account)
    BY DEF OperateReserve
  <2>2. ASSUME NEW amount \in Answers, SetAmount(caller, amount)
        PROVE  ReserveTypeOK' /\ reserveAdmin' \subseteq Account /\ reserveAdmin # {}
    <3>1. Age <= now
      BY <1>2, <2>2 DEF SetAmount
    <3>2. Round(amount, now) \in [answer : Int, updatedAt : Nat]
      BY <1>2, <3>1, RoundIs
    <3> QED
      BY <1>2, <2>2, <3>2 DEF SetAmount, ReserveTypeOK
  <2>3. ASSUME NEW account \in Account, SetAdmin(caller, account)
        PROVE  ReserveTypeOK' /\ reserveAdmin' \subseteq Account /\ reserveAdmin # {}
    BY <1>2, <2>3 DEF SetAdmin, ReserveTypeOK, reserveVars
  <2> QED
    BY <2>1, <2>2, <2>3
<1>4. AccessInv' /\ LedgerInv'
  BY <1>1, <1>2, Frames
<1>5. UNCHANGED <<totalHeld, reserveAddress, now, deployed>>
  BY DEF OperateReserve, SetAmount, SetAdmin, reserveVars, holdVars
<1> QED
  BY <1>2, <1>3, <1>4, <1>5 DEF DeploymentInv, Inv

(* The rounds of the created reserve stay as old as they claim.            *)
LEMMA ClockSafe ==
  ASSUME DeploymentInv, Clock
  PROVE  DeploymentInv'
<1>1. /\ Tick
      /\ UNCHANGED <<accessVars, tokenVars, holdVars, reserveAddress, updatedAtThreshold,
                     rescued, reserveAdmin>>
  BY DEF Clock
<1>2. /\ Inv /\ ReserveTypeOK /\ now \in 0..MaxTime /\ MaxTime \in Nat /\ Age \in Nat
      /\ Created \in Feed
      /\ reserveAdmin \subseteq Account /\ (reserveAdmin # {} => Age <= now)
  BY HoldAssumption, DeploymentAssumption DEF DeploymentInv, Inv, LedgerInv, HoldTypeOK
<1>3. now' \in 0..MaxTime /\ now' = now + 1 /\ now' \in Nat
  BY <1>1, <1>2 DEF Tick
<1>4. AccessInv'
  BY <1>1, <1>2, Frames
<1>5. LedgerInv'
  <2>1. TokenTypeOK' /\ rescued' \in Nat
    BY <1>1 DEF DeploymentInv, Inv, LedgerInv, TokenTypeOK, tokenVars
  <2>2. HoldTypeOK' /\ HoldRegistryConsistent' /\ HoldsBackedUpToRescues'
    BY <1>1, <1>3 DEF DeploymentInv, Inv, LedgerInv, HoldTypeOK, HoldRegistryConsistent,
                      HoldsBackedUpToRescues, holdVars, tokenVars
  <2> QED
    BY <2>1, <2>2 DEF LedgerInv
<1>6. ReserveTypeOK'
  <2>1. CASE reserveAdmin = {}
    <3>1. UNCHANGED reserveVars
      BY <1>1, <2>1 DEF Clock, reserveVars
    <3> QED
      BY <1>2, <3>1, Frames
  <2>2. CASE reserveAdmin # {}
    <3>1. feed[Created].answer \in Int /\ Age <= now'
      BY <1>2, <1>3, <2>2 DEF ReserveTypeOK
    <3>2. Round(feed[Created].answer, now') \in [answer : Int, updatedAt : Nat]
      BY <1>3, <3>1, RoundIs
    <3>3. feed' = [feed EXCEPT ![Created] = Round(feed[Created].answer, now')]
      BY <2>2 DEF Clock
    <3> QED
      BY <1>1, <1>2, <3>2, <3>3 DEF ReserveTypeOK
  <2> QED
    BY <2>1, <2>2
<1>7. /\ ~deployed' => totalHeld' = 0 /\ reserveAddress' = NoFeed
      /\ reserveAdmin' \subseteq Account
      /\ reserveAdmin' # {} => Age <= now'
  <2>1. UNCHANGED <<totalHeld, reserveAddress, deployed>>
    BY DEF Clock, holdVars
  <2> QED
    BY <1>1, <1>2, <1>3, <2>1 DEF DeploymentInv
<1> QED
  BY <1>4, <1>5, <1>6, <1>7 DEF DeploymentInv, Inv

-----------------------------------------------------------------------------

(* The invariant holds from before the deployment on.                      *)
THEOREM DeploymentInvariance == DeploymentSpec => []DeploymentInv
<1>1. DeploymentInv /\ [DeploymentNext]_deploymentVars => DeploymentInv'
  <2> SUFFICES ASSUME DeploymentInv, [DeploymentNext]_deploymentVars
               PROVE  DeploymentInv'
    OBVIOUS
  <2>1. CASE \E caller \in Account, d \in Deployments : DeployStableCoin(caller, d)
    BY <2>1, DeploySafe
  <2>2. CASE Operate \/ Publish
    BY <2>2, OperateSafe, PublishSafe
  <2>3. CASE OperateReserve
    BY <2>3, OperateReserveSafe
  <2>4. CASE Clock
    BY <2>4, ClockSafe
  <2>5. CASE UNCHANGED deploymentVars
    <3>1. UNCHANGED vars /\ UNCHANGED <<deployed, reserveAdmin>>
      BY <2>5 DEF deploymentVars
    <3>2. Inv'
      BY <3>1, StepSafe DEF DeploymentInv
    <3>3. UNCHANGED <<totalHeld, reserveAddress, now>>
      BY <3>1 DEF vars, holdVars, reserveVars
    <3> QED
      BY <3>1, <3>2, <3>3 DEF DeploymentInv
  <2> QED
    BY <2>1, <2>2, <2>3, <2>4, <2>5 DEF DeploymentNext
<1> QED
  BY DeploymentInitSafe, <1>1, PTL DEF DeploymentSpec

(* Every state on the way to a deployment and after it is well typed: the  *)
(* factory stores what the facets expect to find (initialize), and no      *)
(* round of the created reserve is older than the clock.                   *)
THEOREM DeploymentTypeCorrect == DeploymentSpec => []TypeOK
<1>1. DeploymentInv => TypeOK
  BY DEF DeploymentInv, Inv, AccessInv, LedgerInv, TypeOK
<1> QED
  BY DeploymentInvariance, <1>1, PTL

(* What is held is in the treasury but for what was rescued, whatever the  *)
(* factory put there to begin with (getBurnableAmount, rescue).            *)
THEOREM DeploymentBackingCorrect == DeploymentSpec => []HoldsBackedUpToRescues
<1>1. DeploymentInv => HoldsBackedUpToRescues
  BY DEF DeploymentInv, Inv, LedgerInv
<1> QED
  BY DeploymentInvariance, <1>1, PTL

(* A supplier made by the factory or by an administrator has an allowance  *)
(* or none to respect, never both (_grantInitialRoles,                     *)
(* _grantUnlimitedSupplierRole).                                           *)
THEOREM DeploymentUnlimitedCorrect == DeploymentSpec => []UnlimitedHasNoAllowance
<1>1. DeploymentInv => UnlimitedHasNoAllowance
  BY DEF DeploymentInv, Inv, AccessInv
<1> QED
  BY DeploymentInvariance, <1>1, PTL

(* No supplier of a deployed stablecoin may cash in more than it was       *)
(* granted, at the deployment or since, and has not cashed in yet.         *)
THEOREM DeploymentAllowanceCorrect == DeploymentSpec => []AllowanceWithinEntitlement
<1>1. DeploymentInv => AllowanceWithinEntitlement
  BY DEF DeploymentInv, Inv, AccessInv
<1> QED
  BY DeploymentInvariance, <1>1, PTL
-----------------------------------------------------------------------------
(* Holds and supply                                                        *)

(* Before the deployment there is no token: nobody has any, and nothing    *)
(* halts it.                                                               *)
NoTokenYet ==
  ~deployed => balance = [h \in Holder |-> 0] /\ totalSupply = 0 /\ Usable

(* The factory finds no token and leaves the supply to start with in the   *)
(* treasury, all else that happens to tokens and holds is what the calls of*)
(* the stablecoin do.                                                      *)
LEMMA DeploymentMoves ==
  ASSUME DeploymentInv, [DeploymentNext]_deploymentVars
  PROVE  /\ HoldsMove
         /\ \/ /\ TokensMove
               /\ UNCHANGED <<balance, totalSupply, paused, deleted, deployed>> \/ deployed'
            \/ \E d \in Deployments :
                 /\ ~deployed /\ deployed'
                 /\ balance' = [balance EXCEPT ![Contract] = d.supply]
                 /\ totalSupply' = d.supply
<1>1. CASE \E caller \in Account, d \in Deployments : DeployStableCoin(caller, d)
  <2>1. PICK caller \in Account, d \in Deployments : DeployStableCoin(caller, d)
    BY <1>1
  <2>2. UNCHANGED holdVars /\ ~deployed /\ deployed' /\ CreateToken(d)
    BY <2>1 DEF DeployStableCoin
  <2> QED
    BY <2>2 DEF CreateToken, HoldsMove
<1>2. CASE Operate
  <2>1. LedgerInv /\ [Next]_vars /\ deployed'
    BY <1>2 DEF Operate, DeploymentInv, Inv
  <2> QED
    BY <2>1, StepMovesHolds, StepMovesTokens
<1>3. CASE Publish \/ OperateReserve \/ Clock \/ UNCHANGED deploymentVars
  <2>1. /\ UNCHANGED holdVars
        /\ UNCHANGED <<balance, totalSupply, paused, deleted, deployed>>
    BY <1>3 DEF Publish, OperateReserve, Clock, deploymentVars, vars, tokenVars, statusVars
  <2> QED
    BY <2>1 DEF HoldsMove, TokensMove
<1> QED
  BY <1>1, <1>2, <1>3 DEF DeploymentNext

(* The token is created with its supply in the treasury.                   *)
LEMMA CreationKeepsSupply ==
  ASSUME NoTokenYet, ~deployed, NEW d \in Deployments,
         balance' = [balance EXCEPT ![Contract] = d.supply],
         totalSupply' = d.supply
  PROVE  SupplyInv'
<1>1. d.supply \in Nat
  BY DeploymentAssumption
<1>2. balance' = [h \in Holder |-> IF h = Contract THEN d.supply ELSE 0]
  BY DEF NoTokenYet
<1>3. SupplyOK(balance', d.supply)
  BY <1>1, <1>2, SupplyInit
<1> QED
  BY <1>3 DEF SupplyInv, SupplyOK

(* The token of a factory is accounted for from the start: the holds sum   *)
(* up to what is recorded as held, and supply and balances are of the same *)
(* tokens.                                                                 *)
THEOREM DeploymentSums == DeploymentSpec => [](NoTokenYet /\ SumsInv /\ SupplyInv)
<1>1. DeploymentInit => NoTokenYet /\ SumsInv /\ SupplyInv
  <2> SUFFICES ASSUME DeploymentInit PROVE NoTokenYet /\ SumsInv /\ SupplyInv
    OBVIOUS
  <2>1. /\ balance = [h \in Holder |-> 0] /\ totalSupply = 0 /\ HoldInit
        /\ paused = FALSE /\ deleted = FALSE
    BY DEF DeploymentInit, TokenInit
  <2>2. balance = [h \in Holder |-> IF h = Contract THEN 0 ELSE 0]
    BY <2>1
  <2>3. SupplyOK(balance, 0)
    BY <2>2, SupplyInit
  <2> QED
    BY <2>1, <2>3, SumsInit DEF NoTokenYet, Usable, SupplyInv
<1>2. ASSUME DeploymentInv, NoTokenYet, SumsInv, SupplyInv, [DeploymentNext]_deploymentVars
      PROVE  NoTokenYet' /\ SumsInv' /\ SupplyInv'
  <2>1. LedgerInv /\ TokenTypeOK /\ HoldsMove
    BY <1>2, DeploymentMoves DEF DeploymentInv, Inv, LedgerInv
  <2>2. SumsInv'
    BY <1>2, <2>1, MoveKeepsSums
  <2>3. CASE /\ TokensMove
             /\ UNCHANGED <<balance, totalSupply, paused, deleted, deployed>> \/ deployed'
    <3>1. SupplyInv'
      BY <1>2, <2>1, <2>3, MoveKeepsSupply
    <3>2. NoTokenYet'
      BY <1>2, <2>3 DEF NoTokenYet, Usable
    <3> QED
      BY <2>2, <3>1, <3>2
  <2>4. CASE \E d \in Deployments :
               /\ ~deployed /\ deployed'
               /\ balance' = [balance EXCEPT ![Contract] = d.supply]
               /\ totalSupply' = d.supply
    <3>1. SupplyInv'
      BY <1>2, <2>4, CreationKeepsSupply
    <3>2. NoTokenYet'
      BY <2>4 DEF NoTokenYet
    <3> QED
      BY <2>2, <3>1, <3>2
  <2> QED
    BY <1>2, <2>3, <2>4, DeploymentMoves
<1> QED
  BY <1>1, <1>2, DeploymentInvariance, PTL DEF DeploymentSpec

(* The supply of a deployed token is what its holders have, whatever it was*)
(* created with (createFungibleToken, mint, burn, wipe).                   *)
THEOREM DeploymentSupplyCorrect == DeploymentSpec => []SupplyMatchesBalances
<1>1. SupplyInv => SupplyMatchesBalances
  BY DEF SupplyInv, SupplyOK, SupplyMatchesBalances, Tokens
<1> QED
  BY DeploymentSums, <1>1, PTL

(* What is recorded as held for each holder and in all is the sum of the   *)
(* holds, in every stablecoin that the factory makes.                      *)
THEOREM DeploymentHoldSumsCorrect ==
  DeploymentSpec => [](AccountTotalMatchesHolds /\ TotalMatchesHolds)
<1>1. DeploymentInv /\ SumsInv => AccountTotalMatchesHolds /\ TotalMatchesHolds
  BY SumsAreTotals DEF DeploymentInv, Inv
<1> QED
  BY DeploymentInvariance, DeploymentSums, <1>1, PTL

(* So do the list of the ids of a holder and its holds agree               *)
(* (holdIdsByAccount, setHoldIdByAccount).                                 *)
THEOREM DeploymentRecordsCorrect == DeploymentSpec => []HoldRegistryConsistent
<1>1. DeploymentInv => HoldRegistryConsistent
  BY DEF DeploymentInv, Inv, LedgerInv
<1> QED
  BY DeploymentInvariance, <1>1, PTL

(* Nothing that happens around a deployment pays a hold to anyone but its  *)
(* parties.                                                                *)
THEOREM DeploymentPaymentsCorrect == DeploymentSpec => HoldPaysItsParties
<1>1. ASSUME DeploymentInv, [DeploymentNext]_deploymentVars
      PROVE  \A a \in Account, id \in HoldId :
               LET paid == AmountOf(holds[a][id]) - AmountOf(holds'[a][id])
               IN holds[a][id] # NoHold /\ paid # 0 =>
                    \E h \in Account :
                      /\ balance'[h] = balance[h] + paid
                      /\ h # a => /\ now < holds[a][id].expiration
                                  /\ holds[a][id].to \in {NoAddress, h}
  BY <1>1, DeploymentMoves, MovePaysParties DEF DeploymentInv, Inv
<1> QED
  BY DeploymentInvariance, <1>1, PTL DEF DeploymentSpec, HoldPaysItsParties

(* Nor is an id given twice, or a holder debited for more than is locked.  *)
THEOREM DeploymentHoldsCorrect ==
  DeploymentSpec => HoldIdsAreNeverReused /\ LockingConservesTokens
<1>1. ASSUME DeploymentInv, [DeploymentNext]_deploymentVars
      PROVE  /\ \A a \in Account, id \in HoldId :
                  id <= nextHoldId[a] /\ id \notin holdIds[a] => id \notin holdIds'[a]
             /\ \A a \in Account : heldByAccount'[a] > heldByAccount[a] =>
                  /\ balance'[a] + heldByAccount'[a] = balance[a] + heldByAccount[a]
                  /\ totalSupply' = totalSupply
                  /\ \A h \in Account \ {a} : balance'[h] = balance[h]
  BY <1>1, DeploymentMoves, MoveKeepsIds, MoveConservesTokens DEF DeploymentInv, Inv
<1> QED
  BY DeploymentInvariance, <1>1, PTL
    DEF DeploymentSpec, HoldIdsAreNeverReused, LockingConservesTokens

(* A mint never goes over the reserve in use, the first one, which the     *)
(* factory makes with the token, included.                                 *)
THEOREM DeploymentReserveCorrect == DeploymentSpec => MintWithinReserve
<1>1. ASSUME DeploymentInv, [DeploymentNext]_deploymentVars
      PROVE  totalSupply' > totalSupply /\ reserveAddress # NoFeed
               => CoveredByReserve(totalSupply')
  <2>1. CASE \E caller \in Account, d \in Deployments : DeployStableCoin(caller, d)
    BY <1>1, <2>1 DEF DeploymentInv, DeployStableCoin
  <2>2. CASE Operate
    <3>1. Inv /\ [Next]_vars /\ ReserveTypeOK /\ totalSupply \in Nat /\ totalSupply' \in Nat
      BY <1>1, <2>2, StepSafe
        DEF Operate, DeploymentInv, Inv, LedgerInv, TokenTypeOK
    <3>2. CASE totalSupply' <= totalSupply
      BY <3>1, <3>2
    <3>3. CASE \E amount \in Int : /\ CheckReserveAmount(amount, totalSupply, now)
                                   /\ totalSupply' = totalSupply + amount
                                   /\ UNCHANGED reserveVars
      BY <3>1, <3>3, CheckedIsCovered
    <3> QED
      BY <3>1, <3>2, <3>3, OnlyMintRaisesSupply
  <2>3. CASE Publish \/ OperateReserve \/ Clock \/ UNCHANGED deploymentVars
    <3>1. totalSupply' = totalSupply /\ totalSupply \in Nat
      BY <1>1, <2>3
        DEF Publish, OperateReserve, Clock, deploymentVars, vars, tokenVars,
            DeploymentInv, Inv, LedgerInv, TokenTypeOK
    <3> QED
      BY <3>1
  <2> QED
    BY <1>1, <2>1, <2>2, <2>3 DEF DeploymentNext
<1> QED
  BY DeploymentInvariance, <1>1, PTL DEF DeploymentSpec, MintWithinReserve
-----------------------------------------------------------------------------
(* Cover                                                                   *)

(* The factory creates no more than the reserve covers, whether it creates *)
(* the reserve or takes one that exists.                                   *)
LEMMA FactoryCovers ==
  ASSUME DeploymentInv, NEW caller \in Account, NEW d \in Deployments,
         DeployStableCoin(caller, d)
  PROVE  Covered'
<1>1. /\ d.supply \in Int /\ d.amount \in Int /\ d.reserve \in Feed \cup {NoFeed}
      /\ Created \in Feed
  BY DeploymentAssumption
<1>2. totalSupply' = d.supply /\ ReserveTypeOK
  BY DEF DeployStableCoin, CreateToken, DeploymentInv, Inv
<1>3. CASE /\ ValidationReserveInitialAmount(Created, d.amount, d.supply)
           /\ reserveAddress' = Created
           /\ feed' = [feed EXCEPT ![Created] = Round(d.amount, now)]
  <2>1. feed'[Created].answer = d.amount
    BY <1>1, <1>2, <1>3 DEF ReserveTypeOK, Round
  <2>2. d.supply * Power[ReserveDecimals[Created]] <= d.amount * Power[TokenDecimals]
    BY <1>1, <1>3, ScalingIs DEF ValidationReserveInitialAmount
  <2> QED
    BY <1>2, <1>3, <2>1, <2>2 DEF Covered, CoveredByReserve
<1>4. CASE /\ d.reserve # NoFeed
           /\ ValidationReserveInitialAmount(d.reserve, feed[d.reserve].answer, d.supply)
           /\ reserveAddress' = d.reserve
           /\ feed' = feed
  <2>1. d.reserve \in Feed /\ feed[d.reserve].answer \in Int
    BY <1>1, <1>2, <1>4 DEF ReserveTypeOK
  <2>2. d.supply * Power[ReserveDecimals[d.reserve]]
          <= feed[d.reserve].answer * Power[TokenDecimals]
    BY <1>1, <1>4, <2>1, ScalingIs DEF ValidationReserveInitialAmount
  <2> QED
    BY <1>2, <1>4, <2>2 DEF Covered, CoveredByReserve
<1>5. CASE reserveAddress' = NoFeed
  BY <1>5 DEF Covered
<1> QED
  BY <1>3, <1>4, <1>5 DEF DeployStableCoin, HandleReserve

(* What is covered stays so while the supply does not grow and the feed in *)
(* use does not answer less.                                               *)
LEMMA CoverIsMonotone ==
  ASSUME DeploymentInv, DeploymentInv', Covered, reserveAddress' = reserveAddress,
         totalSupply' <= totalSupply,
         ~(feed'[reserveAddress].answer < feed[reserveAddress].answer)
  PROVE  Covered'
<1> SUFFICES ASSUME reserveAddress # NoFeed
             PROVE  Covered'
  BY DEF Covered
<1> DEFINE f == reserveAddress
           before == feed[f].answer
           after == feed'[f].answer
<1>1. /\ totalSupply \in Nat /\ totalSupply' \in Nat /\ f \in Feed
      /\ before \in Int /\ after \in Int
  BY DEF DeploymentInv, Inv, LedgerInv, TokenTypeOK, ReserveTypeOK
<1>2. Power[ReserveDecimals[f]] \in Nat \ {0} /\ Power[TokenDecimals] \in Nat \ {0}
  BY <1>1, ReserveAssumption, PowerPositive
<1>3. totalSupply * Power[ReserveDecimals[f]] <= before * Power[TokenDecimals]
  BY DEF Covered, CoveredByReserve
<1>4. totalSupply' * Power[ReserveDecimals[f]] <= totalSupply * Power[ReserveDecimals[f]]
  BY <1>1, <1>2, TimesBoth
<1>5. before * Power[TokenDecimals] <= after * Power[TokenDecimals]
  BY <1>1, <1>2, TimesBoth
<1>6. /\ totalSupply * Power[ReserveDecimals[f]] \in Int
      /\ totalSupply' * Power[ReserveDecimals[f]] \in Int
      /\ before * Power[TokenDecimals] \in Int /\ after * Power[TokenDecimals] \in Int
  BY <1>1, <1>2
<1>7. totalSupply' * Power[ReserveDecimals[f]] <= after * Power[TokenDecimals]
  BY <1>3, <1>4, <1>5, <1>6
<1> QED
  BY <1>7 DEF Covered, CoveredByReserve

(* No call of the stablecoin uncovers it.                                  *)
LEMMA OperateCovers ==
  ASSUME DeploymentInv, Operate, Covered, reserveAddress' = reserveAddress,
         ~(feed'[reserveAddress].answer < feed[reserveAddress].answer)
  PROVE  Covered'
<1>1. DeploymentInv'
  BY OperateSafe
<1>2. \/ totalSupply' <= totalSupply
      \/ \E amount \in Int : /\ CheckReserveAmount(amount, totalSupply, now)
                             /\ totalSupply' = totalSupply + amount
                             /\ UNCHANGED reserveVars
  BY OnlyMintRaisesSupply DEF Operate, DeploymentInv
<1>3. CASE totalSupply' <= totalSupply
  BY <1>1, <1>3, CoverIsMonotone
<1>4. ASSUME NEW amount \in Int, CheckReserveAmount(amount, totalSupply, now),
             totalSupply' = totalSupply + amount, UNCHANGED reserveVars
      PROVE  Covered'
  <2>1. ReserveTypeOK /\ totalSupply \in Nat
    BY DEF DeploymentInv, Inv, LedgerInv, TokenTypeOK
  <2>2. reserveAddress # NoFeed => CoveredByReserve(totalSupply + amount)
    BY <1>4, <2>1, CheckedIsCovered
  <2> QED
    BY <1>4, <2>2 DEF Covered, CoveredByReserve, reserveVars
<1> QED
  BY <1>2, <1>3, <1>4

(* A stablecoin starts covered by its reserve and no call of it uncovers   *)
(* it, in whatever decimals: the factory and the facet scale to the same   *)
(* side (_validationReserveInitialAmount, _checkReserveAmount).            *)
THEOREM CoverCorrect == DeploymentSpec => CoverLostOnlyToTheFeed
<1>1. ASSUME DeploymentInv, DeploymentInv', [DeploymentNext]_deploymentVars
      PROVE  [\/ Covered'
              \/ /\ deployed
                 /\ \/ ~Covered
                    \/ reserveAddress' # reserveAddress
                    \/ feed'[reserveAddress].answer < feed[reserveAddress].answer]_deploymentVars
  <2> SUFFICES ASSUME ~UNCHANGED deploymentVars,
                      \/ ~deployed
                      \/ /\ Covered /\ reserveAddress' = reserveAddress
                         /\ ~(feed'[reserveAddress].answer < feed[reserveAddress].answer)
               PROVE  Covered'
    OBVIOUS
  <2>1. CASE \E caller \in Account, d \in Deployments : DeployStableCoin(caller, d)
    BY <1>1, <2>1, FactoryCovers
  <2>2. CASE Operate
    <3>1. deployed
      BY <2>2 DEF Operate
    <3> QED
      BY <1>1, <2>2, <3>1, OperateCovers
  <2>3. CASE Publish \/ OperateReserve \/ Clock
    <3>1. UNCHANGED <<reserveAddress, totalSupply, deployed>>
      BY <2>3 DEF Publish, OperateReserve, Clock, FeedUpdates, SetAmount, SetAdmin,
                  reserveVars, tokenVars
    <3>2. CASE ~deployed
      BY <1>1, <3>1, <3>2 DEF DeploymentInv, Covered
    <3>3. CASE deployed
      <4>1. totalSupply' <= totalSupply
        BY <1>1, <3>1 DEF DeploymentInv, Inv, LedgerInv, TokenTypeOK
      <4> QED
        BY <1>1, <3>3, <4>1, CoverIsMonotone
    <3> QED
      BY <3>2, <3>3
  <2> QED
    BY <1>1, <2>1, <2>2, <2>3 DEF DeploymentNext
<1> QED
  BY DeploymentInvariance, <1>1, PTL DEF DeploymentSpec, CoverLostOnlyToTheFeed
-----------------------------------------------------------------------------
(* What the factory accepts                                                *)

(* What the factory makes of a request it accepts: one value for every     *)
(* variable.                                                               *)
FactoryEffect(caller, d) ==
  /\ IF d.createReserve
       THEN /\ reserveAddress' = Created
            /\ feed' = [feed EXCEPT ![Created] = Round(d.amount, now)]
            /\ reserveAdmin' = {caller}
       ELSE reserveAddress' = d.reserve /\ UNCHANGED <<feed, reserveAdmin>>
  /\ hasRole' = [r \in Role |->
       InitialRoles[r] \cup (IF r = ADMIN_ROLE THEN {caller} ELSE {})
                       \cup (IF r = CASHIN_ROLE THEN d.cashin ELSE {})]
  /\ allowance' = [a \in Account |->
       IF a \in d.cashin /\ d.allowance # Unlimited THEN d.allowance ELSE 0]
  /\ unlimited' = IF d.allowance = Unlimited THEN d.cashin ELSE {}
  /\ entitled' = allowance'
  /\ balance' = [balance EXCEPT ![Contract] = d.supply]
  /\ totalSupply' = d.supply
  /\ updatedAtThreshold' = d.threshold
  /\ deployed' = TRUE
  /\ UNCHANGED <<statusVars, holdVars, now, rescued>>

(* A request is carried out exactly when it is accepted, whoever sends it, *)
(* so that `accepted' below is what deployStableCoin does and no more than *)
(* a name for it.                                                          *)
THEOREM AcceptedIsDeployed ==
  ASSUME NEW caller \in Account, NEW d \in Deployments
  PROVE  DeployStableCoin(caller, d) <=> FactoryAccepts(d) /\ FactoryEffect(caller, d)
<1>1. d.createReserve \in BOOLEAN
  BY DeploymentAssumption
<1> DEFINE ReserveTaken ==
             /\ d.createReserve =>
                  now >= Age /\ ValidationReserveInitialAmount(Created, d.amount, d.supply)
             /\ ~d.createReserve /\ d.reserve # NoFeed =>
                  LET round == feed[d.reserve]
                  IN /\ round.updatedAt <= now
                     /\ d.threshold > 0 => now - round.updatedAt <= d.threshold
                     /\ ValidationReserveInitialAmount(d.reserve, round.answer, d.supply)
           ReserveMade ==
             IF d.createReserve
               THEN /\ reserveAddress' = Created
                    /\ feed' = [feed EXCEPT ![Created] = Round(d.amount, now)]
                    /\ reserveAdmin' = {caller}
               ELSE reserveAddress' = d.reserve /\ UNCHANGED <<feed, reserveAdmin>>
<1>2. HandleReserve(caller, d) <=> ReserveTaken /\ ReserveMade
  <2>1. CASE d.createReserve
    BY <2>1 DEF HandleReserve
  <2>2. CASE ~d.createReserve /\ d.reserve # NoFeed
    BY <2>2 DEF HandleReserve
  <2>3. CASE ~d.createReserve /\ d.reserve = NoFeed
    BY <2>3 DEF HandleReserve
  <2> QED
    BY <1>1, <2>1, <2>2, <2>3
<1>3. FactoryAccepts(d) <=> /\ ~deployed /\ ReserveTaken
                            /\ d.cashin # {} => d.allowance # 0
                            /\ SupplyIsValid(d)
  BY DEF FactoryAccepts
<1>4. FactoryEffect(caller, d) <=>
        /\ ReserveMade
        /\ hasRole' = [r \in Role |->
             InitialRoles[r] \cup (IF r = ADMIN_ROLE THEN {caller} ELSE {})
                             \cup (IF r = CASHIN_ROLE THEN d.cashin ELSE {})]
        /\ allowance' = [a \in Account |->
             IF a \in d.cashin /\ d.allowance # Unlimited THEN d.allowance ELSE 0]
        /\ unlimited' = IF d.allowance = Unlimited THEN d.cashin ELSE {}
        /\ entitled' = allowance'
        /\ balance' = [balance EXCEPT ![Contract] = d.supply]
        /\ totalSupply' = d.supply
        /\ updatedAtThreshold' = d.threshold
        /\ deployed' = TRUE
        /\ UNCHANGED <<statusVars, holdVars, now, rescued>>
  BY Zenon DEF FactoryEffect
<1> HIDE DEF ReserveTaken, ReserveMade
<1> QED
  BY <1>2, <1>3, <1>4, Zenon DEF DeployStableCoin, GrantInitialRoles, CreateToken
-----------------------------------------------------------------------------
(* What the SDK lets through                                               *)

(* What the adapters make of a request, field by field.                    *)
LEMMA TokenStructIs ==
  ASSUME NEW r \in CreateRequests
  PROVE  /\ TokenStruct(r) \in Deployments
         /\ TokenStruct(r).supply = r.supply
         /\ TokenStruct(r).maxSupply = IF r.maxSupply = Omitted THEN 0 ELSE r.maxSupply
         /\ TokenStruct(r).finite = (\/ r.supplyType = "FINITE"
                                     \/ /\ r.supplyType = Omitted
                                        /\ r.maxSupply \notin {Omitted, 0})
         /\ TokenStruct(r).createReserve = r.createReserve
         /\ TokenStruct(r).reserve = r.reserve
         /\ TokenStruct(r).amount = IF r.amount = Omitted THEN 0 ELSE r.amount
         /\ TokenStruct(r).threshold = r.threshold
         /\ TokenStruct(r).cashin = r.cashin
         /\ TokenStruct(r).allowance = IF r.allowance = 0 THEN Unlimited ELSE r.allowance
  BY RequestAssumption DEF TokenStruct

(* Of the fields they pass on as they are the types are those of Deployments.*)
LEMMA RequestTypes ==
  ASSUME NEW r \in CreateRequests
  PROVE  /\ r.supply \in Nat /\ r.createReserve \in BOOLEAN
         /\ r.reserve \in Feed \cup {NoFeed}
         /\ r.maxSupply \in Nat \cup {Omitted} /\ r.amount \in Int \cup {Omitted}
         /\ r.supplyType \in {"FINITE", "INFINITE", Omitted}
<1>1. /\ TokenStruct(r).supply \in Nat /\ TokenStruct(r).createReserve \in BOOLEAN
      /\ TokenStruct(r).reserve \in Feed \cup {NoFeed}
  BY TokenStructIs, DeploymentAssumption
<1> QED
  BY <1>1, TokenStructIs, RequestAssumption

(* The decimals of both, in which CreateRequest compares, are the scale    *)
(* that the factory compares on.                                           *)
LEMMA InCommonDecimalsIs ==
  ASSUME NEW supply \in Int, NEW amount \in Int
  PROVE  /\ InCommonDecimals(supply, TokenDecimals, RESERVE_DECIMALS)
              = supply * ReserveUnit(Created)
         /\ InCommonDecimals(amount, RESERVE_DECIMALS, TokenDecimals)
              = amount * TokenUnit(Created)
         /\ TokenUnit(Created) \in Nat \ {0} /\ ReserveUnit(Created) \in Nat \ {0}
<1>1. /\ Created \in Feed /\ ReserveDecimals[Created] = RESERVE_DECIMALS
      /\ TokenDecimals \in Nat /\ RESERVE_DECIMALS \in Nat
  BY DeploymentAssumption, ReserveAssumption
<1>2. InCommonDecimals(supply, TokenDecimals, RESERVE_DECIMALS)
        = supply * ReserveUnit(Created)
  BY <1>1 DEF InCommonDecimals, ReserveUnit
<1>3. InCommonDecimals(amount, RESERVE_DECIMALS, TokenDecimals)
        = amount * TokenUnit(Created)
  BY <1>1 DEF InCommonDecimals, TokenUnit
<1>4. TokenUnit(Created) \in Nat \ {0} /\ ReserveUnit(Created) \in Nat \ {0}
  BY <1>1, PowerPositive DEF TokenUnit, ReserveUnit
<1> QED
  BY <1>2, <1>3, <1>4

(* The whole part in tokens of an amount that is not negative, and the     *)
(* units it starts from.                                                   *)
LEMMA WholeTokensIs ==
  ASSUME NEW n \in Nat, NEW decimals \in Nat
  PROVE  /\ WholeTokens(n, decimals) = n \div Power[decimals]
         /\ WholeTokens(n, decimals) \in Nat
         /\ WholeTokens(n, decimals) * Power[decimals] <= n
         /\ n % Power[decimals] = 0 => n = WholeTokens(n, decimals) * Power[decimals]
<1>1. Power[decimals] \in Nat \ {0}
  BY PowerPositive
<1>2. WholeTokens(n, decimals) = n \div Power[decimals]
  BY DEF WholeTokens
<1> DEFINE p == Power[decimals]
<1> HIDE DEF p
<1>3. p \in Nat \ {0}
  BY <1>1 DEF p
<1>4. n \div p \in Nat /\ n % p \in Nat
  BY <1>3
<1>5. n = (n \div p) * p + (n % p)
  BY <1>3
<1>6. (n \div p) * p \in Nat
  BY <1>3, <1>4
<1> DEFINE w == n \div p
           wp == w * p
           rest == n % p
<1>7. w \in Nat /\ wp \in Nat /\ rest \in Nat /\ n = wp + rest
  BY <1>4, <1>5, <1>6
<1>8. wp <= n /\ (rest = 0 => n = wp)
  <2> HIDE DEF wp, rest
  <2> QED
    BY <1>7
<1>9. w \in Nat /\ w * p <= n /\ (n % p = 0 => n = w * p)
  BY <1>7, <1>8
<1> HIDE DEF w
<1>10. WholeTokens(n, decimals) = w
  BY <1>2 DEF w, p
<1> QED
  BY <1>2, <1>9, <1>10 DEF p

(* What the factory accepts the checks of the SDK let through.             *)
LEMMA FactoryIsStricter ==
  ASSUME DeploymentInv, NEW caller \in Account, NEW r \in CreateRequests,
         ReadRight(r), DeployStableCoin(caller, TokenStruct(r))
  PROVE  CreationPasses(r)
<1> DEFINE d == TokenStruct(r)
<1> HIDE DEF d
<1>1. /\ r.supply \in Nat /\ r.reserve \in Feed \cup {NoFeed}
      /\ r.createReserve \in BOOLEAN
      /\ Created \in Feed /\ ReserveDecimals[Created] = RESERVE_DECIMALS
      /\ TokenDecimals \in Nat /\ RESERVE_DECIMALS \in Nat /\ NoFeed \notin Feed
      /\ ReserveTypeOK
  BY RequestTypes, DeploymentAssumption, ReserveAssumption DEF DeploymentInv, Inv
<1>2. /\ d.supply = r.supply /\ d.createReserve = r.createReserve /\ d.reserve = r.reserve
      /\ d.amount = IF r.amount = Omitted THEN 0 ELSE r.amount
  BY TokenStructIs DEF d
<1>3. SupplyIsValid(d) /\ HandleReserve(caller, d)
  BY Zenon DEF DeployStableCoin, CreateToken, d
<1>4. ASSUME r.maxSupply # Omitted
      PROVE  r.supply <= r.maxSupply /\ (r.supplyType = "INFINITE" => r.maxSupply = 0)
  <2>1. /\ d.maxSupply = r.maxSupply /\ r.maxSupply \in Nat /\ r.maxSupply # 0
        /\ d.finite = (\/ r.supplyType = "FINITE"
                       \/ r.supplyType = Omitted /\ r.maxSupply \notin {Omitted, 0})
    BY <1>4, TokenStructIs, RequestTypes DEF ReadRight, d
  <2>2. d.finite /\ d.supply <= d.maxSupply
    BY <1>3, <2>1 DEF SupplyIsValid
  <2>3. r.supplyType # "INFINITE"
    <3>1. CASE r.supplyType = "FINITE"
      BY <3>1
    <3>2. CASE r.supplyType = Omitted
      BY <3>2, RequestAssumption
    <3> QED
      BY <2>1, <2>2, <3>1, <3>2
  <2> QED
    BY <1>2, <2>1, <2>2, <2>3
<1>5. ASSUME r.createReserve, r.amount # Omitted
      PROVE  InCommonDecimals(r.supply, TokenDecimals, RESERVE_DECIMALS)
               <= InCommonDecimals(r.amount, RESERVE_DECIMALS, TokenDecimals)
  <2>1. d.amount = r.amount /\ r.amount \in Int
    BY <1>2, <1>5, RequestTypes
  <2>2. r.amount * TokenUnit(Created) >= r.supply * ReserveUnit(Created)
    BY <1>2, <1>3, <1>5, <2>1 DEF HandleReserve, ValidationReserveInitialAmount
  <2>3. /\ InCommonDecimals(r.supply, TokenDecimals, RESERVE_DECIMALS)
             = r.supply * ReserveUnit(Created)
        /\ InCommonDecimals(r.amount, RESERVE_DECIMALS, TokenDecimals)
             = r.amount * TokenUnit(Created)
        /\ TokenUnit(Created) \in Nat \ {0} /\ ReserveUnit(Created) \in Nat \ {0}
    BY <1>1, <2>1, InCommonDecimalsIs
  <2> QED
    BY <1>1, <2>1, <2>2, <2>3
<1>6. ASSUME r.reserve # NoFeed
      PROVE  WholeTokens(r.supply, TokenDecimals)
               <= WholeTokens(feed[r.reserve].answer, RESERVE_DECIMALS)
  <2> DEFINE answer == feed[r.reserve].answer
  <2>1. ~r.createReserve /\ ReserveDecimals[r.reserve] = RESERVE_DECIMALS
    BY <1>6 DEF ReadRight
  <2>2. answer >= 0 /\ answer * TokenUnit(r.reserve) >= r.supply * ReserveUnit(r.reserve)
    BY <1>2, <1>3, <1>6, <2>1 DEF HandleReserve, ValidationReserveInitialAmount
  <2>3. answer \in Nat /\ r.reserve \in Feed
    BY <1>1, <1>6, <2>2 DEF ReserveTypeOK
  <2>4. r.supply * Power[RESERVE_DECIMALS] <= answer * Power[TokenDecimals]
    <3> HIDE DEF answer
    <3>1. answer \in Int /\ r.supply \in Int
      BY <1>1, <2>3
    <3>2. r.supply * Power[ReserveDecimals[r.reserve]] <= answer * Power[TokenDecimals]
      BY <2>2, <2>3, <3>1, ScalingIs
    <3> QED
      BY <2>1, <3>2
  <2>5. Power[RESERVE_DECIMALS] \in Nat \ {0} /\ Power[TokenDecimals] \in Nat \ {0}
    BY <1>1, PowerPositive
  <2>6. r.supply \div Power[TokenDecimals] <= answer \div Power[RESERVE_DECIMALS]
    BY <1>1, <2>3, <2>4, <2>5, WholePartsCompare
  <2> HIDE DEF answer
  <2>7. /\ WholeTokens(r.supply, TokenDecimals) = r.supply \div Power[TokenDecimals]
        /\ WholeTokens(answer, RESERVE_DECIMALS) = answer \div Power[RESERVE_DECIMALS]
    BY <1>1, <2>3, WholeTokensIs
  <2> QED
    BY <2>6, <2>7 DEF answer
<1> QED
  BY <1>4, <1>5, <1>6 DEF CreationPasses

(* The SDK refuses no deployment that the factory accepts, whatever        *)
(* decimals and fractions supply and reserve have and whatever the request *)
(* leaves out (CreateRequest, CreateCommandHandler, _handleReserve).       *)
THEOREM CreationCorrect == DeploymentSpec => CreationIsNotRefused
<1>1. ASSUME DeploymentInv
      PROVE  ~deployed =>
               \A caller \in Account, r \in CreateRequests :
                 ReadRight(r) /\ DeployStableCoin(caller, TokenStruct(r)) => CreationPasses(r)
  BY <1>1, FactoryIsStricter
<1> QED
  BY DeploymentInvariance, <1>1, PTL DEF DeploymentSpec, CreationIsNotRefused

(* A whole supply that is within the whole tokens of an existing reserve   *)
(* is within the reserve as the factory scales it.                         *)
LEMMA WholeSupplyIsCovered ==
  ASSUME ReserveTypeOK, NEW supply \in Nat, NEW f \in Feed, NEW answer \in Nat,
         ReserveDecimals[f] = RESERVE_DECIMALS, supply % Power[TokenDecimals] = 0,
         WholeTokens(supply, TokenDecimals) <= WholeTokens(answer, RESERVE_DECIMALS)
  PROVE  ValidationReserveInitialAmount(f, answer, supply)
<1> DEFINE t == Power[TokenDecimals]
           u == Power[RESERVE_DECIMALS]
           s == WholeTokens(supply, TokenDecimals)
           w == WholeTokens(answer, RESERVE_DECIMALS)
<1>1. TokenDecimals \in Nat /\ RESERVE_DECIMALS \in Nat
  BY DeploymentAssumption, ReserveAssumption
<1>2. t \in Nat \ {0} /\ u \in Nat \ {0}
  BY <1>1, PowerPositive
<1>3. s \in Nat /\ w \in Nat /\ supply = s * t /\ w * u <= answer /\ s <= w
  BY <1>1, WholeTokensIs
<1> HIDE DEF t, u, s, w
<1>4. supply * u <= answer * t
  <2>1. s * u \in Nat /\ w * u \in Nat /\ (s * u) * t \in Nat /\ (w * u) * t \in Nat
    BY <1>2, <1>3
  <2>2. s * u <= w * u
    BY <1>2, <1>3, TimesBoth
  <2>3. (s * u) * t <= (w * u) * t
    BY <1>2, <2>1, <2>2, TimesBoth
  <2>4. (w * u) * t <= answer * t
    BY <1>2, <1>3, <2>1, TimesBoth
  <2>5. supply * u = (s * u) * t
    BY <1>2, <1>3
  <2>6. answer * t \in Nat
    BY <1>2
  <2> QED
    BY <2>1, <2>3, <2>4, <2>5, <2>6
<1>5. answer * TokenUnit(f) >= supply * ReserveUnit(f)
  <2>1. supply * Power[ReserveDecimals[f]] <= answer * Power[TokenDecimals]
    BY <1>4 DEF t, u
  <2>2. supply \in Int /\ answer \in Int
    OBVIOUS
  <2> QED
    BY <2>1, <2>2, ScalingIs
<1> QED
  BY <1>5 DEF ValidationReserveInitialAmount

(* An amount that is enough in the decimals of both is enough for the      *)
(* factory, and not negative.                                              *)
LEMMA AmountCovers ==
  ASSUME NEW supply \in Nat, NEW amount \in Int,
         InCommonDecimals(supply, TokenDecimals, RESERVE_DECIMALS)
           <= InCommonDecimals(amount, RESERVE_DECIMALS, TokenDecimals)
  PROVE  ValidationReserveInitialAmount(Created, amount, supply)
<1> DEFINE t == TokenUnit(Created)
           u == ReserveUnit(Created)
<1>1. t \in Nat \ {0} /\ u \in Nat \ {0}
  BY InCommonDecimalsIs
<1>2. supply * u <= amount * t
  BY InCommonDecimalsIs
<1> HIDE DEF t, u
<1>3. 0 * t <= supply * u /\ 0 * t \in Int /\ supply * u \in Int /\ amount * t \in Int
  BY <1>1
<1>4. 0 * t <= amount * t
  BY <1>2, <1>3
<1>5. 0 <= amount
  BY <1>1, <1>4, TimesBoth
<1> QED
  BY <1>2, <1>5 DEF ValidationReserveInitialAmount, t, u

(* And where the SDK looks at all that the factory does, it lets nothing   *)
(* through that the factory refuses: the amount of a reserve to create is  *)
(* enough, so are the whole tokens of an existing one, and what the        *)
(* adapters send for an option left out is taken (CreateRequest,           *)
(* CreateCommandHandler, TokenOperations.create, _handleReserve).          *)
THEOREM PassedCreationCorrect == DeploymentSpec => []PassedCreationIsAccepted
<1>1. ASSUME DeploymentInv, NEW r \in CreateRequests, ~deployed, now >= Age,
             LooksComplete(r), CreationPasses(r)
      PROVE  FactoryAccepts(TokenStruct(r))
  <2> DEFINE d == TokenStruct(r)
  <2>1. /\ r.supply \in Nat /\ r.createReserve \in BOOLEAN /\ r.reserve \in Feed \cup {NoFeed}
        /\ r.maxSupply \in Nat \cup {Omitted} /\ r.amount \in Int \cup {Omitted}
        /\ r.supplyType \in {"FINITE", "INFINITE", Omitted}
        /\ NoFeed \notin Feed /\ ReserveTypeOK /\ Omitted \notin Int
    BY <1>1, RequestTypes, RequestAssumption, ReserveAssumption DEF DeploymentInv, Inv
  <2>2. /\ d.supply = r.supply
        /\ d.maxSupply = IF r.maxSupply = Omitted THEN 0 ELSE r.maxSupply
        /\ d.finite = (\/ r.supplyType = "FINITE"
                       \/ r.supplyType = Omitted /\ r.maxSupply \notin {Omitted, 0})
        /\ d.createReserve = r.createReserve /\ d.reserve = r.reserve
        /\ d.amount = IF r.amount = Omitted THEN 0 ELSE r.amount
        /\ d.threshold = r.threshold
        /\ d.allowance = IF r.allowance = 0 THEN Unlimited ELSE r.allowance
    BY TokenStructIs
  <2> HIDE DEF d
  <2>3. SupplyIsValid(d)
    <3>1. r.supplyType = "FINITE" => r.maxSupply \notin {Omitted, 0}
      BY <1>1 DEF LooksComplete
    <3>2. r.maxSupply # Omitted =>
            r.supply <= r.maxSupply /\ (r.supplyType = "INFINITE" => r.maxSupply = 0)
      BY <1>1 DEF CreationPasses
    <3>3. CASE d.finite
      <4>1. r.maxSupply \notin {Omitted, 0}
        BY <2>2, <3>1, <3>3
      <4> QED
        BY <2>1, <2>2, <3>2, <3>3, <4>1 DEF SupplyIsValid
    <3>4. CASE ~d.finite
      <4>1. r.supplyType # "FINITE" /\ ~(r.supplyType = Omitted /\ r.maxSupply \notin {Omitted, 0})
        BY <2>2, <3>4
      <4>2. r.maxSupply \in {Omitted, 0}
        BY <2>1, <3>2, <4>1
      <4>3. d.maxSupply = 0
        BY <2>2, <4>2
      <4> QED
        BY <3>4, <4>3 DEF SupplyIsValid
    <3> QED
      BY <3>3, <3>4
  <2>4. d.allowance # 0
    BY <2>2, SupplierAssumption
  <2>5. ASSUME d.createReserve
        PROVE  ValidationReserveInitialAmount(Created, d.amount, d.supply)
    <3>1. CASE r.amount = Omitted
      <4>1. d.amount = 0 /\ d.supply = 0
        BY <1>1, <2>2, <2>5, <3>1 DEF LooksComplete
      <4>2. InCommonDecimals(0, TokenDecimals, RESERVE_DECIMALS)
              <= InCommonDecimals(0, RESERVE_DECIMALS, TokenDecimals)
        BY InCommonDecimalsIs
      <4>3. ValidationReserveInitialAmount(Created, 0, 0)
        BY <4>2, AmountCovers
      <4> QED
        BY <4>1, <4>3
    <3>2. CASE r.amount # Omitted
      <4>1. r.amount \in Int /\ d.amount = r.amount
        BY <2>1, <2>2, <3>2
      <4>2. InCommonDecimals(r.supply, TokenDecimals, RESERVE_DECIMALS)
              <= InCommonDecimals(r.amount, RESERVE_DECIMALS, TokenDecimals)
        BY <1>1, <2>2, <2>5, <3>2 DEF CreationPasses
      <4>3. ValidationReserveInitialAmount(Created, r.amount, r.supply)
        BY <2>1, <4>1, <4>2, AmountCovers
      <4> QED
        BY <2>2, <4>1, <4>3
    <3> QED
      BY <3>1, <3>2
  <2>6. ASSUME ~d.createReserve, d.reserve # NoFeed
        PROVE  /\ feed[d.reserve].updatedAt <= now
               /\ d.threshold > 0 => now - feed[d.reserve].updatedAt <= d.threshold
               /\ ValidationReserveInitialAmount(d.reserve, feed[d.reserve].answer, d.supply)
    <3>1. /\ ReserveDecimals[r.reserve] = RESERVE_DECIMALS
          /\ r.supply % Power[TokenDecimals] = 0
          /\ feed[r.reserve].answer >= 0
          /\ feed[r.reserve].updatedAt <= now
          /\ r.threshold > 0 => now - feed[r.reserve].updatedAt <= r.threshold
      BY <1>1, <2>2, <2>6 DEF LooksComplete
    <3>2. r.reserve \in Feed /\ feed[r.reserve].answer \in Nat
      BY <2>1, <2>2, <2>6, <3>1 DEF ReserveTypeOK
    <3>3. WholeTokens(r.supply, TokenDecimals)
            <= WholeTokens(feed[r.reserve].answer, RESERVE_DECIMALS)
      BY <1>1, <2>2, <2>6 DEF CreationPasses
    <3>4. ValidationReserveInitialAmount(r.reserve, feed[r.reserve].answer, r.supply)
      BY <2>1, <3>1, <3>2, <3>3, WholeSupplyIsCovered
    <3> QED
      BY <2>2, <3>1, <3>4
  <2>7. FactoryAccepts(d)
    BY <1>1, <2>3, <2>4, <2>5, <2>6 DEF FactoryAccepts
  <2> QED
    BY <2>7 DEF d
<1>2. ASSUME DeploymentInv
      PROVE  PassedCreationIsAccepted
  BY <1>1, <1>2 DEF PassedCreationIsAccepted
<1> QED
  BY DeploymentInvariance, <1>2, PTL
=============================================================================
