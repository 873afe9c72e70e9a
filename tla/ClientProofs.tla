---------------------------- MODULE ClientProofs ----------------------------
(***************************************************************************)
(* The ledger under the SDK: what StableCoinProofs shows of the facets     *)
(* still holds when keys of the token change hands and their holders send  *)
(* transactions of the token service past the facets, for any requests,    *)
(* accounts, handovers and bounds; and what a handler refuses while the    *)
(* grounds of its checks stand, the facets refuse as well.                 *)
(***************************************************************************)
EXTENDS Client, HoldSumsProofs

(* The checks of the handlers.                                             *)
Check == {"capabilities", "maxSupply", "proxyKeys", "target", "holder", "caller",
          "balanceOfTarget", "balanceOfHolder", "balanceOfTreasury", "kycRevoked",
          "kycGranted", "burnable", "holdBalance", "holdId", "escrow", "destination",
          "expiration", "reserveAddress", "reserve"}

(* A command in flight.                                                    *)
Command(r, todo, refused, supply, access, standing) ==
  [request |-> r, todo |-> todo, refused |-> refused,
   seen |-> [supply |-> supply, access |-> access], standing |-> standing]

CommandInv ==
  InFlight =>
    \E r \in Requests, todo \in Seq(Check), access \in SUBSET {"contract", "hts"} :
      /\ Len(todo) <= Len(Handler[r.op])
      /\ \E refused, supply, standing :
           command = Command(r, todo, refused, supply, access, standing)

ClientInv ==
  /\ Inv
  /\ keyOf \in [KeyKind -> Holder]
  /\ CommandInv

-----------------------------------------------------------------------------
(* Settlements, in any amount                                              *)

(* Whoever settles a hold, a live one shrinks by what is paid out of the   *)
(* treasury to one of its parties.                                         *)
LEMMA RequestSettles ==
  ASSUME LedgerInv, NEW r \in Requests, r.op \in Settlements, ContractCall(r)
  PROVE  /\ UNCHANGED <<accessVars, reserveVars, rescued>>
         /\ \E id \in HoldId, to \in Account, amount \in Int :
              Settlement(r.holder, id, to, amount)
<1>1. /\ r.holder \in Account /\ r.amount \in Int
      /\ r.op = "executeHold" /\ r.target \in Holder => r.target \in Account
  BY ClientAssumption DEF Holder
<1>2. \A id : Live(r.holder, id) => /\ id \in HoldId
                                    /\ holds[r.holder][id].amount \in Int
                                    /\ holds[r.holder][id].expiration \in Int
  <2> SUFFICES ASSUME NEW id, Live(r.holder, id)
               PROVE  /\ id \in HoldId
                      /\ holds[r.holder][id].amount \in Int
                      /\ holds[r.holder][id].expiration \in Int
    OBVIOUS
  <2>1. id \in HoldId
    BY <1>1 DEF LedgerInv, HoldTypeOK, Live
  <2>2. holds[r.holder][id] \in HoldData
    BY <1>1, <2>1 DEF LedgerInv, HoldTypeOK, HoldRegistryConsistent, Live
  <2> QED
    BY <2>1, <2>2 DEF HoldData
<1>3. /\ \/ /\ r.op = "executeHold" /\ r.target \in Holder
            /\ ExecuteHold(r.caller, r.holder, r.id, r.target, r.amount)
         \/ /\ r.op = "releaseHold"
            /\ ReleaseHold(r.caller, r.holder, r.id, r.amount)
         \/ /\ r.op = "reclaimHold"
            /\ ReclaimHold(r.holder, r.id)
      /\ UNCHANGED <<accessVars, reserveVars, rescued>>
  BY DEF ContractCall, Settlements
<1>4. now \in Int
  BY HoldAssumption DEF LedgerInv, HoldTypeOK
<1>5. CASE /\ r.op = "executeHold" /\ r.target \in Holder
           /\ ExecuteHold(r.caller, r.holder, r.id, r.target, r.amount)
  <2>1. /\ Live(r.holder, r.id) /\ r.amount <= holds[r.holder][r.id].amount
        /\ DecreaseHoldAmount(r.holder, r.id, r.amount) /\ PayOut(r.target, r.amount)
        /\ holds[r.holder][r.id].expiration > now
        /\ holds[r.holder][r.id].to \in {NoAddress, r.target}
    BY <1>5 DEF ExecuteHold
  <2>2. r.id \in HoldId /\ now < holds[r.holder][r.id].expiration
    BY <1>2, <1>4, <2>1
  <2>3. Settlement(r.holder, r.id, r.target, r.amount)
    BY <2>1, <2>2 DEF Settlement
  <2> QED
    BY <1>1, <1>3, <1>5, <2>2, <2>3
<1>6. CASE ReleaseHold(r.caller, r.holder, r.id, r.amount)
  <2>1. Live(r.holder, r.id) /\ Settlement(r.holder, r.id, r.holder, r.amount)
    BY <1>6 DEF ReleaseHold, Settlement
  <2> QED
    BY <1>1, <1>2, <1>3, <2>1
<1>7. CASE ReclaimHold(r.holder, r.id)
  <2>1. /\ Live(r.holder, r.id)
        /\ DecreaseHoldAmount(r.holder, r.id, holds[r.holder][r.id].amount)
        /\ PayOut(r.holder, holds[r.holder][r.id].amount)
    BY <1>7 DEF ReclaimHold
  <2>2. /\ r.id \in HoldId /\ holds[r.holder][r.id].amount \in Int
        /\ holds[r.holder][r.id].amount <= holds[r.holder][r.id].amount
    BY <1>2, <2>1
  <2>3. Settlement(r.holder, r.id, r.holder, holds[r.holder][r.id].amount)
    BY <2>1, <2>2 DEF Settlement
  <2> QED
    BY <1>1, <1>3, <2>2, <2>3
<1> QED
  BY <1>3, <1>5, <1>6, <1>7

-----------------------------------------------------------------------------
(* Calls                                                                   *)

(* A facet called by a command or by anybody else.                         *)
LEMMA ContractCallSafe ==
  ASSUME Inv, NEW r \in Requests, ContractCall(r)
  PROVE  Inv'
<1>1. AccessInv /\ LedgerInv /\ ReserveTypeOK
  BY DEF Inv
<1>2. /\ r.caller \in Account /\ r.holder \in Account /\ r.amount \in Int
      /\ r.hold \in HoldData
      /\ r.op = "cashIn" => r.target \in Holder
      /\ r.op \notin {"cashIn", "executeHold"} => r.target \in Account
  BY ClientAssumption DEF Holder
<1>3. CASE r.op = "cashIn" /\ Mint(r.caller, r.target, r.amount)
  <2>1. r.target \in Holder
    BY <1>2, <1>3
  <2>2. r.amount > 0 /\ SpendAllowance(r.caller, r.amount)
        /\ UNCHANGED <<hasRole, unlimited, reserveVars>>
    BY <1>3 DEF Mint
  <2>3. AccessInv'
    BY <1>1, <1>2, <2>2, SpendSafe
  <2>4. LedgerInv'
    BY <1>1, <1>2, <1>3, <2>1, MintSafe
  <2> QED
    BY <2>2, <2>3, <2>4, Frames DEF Inv
<1>4. CASE \/ r.op = "burn" /\ Burn(r.caller, r.amount)
           \/ r.op = "wipe" /\ Wipe(r.caller, r.target, r.amount)
           \/ r.op = "rescue" /\ Rescue(r.caller, r.amount)
  <2>1. UNCHANGED <<accessVars, reserveVars>>
    BY <1>4 DEF Wipe, Burn, Rescue
  <2>2. LedgerInv'
    BY <1>1, <1>2, <1>4, WipeSafe, BurnSafe, RescueSafe
  <2> QED
    BY <2>1, <2>2, Frames DEF Inv
<1>5. CASE \/ r.op = "createHold" /\ CreateHold(r.caller, r.hold)
           \/ /\ r.op = "createHoldByController"
              /\ CreateHoldByController(r.caller, r.holder, r.hold)
  <2>1. UNCHANGED <<accessVars, reserveVars, rescued>>
    BY <1>5 DEF CreateHold, CreateHoldByController
  <2>2. LedgerInv'
    BY <1>1, <1>2, <1>5, <2>1, CreateHoldSafe DEF CreateHold, CreateHoldByController
  <2> QED
    BY <2>1, <2>2, Frames DEF Inv
<1>6. CASE r.op \in Settlements
  <2>1. UNCHANGED <<accessVars, reserveVars, rescued>>
    BY <1>1, <1>6, RequestSettles
  <2>2. LedgerInv'
    BY <1>1, <1>2, <1>6, <2>1, RequestSettles, PaymentSafe DEF Settlement
  <2> QED
    BY <2>1, <2>2, Frames DEF Inv
<1>7. CASE \/ r.op = "pause" /\ Pause(r.caller)
           \/ r.op = "unpause" /\ Unpause(r.caller)
           \/ r.op = "freeze" /\ Freeze(r.caller, r.target)
           \/ r.op = "unfreeze" /\ Unfreeze(r.caller, r.target)
           \/ r.op = "grantKyc" /\ GrantKyc(r.caller, r.target)
           \/ r.op = "revokeKyc" /\ RevokeKyc(r.caller, r.target)
           \/ r.op = "delete" /\ DeleteToken(r.caller)
  <2>1. r.target \in Account
    BY <1>2, <1>7
  <2> QED
    BY <1>1, <1>2, <1>7, <2>1, StatusCallSafe
<1> QED
  BY <1>3, <1>4, <1>5, <1>6, <1>7 DEF ContractCall, Settlements

(* A transaction of the token service by the holder of a key: it wipes     *)
(* none but an account, so the treasury keeps what backs the holds.        *)
LEMMA NativeCallSafe ==
  ASSUME Inv, NEW r \in Requests, NativeCall(r)
  PROVE  Inv'
<1>1. /\ AccessInv /\ LedgerInv /\ ReserveTypeOK /\ TokenTypeOK
      /\ frozen \subseteq Account /\ kyc \subseteq Holder
      /\ paused \in BOOLEAN /\ deleted \in BOOLEAN
  BY DEF Inv, LedgerInv, TokenTypeOK
<1>2. r.target \in Account /\ r.target \in Holder /\ r.amount \in Nat
  BY ClientAssumption DEF NativeCall, KeyedOps, KeyFor, Holder
<1>3. CASE NativeWipe(r.target, r.amount)
  <2>1. /\ r.amount <= balance[r.target] /\ r.amount <= totalSupply
        /\ balance' = Debit(balance, r.target, r.amount)
        /\ totalSupply' = totalSupply - r.amount
        /\ UNCHANGED <<accessVars, statusVars, holdVars, reserveVars, now, rescued>>
    BY <1>3 DEF NativeWipe, CanWipe
  <2>2. balance \in [Holder -> Nat] /\ totalSupply \in Nat
    BY <1>1 DEF TokenTypeOK
  <2>3. /\ balance' \in [Holder -> Nat]
        /\ \A other \in Holder \ {r.target} : balance'[other] = balance[other]
    BY <1>2, <2>1, <2>2, DebitIs
  <2>4. Contract \in Holder \ {r.target}
    BY <1>2, TokenAssumption DEF Holder
  <2>5. balance'[Contract] = balance[Contract]
    BY <2>3, <2>4
  <2>6. totalSupply' \in Nat
    BY <1>2, <2>1, <2>2
  <2>7. TokenTypeOK'
    BY <1>1, <2>1, <2>3, <2>6 DEF TokenTypeOK, statusVars
  <2>8. HoldTypeOK' /\ HoldRegistryConsistent' /\ HoldsBackedUpToRescues' /\ rescued' \in Nat
    BY <1>1, <2>1, <2>5 DEF LedgerInv, HoldTypeOK, HoldRegistryConsistent, holdVars,
                            HoldsBackedUpToRescues
  <2> QED
    BY <2>1, <2>7, <2>8, Frames DEF Inv, LedgerInv
<1>4. CASE /\ r.op \in {"pause", "unpause"}
           /\ SetStatus(frozen, kyc, r.op = "pause", deleted)
  <2>1. (r.op = "pause") \in BOOLEAN
    OBVIOUS
  <2> QED
    BY <1>1, <1>4, <2>1, StatusSafe
<1>5. CASE \E f \in SUBSET Account, k \in SUBSET Holder : SetStatus(f, k, paused, deleted)
  BY <1>1, <1>5, StatusSafe
<1>6. \/ NativeWipe(r.target, r.amount)
      \/ /\ r.op \in {"pause", "unpause"}
         /\ SetStatus(frozen, kyc, r.op = "pause", deleted)
      \/ SetStatus(IF r.op = "freeze" THEN frozen \cup {r.target}
                     ELSE frozen \ {r.target}, kyc, paused, deleted)
      \/ SetStatus(frozen, IF r.op = "grantKyc" THEN kyc \cup {r.target}
                             ELSE kyc \ {r.target}, paused, deleted)
  BY DEF NativeCall
<1>7. /\ (IF r.op = "freeze" THEN frozen \cup {r.target}
                             ELSE frozen \ {r.target}) \in SUBSET Account
      /\ (IF r.op = "grantKyc" THEN kyc \cup {r.target}
                               ELSE kyc \ {r.target}) \in SUBSET Holder
  BY <1>1, <1>2
<1> QED
  BY <1>1, <1>3, <1>4, <1>5, <1>6, <1>7

-----------------------------------------------------------------------------
(* Steps                                                                   *)

(* A list of elements of a set is a sequence over it.                      *)
LEMMA Tuples ==
  ASSUME NEW S
  PROVE  /\ \A a \in S : <<a>> \in Seq(S)
         /\ \A a, b \in S : <<a, b>> \in Seq(S)
         /\ \A a, b, c \in S : <<a, b, c>> \in Seq(S)
         /\ \A a, b, c, d \in S : <<a, b, c, d>> \in Seq(S)
         /\ \A a, b, c, d, e \in S : <<a, b, c, d, e>> \in Seq(S)
         /\ \A a, b, c, d, e, f, g \in S : <<a, b, c, d, e, f, g>> \in Seq(S)
  OBVIOUS

(* A handler is a sequence of checks.                                      *)
LEMMA HandlersAre == \A op \in Operation : Handler[op] \in Seq(Check)
<1>1. /\ "capabilities" \in Check /\ "maxSupply" \in Check /\ "proxyKeys" \in Check
      /\ "target" \in Check /\ "holder" \in Check /\ "caller" \in Check
      /\ "balanceOfTarget" \in Check /\ "balanceOfHolder" \in Check
      /\ "balanceOfTreasury" \in Check /\ "kycRevoked" \in Check /\ "kycGranted" \in Check
      /\ "burnable" \in Check /\ "holdBalance" \in Check /\ "holdId" \in Check
      /\ "escrow" \in Check /\ "destination" \in Check /\ "expiration" \in Check
      /\ "reserveAddress" \in Check /\ "reserve" \in Check
  BY DEF Check
<1>2. /\ BurnHandler \in Seq(Check)
      /\ WipeHandler \in Seq(Check)
      /\ GrantKycHandler \in Seq(Check)
      /\ RevokeKycHandler \in Seq(Check)
  <2>1. BurnHandler \in Seq(Check)
    BY <1>1, Tuples, Zenon DEF BurnHandler
  <2>2. WipeHandler \in Seq(Check)
    BY <1>1, Tuples, Zenon DEF WipeHandler
  <2>3. GrantKycHandler \in Seq(Check)
    BY <1>1, Tuples, Zenon DEF GrantKycHandler
  <2>4. RevokeKycHandler \in Seq(Check)
    BY <1>1, Tuples, Zenon DEF RevokeKycHandler
  <2> QED
    BY <2>1, <2>2, <2>3, <2>4
<1>3. /\ FreezeHandler \in Seq(Check)
      /\ UnFreezeHandler \in Seq(Check)
      /\ PauseHandler \in Seq(Check)
      /\ UnPauseHandler \in Seq(Check)
      /\ DeleteHandler \in Seq(Check)
  <2>1. FreezeHandler \in Seq(Check)
    BY <1>1, Tuples, Zenon DEF FreezeHandler
  <2>2. UnFreezeHandler \in Seq(Check)
    BY <1>1, Tuples, Zenon DEF UnFreezeHandler
  <2>3. PauseHandler \in Seq(Check)
    BY <1>1, Tuples, Zenon DEF PauseHandler
  <2>4. UnPauseHandler \in Seq(Check)
    BY <1>1, Tuples, Zenon DEF UnPauseHandler
  <2>5. DeleteHandler \in Seq(Check)
    BY <1>1, Tuples, Zenon DEF DeleteHandler
  <2> QED
    BY <2>1, <2>2, <2>3, <2>4, <2>5
<1>4. /\ RescueHandler \in Seq(Check)
      /\ CreateHoldHandler \in Seq(Check)
      /\ CreateHoldByControllerHandler \in Seq(Check)
  <2>1. RescueHandler \in Seq(Check)
    BY <1>1, Tuples, Zenon DEF RescueHandler
  <2>2. CreateHoldHandler \in Seq(Check)
    BY <1>1, Tuples, Zenon DEF CreateHoldHandler
  <2>3. CreateHoldByControllerHandler \in Seq(Check)
    BY <1>1, Tuples, Zenon DEF CreateHoldByControllerHandler
  <2> QED
    BY <2>1, <2>2, <2>3
<1>5. /\ CashInHandler \in Seq(Check)
      /\ ReclaimHoldHandler \in Seq(Check)
  <2>1. CashInHandler \in Seq(Check)
    BY <1>1, Tuples, Zenon DEF CashInHandler
  <2>2. ReclaimHoldHandler \in Seq(Check)
    BY <1>1, Tuples, Zenon DEF ReclaimHoldHandler
  <2> QED
    BY <2>1, <2>2
<1>6. ReleaseHoldHandler \in Seq(Check)
  BY <1>1, Tuples, Zenon DEF ReleaseHoldHandler
<1>7. ExecuteHoldHandler \in Seq(Check)
  BY <1>1, Tuples, Zenon DEF ExecuteHoldHandler
<1>8. /\ Handler.cashIn = CashInHandler /\ Handler.burn = BurnHandler
      /\ Handler.wipe = WipeHandler /\ Handler.rescue = RescueHandler
      /\ Handler.createHold = CreateHoldHandler
      /\ Handler.createHoldByController = CreateHoldByControllerHandler
      /\ Handler.executeHold = ExecuteHoldHandler
      /\ Handler.releaseHold = ReleaseHoldHandler
      /\ Handler.reclaimHold = ReclaimHoldHandler
      /\ Handler.grantKyc = GrantKycHandler /\ Handler.revokeKyc = RevokeKycHandler
      /\ Handler.freeze = FreezeHandler /\ Handler.unfreeze = UnFreezeHandler
      /\ Handler.pause = PauseHandler /\ Handler.unpause = UnPauseHandler
      /\ Handler.delete = DeleteHandler
  BY DEF Handler
<1>9. Operation = {"cashIn", "burn", "wipe", "rescue", "createHold",
                   "createHoldByController", "executeHold", "releaseHold", "reclaimHold",
                   "grantKyc", "revokeKyc", "freeze", "unfreeze", "pause", "unpause",
                   "delete"}
  BY DEF Operation, HoldOps, HoldCreations, Settlements, KeyedOps, KeyFor
<1> QED
  BY <1>2, <1>3, <1>4, <1>5, <1>6, <1>7, <1>8, <1>9

(* What a check leaves of a command is a command.                          *)
LEMMA AnswerKeepsCommand ==
  ASSUME CommandInv, Answer
  PROVE  CommandInv'
<1>1. PICK r \in Requests, todo \in Seq(Check), access \in SUBSET {"contract", "hts"} :
        /\ Len(todo) <= Len(Handler[r.op])
        /\ \E refused, supply, standing :
             command = Command(r, todo, refused, supply, access, standing)
  BY DEF CommandInv, Answer
<1>2. PICK refused, supply, standing :
        command = Command(r, todo, refused, supply, access, standing)
  BY <1>1
<1>3. /\ command.todo = todo /\ command.request = r
      /\ command.seen = [supply |-> supply, access |-> access]
      /\ todo # <<>>
  BY <1>2 DEF Command, Answer
<1>4. Handler[r.op] \in Seq(Check)
  BY HandlersAre, ClientAssumption
<1> DEFINE check == Head(command.todo)
<1>5. CASE command' = [command EXCEPT !.todo = Remaining(check), !.seen = Seen(check)]
  <2>1. /\ Remaining(check) \in Seq(Check)
        /\ Len(Remaining(check)) <= Len(todo)
    <3>1. Remaining(check) \in {<<>>, Tail(todo)}
      BY <1>3 DEF Remaining
    <3>2. /\ Tail(todo) \in Seq(Check) /\ Len(Tail(todo)) <= Len(todo)
          /\ <<>> \in Seq(Check) /\ Len(<<>>) <= Len(todo)
      BY <1>3
    <3> QED
      BY <3>1, <3>2
  <2>2. PICK newAccess \in SUBSET {"contract", "hts"} :
          \E newSupply : Seen(check) = [supply |-> newSupply, access |-> newAccess]
    <3>1. AccessDecision(command.request) \in SUBSET {"contract", "hts"}
      BY DEF AccessDecision
    <3> QED
      BY <1>3, <3>1 DEF Seen
  <2>3. \E newSupply :
          command' = Command(r, Remaining(check), refused, newSupply, newAccess, standing)
    BY <1>2, <1>5, <2>2 DEF Command
  <2>4. Len(Remaining(check)) <= Len(Handler[r.op])
    BY <1>1, <1>4, <2>1
  <2> QED
    BY <2>1, <2>2, <2>3, <2>4 DEF CommandInv
<1>6. CASE command' = [command EXCEPT !.refused = TRUE]
  <2>1. command' = Command(r, todo, TRUE, supply, access, standing)
    BY <1>2, <1>6 DEF Command
  <2> QED
    BY <1>1, <2>1 DEF CommandInv
<1> QED
  BY <1>5, <1>6 DEF Answer

(* Whatever the ledger does meanwhile, a command stays one.                *)
LEMMA UnsettledKeepsCommand ==
  ASSUME CommandInv, Unsettled
  PROVE  CommandInv'
<1>1. CASE ~InFlight
  BY <1>1 DEF Unsettled, CommandInv, InFlight
<1>2. CASE InFlight
  <2>1. PICK r \in Requests, todo \in Seq(Check), access \in SUBSET {"contract", "hts"} :
          /\ Len(todo) <= Len(Handler[r.op])
          /\ \E refused, supply, standing :
               command = Command(r, todo, refused, supply, access, standing)
    BY <1>2 DEF CommandInv
  <2>2. PICK refused, supply, standing :
          command = Command(r, todo, refused, supply, access, standing)
    BY <2>1
  <2>3. \E stands : command' = [command EXCEPT !.standing = stands]
    BY <1>2 DEF Unsettled
  <2>4. \E stands : command' = Command(r, todo, refused, supply, access, stands)
    BY <2>2, <2>3 DEF Command
  <2> QED
    BY <2>1, <2>4 DEF CommandInv
<1> QED
  BY <1>1, <1>2

(* A command starts with all the checks of its handler before it.          *)
LEMMA StartMakesCommand ==
  ASSUME Start
  PROVE  CommandInv'
<1>1. PICK r \in Requests :
        command' = [request |-> r, todo |-> Handler[r.op], refused |-> FALSE,
                    seen |-> [supply |-> 0, access |-> {}], standing |-> TRUE]
  BY DEF Start
<1>2. Handler[r.op] \in Seq(Check)
  BY HandlersAre, ClientAssumption
<1>3. command' = Command(r, Handler[r.op], FALSE, 0, {}, TRUE)
  BY <1>1 DEF Command
<1>4. Len(Handler[r.op]) <= Len(Handler[r.op])
  BY <1>2
<1> QED
  BY <1>2, <1>3, <1>4 DEF CommandInv

(* What a step of a command or of anybody else does to the ledger: a call, *)
(* a key that changes hands, the feeds and the holders on their own, or    *)
(* nothing.                                                                *)
LEMMA ClientSteps ==
  ASSUME CommandInv, [ClientNext]_clientVars
  PROVE  \/ UNCHANGED ledgerVars
         \/ \E r \in Requests : ContractCall(r) \/ NativeCall(r)
         \/ /\ \E handover \in Handovers : keyOf' = [keyOf EXCEPT ![handover[1]] = handover[2]]
            /\ UNCHANGED vars
         \/ /\ ReserveNext \/ Environment
            /\ UNCHANGED keyOf
<1>1. CASE Start \/ Answer \/ Fail \/ UNCHANGED clientVars
  BY <1>1 DEF Start, Answer, Fail, ledgerVars, clientVars
<1>2. CASE Send
  <2>1. command.request \in Requests
    BY <1>2 DEF Send, Ready, CommandInv, Command
  <2>2. Transaction(command) \/ UNCHANGED ledgerVars
    BY <1>2 DEF Send
  <2> QED
    BY <2>1, <2>2 DEF Transaction
<1>3. CASE Others
  BY <1>3 DEF Others, UpdateToken
<1> QED
  BY <1>1, <1>2, <1>3 DEF ClientNext

(* Every step keeps the ledger in order.                                   *)
LEMMA ClientLedgerSafe ==
  ASSUME ClientInv, [ClientNext]_clientVars
  PROVE  Inv' /\ keyOf' \in [KeyKind -> Holder]
<1>1. Inv /\ CommandInv /\ keyOf \in [KeyKind -> Holder]
  BY DEF ClientInv
<1>2. CASE UNCHANGED ledgerVars
  BY <1>1, <1>2, StepSafe DEF ledgerVars
<1>3. CASE \E r \in Requests : ContractCall(r) \/ NativeCall(r)
  <2>1. UNCHANGED keyOf
    BY <1>3 DEF ContractCall, NativeCall
  <2> QED
    BY <1>1, <1>3, <2>1, ContractCallSafe, NativeCallSafe
<1>4. CASE /\ \E handover \in Handovers :
                keyOf' = [keyOf EXCEPT ![handover[1]] = handover[2]]
           /\ UNCHANGED vars
  <2>1. PICK handover \in Handovers : keyOf' = [keyOf EXCEPT ![handover[1]] = handover[2]]
    BY <1>4
  <2>2. handover[2] \in Holder
    BY ClientAssumption
  <2> QED
    BY <1>1, <1>4, <2>1, <2>2, StepSafe
<1>5. CASE (ReserveNext \/ Environment) /\ UNCHANGED keyOf
  BY <1>1, <1>5, StepSafe DEF Next
<1> QED
  BY <1>1, <1>2, <1>3, <1>4, <1>5, ClientSteps

-----------------------------------------------------------------------------

(* The invariant holds whatever commands, key holders and everybody else   *)
(* do.                                                                     *)
THEOREM ClientInvariance == ClientSpec => []ClientInv
<1>1. ClientInit => ClientInv
  <2> SUFFICES ASSUME ClientInit PROVE ClientInv
    OBVIOUS
  <2>1. Inv
    BY InitSafe DEF ClientInit
  <2>2. keyOf \in [KeyKind -> Holder]
    BY DEF ClientInit, Holder
  <2>3. CommandInv
    BY DEF ClientInit, CommandInv, InFlight
  <2> QED
    BY <2>1, <2>2, <2>3 DEF ClientInv
<1>2. ClientInv /\ [ClientNext]_clientVars => ClientInv'
  <2> SUFFICES ASSUME ClientInv, [ClientNext]_clientVars PROVE ClientInv'
    OBVIOUS
  <2>1. CommandInv
    BY DEF ClientInv
  <2>2. CASE Start
    BY <2>2, StartMakesCommand, ClientLedgerSafe DEF ClientInv
  <2>3. CASE Answer
    BY <2>1, <2>3, AnswerKeepsCommand, ClientLedgerSafe DEF ClientInv
  <2>4. CASE Send \/ Fail
    <3>1. command' = Idle
      BY <2>4 DEF Send, Fail
    <3>2. CommandInv'
      BY <3>1 DEF CommandInv, InFlight
    <3> QED
      BY <3>2, ClientLedgerSafe DEF ClientInv
  <2>5. CASE Others
    <3>1. Unsettled
      BY <2>5 DEF Others
    <3> QED
      BY <2>1, <3>1, UnsettledKeepsCommand, ClientLedgerSafe DEF ClientInv
  <2>6. CASE UNCHANGED clientVars
    <3>1. CommandInv'
      BY <2>1, <2>6 DEF CommandInv, InFlight, clientVars
    <3> QED
      BY <3>1, ClientLedgerSafe DEF ClientInv
  <2> QED
    BY <2>2, <2>3, <2>4, <2>5, <2>6 DEF ClientNext
<1> QED
  BY <1>1, <1>2, PTL DEF ClientSpec

(* Balances and supply stay natural numbers under native transactions too, *)
(* and a command is a request with what is left of its handler.            *)
THEOREM ClientTypeCorrect == ClientSpec => []ClientTypeOK
<1>1. ASSUME ClientInv PROVE ClientTypeOK
  <2>1. TypeOK
    BY <1>1 DEF ClientInv, Inv, AccessInv, LedgerInv, TypeOK
  <2>2. ASSUME InFlight
        PROVE  /\ command.request \in Requests
               /\ Len(command.todo) <= Len(Handler[command.request.op])
               /\ command.seen.access \subseteq {"contract", "hts"}
    <3>1. PICK r \in Requests, todo \in Seq(Check), access \in SUBSET {"contract", "hts"} :
            /\ Len(todo) <= Len(Handler[r.op])
            /\ \E refused, supply, standing :
                 command = Command(r, todo, refused, supply, access, standing)
      BY <1>1, <2>2 DEF ClientInv, CommandInv
    <3>2. PICK refused, supply, standing :
            command = Command(r, todo, refused, supply, access, standing)
      BY <3>1
    <3>3. /\ command.todo = todo /\ command.request = r
          /\ command.seen = [supply |-> supply, access |-> access]
      BY <3>2 DEF Command
    <3>4. command.seen.access = access
      BY <3>3
    <3> QED
      BY <3>1, <3>3, <3>4
  <2> QED
    BY <1>1, <2>1, <2>2 DEF ClientInv, ClientTypeOK
<1> QED
  BY ClientInvariance, <1>1, PTL

(* The holder of a key, who passes the facets by, cannot uncover the holds *)
(* either (TransactionService of the adapters, getBurnableAmount, rescue). *)
THEOREM ClientBackingCorrect == ClientSpec => []HoldsBackedUpToRescues
<1>1. ClientInv => HoldsBackedUpToRescues
  BY DEF ClientInv, Inv, LedgerInv
<1> QED
  BY ClientInvariance, <1>1, PTL

(* Nor does anything move on a halted token, whoever holds its keys and    *)
(* whichever answers a command still waits for.                            *)
THEOREM ClientHaltCorrect == ClientSpec => HaltedTokenKeepsItsRecords
<1>1. ASSUME ClientInv, [ClientNext]_clientVars
      PROVE  [~Usable => UNCHANGED <<balance, totalSupply, holdVars>>]_vars
  <2>1. Inv /\ LedgerInv /\ CommandInv
    BY <1>1 DEF ClientInv, Inv
  <2>2. CASE UNCHANGED vars
    BY <2>2
  <2>3. CASE ReserveNext \/ Environment
    BY <2>3 DEF ReserveNext, Environment, UserTransfer, CanTransfer, tokenVars
  <2>4. ASSUME NEW r \in Requests, NativeCall(r)
        PROVE  ~Usable => UNCHANGED <<balance, totalSupply, holdVars>>
    BY <2>4 DEF NativeCall, NativeWipe, CanWipe, SetStatus
  <2>5. ASSUME NEW r \in Requests, ContractCall(r)
        PROVE  ~Usable => UNCHANGED <<balance, totalSupply, holdVars>>
    <3>1. CASE r.op \in Settlements
      BY <2>1, <2>5, <3>1, RequestSettles DEF Settlement, PayOut, CanTransfer
    <3>2. CASE \/ Mint(r.caller, r.target, r.amount)
               \/ Burn(r.caller, r.amount)
               \/ Wipe(r.caller, r.target, r.amount)
               \/ Rescue(r.caller, r.amount)
      BY <3>2 DEF Mint, CanMint, Burn, CanBurn, Wipe, CanWipe, Rescue, CanTransfer
    <3>3. CASE \/ CreateHold(r.caller, r.hold)
               \/ CreateHoldByController(r.caller, r.holder, r.hold)
      BY <3>3 DEF CreateHold, CreateHoldByController, CreateHoldInternal, CanMint
    <3>4. CASE \/ Pause(r.caller) \/ Unpause(r.caller)
               \/ Freeze(r.caller, r.target) \/ Unfreeze(r.caller, r.target)
               \/ GrantKyc(r.caller, r.target) \/ RevokeKyc(r.caller, r.target)
               \/ DeleteToken(r.caller)
      BY <3>4 DEF Pause, Unpause, Freeze, Unfreeze, GrantKyc, RevokeKyc, DeleteToken, SetStatus
    <3> QED
      BY <2>5, <3>1, <3>2, <3>3, <3>4 DEF ContractCall, Settlements
  <2>6. UNCHANGED ledgerVars => UNCHANGED vars
    BY DEF ledgerVars
  <2> QED
    BY <1>1, <2>1, <2>2, <2>3, <2>4, <2>5, <2>6, ClientSteps
<1> QED
  BY ClientInvariance, <1>1, PTL DEF ClientSpec, HaltedTokenKeepsItsRecords

(* Neither a native transaction nor a command with old answers takes the   *)
(* supply above the reserve: the facet asks the feed itself                *)
(* (_checkReserveAmount), and the token service mints for nobody else.     *)
THEOREM ClientReserveCorrect == ClientSpec => MintWithinReserve
<1>1. ASSUME ClientInv, [ClientNext]_clientVars
      PROVE  [totalSupply' > totalSupply /\ reserveAddress # NoFeed
                => CoveredByReserve(totalSupply')]_vars
  <2>1. Inv /\ CommandInv /\ LedgerInv /\ totalSupply \in Nat /\ ReserveTypeOK
    BY <1>1 DEF ClientInv, Inv, LedgerInv, TokenTypeOK
  <2>2. totalSupply' \in Nat
    BY <1>1, ClientLedgerSafe DEF Inv, LedgerInv, TokenTypeOK
  <2>3. CASE UNCHANGED vars
    BY <2>3
  <2>4. CASE totalSupply' <= totalSupply
    BY <2>1, <2>2, <2>4
  <2>5. ASSUME NEW r \in Requests, NativeCall(r)
        PROVE  totalSupply' <= totalSupply
    <3>1. r.amount \in Nat
      BY ClientAssumption
    <3> QED
      BY <2>1, <2>5, <3>1 DEF NativeCall, NativeWipe, SetStatus
  <2>6. CASE ReserveNext \/ Environment
    BY <2>1, <2>6 DEF ReserveNext, Environment, UserTransfer, tokenVars
  <2>7. ASSUME NEW r \in Requests, ContractCall(r)
        PROVE  \/ totalSupply' <= totalSupply
               \/ reserveAddress # NoFeed => CoveredByReserve(totalSupply')
    <3>1. r.amount \in Nat
      BY ClientAssumption
    <3>2. CASE r.op \in Settlements
      <4>1. \E to \in Account, amount \in Int : PayOut(to, amount)
        BY <2>1, <2>7, <3>2, RequestSettles DEF Settlement
      <4> QED
        BY <2>1, <4>1 DEF PayOut
    <3>3. CASE Mint(r.caller, r.target, r.amount)
      <4>1. /\ CheckReserveAmount(r.amount, totalSupply, now)
            /\ totalSupply' = totalSupply + r.amount
        BY <3>3 DEF Mint
      <4>2. reserveAddress # NoFeed => CoveredByReserve(totalSupply + r.amount)
        BY <2>1, <3>1, <4>1, CheckedIsCovered
      <4> QED
        BY <4>1, <4>2
    <3>4. CASE \/ Burn(r.caller, r.amount)
               \/ Wipe(r.caller, r.target, r.amount)
               \/ Rescue(r.caller, r.amount)
      BY <2>1, <3>1, <3>4 DEF Burn, Wipe, Rescue
    <3>5. CASE \/ CreateHold(r.caller, r.hold)
               \/ CreateHoldByController(r.caller, r.holder, r.hold)
      BY <2>1, <3>5 DEF CreateHold, CreateHoldByController, CreateHoldInternal
    <3>6. CASE \/ Pause(r.caller) \/ Unpause(r.caller)
               \/ Freeze(r.caller, r.target) \/ Unfreeze(r.caller, r.target)
               \/ GrantKyc(r.caller, r.target) \/ RevokeKyc(r.caller, r.target)
               \/ DeleteToken(r.caller)
      BY <2>1, <3>6
        DEF Pause, Unpause, Freeze, Unfreeze, GrantKyc, RevokeKyc, DeleteToken, SetStatus
    <3> QED
      BY <2>7, <3>2, <3>3, <3>4, <3>5, <3>6 DEF ContractCall, Settlements
  <2> QED
    BY <1>1, <2>1, <2>3, <2>4, <2>5, <2>6, <2>7, ClientSteps DEF ledgerVars
<1> QED
  BY ClientInvariance, <1>1, PTL DEF ClientSpec, MintWithinReserve

-----------------------------------------------------------------------------
(* Sums, supply and holds                                                  *)

(* A facet that is called moves holds and tokens as it does for anybody.   *)
LEMMA ContractCallMoves ==
  ASSUME LedgerInv, NEW r \in Requests, ContractCall(r)
  PROVE  HoldsMove /\ TokensMove
<1>1. /\ r.caller \in Account /\ r.holder \in Account /\ r.amount \in Int
      /\ r.hold \in HoldData
      /\ r.op = "cashIn" => r.target \in Holder
      /\ r.op = "wipe" => r.target \in Holder
  BY ClientAssumption
<1>2. CASE \/ r.op = "cashIn" /\ Mint(r.caller, r.target, r.amount)
           \/ r.op = "wipe" /\ Wipe(r.caller, r.target, r.amount)
  <2>1. r.target \in Holder /\ UNCHANGED holdVars
    BY <1>1, <1>2 DEF Mint, Wipe
  <2>2. TokensMove
    BY <1>1, <1>2, <2>1, CashMovesTokens
  <2> QED
    BY <2>1, <2>2 DEF HoldsMove
<1>3. CASE Burn(r.caller, r.amount) \/ Rescue(r.caller, r.amount)
  <2>1. UNCHANGED holdVars /\ Contract \in Holder
    BY <1>3 DEF Burn, Rescue, Holder
  <2>2. TokensMove
    BY <1>1, <1>3, <2>1, CashMovesTokens
  <2> QED
    BY <2>1, <2>2 DEF HoldsMove
<1>4. CASE \/ CreateHold(r.caller, r.hold)
           \/ CreateHoldByController(r.caller, r.holder, r.hold)
  <2>1. PICK holder \in Account : CreateHoldInternal(holder, r.hold)
    BY <1>1, <1>4 DEF CreateHold, CreateHoldByController
  <2> QED
    BY <1>1, <2>1, LockMovesTokens DEF HoldsMove
<1>5. CASE r.op \in Settlements
  <2>1. PICK id \in HoldId, to \in Account, amount \in Int :
          Settlement(r.holder, id, to, amount)
    BY <1>5, RequestSettles
  <2>2. TokensMove
    BY <2>1, PaymentMovesTokens DEF Settlement
  <2> QED
    BY <1>1, <2>1, <2>2 DEF HoldsMove
<1>6. CASE \/ Pause(r.caller) \/ Unpause(r.caller)
           \/ Freeze(r.caller, r.target) \/ Unfreeze(r.caller, r.target)
           \/ GrantKyc(r.caller, r.target) \/ RevokeKyc(r.caller, r.target)
           \/ DeleteToken(r.caller)
  BY <1>6 DEF Pause, Unpause, Freeze, Unfreeze, GrantKyc, RevokeKyc, DeleteToken, SetStatus,
              HoldsMove, TokensMove
<1> QED
  BY <1>2, <1>3, <1>4, <1>5, <1>6 DEF ContractCall, Settlements

(* The holder of a key touches no hold, and wipes what is there.           *)
LEMMA NativeCallMoves ==
  ASSUME NEW r \in Requests, NativeCall(r)
  PROVE  HoldsMove /\ TokensMove
<1>1. r.target \in Holder /\ r.amount \in Nat
  BY ClientAssumption DEF NativeCall, KeyedOps, KeyFor, Holder
<1>2. CASE NativeWipe(r.target, r.amount)
  <2>1. /\ r.amount <= balance[r.target] /\ UNCHANGED holdVars
        /\ balance' = Debit(balance, r.target, r.amount)
        /\ totalSupply' = totalSupply - r.amount
    BY <1>2 DEF NativeWipe, CanWipe
  <2>2. r.amount \in Int /\ 0 <= r.amount
    BY <1>1
  <2> QED
    BY <1>1, <2>1, <2>2 DEF HoldsMove, TokensMove
<1>3. CASE ~NativeWipe(r.target, r.amount)
  BY <1>3 DEF NativeCall, SetStatus, HoldsMove, TokensMove
<1> QED
  BY <1>2, <1>3

(* Every step of a command, of a key holder and of everybody else does     *)
(* what a call may do to holds and tokens.                                 *)
LEMMA ClientMoves ==
  ASSUME LedgerInv, CommandInv, [ClientNext]_clientVars
  PROVE  HoldsMove /\ TokensMove
<1>1. CASE UNCHANGED ledgerVars \/ UNCHANGED vars
  BY <1>1 DEF ledgerVars, vars, tokenVars, HoldsMove, TokensMove
<1>2. CASE ReserveNext \/ Environment
  <2>1. [Next]_vars
    BY <1>2 DEF Next
  <2> QED
    BY <2>1, StepMovesHolds, StepMovesTokens
<1> QED
  BY <1>1, <1>2, ClientSteps, ContractCallMoves, NativeCallMoves

(* The sums over the holds and the supply stay what they are said to be.   *)
THEOREM ClientSums == ClientSpec => [](SumsInv /\ SupplyInv)
<1>1. ClientInit => SumsInv /\ SupplyInv
  BY SumsInit, SupplyInit, StableCoinAssumption DEF ClientInit, Init, TokenInit, SupplyInv
<1>2. ClientInv /\ SumsInv /\ SupplyInv /\ [ClientNext]_clientVars => SumsInv' /\ SupplyInv'
  BY ClientMoves, MoveKeepsSums, MoveKeepsSupply DEF ClientInv, Inv, LedgerInv
<1> QED
  BY <1>1, <1>2, ClientInvariance, PTL DEF ClientSpec

(* With keys in other hands the amount recorded as held for a holder is    *)
(* still the sum over its holds (totalHeldAmountByAccount).                *)
THEOREM ClientAccountSumCorrect == ClientSpec => []AccountTotalMatchesHolds
<1>1. ClientInv /\ SumsInv => AccountTotalMatchesHolds
  BY SumsAreTotals DEF ClientInv, Inv
<1> QED
  BY <1>1, ClientInvariance, ClientSums, PTL

(* And the amount recorded in all the sum over all of them, which the      *)
(* burnable amount rests on (getBurnableAmount).                           *)
THEOREM ClientTotalSumCorrect == ClientSpec => []TotalMatchesHolds
<1>1. ClientInv /\ SumsInv => TotalMatchesHolds
  BY SumsAreTotals DEF ClientInv, Inv
<1> QED
  BY <1>1, ClientInvariance, ClientSums, PTL

(* A native wipe destroys tokens the facets know nothing of, and the       *)
(* supply still is what the holders have (TokenWipeTransaction).           *)
THEOREM ClientSupplyCorrect == ClientSpec => []SupplyMatchesBalances
<1>1. SupplyInv => SupplyMatchesBalances
  BY DEF SupplyInv, SupplyOK, Tokens, SupplyMatchesBalances
<1> QED
  BY <1>1, ClientSums, PTL

(* The records of the holds agree (HoldManagementStorageWrapper).          *)
THEOREM ClientRecordsCorrect == ClientSpec => []HoldRegistryConsistent
<1>1. ClientInv => HoldRegistryConsistent
  BY DEF ClientInv, Inv, LedgerInv
<1> QED
  BY <1>1, ClientInvariance, PTL

(* A command that is sent long after its checks cannot hit a later hold of *)
(* the same id: there is none (_registerHold).                             *)
THEOREM ClientIdsCorrect == ClientSpec => HoldIdsAreNeverReused
<1>1. ASSUME ClientInv, [ClientNext]_clientVars
      PROVE  \A a \in Account, id \in HoldId :
               id <= nextHoldId[a] /\ id \notin holdIds[a] => id \notin holdIds'[a]
  BY <1>1, ClientMoves, MoveKeepsIds DEF ClientInv, Inv
<1> QED
  BY ClientInvariance, <1>1, PTL DEF ClientSpec, HoldIdsAreNeverReused

(* Whatever its checks saw, it pays only a party of the hold (executeHold, *)
(* releaseHold, reclaimHold).                                              *)
THEOREM ClientPaymentsCorrect == ClientSpec => HoldPaysItsParties
<1>1. ASSUME ClientInv, [ClientNext]_clientVars
      PROVE  \A a \in Account, id \in HoldId :
               LET paid == AmountOf(holds[a][id]) - AmountOf(holds'[a][id])
               IN holds[a][id] # NoHold /\ paid # 0 =>
                    \E h \in Account :
                      /\ balance'[h] = balance[h] + paid
                      /\ h # a => /\ now < holds[a][id].expiration
                                  /\ holds[a][id].to \in {NoAddress, h}
  BY <1>1, ClientMoves, MovePaysParties DEF ClientInv, Inv
<1> QED
  BY ClientInvariance, <1>1, PTL DEF ClientSpec, HoldPaysItsParties

(* And what it locks it takes from the holder (_createHoldInternal).       *)
THEOREM ClientLockingCorrect == ClientSpec => LockingConservesTokens
<1>1. ASSUME ClientInv, [ClientNext]_clientVars
      PROVE  \A a \in Account : heldByAccount'[a] > heldByAccount[a] =>
               /\ balance'[a] + heldByAccount'[a] = balance[a] + heldByAccount[a]
               /\ totalSupply' = totalSupply
               /\ \A h \in Account \ {a} : balance'[h] = balance[h]
  BY <1>1, ClientMoves, MoveConservesTokens DEF ClientInv, Inv
<1> QED
  BY ClientInvariance, <1>1, PTL DEF ClientSpec, LockingConservesTokens

-----------------------------------------------------------------------------
(* Refusals                                                                *)

(* What is left of a handler is its end.                                   *)
EndOf(todo, handler) ==
  /\ Len(todo) <= Len(handler)
  /\ \A i \in 1..Len(todo) : todo[i] = handler[Len(handler) - Len(todo) + i]

(* What a command has found out.  Of a cash-in: once the supply has been   *)
(* read it is the supply, and the reserve is only asked for where there is *)
(* one.  Of a refused command: the check that failed fails still.          *)
Facts(r, todo, refused, supply, access, standing) ==
  /\ EndOf(todo, Handler[r.op])
  /\ standing /\ r.op = "cashIn" =>
       /\ Len(todo) <= 2 => supply = totalSupply
       /\ Len(todo) = 1 => reserveAddress # NoFeed
  /\ refused => todo # <<>>
  /\ refused /\ standing =>
       ~Passes(Head(todo), r, [supply |-> supply, access |-> access])

(* The proxy has been granted KYC when it created the token, and nobody    *)
(* takes it from it.                                                       *)
RefusalInv ==
  /\ Contract \in kyc
  /\ InFlight =>
       Facts(command.request, command.todo, command.refused, command.seen.supply,
             command.seen.access, command.standing)

(* The elements of a list.                                                 *)
LEMMA Elements ==
  /\ \A a, x : (\E i \in 1..Len(<<a>>) : x = <<a>>[i]) => x = a
  /\ \A a, b, x : (\E i \in 1..Len(<<a, b>>) : x = <<a, b>>[i]) => x \in {a, b}
  /\ \A a, b, c, x : (\E i \in 1..Len(<<a, b, c>>) : x = <<a, b, c>>[i]) => x \in {a, b, c}
  /\ \A a, b, c, d, x :
       (\E i \in 1..Len(<<a, b, c, d>>) : x = <<a, b, c, d>>[i]) => x \in {a, b, c, d}
OBVIOUS

(* The elements of a list of five.                                         *)
LEMMA ElementsOfFive ==
  \A a, b, c, d, e, x :
    (\E i \in 1..Len(<<a, b, c, d, e>>) : x = <<a, b, c, d, e>>[i]) => x \in {a, b, c, d, e}
OBVIOUS

(* The checks of a handler, in order.                                      *)
LEMMA ChecksAre ==
  ASSUME NEW r \in Requests, NEW todo \in Seq(Check), EndOf(todo, Handler[r.op]),
         todo # <<>>
  PROVE  /\ r.op = "cashIn" =>
              \/ Len(todo) = 4 /\ Head(todo) = "target"
              \/ Len(todo) = 3 /\ Head(todo) = "maxSupply"
              \/ Len(todo) = 2 /\ Head(todo) = "reserveAddress"
              \/ Len(todo) = 1 /\ Head(todo) = "reserve"
         /\ r.op = "burn" => Head(todo) \in {"capabilities", "burnable"}
         /\ r.op = "wipe" => Head(todo) \in {"balanceOfTarget", "capabilities"}
         /\ r.op = "rescue" => Head(todo) \in {"caller", "capabilities", "balanceOfTreasury"}
         /\ r.op \in HoldCreations =>
              Head(todo) \in {"proxyKeys", "holder", "balanceOfHolder"}
         /\ r.op = "executeHold" =>
              Head(todo) \in {"capabilities", "holder", "target", "holdBalance", "escrow",
                              "destination", "expiration"}
         /\ r.op = "releaseHold" =>
              Head(todo) \in {"capabilities", "holder", "holdBalance", "escrow", "expiration"}
         /\ r.op = "reclaimHold" =>
              Head(todo) \in {"capabilities", "caller", "holdId", "expiration"}
         /\ r.op = "grantKyc" => Head(todo) \in {"capabilities", "kycRevoked"}
         /\ r.op = "revokeKyc" => Head(todo) \in {"capabilities", "kycGranted"}
         /\ r.op \in {"freeze", "unfreeze", "pause", "unpause", "delete"} =>
              Head(todo) = "capabilities"
<1> DEFINE h == Handler[r.op]
           n == Len(todo)
<1>1. /\ n \in Nat /\ n # 0 /\ Head(todo) = todo[1] /\ 1 \in 1..n
  OBVIOUS
<1>2. Head(todo) = h[Len(h) - n + 1] /\ n <= Len(h)
  BY <1>1 DEF EndOf
<1> HIDE DEF h, n
<1>3. /\ r.op = "cashIn" => h = CashInHandler
      /\ r.op = "burn" => h = BurnHandler
      /\ r.op = "wipe" => h = WipeHandler
      /\ r.op = "rescue" => h = RescueHandler
      /\ r.op = "createHold" => h = CreateHoldHandler
      /\ r.op = "createHoldByController" => h = CreateHoldByControllerHandler
      /\ r.op = "executeHold" => h = ExecuteHoldHandler
      /\ r.op = "releaseHold" => h = ReleaseHoldHandler
      /\ r.op = "reclaimHold" => h = ReclaimHoldHandler
      /\ r.op = "grantKyc" => h = GrantKycHandler
      /\ r.op = "revokeKyc" => h = RevokeKycHandler
      /\ r.op = "freeze" => h = FreezeHandler
      /\ r.op = "unfreeze" => h = UnFreezeHandler
      /\ r.op = "pause" => h = PauseHandler
      /\ r.op = "unpause" => h = UnPauseHandler
      /\ r.op = "delete" => h = DeleteHandler
  BY DEF h, Handler
<1>4. ASSUME r.op = "cashIn"
      PROVE  \/ n = 4 /\ Head(todo) = "target"
             \/ n = 3 /\ Head(todo) = "maxSupply"
             \/ n = 2 /\ Head(todo) = "reserveAddress"
             \/ n = 1 /\ Head(todo) = "reserve"
  <2>1. h = <<"target", "maxSupply", "reserveAddress", "reserve">> /\ Len(h) = 4
    BY <1>3, <1>4 DEF CashInHandler
  <2>2. n = 4 \/ n = 3 \/ n = 2 \/ n = 1
    BY <1>1, <1>2, <2>1
  <2> QED
    BY <1>2, <2>1, <2>2
<1>5. \E i \in 1..Len(h) : Head(todo) = h[i]
  BY <1>1, <1>2
<1>6. ASSUME r.op = "burn"
     PROVE  Head(todo) \in {"capabilities", "burnable"}
  <2>1. h = <<"capabilities", "burnable">>
    BY <1>3, <1>6 DEF BurnHandler
  <2> QED
    BY <1>5, <2>1, Elements, Zenon
<1>7. ASSUME r.op = "wipe"
     PROVE  Head(todo) \in {"balanceOfTarget", "capabilities"}
  <2>1. h = <<"balanceOfTarget", "capabilities">>
    BY <1>3, <1>7 DEF WipeHandler
  <2> QED
    BY <1>5, <2>1, Elements, Zenon
<1>8. ASSUME r.op = "rescue"
     PROVE  Head(todo) \in {"caller", "capabilities", "balanceOfTreasury"}
  <2>1. h = <<"caller", "capabilities", "balanceOfTreasury">>
    BY <1>3, <1>8 DEF RescueHandler
  <2> QED
    BY <1>5, <2>1, Elements, Zenon
<1>9. ASSUME r.op = "executeHold"
     PROVE  Head(todo) \in {"capabilities", "holder", "target", "holdBalance",
                            "escrow", "destination", "expiration"}
  <2>1. h = <<"capabilities", "holder", "target", "holdBalance", "escrow",
              "destination", "expiration">>
    BY <1>3, <1>9 DEF ExecuteHoldHandler
  <2>2. Len(h) = 7
    BY <2>1
  <2>3. /\ h[1] = "capabilities" /\ h[2] = "holder" /\ h[3] = "target"
        /\ h[4] = "holdBalance" /\ h[5] = "escrow" /\ h[6] = "destination"
        /\ h[7] = "expiration"
    BY <2>1
  <2> QED
    BY <1>5, <2>2, <2>3
<1>10. ASSUME r.op = "releaseHold"
      PROVE  Head(todo) \in {"capabilities", "holder", "holdBalance", "escrow",
                             "expiration"}
  <2>1. h = <<"capabilities", "holder", "holdBalance", "escrow", "expiration">>
    BY <1>3, <1>10 DEF ReleaseHoldHandler
  <2> QED
    BY <1>5, <2>1, ElementsOfFive, Zenon
<1>11. ASSUME r.op = "reclaimHold"
      PROVE  Head(todo) \in {"capabilities", "caller", "holdId", "expiration"}
  <2>1. h = <<"capabilities", "caller", "holdId", "expiration">>
    BY <1>3, <1>11 DEF ReclaimHoldHandler
  <2> QED
    BY <1>5, <2>1, Elements, Zenon
<1>12. ASSUME r.op = "grantKyc"
      PROVE  Head(todo) \in {"capabilities", "kycRevoked"}
  <2>1. h = <<"capabilities", "kycRevoked">>
    BY <1>3, <1>12 DEF GrantKycHandler
  <2> QED
    BY <1>5, <2>1, Elements, Zenon
<1>13. ASSUME r.op = "revokeKyc"
      PROVE  Head(todo) \in {"capabilities", "kycGranted"}
  <2>1. h = <<"capabilities", "kycGranted">>
    BY <1>3, <1>13 DEF RevokeKycHandler
  <2> QED
    BY <1>5, <2>1, Elements, Zenon
<1>14. ASSUME r.op \in HoldCreations
       PROVE  Head(todo) \in {"proxyKeys", "holder", "balanceOfHolder"}
  <2>1. h = <<"proxyKeys", "holder", "balanceOfHolder">>
    BY <1>3, <1>14 DEF CreateHoldHandler, CreateHoldByControllerHandler, HoldCreations
  <2> QED
    BY <1>5, <2>1, Elements, Zenon
<1>15. ASSUME r.op \in {"freeze", "unfreeze", "pause", "unpause", "delete"}
       PROVE  Head(todo) = "capabilities"
  <2>1. h = <<"capabilities">>
    BY <1>3, <1>15
      DEF FreezeHandler, UnFreezeHandler, PauseHandler, UnPauseHandler, DeleteHandler
  <2> QED
    BY <1>5, <2>1, Elements, Zenon
<1> HIDE DEF EndOf
<1> QED
  BY <1>4, <1>6, <1>7, <1>8, <1>9, <1>10, <1>11, <1>12, <1>13, <1>14, <1>15 DEF n

(* The access decision and who can receive tokens rest on the state of the *)
(* token and on its keys.                                                  *)
LEMMA StatusDecides ==
  ASSUME NEW r \in Requests, UNCHANGED <<statusVars, keyOf>>
  PROVE  /\ AdapterSends(r)' <=> AdapterSends(r)
         /\ AccessDecision(r)' = AccessDecision(r)
         /\ \A h : CanReceive(h)' <=> CanReceive(h)
<1>1. /\ frozen' = frozen /\ kyc' = kyc /\ paused' = paused /\ deleted' = deleted
      /\ keyOf' = keyOf
  BY DEF statusVars
<1>2. Usable' <=> Usable
  BY <1>1 DEF Usable
<1>3. Capabilities(r.caller)' = Capabilities(r.caller)
  BY <1>1, <1>2 DEF Capabilities
<1>4. AccessDecision(r)' = AccessDecision(r)
  BY <1>3 DEF AccessDecision
<1> QED
  BY <1>1, <1>4 DEF AdapterSends, LooksAtDecision, CanReceive

(* A hold that reads the same is as live as it was: a live one has an      *)
(* amount, the empty one that stands for others has none.                  *)
LEMMA LiveReads ==
  ASSUME LedgerInv, LedgerInv', NEW r \in Requests, HoldFor(r)' = HoldFor(r)
  PROVE  Live(r.holder, r.id)' <=> Live(r.holder, r.id)
<1>1. r.holder \in Account
  BY ClientAssumption
<1>2. Live(r.holder, r.id) => HoldFor(r).amount > 0
  BY <1>1 DEF HoldFor, LedgerInv, HoldTypeOK, HoldRegistryConsistent, Live
<1>3. ~Live(r.holder, r.id) => HoldFor(r).amount = 0
  BY DEF HoldFor, EmptyHold
<1>4. Live(r.holder, r.id)' => HoldFor(r)'.amount > 0
  BY <1>1 DEF HoldFor, LedgerInv, HoldTypeOK, HoldRegistryConsistent, Live
<1>5. ~Live(r.holder, r.id)' => HoldFor(r)'.amount = 0
  BY DEF HoldFor, EmptyHold
<1> QED
  BY <1>2, <1>3, <1>4, <1>5

(* As long as the grounds of a request stand, a check answers the same.    *)
LEMMA GroundsDecide ==
  ASSUME LedgerInv, LedgerInv', NEW r \in Requests, NEW todo \in Seq(Check),
         EndOf(todo, Handler[r.op]), todo # <<>>, NEW seen, Grounds(r)' = Grounds(r)
  PROVE  Passes(Head(todo), r, seen)' <=> Passes(Head(todo), r, seen)
<1> DEFINE check == Head(todo)
<1>1. /\ UNCHANGED <<statusVars, keyOf>>
      /\ r.op = "cashIn" => UNCHANGED <<totalSupply, reserveVars, now>>
      /\ r.op = "burn" => BurnableAmount' = BurnableAmount
      /\ r.op = "wipe" => balance'[r.target] = balance[r.target]
      /\ r.op = "rescue" => balance'[Contract] = balance[Contract]
      /\ r.op \in HoldCreations => balance'[r.holder] = balance[r.holder]
      /\ r.op \in Settlements => UNCHANGED <<HoldFor(r), now>>
  BY DEF Grounds, HoldCreations, Settlements
<1>2. /\ AdapterSends(r)' <=> AdapterSends(r)
      /\ \A h : CanReceive(h)' <=> CanReceive(h)
  BY <1>1, StatusDecides
<1>3. kyc' = kyc /\ keyOf' = keyOf
  BY <1>1 DEF statusVars
<1>4. r.op \in Settlements => (Live(r.holder, r.id)' <=> Live(r.holder, r.id))
  BY <1>1, LiveReads
<1>5. SUFFICES ASSUME NEW c, c = check
               PROVE  Passes(c, r, seen)' <=> Passes(c, r, seen)
  OBVIOUS
<1> HIDE DEF check
<1>6. CASE c \in {"capabilities", "proxyKeys", "target", "holder", "caller",
                  "kycRevoked", "kycGranted", "reserveAddress"}
  BY <1>2, <1>3, <1>6 DEF Passes
<1>7. CASE r.op = "cashIn" /\ c = "maxSupply"
  BY <1>1, <1>2, <1>7 DEF Passes
<1>8. CASE r.op = "cashIn" /\ c = "reserve"
  BY <1>1, <1>8 DEF Passes, checkReserve, ReserveAmount, reserveVars
<1>9. CASE r.op = "burn" /\ c = "burnable"
  BY <1>1, <1>9 DEF Passes, checkBurnableAmount
<1>10. CASE r.op = "wipe" /\ c = "balanceOfTarget"
  BY <1>1, <1>10 DEF Passes
<1>11. CASE r.op = "rescue" /\ c = "balanceOfTreasury"
  BY <1>1, <1>11 DEF Passes
<1>12. CASE r.op \in HoldCreations /\ c = "balanceOfHolder"
  BY <1>1, <1>12 DEF Passes
<1>13. CASE r.op \in Settlements /\ c \in {"holdBalance", "holdId", "escrow",
                                           "destination", "expiration"}
  BY <1>1, <1>4, <1>13
    DEF Passes, checkHoldBalance, checkValidHoldId, checkEscrow, checkHoldTarget,
        checkHoldExpiration
<1>14. r.op \in Operation
  BY ClientAssumption
<1> QED
  BY <1>5, <1>6, <1>7, <1>8, <1>9, <1>10, <1>11, <1>12, <1>13, <1>14, ChecksAre
    DEF check, Operation, HoldOps, HoldCreations, Settlements, KeyedOps, KeyFor

(* What the facets and the token service demand of a call, the capabilities*)
(* offer: nobody is told an operation is closed that is open.              *)
LEMMA CallIsOffered ==
  ASSUME NEW r \in Requests, ContractCall(r), ~Overcautious(r)
  PROVE  AdapterSends(r)
<1>1. r.op \in Operation
  BY ClientAssumption
<1>2. IF r.op \in {"pause", "unpause"} THEN ~deleted ELSE Usable
  <2>1. CASE r.op \in {"pause", "unpause"}
    BY <2>1 DEF ContractCall, Pause, Unpause
  <2>2. CASE r.op \in {"cashIn", "burn", "wipe", "rescue"}
    BY <2>2 DEF ContractCall, Mint, Burn, Wipe, Rescue, CanMint, CanBurn, CanWipe, CanTransfer
  <2>3. CASE r.op \in {"freeze", "unfreeze", "grantKyc", "revokeKyc", "delete"}
    BY <2>3 DEF ContractCall, Freeze, Unfreeze, GrantKyc, RevokeKyc, DeleteToken
  <2>4. CASE r.op \in HoldOps
    BY <2>4
      DEF ContractCall, CreateHold, CreateHoldByController, CreateHoldInternal, CanMint,
          ExecuteHold, ReleaseHold, ReclaimHold, PayOut, CanTransfer, HoldOps, HoldCreations,
          Settlements
  <2> QED
    BY <1>1, <2>1, <2>2, <2>3, <2>4 DEF Operation, KeyedOps, KeyFor
<1>3. /\ r.op \in KeyedOps => keyOf[KeyFor[r.op]] = Contract
      /\ r.op \in HoldOps => keyOf["wipe"] = Contract
      /\ r.op \in {"grantKyc", "revokeKyc"} => KycKey
  BY DEF ContractCall, Overcautious, HoldOps, GrantKyc, RevokeKyc
<1>4. <<r.op, "contract">> \in Capabilities(r.caller)
  <2> DEFINE cap == <<r.op, "contract">>
  <2>1. cap \in Operation \X {"contract", "hts"} /\ cap[1] = r.op /\ cap[2] = "contract"
    BY <1>1
  <2> HIDE DEF cap
  <2> QED
    BY <1>2, <1>3, <2>1 DEF Capabilities, cap
<1> QED
  BY <1>4 DEF AdapterSends, AccessDecision

(* And what they demand of the accounts, a status check grants.            *)
LEMMA CallPaysReceivers ==
  ASSUME LedgerInv, Contract \in kyc, NEW r \in Requests, ContractCall(r),
         ~Overcautious(r)
  PROVE  /\ r.op = "cashIn" => CanReceive(r.target)
         /\ r.op \in HoldCreations => CanReceive(r.holder)
         /\ r.op = "executeHold" => CanReceive(r.holder) /\ CanReceive(r.target)
         /\ r.op = "releaseHold" => CanReceive(r.holder)
         /\ r.op \in {"rescue", "reclaimHold"} => CanReceive(r.caller)
<1>1. CanReceive(Contract)
  BY TokenAssumption DEF LedgerInv, TokenTypeOK, CanReceive
<1>2. r.op = "cashIn" => CanReceive(r.target)
  BY <1>1 DEF ContractCall, Mint, CanTransfer
<1>3. r.op = "rescue" => CanReceive(r.caller)
  BY DEF ContractCall, Rescue, CanTransfer
<1>4. r.op = "executeHold" => CanReceive(r.target)
  BY DEF ContractCall, ExecuteHold, PayOut, CanTransfer
<1>5. r.op = "releaseHold" => CanReceive(r.holder)
  BY DEF ContractCall, ReleaseHold, PayOut, CanTransfer
<1> QED
  BY <1>2, <1>3, <1>4, <1>5 DEF Overcautious

(* A cash-in the facet accepts is within the reserve as the SDK counts it, *)
(* in whole tokens, where the feed has the decimals the SDK takes it to    *)
(* have.                                                                   *)
LEMMA CashInIsWithinReserve ==
  ASSUME Inv, NEW r \in Requests, NEW seen, seen.supply = totalSupply,
         r.op = "cashIn", ContractCall(r), ~Overcautious(r), reserveAddress # NoFeed
  PROVE  checkReserve(r, seen)
<1>1. r.amount \in Int /\ totalSupply \in Nat /\ ReserveTypeOK
  BY ClientAssumption DEF Inv, LedgerInv, TokenTypeOK
<1>2. CheckReserveAmount(r.amount, totalSupply, now)
  BY DEF ContractCall, Mint
<1>3. CoveredByReserve(totalSupply + r.amount)
  BY <1>1, <1>2, CheckedIsCovered
<1>4. /\ ReserveDecimals[reserveAddress] = RESERVE_DECIMALS
      /\ ReserveAmount = feed[reserveAddress].answer
      /\ ReserveAmount \in Int
  BY <1>1 DEF Overcautious, ReserveAmount, ReserveTypeOK
<1>5. /\ Power[TokenDecimals] \in Nat \ {0} /\ Power[RESERVE_DECIMALS] \in Nat \ {0}
      /\ totalSupply + r.amount \in Int
  BY <1>1, PowerPositive, ReserveAssumption, ClientAssumption
<1>6. (totalSupply + r.amount) * Power[RESERVE_DECIMALS]
        <= ReserveAmount * Power[TokenDecimals]
  BY <1>3, <1>4 DEF CoveredByReserve
<1>7. (totalSupply + r.amount) \div Power[TokenDecimals]
        <= ReserveAmount \div Power[RESERVE_DECIMALS]
  BY <1>4, <1>5, <1>6, WholePartsCompare
<1> QED
  BY <1>7 DEF checkReserve, WholePart

(* Every check a handler makes is passed by a call the facets accept, with *)
(* the exception of granting KYC to who has it and revoking it from who    *)
(* has not, which change nothing.                                          *)
LEMMA AcceptedCallPasses ==
  ASSUME Inv, Contract \in kyc, NEW r \in Requests, ContractCall(r), vars' # vars,
         ~Overcautious(r), NEW todo \in Seq(Check), EndOf(todo, Handler[r.op]),
         todo # <<>>, NEW seen,
         r.op = "cashIn" /\ Len(todo) = 1 =>
           seen.supply = totalSupply /\ reserveAddress # NoFeed
  PROVE  Passes(Head(todo), r, seen)
<1> DEFINE check == Head(todo)
<1>1. LedgerInv /\ r.op \in Operation
  BY ClientAssumption DEF Inv
<1>2. AdapterSends(r)
  BY CallIsOffered
<1>3. SUFFICES ASSUME NEW c, c = check
               PROVE  Passes(c, r, seen)
  OBVIOUS
<1> HIDE DEF check
<1>4. CASE c \in {"capabilities", "reserveAddress"}
  BY <1>2, <1>4 DEF Passes
<1>5. CASE c \in {"target", "holder", "caller"}
  <2>1. \/ c = "target" /\ r.op \in {"cashIn", "executeHold"}
        \/ c = "holder" /\ r.op \in HoldCreations \cup {"executeHold", "releaseHold"}
        \/ c = "caller" /\ r.op \in {"rescue", "reclaimHold"}
    BY <1>1, <1>3, <1>5, ChecksAre
      DEF check, Operation, HoldOps, HoldCreations, Settlements, KeyedOps, KeyFor
  <2> QED
    BY <1>1, <2>1, CallPaysReceivers DEF Passes
<1>6. CASE r.op = "cashIn" /\ c = "maxSupply"
  <2>1. totalSupply + r.amount <= MaxSupply
    BY <1>6 DEF ContractCall, Mint
  <2>2. totalSupply \in Int /\ r.amount \in Int /\ MaxSupply \in Int
    BY <1>1, ClientAssumption, StableCoinAssumption DEF LedgerInv, TokenTypeOK
  <2> QED
    BY <1>2, <1>6, <2>1, <2>2 DEF Passes
<1>7. CASE r.op = "cashIn" /\ Len(todo) = 1 /\ c = "reserve"
  BY <1>7, CashInIsWithinReserve DEF Passes
<1>8. CASE r.op = "burn" /\ c = "burnable"
  BY <1>8 DEF Passes, ContractCall, Burn, checkBurnableAmount
<1>9. CASE r.op = "wipe" /\ c = "balanceOfTarget"
  BY <1>9 DEF Passes, ContractCall, Wipe, CanWipe
<1>10. CASE r.op = "rescue" /\ c = "balanceOfTreasury"
  BY <1>10 DEF Passes, ContractCall, Rescue
<1>11. CASE r.op \in HoldCreations /\ c \in {"proxyKeys", "balanceOfHolder"}
  <2>1. keyOf["wipe"] = Contract
    BY <1>11 DEF ContractCall
  <2>2. r.op = "createHold" => r.holder = r.caller
    BY ClientAssumption
  <2>3. r.hold.amount <= balance[r.holder]
    BY <1>11, <2>2
      DEF ContractCall, HoldCreations, CreateHold, CreateHoldByController,
          CreateHoldInternal, CanWipe
  <2> QED
    BY <1>2, <1>11, <2>1, <2>3 DEF Passes
<1>12. CASE /\ r.op \in Settlements
            /\ c \in {"holdBalance", "holdId", "escrow", "destination", "expiration"}
  <2>1. HoldFor(r) = holds[r.holder][r.id] /\ Live(r.holder, r.id)
    BY <1>12
      DEF ContractCall, Settlements, ExecuteHold, ReleaseHold, ReclaimHold, HoldFor
  <2>2. /\ r.amount \in Int /\ now \in Int
        /\ HoldFor(r).amount \in Int /\ HoldFor(r).expiration \in Int
    <3>1. r.holder \in Account /\ r.id \in HoldId
      BY <1>1, <2>1, ClientAssumption DEF LedgerInv, HoldTypeOK, Live
    <3>2. HoldFor(r) \in HoldData
      BY <1>1, <2>1, <3>1 DEF LedgerInv, HoldTypeOK, HoldRegistryConsistent, Live
    <3> QED
      BY <1>1, <3>2, ClientAssumption DEF LedgerInv, HoldTypeOK, HoldData
  <2>3. CASE r.op = "executeHold"
    <3>1. /\ r.amount <= HoldFor(r).amount /\ HoldFor(r).expiration > now
          /\ HoldFor(r).escrow = r.caller /\ HoldFor(r).to \in {NoAddress, r.target}
          /\ r.target \in Holder
      BY <2>1, <2>3 DEF ContractCall, ExecuteHold
    <3>2. c \in {"holdBalance", "escrow", "destination", "expiration"}
      BY <1>3, <1>12, <2>3, ChecksAre DEF check
    <3> QED
      BY <2>2, <2>3, <3>1, <3>2, HoldAssumption
        DEF Passes, checkHoldBalance, checkEscrow, checkHoldTarget, checkHoldExpiration
  <2>4. CASE r.op = "releaseHold"
    <3>1. /\ r.amount <= HoldFor(r).amount /\ HoldFor(r).expiration > now
          /\ HoldFor(r).escrow = r.caller
      BY <2>1, <2>4 DEF ContractCall, ReleaseHold
    <3>2. c \in {"holdBalance", "escrow", "expiration"}
      BY <1>3, <1>12, <2>4, ChecksAre DEF check
    <3> QED
      BY <2>2, <2>4, <3>1, <3>2
        DEF Passes, checkHoldBalance, checkEscrow, checkHoldExpiration
  <2>5. CASE r.op = "reclaimHold"
    <3>1. HoldFor(r).expiration <= now
      BY <2>1, <2>5 DEF ContractCall, ReclaimHold
    <3>2. c \in {"holdId", "expiration"}
      BY <1>3, <1>12, <2>5, ChecksAre DEF check
    <3> QED
      BY <2>1, <2>5, <3>1, <3>2 DEF Passes, checkValidHoldId, checkHoldExpiration
  <2> QED
    BY <1>12, <2>3, <2>4, <2>5 DEF Settlements
<1>13. CASE r.op = "grantKyc" /\ c = "kycRevoked"
  <2>1. r.target \in kyc => vars' = vars
    BY <1>13, Zenon
      DEF ContractCall, GrantKyc, SetStatus, vars, tokenVars
  <2> QED
    BY <1>13, <2>1 DEF Passes
<1>14. CASE r.op = "revokeKyc" /\ c = "kycGranted"
  <2>1. r.target \notin kyc => vars' = vars
    BY <1>14
      DEF ContractCall, RevokeKyc, SetStatus, vars, tokenVars
  <2> QED
    BY <1>14, <2>1 DEF Passes
<1> QED
  BY <1>1, <1>3, <1>4, <1>5, <1>6, <1>7, <1>8, <1>9, <1>10, <1>11, <1>12, <1>13, <1>14,
     ChecksAre
    DEF check, Operation, HoldOps, HoldCreations, Settlements, KeyedOps, KeyFor

-----------------------------------------------------------------------------

(* Nobody takes the KYC of the proxy away: a facet or a key holder revokes *)
(* it from the accounts of requests, which are not the proxy.              *)
LEMMA ProxyKeepsKyc ==
  ASSUME CommandInv, Contract \in kyc, [ClientNext]_clientVars
  PROVE  Contract \in kyc'
<1>1. \A r \in Requests : r.op # "cashIn" => r.target # Contract
  BY ClientAssumption
<1>2. \A k, a : k = kyc \ {a} /\ a # Contract => Contract \in k
  OBVIOUS
<1>3. ASSUME NEW r \in Requests, ContractCall(r)
      PROVE  Contract \in kyc'
  <2>1. CASE r.op = "revokeKyc"
    BY <1>1, <1>3, <2>1 DEF ContractCall, RevokeKyc, SetStatus
  <2>2. CASE r.op = "grantKyc"
    BY <1>3, <2>2 DEF ContractCall, GrantKyc, SetStatus
  <2>3. CASE r.op \notin {"revokeKyc", "grantKyc"}
    BY <1>3, <2>3
      DEF ContractCall, Mint, Burn, Wipe, Rescue, Pause, Unpause, Freeze, Unfreeze,
          DeleteToken, SetStatus, statusVars, CreateHold, CreateHoldByController,
          CreateHoldInternal, ExecuteHold, ReleaseHold, ReclaimHold, PayOut
  <2> QED
    BY <2>1, <2>2, <2>3
<1>4. ASSUME NEW r \in Requests, NativeCall(r)
      PROVE  Contract \in kyc'
  BY <1>1, <1>4 DEF NativeCall, NativeWipe, SetStatus, statusVars
<1>5. (ReserveNext \/ Environment) => kyc' = kyc
  BY DEF ReserveNext, Environment, UserTransfer, tokenVars, statusVars
<1>6. UNCHANGED ledgerVars \/ UNCHANGED vars => kyc' = kyc
  BY DEF ledgerVars, vars, tokenVars
<1> QED
  BY <1>3, <1>4, <1>5, <1>6, ClientSteps

(* A command that starts has found out nothing.                            *)
LEMMA StartKnowsNothing ==
  ASSUME Contract \in kyc', Start
  PROVE  RefusalInv'
<1>1. PICK r \in Requests : command' = Command(r, Handler[r.op], FALSE, 0, {}, TRUE)
  BY DEF Start, Command
<1>2. Handler[r.op] \in Seq(Check) /\ (r.op = "cashIn" => Len(Handler[r.op]) = 4)
  <2>1. r.op = "cashIn" => Handler[r.op] = <<"target", "maxSupply", "reserveAddress", "reserve">>
    BY DEF Handler, CashInHandler
  <2> QED
    BY <2>1, HandlersAre, ClientAssumption
<1>3. EndOf(Handler[r.op], Handler[r.op])
  BY <1>2 DEF EndOf
<1>4. Facts(r, Handler[r.op], FALSE, 0, {}, TRUE)'
  <2> DEFINE h == Handler[r.op]
  <2>1. EndOf(h, h)' /\ (r.op = "cashIn" => Len(h) = 4)
    BY <1>2, <1>3 DEF EndOf
  <2> HIDE DEF h
  <2>2. Facts(r, h, FALSE, 0, {}, TRUE)'
    BY <2>1 DEF Facts, h
  <2> QED
    BY <2>2 DEF h
<1>5. /\ command'.request = r /\ command'.todo = Handler[r.op] /\ command'.refused = FALSE
      /\ command'.seen.supply = 0 /\ command'.seen.access = {} /\ command'.standing = TRUE
  BY <1>1 DEF Command
<1> QED
  BY <1>4, <1>5 DEF RefusalInv

(* What a command in flight knows, in its parts.                           *)
LEMMA CommandKnows ==
  ASSUME CommandInv, RefusalInv, InFlight
  PROVE  \E r, todo, refused, supply, access, standing :
           /\ r \in Requests /\ todo \in Seq(Check)
           /\ command = Command(r, todo, refused, supply, access, standing)
           /\ Facts(r, todo, refused, supply, access, standing)
<1>1. PICK r, todo, refused, supply, access, standing :
        /\ r \in Requests /\ todo \in Seq(Check)
        /\ command = Command(r, todo, refused, supply, access, standing)
  BY DEF CommandInv
<1>2. /\ command.request = r /\ command.todo = todo /\ command.refused = refused
      /\ command.seen.supply = supply /\ command.seen.access = access
      /\ command.standing = standing
  BY <1>1 DEF Command
<1>3. Facts(r, todo, refused, supply, access, standing)
  BY <1>2 DEF RefusalInv
<1> QED
  BY <1>1, <1>3

(* And what it will know.                                                  *)
LEMMA CommandWillKnow ==
  ASSUME Contract \in kyc', NEW r \in Requests, NEW todo, NEW refused, NEW supply,
         NEW access, NEW standing,
         command' = Command(r, todo, refused, supply, access, standing),
         Facts(r, todo, refused, supply, access, standing)'
  PROVE  RefusalInv'
<1>1. /\ command'.request = r /\ command'.todo = todo /\ command'.refused = refused
      /\ command'.seen.supply = supply /\ command'.seen.access = access
      /\ command'.standing = standing
  BY DEF Command
<1> QED
  BY <1>1 DEF RefusalInv

(* Grounds are made of the ledger.                                         *)
LEMMA LedgerGrounds ==
  ASSUME UNCHANGED ledgerVars, NEW r
  PROVE  Grounds(r)' = Grounds(r)
BY DEF ledgerVars, vars, tokenVars, statusVars, holdVars, reserveVars, Grounds,
       BurnableAmount, HoldFor, Live

(* An answer: a check that was passed leaves the rest of the handler, and  *)
(* the supply once it was read; one that failed would fail again.          *)
LEMMA AnswerKnows ==
  ASSUME ClientInv, ClientInv', RefusalInv, Contract \in kyc', Answer
  PROVE  RefusalInv'
<1>1. PICK r, todo, refused, supply, access, standing :
        /\ r \in Requests /\ todo \in Seq(Check)
        /\ command = Command(r, todo, refused, supply, access, standing)
        /\ Facts(r, todo, refused, supply, access, standing)
  BY CommandKnows DEF ClientInv, Answer
<1> DEFINE seen == [supply |-> supply, access |-> access]
           check == Head(todo)
<1>2. /\ command.request = r /\ command.todo = todo /\ command.seen = seen
      /\ todo # <<>> /\ ~refused
  BY <1>1 DEF Command, Answer
<1>3. UNCHANGED ledgerVars
  BY DEF Answer
<1>4. totalSupply' = totalSupply /\ reserveAddress' = reserveAddress
  BY <1>3 DEF ledgerVars, vars, tokenVars, reserveVars
<1>5. EndOf(todo, Handler[r.op])
  BY <1>1 DEF Facts
<1>6. \/ /\ Passes(check, r, seen)
         /\ command' = [command EXCEPT !.todo = Remaining(check), !.seen = Seen(check)]
      \/ /\ ~Passes(check, r, seen)
         /\ command' = [command EXCEPT !.refused = TRUE]
  BY <1>2 DEF Answer
<1> HIDE DEF check, seen
<1>7. CASE command' = [command EXCEPT !.todo = Remaining(check), !.seen = Seen(check)]
  <2>1. PICK rest, newSupply, newAccess :
          /\ rest = Remaining(check)
          /\ Seen(check) = [supply |-> newSupply, access |-> newAccess]
          /\ check = "maxSupply" => newSupply = totalSupply
          /\ check \in {"target", "reserveAddress", "reserve"} => newSupply = supply
    <3>1. CASE check \in {"capabilities", "maxSupply", "proxyKeys"}
      BY <3>1 DEF Seen
    <3>2. CASE check \notin {"capabilities", "maxSupply", "proxyKeys"}
      BY <1>2, <3>2 DEF Seen, seen
    <3> QED
      BY <3>1, <3>2
  <2>2. \/ rest = Tail(todo) /\ (check = "reserveAddress" => reserveAddress # NoFeed)
        \/ rest = <<>> /\ check = "reserveAddress"
    BY <1>2, <2>1 DEF Remaining
  <2>3. command' = Command(r, rest, refused, newSupply, newAccess, standing)
    BY <1>1, <1>7, <2>1 DEF Command
  <2>4. \/ /\ rest = Tail(todo) /\ Len(rest) = Len(todo) - 1
           /\ check = "reserveAddress" => reserveAddress # NoFeed
        \/ rest = <<>> /\ Len(rest) = 0 /\ check = "reserveAddress"
    <3>1. Len(Tail(todo)) = Len(todo) - 1 /\ Len(<<>>) = 0
      BY <1>2
    <3> QED
      BY <2>2, <3>1
  <2>5. EndOf(rest, Handler[r.op])
    <3> DEFINE h == Handler[r.op]
    <3>1. /\ Len(todo) \in Nat /\ Len(h) \in Nat /\ Len(todo) <= Len(h)
          /\ \A i \in 1..Len(todo) : todo[i] = h[Len(h) - Len(todo) + i]
      BY <1>5, HandlersAre, ClientAssumption DEF EndOf
    <3>2. \A i \in 1..(Len(todo) - 1) : Tail(todo)[i] = todo[i + 1]
      BY <1>2
    <3> HIDE DEF h
    <3>3. CASE rest = Tail(todo) /\ Len(rest) = Len(todo) - 1
      <4>1. ASSUME NEW i \in 1..Len(rest)
            PROVE  rest[i] = h[Len(h) - Len(rest) + i]
        <5>1. i \in 1..(Len(todo) - 1) /\ i + 1 \in 1..Len(todo)
          BY <3>1, <3>3
        <5>2. Len(h) - Len(todo) + (i + 1) = Len(h) - Len(rest) + i
          <6> DEFINE n == Len(todo)
                     m == Len(h)
                     l == Len(rest)
          <6>1. n \in Int /\ m \in Int /\ i \in Int /\ l = n - 1
            BY <3>1, <3>3, <5>1
          <6> HIDE DEF n, m, l
          <6>2. m - n + (i + 1) = m - l + i
            BY <6>1
          <6> QED
            BY <6>2 DEF n, m, l
        <5>3. rest[i] = todo[i + 1]
          BY <3>2, <3>3, <5>1
        <5> QED
          BY <3>1, <5>1, <5>2, <5>3
      <4>2. Len(rest) <= Len(h)
        BY <3>1, <3>3
      <4> QED
        BY <4>1, <4>2 DEF EndOf, h
    <3>4. CASE rest = <<>> /\ Len(rest) = 0
      BY <3>1, <3>4 DEF EndOf, h
    <3> QED
      BY <2>4, <3>3, <3>4
  <2>6. ASSUME r.op = "cashIn", standing
        PROVE  /\ Len(rest) <= 2 => newSupply = totalSupply
               /\ Len(rest) = 1 => reserveAddress # NoFeed
    <3>1. \/ Len(todo) = 4 /\ check = "target"
          \/ Len(todo) = 3 /\ check = "maxSupply"
          \/ Len(todo) = 2 /\ check = "reserveAddress"
          \/ Len(todo) = 1 /\ check = "reserve"
      BY <1>1, <1>2, <1>5, <2>6, ChecksAre DEF check
    <3>2. Len(todo) <= 2 => supply = totalSupply
      BY <1>1, <2>6 DEF Facts
    <3> DEFINE n == Len(todo)
               l == Len(rest)
    <3>3. \/ l = n - 1 /\ (check = "reserveAddress" => reserveAddress # NoFeed)
          \/ l = 0 /\ check = "reserveAddress"
      BY <2>4
    <3>4. \/ n = 4 /\ check = "target"
          \/ n = 3 /\ check = "maxSupply"
          \/ n = 2 /\ check = "reserveAddress"
          \/ n = 1 /\ check = "reserve"
      BY <3>1
    <3>5. n <= 2 => supply = totalSupply
      BY <3>2
    <3> HIDE DEF n, l
    <3>6. /\ l <= 2 => newSupply = totalSupply
          /\ l = 1 => reserveAddress # NoFeed
      BY <2>1, <3>3, <3>4, <3>5
    <3> QED
      BY <3>6 DEF l
  <2>7. Facts(r, rest, refused, newSupply, newAccess, standing)'
    BY <1>2, <1>4, <2>5, <2>6 DEF Facts, EndOf
  <2> QED
    BY <1>1, <2>3, <2>7, CommandWillKnow
<1>8. CASE ~Passes(check, r, seen) /\ command' = [command EXCEPT !.refused = TRUE]
  <2>1. command' = Command(r, todo, TRUE, supply, access, standing)
    BY <1>1, <1>8 DEF Command
  <2>2. Passes(Head(todo), r, seen)' <=> Passes(Head(todo), r, seen)
    BY <1>1, <1>2, <1>3, <1>5, LedgerGrounds, GroundsDecide DEF ClientInv, Inv, seen
  <2>3. Facts(r, todo, TRUE, supply, access, standing)'
    BY <1>1, <1>2, <1>4, <1>8, <2>2 DEF Facts, EndOf, check, seen
  <2> QED
    BY <1>1, <2>1, <2>3, CommandWillKnow
<1> QED
  BY <1>6, <1>7, <1>8

(* Everybody else: what a command knows stands with its grounds.           *)
LEMMA OthersLeaveKnowledge ==
  ASSUME ClientInv, ClientInv', RefusalInv, Contract \in kyc',
         Unsettled \/ UNCHANGED <<command, ledgerVars>>
  PROVE  RefusalInv'
<1>1. CASE ~InFlight
  BY <1>1 DEF Unsettled, RefusalInv, InFlight
<1>2. CASE InFlight
  <2>1. PICK r, todo, refused, supply, access, standing :
          /\ r \in Requests /\ todo \in Seq(Check)
          /\ command = Command(r, todo, refused, supply, access, standing)
          /\ Facts(r, todo, refused, supply, access, standing)
    BY <1>2, CommandKnows DEF ClientInv
  <2>2. PICK stands : /\ command' = Command(r, todo, refused, supply, access, stands)
                      /\ stands => standing /\ Grounds(r)' = Grounds(r)
    <3>1. command.request = r /\ command.standing = standing
      BY <2>1 DEF Command
    <3>2. CASE Unsettled
      <4>1. PICK stands : /\ command' = [command EXCEPT !.standing = stands]
                          /\ stands => standing /\ Grounds(r)' = Grounds(r)
        BY <1>2, <3>1, <3>2 DEF Unsettled
      <4> QED
        BY <2>1, <4>1 DEF Command
    <3>3. CASE UNCHANGED <<command, ledgerVars>>
      BY <2>1, <3>3, LedgerGrounds
    <3> QED
      BY <3>2, <3>3
  <2>3. CASE ~stands
    BY <2>1, <2>2, <2>3, CommandWillKnow DEF Facts, EndOf
  <2>4. CASE stands
    <3>1. Grounds(r)' = Grounds(r) /\ standing
      BY <2>2, <2>4
    <3>2. r.op = "cashIn" => totalSupply' = totalSupply /\ reserveAddress' = reserveAddress
      BY <3>1 DEF Grounds, reserveVars
    <3>3. ASSUME todo # <<>>, NEW seen
          PROVE  Passes(Head(todo), r, seen)' <=> Passes(Head(todo), r, seen)
      BY <2>1, <3>1, <3>3, GroundsDecide DEF ClientInv, Inv, Facts
    <3>4. Facts(r, todo, refused, supply, access, stands)'
      BY <2>1, <3>1, <3>2, <3>3 DEF Facts, EndOf
    <3> QED
      BY <2>1, <2>2, <3>4, CommandWillKnow
  <2> QED
    BY <2>3, <2>4
<1> QED
  BY <1>1, <1>2

(* What a command has found out stands as long as its grounds do.          *)
THEOREM RefusalInvariance == ClientSpec => []RefusalInv
<1>1. ClientInit => RefusalInv
  BY DEF ClientInit, Init, TokenInit, RefusalInv, InFlight
<1>2. ClientInv /\ ClientInv' /\ RefusalInv /\ [ClientNext]_clientVars => RefusalInv'
  <2> SUFFICES ASSUME ClientInv, ClientInv', RefusalInv, [ClientNext]_clientVars
               PROVE  RefusalInv'
    OBVIOUS
  <2>1. Contract \in kyc'
    BY ProxyKeepsKyc DEF ClientInv, RefusalInv
  <2>2. CASE Start
    BY <2>1, <2>2, StartKnowsNothing
  <2>3. CASE Answer
    BY <2>1, <2>3, AnswerKnows
  <2>4. CASE Send \/ Fail
    BY <2>1, <2>4 DEF Send, Fail, RefusalInv, InFlight
  <2>5. CASE Others
    BY <2>1, <2>5, OthersLeaveKnowledge DEF Others
  <2>6. CASE UNCHANGED clientVars
    BY <2>1, <2>6, OthersLeaveKnowledge DEF clientVars, ledgerVars
  <2> QED
    BY <2>2, <2>3, <2>4, <2>5, <2>6 DEF ClientNext
<1> QED
  BY <1>1, <1>2, ClientInvariance, PTL DEF ClientSpec

(* A check that fails while its grounds stand refuses nothing the facets   *)
(* would do.                                                               *)
THEOREM RefusalsCorrect == ClientSpec => RefusedCallsWouldFail
<1>1. ASSUME ClientInv, RefusalInv, InFlight, command.refused, command.standing,
             ~Overcautious(command.request), NEW q \in {command.request},
             ContractCall(q), vars' # vars
      PROVE  FALSE
  <2>1. PICK r, todo, refused, supply, access, standing :
          /\ r \in Requests /\ todo \in Seq(Check)
          /\ command = Command(r, todo, refused, supply, access, standing)
          /\ Facts(r, todo, refused, supply, access, standing)
    BY <1>1, CommandKnows DEF ClientInv
  <2>2. command.request = r /\ refused /\ standing
    BY <1>1, <2>1, Zenon DEF Command
  <2> DEFINE seen == [supply |-> supply, access |-> access]
  <2>3. EndOf(todo, Handler[r.op]) /\ todo # <<>> /\ ~Passes(Head(todo), r, seen)
    BY <2>1, <2>2, Zenon DEF Facts
  <2>4. ASSUME r.op = "cashIn", Len(todo) = 1
        PROVE  seen.supply = totalSupply /\ reserveAddress # NoFeed
    <3>1. /\ Len(todo) <= 2 => supply = totalSupply
          /\ Len(todo) = 1 => reserveAddress # NoFeed
      BY <2>1, <2>2, <2>4, Zenon DEF Facts
    <3> QED
      BY <2>4, <3>1
  <2>5. ContractCall(r) /\ ~Overcautious(r) /\ Inv /\ Contract \in kyc
    BY <1>1, <2>2 DEF ClientInv, RefusalInv
  <2> HIDE DEF seen
  <2> QED
    BY <1>1, <2>1, <2>3, <2>4, <2>5, AcceptedCallPasses
<1>2. ClientInv /\ RefusalInv
        => [InFlight /\ command.refused /\ command.standing /\ ~Overcautious(command.request)
              => \A r \in {command.request} : ~(ContractCall(r) /\ vars' # vars)]_clientVars
  BY <1>1
<1> QED
  BY <1>2, ClientInvariance, RefusalInvariance, PTL DEF RefusedCallsWouldFail
-----------------------------------------------------------------------------
(* Acceptance                                                              *)

(* The checks whose answer comes with the access decision.                 *)
Decisions == {"capabilities", "maxSupply", "proxyKeys"}

(* The checks that are behind a command, but for the comparison with the   *)
(* reserve, would all pass still, and so would the access decision that    *)
(* came with one of them.                                                  *)
NoneSeen == [supply |-> 0, access |-> {}]
Passed(r, todo, access) ==
  \A i \in 1..(Len(Handler[r.op]) - Len(todo)) :
    LET check == Handler[r.op][i]
    IN  /\ check # "reserve" => Passes(check, r, NoneSeen)
        /\ check \in Decisions => access = AccessDecision(r)

AcceptanceInv ==
  InFlight =>
    /\ HasAmount(command.request)
    /\ ~command.refused /\ command.standing =>
         Passed(command.request, command.todo, command.seen.access)

(* Any check of a handler is the head of an end of it.                     *)
LEMMA CheckIsHead ==
  ASSUME NEW r \in Requests, NEW i \in 1..Len(Handler[r.op])
  PROVE  \E todo \in Seq(Check) : /\ EndOf(todo, Handler[r.op]) /\ todo # <<>>
                                  /\ Head(todo) = Handler[r.op][i]
<1> DEFINE h == Handler[r.op]
           todo == SubSeq(h, i, Len(h))
<1>1. h \in Seq(Check) /\ i \in 1..Len(h)
  BY HandlersAre, ClientAssumption
<1> HIDE DEF h
<1>2. /\ todo \in Seq(Check) /\ Len(todo) = Len(h) - i + 1
      /\ \A k \in 1..Len(todo) : todo[k] = h[i + k - 1]
  BY <1>1
<1> HIDE DEF todo
<1>3. Len(h) \in Nat /\ i \in Nat /\ 1 <= i /\ i <= Len(h)
  BY <1>1
<1>4. /\ Len(todo) <= Len(h) /\ 1 \in 1..Len(todo)
      /\ \A k \in 1..Len(todo) : i + k - 1 = Len(h) - Len(todo) + k
  BY <1>2, <1>3
<1>5. EndOf(todo, h)
  BY <1>2, <1>4 DEF EndOf
<1>6. todo # <<>> /\ Head(todo) = h[i]
  BY <1>2, <1>3, <1>4
<1> QED
  BY <1>2, <1>5, <1>6 DEF h

(* What was passed stays passed as long as its grounds stand.              *)
LEMMA GroundsKeepPassed ==
  ASSUME LedgerInv, LedgerInv', NEW r \in Requests, NEW todo \in Seq(Check), NEW access,
         Passed(r, todo, access), Grounds(r)' = Grounds(r)
  PROVE  Passed(r, todo, access)'
<1> DEFINE h == Handler[r.op]
<1>1. UNCHANGED <<statusVars, keyOf>>
  BY DEF Grounds
<1>2. AccessDecision(r)' = AccessDecision(r)
  BY <1>1, StatusDecides
<1>3. ASSUME NEW i \in 1..Len(h)
      PROVE  Passes(h[i], r, NoneSeen)' <=> Passes(h[i], r, NoneSeen)
  BY <1>3, CheckIsHead, GroundsDecide
<1>4. h \in Seq(Check) /\ Len(h) \in Nat /\ Len(todo) \in Nat
  BY HandlersAre, ClientAssumption
<1> HIDE DEF h
<1>5. \A i \in 1..(Len(h) - Len(todo)) : i \in 1..Len(h)
  BY <1>4
<1>6. ASSUME NEW i \in 1..(Len(h) - Len(todo))
      PROVE  /\ h[i] # "reserve" => Passes(h[i], r, NoneSeen)'
             /\ h[i] \in Decisions => access = AccessDecision(r)'
  BY <1>2, <1>3, <1>5 DEF Passed, h
<1> QED
  BY <1>6 DEF Passed, h

(* A command in flight, with what is behind it.                            *)
LEMMA CommandHasPassed ==
  ASSUME CommandInv, RefusalInv, AcceptanceInv, InFlight
  PROVE  \E r, todo, refused, supply, access, standing :
           /\ r \in Requests /\ todo \in Seq(Check)
           /\ command = Command(r, todo, refused, supply, access, standing)
           /\ EndOf(todo, Handler[r.op])
           /\ HasAmount(r)
           /\ ~refused /\ standing => Passed(r, todo, access)
<1>1. PICK r, todo, refused, supply, access, standing :
        /\ r \in Requests /\ todo \in Seq(Check)
        /\ command = Command(r, todo, refused, supply, access, standing)
        /\ Facts(r, todo, refused, supply, access, standing)
  BY CommandKnows
<1>2. /\ command.request = r /\ command.todo = todo /\ command.refused = refused
      /\ command.seen.access = access /\ command.standing = standing
  BY <1>1 DEF Command
<1>3. HasAmount(r) /\ (~refused /\ standing => Passed(r, todo, access))
  BY <1>2 DEF AcceptanceInv
<1>4. EndOf(todo, Handler[r.op])
  BY <1>1 DEF Facts
<1> QED
  BY <1>1, <1>3, <1>4

(* And what will be behind it.                                             *)
LEMMA CommandWillHavePassed ==
  ASSUME NEW r \in Requests, NEW todo, NEW refused, NEW supply, NEW access, NEW standing,
         command' = Command(r, todo, refused, supply, access, standing), HasAmount(r),
         ~refused /\ standing => Passed(r, todo, access)'
  PROVE  AcceptanceInv'
<1>1. /\ command'.request = r /\ command'.todo = todo /\ command'.refused = refused
      /\ command'.seen.access = access /\ command'.standing = standing
  BY DEF Command
<1>2. HasAmount(r)'
  BY DEF HasAmount, AmountOps
<1> QED
  BY <1>1, <1>2 DEF AcceptanceInv

(* What a check that is passed adds to what is behind a command. A reserve *)
(* that is switched off leaves only its comparison unmade.                 *)
LEMMA OneMorePassed ==
  ASSUME NEW r \in Requests, NEW todo \in Seq(Check), todo # <<>>,
         EndOf(todo, Handler[r.op]), NEW access, Passed(r, todo, access),
         NEW seen, Passes(Head(todo), r, seen),
         NEW rest, \/ rest = Tail(todo)
                   \/ rest = <<>> /\ Head(todo) = "reserveAddress",
         NEW newAccess,
         newAccess = IF Head(todo) \in Decisions THEN AccessDecision(r) ELSE access
  PROVE  Passed(r, rest, newAccess)
<1> DEFINE h == Handler[r.op]
           check == Head(todo)
           n == Len(h) - Len(todo)
<1>1. /\ h \in Seq(Check) /\ Len(h) \in Nat /\ Len(todo) \in Nat
      /\ 1 <= Len(todo) /\ check = todo[1]
  BY HandlersAre, ClientAssumption
<1>2. n \in Nat /\ n + 1 <= Len(h) /\ h[n + 1] = check
  BY <1>1 DEF EndOf
<1>3. ASSUME NEW i \in 1..n
      PROVE  /\ h[i] # "reserve" => Passes(h[i], r, NoneSeen)
             /\ h[i] \in Decisions => access = AccessDecision(r)
  BY <1>3 DEF Passed
<1>4. check # "reserve" => Passes(check, r, NoneSeen)
  <2> SUFFICES ASSUME NEW c, c = check, c # "reserve", Passes(c, r, seen)
               PROVE  Passes(c, r, NoneSeen)
    OBVIOUS
  <2> HIDE DEF check
  <2> QED
    BY DEF Passes
<1>5. /\ check \in Decisions => newAccess = AccessDecision(r)
      /\ check \notin Decisions => newAccess = access
  OBVIOUS
<1>6. check = "reserveAddress" => /\ Len(h) = 4 /\ n = 2 /\ h[4] = "reserve"
  <2> SUFFICES ASSUME NEW c, c = check, c = "reserveAddress"
               PROVE  /\ Len(h) = 4 /\ n = 2 /\ h[4] = "reserve"
    OBVIOUS
  <2>1. r.op = "cashIn" /\ Len(todo) = 2
    <3> HIDE DEF h, n
    <3>1. r.op \in Operation
      BY ClientAssumption
    <3>2. Head(todo) = "reserveAddress"
      OBVIOUS
    <3> HIDE DEF check
    <3> QED
      BY <3>1, <3>2, ChecksAre
        DEF Operation, HoldOps, HoldCreations, Settlements, KeyedOps, KeyFor
  <2>2. h = <<"target", "maxSupply", "reserveAddress", "reserve">>
    BY <2>1 DEF Handler, CashInHandler
  <2>3. Len(h) = 4 /\ h[4] = "reserve"
    BY <2>2
  <2> QED
    BY <2>1, <2>3
<1> HIDE DEF h, check, n
<1>7. ASSUME NEW i \in 1..(n + 1)
      PROVE  /\ h[i] # "reserve" => Passes(h[i], r, NoneSeen)
             /\ h[i] \in Decisions => newAccess = AccessDecision(r)
  <2>1. CASE i = n + 1
    BY <1>2, <1>4, <1>5, <2>1
  <2>2. CASE i # n + 1
    <3>1. i \in 1..n
      BY <1>2, <2>2
    <3> QED
      BY <1>3, <1>5, <3>1
  <2> QED
    BY <2>1, <2>2
<1>8. CASE rest = Tail(todo)
  <2>1. Len(rest) = Len(todo) - 1
    BY <1>8
  <2>2. Len(h) - Len(rest) = n + 1
    BY <1>1, <2>1 DEF n
  <2> QED
    BY <1>7, <2>2 DEF Passed, h
<1>9. CASE rest = <<>> /\ check = "reserveAddress"
  <2>1. Len(rest) = 0 /\ Len(h) = 4 /\ n = 2 /\ h[4] = "reserve"
    BY <1>6, <1>9
  <2>2. ASSUME NEW i \in 1..4
        PROVE  /\ h[i] # "reserve" => Passes(h[i], r, NoneSeen)
               /\ h[i] \in Decisions => newAccess = AccessDecision(r)
    <3>1. CASE i = 4
      BY <2>1, <3>1 DEF Decisions
    <3>2. CASE i # 4
      <4>1. i \in 1..(n + 1)
        BY <2>1, <3>2
      <4> QED
        BY <1>7, <4>1
    <3> QED
      BY <3>1, <3>2
  <2>3. Len(h) - Len(rest) = 4
    BY <2>1
  <2> QED
    BY <2>2, <2>3 DEF Passed, h
<1> QED
  BY <1>8, <1>9 DEF check

(* An answer that refuses ends it; any other is behind the command now.    *)
LEMMA AnswerPasses ==
  ASSUME ClientInv, ClientInv', RefusalInv, AcceptanceInv, Answer
  PROVE  AcceptanceInv'
<1>1. PICK r, todo, refused, supply, access, standing :
        /\ r \in Requests /\ todo \in Seq(Check)
        /\ command = Command(r, todo, refused, supply, access, standing)
        /\ EndOf(todo, Handler[r.op])
        /\ HasAmount(r)
        /\ ~refused /\ standing => Passed(r, todo, access)
  BY CommandHasPassed DEF ClientInv, Answer
<1> DEFINE seen == [supply |-> supply, access |-> access]
           check == Head(todo)
<1>2. /\ command.request = r /\ command.todo = todo /\ command.seen = seen
      /\ todo # <<>> /\ ~refused
  BY <1>1 DEF Command, Answer
<1>3. UNCHANGED ledgerVars /\ Grounds(r)' = Grounds(r)
  BY LedgerGrounds DEF Answer
<1>4. \/ /\ Passes(check, r, seen)
         /\ command' = [command EXCEPT !.todo = Remaining(check), !.seen = Seen(check)]
      \/ /\ ~Passes(check, r, seen)
         /\ command' = [command EXCEPT !.refused = TRUE]
  BY <1>2 DEF Answer
<1> HIDE DEF check, seen
<1>5. CASE /\ Passes(check, r, seen)
           /\ command' = [command EXCEPT !.todo = Remaining(check), !.seen = Seen(check)]
  <2>1. PICK rest, newSupply, newAccess :
          /\ rest = Remaining(check)
          /\ Seen(check) = [supply |-> newSupply, access |-> newAccess]
          /\ newAccess = IF check \in Decisions THEN AccessDecision(r) ELSE access
    <3>1. CASE check \in Decisions
      BY <1>2, <3>1 DEF Seen, Decisions
    <3>2. CASE check \notin Decisions
      BY <1>2, <3>2 DEF Seen, seen, Decisions
    <3> QED
      BY <3>1, <3>2
  <2>2. \/ rest = Tail(todo)
        \/ rest = <<>> /\ check = "reserveAddress"
    BY <1>2, <2>1 DEF Remaining
  <2>3. command' = Command(r, rest, refused, newSupply, newAccess, standing)
    BY <1>1, <1>5, <2>1 DEF Command
  <2>4. rest \in Seq(Check)
    <3>1. Tail(todo) \in Seq(Check) /\ <<>> \in Seq(Check)
      BY <1>1, <1>2
    <3> QED
      BY <2>2, <3>1
  <2>5. ASSUME standing PROVE Passed(r, rest, newAccess)'
    <3>1. Passed(r, rest, newAccess)
      BY <1>1, <1>2, <1>5, <2>1, <2>2, <2>5, OneMorePassed DEF check
    <3> QED
      BY <1>1, <1>3, <2>4, <3>1, GroundsKeepPassed DEF ClientInv, Inv
  <2> QED
    BY <1>1, <2>3, <2>5, CommandWillHavePassed
<1>6. CASE command' = [command EXCEPT !.refused = TRUE]
  <2>1. command' = Command(r, todo, TRUE, supply, access, standing)
    BY <1>1, <1>6 DEF Command
  <2> QED
    BY <1>1, <2>1, CommandWillHavePassed
<1> QED
  BY <1>4, <1>5, <1>6

(* Everybody else leaves it behind the command, or spoils its grounds.     *)
LEMMA OthersLeavePassed ==
  ASSUME ClientInv, ClientInv', RefusalInv, AcceptanceInv,
         Unsettled \/ UNCHANGED <<command, ledgerVars>>
  PROVE  AcceptanceInv'
<1>1. CASE ~InFlight
  BY <1>1 DEF Unsettled, AcceptanceInv, InFlight
<1>2. CASE InFlight
  <2>1. PICK r, todo, refused, supply, access, standing :
          /\ r \in Requests /\ todo \in Seq(Check)
          /\ command = Command(r, todo, refused, supply, access, standing)
          /\ EndOf(todo, Handler[r.op])
          /\ HasAmount(r)
          /\ ~refused /\ standing => Passed(r, todo, access)
    BY <1>2, CommandHasPassed DEF ClientInv
  <2>2. PICK stands : /\ command' = Command(r, todo, refused, supply, access, stands)
                      /\ stands => standing /\ Grounds(r)' = Grounds(r)
    <3>1. command.request = r /\ command.standing = standing
      BY <2>1 DEF Command
    <3>2. CASE Unsettled
      <4>1. PICK stands : /\ command' = [command EXCEPT !.standing = stands]
                          /\ stands => standing /\ Grounds(r)' = Grounds(r)
        BY <1>2, <3>1, <3>2 DEF Unsettled
      <4> QED
        BY <2>1, <4>1 DEF Command
    <3>3. CASE UNCHANGED <<command, ledgerVars>>
      BY <2>1, <3>3, LedgerGrounds
    <3> QED
      BY <3>2, <3>3
  <2>3. ASSUME ~refused, stands PROVE Passed(r, todo, access)'
    BY <2>1, <2>2, <2>3, GroundsKeepPassed DEF ClientInv, Inv
  <2> QED
    BY <2>1, <2>2, <2>3, CommandWillHavePassed
<1> QED
  BY <1>1, <1>2

(* A command starts with nothing behind it but the request type, which     *)
(* asks for an amount.                                                     *)
LEMMA StartHasPassedNothing ==
  ASSUME Start
  PROVE  AcceptanceInv'
<1>1. PICK r \in Requests :
        HasAmount(r) /\ command' = Command(r, Handler[r.op], FALSE, 0, {}, TRUE)
  BY DEF Start, Command
<1> DEFINE h == Handler[r.op]
<1>2. Len(h) \in Nat
  BY HandlersAre, ClientAssumption
<1> HIDE DEF h
<1>3. 1..(Len(h) - Len(h)) = {}
  BY <1>2
<1>4. Passed(r, h, {})'
  BY <1>3 DEF Passed, h
<1>5. command' = Command(r, h, FALSE, 0, {}, TRUE)
  BY <1>1 DEF h
<1> QED
  BY <1>1, <1>4, <1>5, CommandWillHavePassed

(* Every check a command has passed would pass still, as long as its       *)
(* grounds stand.                                                          *)
THEOREM AcceptanceInvariance == ClientSpec => []AcceptanceInv
<1>1. ClientInit => AcceptanceInv
  BY DEF ClientInit, AcceptanceInv, InFlight
<1>2. ClientInv /\ ClientInv' /\ RefusalInv /\ AcceptanceInv /\ [ClientNext]_clientVars
        => AcceptanceInv'
  <2> SUFFICES ASSUME ClientInv, ClientInv', RefusalInv, AcceptanceInv,
                      [ClientNext]_clientVars
               PROVE  AcceptanceInv'
    OBVIOUS
  <2>1. CASE Start
    BY <2>1, StartHasPassedNothing
  <2>2. CASE Answer
    BY <2>2, AnswerPasses
  <2>3. CASE Send \/ Fail
    BY <2>3 DEF Send, Fail, AcceptanceInv, InFlight
  <2>4. CASE Others
    BY <2>4, OthersLeavePassed DEF Others
  <2>5. CASE UNCHANGED clientVars
    BY <2>5, OthersLeavePassed DEF clientVars, ledgerVars
  <2> QED
    BY <2>1, <2>2, <2>3, <2>4, <2>5 DEF ClientNext
<1> QED
  BY <1>1, <1>2, ClientInvariance, RefusalInvariance, PTL DEF ClientSpec

(* All the checks of a handler have been passed.                           *)
AllPassed(r, access) ==
  \A i \in 1..Len(Handler[r.op]) :
    LET check == Handler[r.op][i]
    IN  /\ check # "reserve" => Passes(check, r, NoneSeen)
        /\ check \in Decisions => access = AccessDecision(r)

(* What that says of each request.                                         *)
LEMMA ChecksPassed ==
  ASSUME NEW r \in Requests, NEW access, AllPassed(r, access)
  PROVE  /\ r.op = "cashIn" =>
              \A c \in {"target", "maxSupply"} : Passes(c, r, NoneSeen)
         /\ r.op = "burn" => Passes("burnable", r, NoneSeen)
         /\ r.op = "wipe" => Passes("balanceOfTarget", r, NoneSeen)
         /\ r.op = "rescue" =>
              \A c \in {"caller", "balanceOfTreasury"} : Passes(c, r, NoneSeen)
         /\ r.op \in HoldCreations =>
              \A c \in {"proxyKeys", "balanceOfHolder"} : Passes(c, r, NoneSeen)
         /\ r.op = "executeHold" =>
              \A c \in {"target", "holdBalance", "escrow", "destination", "expiration"} :
                Passes(c, r, NoneSeen)
         /\ r.op = "releaseHold" =>
              \A c \in {"holder", "holdBalance", "escrow", "expiration"} :
                Passes(c, r, NoneSeen)
         /\ r.op = "reclaimHold" =>
              \A c \in {"holdId", "expiration"} : Passes(c, r, NoneSeen)
         /\ \E c \in Decisions : Passes(c, r, NoneSeen)
         /\ access = AccessDecision(r)
<1> DEFINE h == Handler[r.op]
           P(c) == /\ c # "reserve" => Passes(c, r, NoneSeen)
                   /\ c \in Decisions => access = AccessDecision(r)
<1>1. \A i \in 1..Len(h) : P(h[i])
  BY DEF AllPassed
<1>2. /\ \A c \in {"target", "maxSupply", "burnable", "balanceOfTarget", "caller",
                    "balanceOfTreasury", "proxyKeys", "balanceOfHolder", "holder",
                    "holdBalance", "escrow", "destination", "expiration", "holdId",
                    "capabilities"} :
           P(c) => Passes(c, r, NoneSeen)
      /\ \A c \in Decisions :
           P(c) => (\E d \in Decisions : Passes(d, r, NoneSeen)) /\ access = AccessDecision(r)
  BY DEF Decisions
<1>3. "capabilities" \in Decisions /\ "maxSupply" \in Decisions /\ "proxyKeys" \in Decisions
  BY DEF Decisions
<1> HIDE DEF P
<1>4. ASSUME r.op = "cashIn" PROVE P("target") /\ P("maxSupply")
  <2>1. h = <<"target", "maxSupply", "reserveAddress", "reserve">>
    BY <1>4 DEF Handler, CashInHandler
  <2> QED
    BY <1>1, <2>1
<1>5. ASSUME r.op = "burn" PROVE P("capabilities") /\ P("burnable")
  <2>1. h = <<"capabilities", "burnable">>
    BY <1>5 DEF Handler, BurnHandler
  <2> QED
    BY <1>1, <2>1
<1>6. ASSUME r.op = "wipe" PROVE P("balanceOfTarget") /\ P("capabilities")
  <2>1. h = <<"balanceOfTarget", "capabilities">>
    BY <1>6 DEF Handler, WipeHandler
  <2> QED
    BY <1>1, <2>1
<1>7. ASSUME r.op = "rescue"
      PROVE  P("caller") /\ P("capabilities") /\ P("balanceOfTreasury")
  <2>1. h = <<"caller", "capabilities", "balanceOfTreasury">>
    BY <1>7 DEF Handler, RescueHandler
  <2> QED
    BY <1>1, <2>1
<1>8. ASSUME r.op \in HoldCreations PROVE P("proxyKeys") /\ P("balanceOfHolder")
  <2>1. h = <<"proxyKeys", "holder", "balanceOfHolder">>
    BY <1>8 DEF Handler, CreateHoldHandler, CreateHoldByControllerHandler, HoldCreations
  <2> QED
    BY <1>1, <2>1
<1>9. ASSUME r.op = "executeHold"
      PROVE  /\ P("capabilities") /\ P("target") /\ P("holdBalance") /\ P("escrow")
             /\ P("destination") /\ P("expiration")
  <2>1. h = <<"capabilities", "holder", "target", "holdBalance", "escrow", "destination",
              "expiration">>
    BY <1>9 DEF Handler, ExecuteHoldHandler
  <2> QED
    BY <1>1, <2>1
<1>10. ASSUME r.op = "releaseHold"
       PROVE  /\ P("capabilities") /\ P("holder") /\ P("holdBalance") /\ P("escrow")
              /\ P("expiration")
  <2>1. h = <<"capabilities", "holder", "holdBalance", "escrow", "expiration">>
    BY <1>10 DEF Handler, ReleaseHoldHandler
  <2> QED
    BY <1>1, <2>1
<1>11. ASSUME r.op = "reclaimHold"
       PROVE  P("capabilities") /\ P("holdId") /\ P("expiration")
  <2>1. h = <<"capabilities", "caller", "holdId", "expiration">>
    BY <1>11 DEF Handler, ReclaimHoldHandler
  <2> QED
    BY <1>1, <2>1
<1>12. ASSUME r.op \in {"grantKyc", "revokeKyc", "freeze", "unfreeze", "pause", "unpause",
                        "delete"}
       PROVE  P("capabilities")
  <2>1. Len(h) >= 1 /\ h[1] = "capabilities" /\ Len(h) \in Nat
    <3>1. CASE r.op = "grantKyc"
      <4>1. h = <<"capabilities", "kycRevoked">>
        BY <3>1 DEF Handler, GrantKycHandler
      <4> QED
        BY <4>1
    <3>2. CASE r.op = "revokeKyc"
      <4>1. h = <<"capabilities", "kycGranted">>
        BY <3>2 DEF Handler, RevokeKycHandler
      <4> QED
        BY <4>1
    <3>3. CASE r.op \in {"freeze", "unfreeze", "pause", "unpause", "delete"}
      <4>1. h = <<"capabilities">>
        BY <3>3 DEF Handler, FreezeHandler, UnFreezeHandler, PauseHandler, UnPauseHandler,
                    DeleteHandler
      <4> QED
        BY <4>1
    <3> QED
      BY <1>12, <3>1, <3>2, <3>3
  <2> QED
    BY <1>1, <2>1
<1> HIDE DEF h
<1>13. r.op \in Operation
  BY ClientAssumption
<1>14. \E c \in Decisions : P(c)
  BY <1>3, <1>4, <1>5, <1>6, <1>7, <1>8, <1>9, <1>10, <1>11, <1>12, <1>13
    DEF Operation, HoldOps, HoldCreations, Settlements, KeyedOps, KeyFor
<1>15. (\E c \in Decisions : Passes(c, r, NoneSeen)) /\ access = AccessDecision(r)
  BY <1>2, <1>14
<1> QED
  BY <1>2, <1>4, <1>5, <1>6, <1>7, <1>8, <1>9, <1>10, <1>11, <1>15

(* An access decision through which the adapter sends.                     *)
LEMMA DecisionOffers ==
  ASSUME NEW r \in Requests, NEW access, AllPassed(r, access)
  PROVE  AdapterSends(r) /\ access = AccessDecision(r)
BY ChecksPassed DEF Decisions, Passes

(* What a capability says of the token and of the key.                     *)
LEMMA CapabilityIs ==
  ASSUME NEW r \in Requests, NEW access \in {"contract", "hts"},
         access \in AccessDecision(r)
  PROVE  /\ IF r.op \in {"pause", "unpause"} THEN ~deleted ELSE Usable
         /\ r.op \in {"grantKyc", "revokeKyc"} => KycKey
         /\ r.op \in KeyedOps =>
              keyOf[KeyFor[r.op]] = IF access = "hts" THEN r.caller ELSE Contract
         /\ r.op \notin KeyedOps => access = "contract"
<1> DEFINE cap == <<r.op, access>>
<1>1. cap[1] = r.op /\ cap[2] = access /\ cap \in Capabilities(r.caller)
  BY DEF AccessDecision
<1> HIDE DEF cap
<1> QED
  BY <1>1 DEF Capabilities

(* A wipe that the balance of the account covers is one the token service  *)
(* makes: the supply covers it as well.                                    *)
LEMMA BalanceCoversWipe ==
  ASSUME TokenTypeOK, SupplyInv, NEW account \in Account, NEW amount \in Int,
         amount <= balance[account], Usable
  PROVE  CanWipe(account, amount)
<1>1. account \in Holder /\ account # Contract
  BY TokenAssumption DEF Holder
<1>2. balance[account] <= totalSupply /\ balance[account] \in Nat /\ totalSupply \in Nat
  BY <1>1, BalanceWithinSupply DEF TokenTypeOK
<1>3. amount <= totalSupply
  BY <1>2
<1> QED
  BY <1>1, <1>3 DEF CanWipe

(* What the facets and the token service ask of a keyed operation beyond   *)
(* its key, the checks have asked.                                         *)
LEMMA ControlIsChecked ==
  ASSUME LedgerInv, SupplyInv, NEW r \in Requests, NEW access, AllPassed(r, access),
         r.op \in KeyedOps, IF r.op \in {"pause", "unpause"} THEN ~deleted ELSE Usable,
         r.op \in {"grantKyc", "revokeKyc"} => KycKey
  PROVE  CanControl(r)
<1>1. ASSUME r.op = "wipe" PROVE CanWipe(r.target, r.amount)
  <2>1. r.target \in Account /\ r.amount \in Int /\ Usable
    BY <1>1, ClientAssumption DEF Holder
  <2>2. r.amount <= balance[r.target]
    <3>1. Passes("balanceOfTarget", r, NoneSeen)
      BY <1>1, ChecksPassed
    <3> QED
      BY <3>1 DEF Passes
  <2> QED
    BY <2>1, <2>2, BalanceCoversWipe DEF LedgerInv
<1> QED
  BY <1>1 DEF CanControl

(* A transaction of the token service that was decided on is accepted.     *)
LEMMA NativeAccepted ==
  ASSUME LedgerInv, SupplyInv, NEW r \in Requests, AllPassed(r, {"hts"})
  PROVE  NativeAccepts(r)
<1>1. AdapterSends(r) /\ AccessDecision(r) = {"hts"}
  BY DecisionOffers
<1>2. /\ IF r.op \in {"pause", "unpause"} THEN ~deleted ELSE Usable
      /\ r.op \in {"grantKyc", "revokeKyc"} => KycKey
      /\ r.op \in KeyedOps /\ keyOf[KeyFor[r.op]] = r.caller
  <2>1. "hts" \in AccessDecision(r) /\ "hts" # "contract"
    BY <1>1
  <2> QED
    BY <2>1, CapabilityIs
<1>3. r.caller \in NativeSigners
  <2>1. "contract" \notin AccessDecision(r)
    BY <1>1
  <2> QED
    BY <2>1, <1>1 DEF AdapterSends, LooksAtDecision
<1>4. CanControl(r)
  BY <1>2, ControlIsChecked
<1> QED
  BY <1>2, <1>3, <1>4 DEF NativeAccepts

(* So is the state of the token and of its keys, for a call of a facet.    *)
LEMMA ContractOffered ==
  ASSUME NEW r \in Requests, NEW access, AllPassed(r, access), access # {"hts"},
         ~Overlooked(r)
  PROVE  /\ IF r.op \in {"pause", "unpause"} THEN ~deleted ELSE Usable
         /\ r.op \in {"grantKyc", "revokeKyc"} => KycKey
         /\ r.op \in KeyedOps => keyOf[KeyFor[r.op]] = Contract
         /\ r.op \in HoldCreations => keyOf["wipe"] = Contract
<1>1. AdapterSends(r) /\ AccessDecision(r) # {"hts"}
  BY DecisionOffers
<1>2. "contract" \in AccessDecision(r) \/ ~LooksAtDecision(r)
  <2>1. AccessDecision(r) \subseteq {"contract", "hts"}
    BY DEF AccessDecision
  <2>2. "hts" \in AccessDecision(r) => "contract" \in AccessDecision(r)
    BY <1>1, <2>1
  <2> QED
    BY <1>1, <2>2 DEF AdapterSends
<1>3. ~LooksAtDecision(r) => /\ Usable /\ r.op \notin KeyedOps
                             /\ r.op \notin {"pause", "unpause", "grantKyc", "revokeKyc"}
  BY DEF Overlooked, LooksAtDecision, HoldOps, HoldCreations, Settlements, KeyedOps, KeyFor
<1>4. "contract" \in AccessDecision(r) =>
        /\ IF r.op \in {"pause", "unpause"} THEN ~deleted ELSE Usable
        /\ r.op \in {"grantKyc", "revokeKyc"} => KycKey
        /\ r.op \in KeyedOps => keyOf[KeyFor[r.op]] = Contract
  <2>1. "contract" # "hts"
    OBVIOUS
  <2> QED
    BY <2>1, CapabilityIs
<1>5. r.op \in HoldCreations => keyOf["wipe"] = Contract
  <2>1. r.op \in HoldCreations => Passes("proxyKeys", r, NoneSeen)
    BY ChecksPassed
  <2> QED
    BY <2>1 DEF Passes
<1> QED
  BY <1>2, <1>3, <1>4, <1>5

(* What the facet asks of a hold to be created, the checks have asked.     *)
LEMMA LockAccepted ==
  ASSUME LedgerInv, SupplyInv, NEW r \in Requests, NEW access, AllPassed(r, access),
         r.op \in HoldCreations, HasAmount(r), ~Overlooked(r), Usable
  PROVE  CanLock(r.holder, r.hold)
<1>1. /\ r.holder \in Account /\ r.hold.amount \in Int /\ r.hold.expiration \in Int
      /\ now \in Int /\ nextHoldId[r.holder] \in 0..MaxHolds /\ MaxHolds \in Nat
  BY ClientAssumption, HoldAssumption DEF HoldData, LedgerInv, HoldTypeOK
<1>2. r.hold.expiration > now /\ nextHoldId[r.holder] < MaxHolds
  <2>1. ~(r.hold.expiration <= now) /\ nextHoldId[r.holder] # MaxHolds
    BY DEF Overlooked
  <2> QED
    BY <1>1, <2>1
<1>3. r.hold.amount > 0
  BY DEF HasAmount
<1>4. r.hold.amount <= balance[r.holder]
  <2>1. Passes("balanceOfHolder", r, NoneSeen)
    BY ChecksPassed
  <2> QED
    BY <2>1 DEF Passes
<1>5. CanWipe(r.holder, r.hold.amount)
  BY <1>1, <1>4, BalanceCoversWipe DEF LedgerInv
<1> QED
  BY <1>2, <1>3, <1>5 DEF CanLock, CanMint

(* The treasury pays what is held as long as nothing was ever rescued.     *)
LEMMA TreasuryPaysHold ==
  ASSUME LedgerInv, SumsInv, rescued = 0, NEW a \in Account, NEW id \in HoldId,
         Live(a, id), NEW to \in Account, NEW amount \in Int, 0 <= amount,
         amount <= holds[a][id].amount, Usable, CanReceive(to)
  PROVE  CanTransfer(balance, Contract, to, amount)
<1>1. holds[a][id].amount <= totalHeld
  BY HoldWithinTotal
<1>2. totalHeld <= balance[Contract]
  <2>1. balance[Contract] \in Nat /\ totalHeld \in Int
    BY DEF LedgerInv, TokenTypeOK, HoldTypeOK, Holder
  <2> QED
    BY <2>1 DEF LedgerInv, HoldsBackedUpToRescues
<1>3. holds[a][id].amount \in Int /\ totalHeld \in Int /\ balance[Contract] \in Int
  BY DEF LedgerInv, TokenTypeOK, HoldTypeOK, HoldRegistryConsistent, Live, HoldData, Holder
<1>4. amount <= balance[Contract]
  BY <1>1, <1>2, <1>3
<1>5. Contract # to /\ Contract \notin frozen
  BY TokenAssumption DEF LedgerInv, TokenTypeOK
<1> QED
  BY <1>4, <1>5 DEF CanTransfer

(* What the facet asks of a settlement, the checks have asked.             *)
LEMMA SettlementAccepted ==
  ASSUME LedgerInv, SumsInv, NEW r \in Requests, NEW access, AllPassed(r, access),
         r.op \in Settlements, HasAmount(r), ~Overlooked(r), Usable
  PROVE  CanSettle(r)
<1> DEFINE hold == holds[r.holder][r.id]
<1>1. /\ r.holder \in Account /\ r.amount \in Int /\ now \in Int
      /\ r.target \in Holder \cup {NoAddress} /\ r.target # Contract
      /\ r.op = "executeHold" \/ r.op = "releaseHold" \/ r.op = "reclaimHold"
  BY ClientAssumption, HoldAssumption DEF LedgerInv, HoldTypeOK, Settlements
<1>2. rescued = 0
  <2>1. ~(rescued > 0) /\ rescued \in Nat
    BY DEF Overlooked, LedgerInv
  <2> QED
    BY <2>1
<1>3. r.op # "reclaimHold" => r.amount > 0
  BY <1>1 DEF HasAmount, AmountOps
<1>4. /\ r.op # "reclaimHold" => /\ HoldFor(r).amount >= r.amount
                                 /\ HoldFor(r).escrow = r.caller
                                 /\ HoldFor(r).expiration >= now
                                 /\ HoldFor(r).expiration # now
      /\ r.op = "reclaimHold" => /\ Live(r.holder, r.id) /\ HoldFor(r).expiration <= now
                                 /\ CanReceive(r.holder)
      /\ r.op = "executeHold" =>
           r.target # NoAddress /\ CanReceive(r.target) /\ HoldFor(r).to \in {NoAddress, r.target}
      /\ r.op = "releaseHold" => CanReceive(r.holder)
  <2>1. CASE r.op = "executeHold"
    <3>1. /\ Passes("target", r, NoneSeen) /\ Passes("holdBalance", r, NoneSeen)
          /\ Passes("escrow", r, NoneSeen) /\ Passes("destination", r, NoneSeen)
          /\ Passes("expiration", r, NoneSeen)
      BY <2>1, ChecksPassed
    <3>2. r.target # NoAddress /\ HoldFor(r).expiration # now
      BY <2>1 DEF Overlooked
    <3> QED
      BY <2>1, <3>1, <3>2
        DEF Passes, checkHoldBalance, checkEscrow, checkHoldTarget, checkHoldExpiration
  <2>2. CASE r.op = "releaseHold"
    <3>1. /\ Passes("holder", r, NoneSeen) /\ Passes("holdBalance", r, NoneSeen)
          /\ Passes("escrow", r, NoneSeen) /\ Passes("expiration", r, NoneSeen)
      BY <2>2, ChecksPassed
    <3>2. HoldFor(r).expiration # now
      BY <2>2 DEF Overlooked
    <3> QED
      BY <2>2, <3>1, <3>2 DEF Passes, checkHoldBalance, checkEscrow, checkHoldExpiration
  <2>3. CASE r.op = "reclaimHold"
    <3>1. Passes("holdId", r, NoneSeen) /\ Passes("expiration", r, NoneSeen)
      BY <2>3, ChecksPassed
    <3>2. CanReceive(r.holder)
      BY <2>3 DEF Overlooked
    <3> QED
      BY <2>3, <3>1, <3>2 DEF Passes, checkValidHoldId, checkHoldExpiration
  <2> QED
    BY <1>1, <2>1, <2>2, <2>3
<1>5. Live(r.holder, r.id)
  <2>1. ~Live(r.holder, r.id) => HoldFor(r).amount = 0
    BY DEF HoldFor, EmptyHold
  <2>2. r.op = "reclaimHold" \/ HoldFor(r).amount # 0
    BY <1>1, <1>3, <1>4
  <2> QED
    BY <1>4, <2>1, <2>2
<1>6. HoldFor(r) = hold
  BY <1>5 DEF HoldFor
<1>7. r.id \in HoldId /\ hold.amount \in Int /\ hold.expiration \in Int /\ hold.amount > 0
  <2>1. r.id \in HoldId
    BY <1>1, <1>5 DEF LedgerInv, HoldTypeOK, Live
  <2>2. hold \in HoldData /\ hold.amount > 0
    BY <1>1, <1>5, <2>1 DEF LedgerInv, HoldTypeOK, HoldRegistryConsistent, Live
  <2> QED
    BY <2>1, <2>2 DEF HoldData
<1> HIDE DEF hold
<1>8. r.op # "reclaimHold" =>
        r.amount <= hold.amount /\ hold.expiration > now /\ hold.escrow = r.caller
  BY <1>1, <1>4, <1>6, <1>7
<1>9. r.op = "executeHold" =>
        /\ r.amount > 0 /\ r.target \in Holder /\ hold.to \in {NoAddress, r.target}
        /\ CanTransfer(balance, Contract, r.target, r.amount)
  <2> SUFFICES ASSUME r.op = "executeHold"
               PROVE  /\ r.amount > 0 /\ r.target \in Holder
                      /\ hold.to \in {NoAddress, r.target}
                      /\ CanTransfer(balance, Contract, r.target, r.amount)
    OBVIOUS
  <2>1. r.target \in Account /\ 0 <= r.amount
    BY <1>1, <1>3, <1>4 DEF Holder
  <2>2. CanTransfer(balance, Contract, r.target, r.amount)
    BY <1>1, <1>2, <1>4, <1>5, <1>7, <1>8, <2>1, TreasuryPaysHold DEF hold
  <2> QED
    BY <1>1, <1>3, <1>4, <1>6, <2>2
<1>10. r.op = "releaseHold" => CanTransfer(balance, Contract, r.holder, r.amount)
  <2> SUFFICES ASSUME r.op = "releaseHold"
               PROVE  CanTransfer(balance, Contract, r.holder, r.amount)
    OBVIOUS
  <2>1. 0 <= r.amount
    BY <1>1, <1>3
  <2> QED
    BY <1>1, <1>2, <1>4, <1>5, <1>7, <1>8, <2>1, TreasuryPaysHold DEF hold
<1>11. r.op = "reclaimHold" =>
         hold.expiration <= now /\ CanTransfer(balance, Contract, r.holder, hold.amount)
  <2> SUFFICES ASSUME r.op = "reclaimHold"
               PROVE  /\ hold.expiration <= now
                      /\ CanTransfer(balance, Contract, r.holder, hold.amount)
    OBVIOUS
  <2>1. 0 <= hold.amount /\ hold.amount <= hold.amount
    BY <1>7
  <2>2. CanTransfer(balance, Contract, r.holder, hold.amount)
    BY <1>1, <1>2, <1>4, <1>5, <1>7, <2>1, TreasuryPaysHold DEF hold
  <2> QED
    BY <1>4, <1>6, <2>2
<1> QED
  BY <1>5, <1>8, <1>9, <1>10, <1>11 DEF CanSettle, hold

(* What the facets ask of a cash-in, a burn and a rescue, the checks have  *)
(* asked.                                                                  *)
LEMMA CashAccepted ==
  ASSUME LedgerInv, SumsInv, SupplyInv, NEW r \in Requests, NEW access,
         AllPassed(r, access), HasAmount(r), ~Overlooked(r), Usable
  PROVE  /\ r.op = "cashIn" =>
              /\ CheckReserveAmount(r.amount, totalSupply, now)
              /\ CanMint /\ totalSupply + r.amount <= MaxSupply
              /\ r.target # Contract =>
                   CanTransfer(Credit(balance, Contract, r.amount), Contract, r.target, r.amount)
         /\ r.op = "burn" => r.amount <= BurnableAmount /\ CanBurn(r.amount)
         /\ r.op = "rescue" => /\ CanTransfer(balance, Contract, r.caller, r.amount)
                               /\ rescued + r.amount <= MaxRescued
<1>1. /\ r.caller \in Account /\ r.amount \in Nat
      /\ balance \in [Holder -> Nat] /\ balance[Contract] \in Nat /\ totalSupply \in Nat
      /\ MaxSupply \in Nat /\ MaxRescued \in Nat /\ rescued \in Nat
      /\ Contract \in Holder /\ Contract \notin frozen /\ r.caller # Contract
  BY ClientAssumption, StableCoinAssumption, TokenAssumption
    DEF LedgerInv, TokenTypeOK, Holder
<1>2. ASSUME r.op = "cashIn"
      PROVE  /\ CheckReserveAmount(r.amount, totalSupply, now)
             /\ CanMint /\ totalSupply + r.amount <= MaxSupply
             /\ r.target # Contract =>
                  CanTransfer(Credit(balance, Contract, r.amount), Contract, r.target, r.amount)
  <2>1. CheckReserveAmount(r.amount, totalSupply, now)
    BY <1>2 DEF Overlooked, CheckReserveAmount
  <2>2. totalSupply + r.amount <= MaxSupply
    <3>1. Passes("maxSupply", r, NoneSeen)
      BY <1>2, ChecksPassed
    <3>2. r.amount <= MaxSupply - totalSupply
      BY <3>1 DEF Passes
    <3> QED
      BY <1>1, <3>2
  <2>3. CanReceive(r.target)
    <3>1. Passes("target", r, NoneSeen)
      BY <1>2, ChecksPassed
    <3>2. r.target # NoAddress
      BY <1>2, ClientAssumption
    <3> QED
      BY <3>1, <3>2 DEF Passes
  <2>4. Credit(balance, Contract, r.amount)[Contract] = balance[Contract] + r.amount
    BY <1>1, CreditIs
  <2>5. 0 <= r.amount /\ r.amount <= balance[Contract] + r.amount
    BY <1>1
  <2> QED
    BY <1>1, <2>1, <2>2, <2>3, <2>4, <2>5 DEF CanTransfer, CanMint
<1>3. ASSUME r.op = "burn"
      PROVE  r.amount <= BurnableAmount /\ CanBurn(r.amount)
  <2>1. r.amount <= BurnableAmount
    <3>1. Passes("burnable", r, NoneSeen)
      BY <1>3, ChecksPassed
    <3> QED
      BY <3>1 DEF Passes, checkBurnableAmount
  <2>2. totalHeld \in Nat
    BY FS_CardinalityType DEF SumsInv, SumsOK
  <2>3. balance[Contract] <= totalSupply
    BY <1>1, BalanceWithinSupply DEF LedgerInv
  <2>4. r.amount <= balance[Contract] /\ r.amount <= totalSupply
    BY <1>1, <2>1, <2>2, <2>3 DEF BurnableAmount
  <2> QED
    BY <2>1, <2>4 DEF CanBurn
<1>4. ASSUME r.op = "rescue"
      PROVE  /\ CanTransfer(balance, Contract, r.caller, r.amount)
             /\ rescued + r.amount <= MaxRescued
  <2>1. r.amount <= balance[Contract] /\ CanReceive(r.caller)
    <3>1. Passes("caller", r, NoneSeen) /\ Passes("balanceOfTreasury", r, NoneSeen)
      BY <1>4, ChecksPassed
    <3> QED
      BY <3>1 DEF Passes
  <2>2. rescued + r.amount <= MaxRescued
    <3>1. ~(rescued + r.amount > MaxRescued)
      BY <1>4 DEF Overlooked
    <3> QED
      BY <1>1, <3>1
  <2>3. 0 <= r.amount
    BY <1>1
  <2> QED
    BY <1>1, <2>1, <2>2, <2>3 DEF CanTransfer
<1> QED
  BY <1>2, <1>3, <1>4

(* A call of a facet that was checked is accepted.                         *)
LEMMA ContractAccepted ==
  ASSUME LedgerInv, SumsInv, SupplyInv, NEW r \in Requests, NEW access, access # {"hts"},
         AllPassed(r, access), HasAmount(r), ~Overlooked(r)
  PROVE  ContractAccepts(r)
<1>1. /\ IF r.op \in {"pause", "unpause"} THEN ~deleted ELSE Usable
      /\ r.op \in {"grantKyc", "revokeKyc"} => KycKey
      /\ r.op \in KeyedOps => keyOf[KeyFor[r.op]] = Contract
      /\ r.op \in HoldCreations => keyOf["wipe"] = Contract
  BY ContractOffered
<1>2. r.op \in KeyedOps => CanControl(r)
  BY <1>1, ControlIsChecked
<1>3. r.op \notin {"pause", "unpause"} => Usable
  BY <1>1
<1>4. r.op \in HoldCreations => CanLock(r.holder, r.hold)
  BY <1>3, LockAccepted DEF HoldCreations
<1>5. r.op \in Settlements => CanSettle(r)
  BY <1>3, SettlementAccepted DEF Settlements
<1>6. Authorized(r)
  BY DEF Overlooked
<1>7. r.op \in {"cashIn", "burn", "wipe", "rescue"} => r.amount > 0
  BY DEF HasAmount, AmountOps
<1>8. r.op \in {"cashIn", "burn", "rescue"} =>
        /\ r.op = "cashIn" =>
             /\ CheckReserveAmount(r.amount, totalSupply, now)
             /\ CanMint /\ totalSupply + r.amount <= MaxSupply
             /\ r.target # Contract =>
                  CanTransfer(Credit(balance, Contract, r.amount), Contract, r.target, r.amount)
        /\ r.op = "burn" => r.amount <= BurnableAmount /\ CanBurn(r.amount)
        /\ r.op = "rescue" => /\ CanTransfer(balance, Contract, r.caller, r.amount)
                              /\ rescued + r.amount <= MaxRescued
  BY <1>3, CashAccepted
<1> QED
  BY <1>1, <1>2, <1>3, <1>4, <1>5, <1>6, <1>7, <1>8 DEF ContractAccepts

(* A command whose checks all passed, and whose grounds stand, is accepted *)
(* by the facets or by the token service, but for the reasons named: the   *)
(* checks of the sixteen handlers ask for all the facets ask for           *)
(* (CashInCommandHandler and the others, ValidationService).               *)
THEOREM AcceptanceCorrect == ClientSpec => []CheckedCallsAreAccepted
<1>1. ASSUME ClientInv, SumsInv, SupplyInv, RefusalInv, AcceptanceInv,
             Ready, command.standing, ~Overlooked(command.request)
      PROVE  Accepts(command)
  <2>1. PICK r, todo, refused, supply, access, standing :
          /\ r \in Requests /\ todo \in Seq(Check)
          /\ command = Command(r, todo, refused, supply, access, standing)
          /\ EndOf(todo, Handler[r.op])
          /\ HasAmount(r)
          /\ ~refused /\ standing => Passed(r, todo, access)
    BY <1>1, CommandHasPassed DEF ClientInv, Ready
  <2>2. /\ command.request = r /\ command.todo = todo /\ command.refused = refused
        /\ command.seen.access = access /\ command.standing = standing
    BY <2>1 DEF Command
  <2>3. todo = <<>> /\ ~refused /\ standing /\ ~Overlooked(r)
    BY <1>1, <2>2, Zenon DEF Ready
  <2>4. Len(todo) = 0 /\ Len(Handler[r.op]) \in Nat
    BY <2>1, <2>3, HandlersAre, ClientAssumption
  <2>5. Passed(r, todo, access)
    BY <2>1, <2>3, Zenon
  <2>6. AllPassed(r, access)
    <3>1. Len(Handler[r.op]) - Len(todo) = Len(Handler[r.op])
      BY <2>4
    <3> QED
      BY <2>5, <3>1, Zenon DEF Passed, AllPassed
  <2>7. LedgerInv
    BY <1>1 DEF ClientInv, Inv
  <2>8. CASE access = {"hts"}
    <3>1. NativeAccepts(r)
      BY <1>1, <2>1, <2>6, <2>7, <2>8, NativeAccepted
    <3> QED
      BY <2>2, <2>8, <3>1 DEF Accepts
  <2>9. CASE access # {"hts"}
    <3>1. ContractAccepts(r)
      BY <1>1, <2>1, <2>3, <2>6, <2>7, <2>9, ContractAccepted
    <3> QED
      BY <2>2, <2>9, <3>1 DEF Accepts
  <2> QED
    BY <2>8, <2>9
<1>2. ClientInv /\ SumsInv /\ SupplyInv /\ RefusalInv /\ AcceptanceInv
        => CheckedCallsAreAccepted
  BY <1>1 DEF CheckedCallsAreAccepted
<1> QED
  BY <1>2, ClientInvariance, ClientSums, RefusalInvariance, AcceptanceInvariance, PTL

-----------------------------------------------------------------------------
(* What is accepted is done                                                *)

(* What a settlement pays, and to whom.                                    *)
PaidAmount(r) == IF r.op = "reclaimHold" THEN holds[r.holder][r.id].amount ELSE r.amount
PaidTo(r) == IF r.op = "executeHold" THEN r.target ELSE r.holder

(* What the call of a request makes of every variable of the ledger: one   *)
(* value of each, whatever the state.                                      *)
CashEffect(r) ==
  LET minted == Credit(balance, Contract, r.amount)
  IN  /\ totalSupply' = IF r.op = "cashIn" THEN totalSupply + r.amount
                        ELSE IF r.op \in {"burn", "wipe"} THEN totalSupply - r.amount
                        ELSE totalSupply
      /\ balance' =
           IF r.op = "cashIn" THEN IF r.target = Contract THEN minted
                                   ELSE Moved(minted, Contract, r.target, r.amount)
           ELSE IF r.op = "burn" THEN Debit(balance, Contract, r.amount)
           ELSE IF r.op = "wipe" THEN Debit(balance, r.target, r.amount)
           ELSE IF r.op = "rescue" THEN Moved(balance, Contract, r.caller, r.amount)
           ELSE IF r.op \in HoldCreations THEN Moved(balance, r.holder, Contract, r.hold.amount)
           ELSE IF r.op \in Settlements
                  THEN Moved(balance, Contract, PaidTo(r), PaidAmount(r))
           ELSE balance
      /\ rescued' = IF r.op = "rescue" THEN rescued + r.amount ELSE rescued
StatusEffect(r) ==
  /\ frozen' = IF r.op = "freeze" THEN frozen \cup {r.target}
               ELSE IF r.op = "unfreeze" THEN frozen \ {r.target} ELSE frozen
  /\ kyc' = IF r.op = "grantKyc" THEN kyc \cup {r.target}
            ELSE IF r.op = "revokeKyc" THEN kyc \ {r.target} ELSE kyc
  /\ paused' = IF r.op = "pause" THEN TRUE ELSE IF r.op = "unpause" THEN FALSE ELSE paused
  /\ deleted' = IF r.op = "delete" THEN TRUE ELSE deleted
HoldsEffect(r) ==
  IF r.op \in HoldCreations
    THEN LET id == nextHoldId[r.holder] + 1
         IN  /\ nextHoldId' = [nextHoldId EXCEPT ![r.holder] = id]
             /\ holds' = [holds EXCEPT ![r.holder][id] = r.hold]
             /\ holdIds' = [holdIds EXCEPT ![r.holder] = @ \cup {id}]
             /\ heldByAccount' = [heldByAccount EXCEPT ![r.holder] = @ + r.hold.amount]
             /\ totalHeld' = totalHeld + r.hold.amount
  ELSE IF r.op \in Settlements
    THEN DecreaseHoldAmount(r.holder, r.id, PaidAmount(r))
    ELSE UNCHANGED holdVars
AccessEffect(r) ==
  /\ UNCHANGED <<hasRole, unlimited, reserveVars, now, keyOf>>
  /\ IF r.op = "cashIn" /\ r.caller \notin unlimited
       THEN /\ allowance' = [allowance EXCEPT ![r.caller] = @ - r.amount]
            /\ entitled' = [entitled EXCEPT ![r.caller] = @ - r.amount]
       ELSE UNCHANGED <<allowance, entitled>>
Effect(r) == CashEffect(r) /\ StatusEffect(r) /\ HoldsEffect(r) /\ AccessEffect(r)

(* Pausing, freezing, KYC and deletion: the facets and the token service   *)
(* do with an accepted call what it asks for.                              *)
LEMMA StatusCallIsDone ==
  ASSUME NEW r \in Requests,
         r.op \in {"pause", "unpause", "freeze", "unfreeze", "grantKyc", "revokeKyc", "delete"}
  PROVE  /\ ContractCall(r) <=> ContractAccepts(r) /\ Effect(r)
         /\ NativeCall(r) <=> NativeAccepts(r) /\ Effect(r)
<1>1. Effect(r) <=>
        /\ UNCHANGED <<accessVars, balance, totalSupply, holdVars, reserveVars, now, rescued>>
        /\ UNCHANGED keyOf
        /\ StatusEffect(r)
  BY DEF Effect, CashEffect, HoldsEffect, AccessEffect, accessVars, HoldCreations, Settlements
<1>2. CASE r.op = "pause"
  <2>1. /\ ContractCall(r) <=>
             keyOf["pause"] = Contract /\ UNCHANGED keyOf /\ Pause(r.caller)
        /\ ContractAccepts(r) <=>
             keyOf["pause"] = Contract /\ ~deleted /\ HasRole(PAUSE_ROLE, r.caller)
    BY <1>2 DEF ContractCall, ContractAccepts, KeyedOps, KeyFor, HoldCreations, Settlements,
                CanControl, Authorized, RoleFor
  <2> QED
    BY <1>1, <1>2, <2>1
      DEF Pause, SetStatus, StatusEffect, NativeCall, NativeAccepts, KeyedOps, KeyFor, CanControl
<1>3. CASE r.op = "unpause"
  <2>1. /\ ContractCall(r) <=>
             keyOf["pause"] = Contract /\ UNCHANGED keyOf /\ Unpause(r.caller)
        /\ ContractAccepts(r) <=>
             keyOf["pause"] = Contract /\ ~deleted /\ HasRole(PAUSE_ROLE, r.caller)
    BY <1>3 DEF ContractCall, ContractAccepts, KeyedOps, KeyFor, HoldCreations, Settlements,
                CanControl, Authorized, RoleFor
  <2> QED
    BY <1>1, <1>3, <2>1
      DEF Unpause, SetStatus, StatusEffect, NativeCall, NativeAccepts, KeyedOps, KeyFor, CanControl
<1>4. CASE r.op = "freeze"
  <2>1. /\ ContractCall(r) <=>
             keyOf["freeze"] = Contract /\ UNCHANGED keyOf /\ Freeze(r.caller, r.target)
        /\ ContractAccepts(r) <=>
             keyOf["freeze"] = Contract /\ Usable /\ HasRole(FREEZE_ROLE, r.caller)
    BY <1>4 DEF ContractCall, ContractAccepts, KeyedOps, KeyFor, HoldCreations, Settlements,
                CanControl, Authorized, RoleFor
  <2> QED
    BY <1>1, <1>4, <2>1
      DEF Freeze, SetStatus, StatusEffect, NativeCall, NativeAccepts, KeyedOps, KeyFor, CanControl
<1>5. CASE r.op = "unfreeze"
  <2>1. /\ ContractCall(r) <=>
             keyOf["freeze"] = Contract /\ UNCHANGED keyOf /\ Unfreeze(r.caller, r.target)
        /\ ContractAccepts(r) <=>
             keyOf["freeze"] = Contract /\ Usable /\ HasRole(FREEZE_ROLE, r.caller)
    BY <1>5 DEF ContractCall, ContractAccepts, KeyedOps, KeyFor, HoldCreations, Settlements,
                CanControl, Authorized, RoleFor
  <2> QED
    BY <1>1, <1>5, <2>1
      DEF Unfreeze, SetStatus, StatusEffect, NativeCall, NativeAccepts, KeyedOps, KeyFor, CanControl
<1>6. CASE r.op = "grantKyc"
  <2>1. /\ ContractCall(r) <=>
             keyOf["kyc"] = Contract /\ UNCHANGED keyOf /\ GrantKyc(r.caller, r.target)
        /\ ContractAccepts(r) <=>
             keyOf["kyc"] = Contract /\ Usable /\ KycKey /\ HasRole(KYC_ROLE, r.caller)
    BY <1>6 DEF ContractCall, ContractAccepts, KeyedOps, KeyFor, HoldCreations, Settlements,
                CanControl, Authorized, RoleFor
  <2> QED
    BY <1>1, <1>6, <2>1
      DEF GrantKyc, SetStatus, StatusEffect, NativeCall, NativeAccepts, KeyedOps, KeyFor, CanControl
<1>7. CASE r.op = "revokeKyc"
  <2>1. /\ ContractCall(r) <=>
             keyOf["kyc"] = Contract /\ UNCHANGED keyOf /\ RevokeKyc(r.caller, r.target)
        /\ ContractAccepts(r) <=>
             keyOf["kyc"] = Contract /\ Usable /\ KycKey /\ HasRole(KYC_ROLE, r.caller)
    BY <1>7 DEF ContractCall, ContractAccepts, KeyedOps, KeyFor, HoldCreations, Settlements,
                CanControl, Authorized, RoleFor
  <2> QED
    BY <1>1, <1>7, <2>1
      DEF RevokeKyc, SetStatus, StatusEffect, NativeCall, NativeAccepts, KeyedOps, KeyFor, CanControl
<1>8. CASE r.op = "delete"
  <2>1. /\ ContractCall(r) <=> UNCHANGED keyOf /\ DeleteToken(r.caller)
        /\ ContractAccepts(r) <=> Usable /\ HasRole(DELETE_ROLE, r.caller)
        /\ r.op \notin KeyedOps
    BY <1>8 DEF ContractCall, ContractAccepts, KeyedOps, KeyFor, HoldCreations, Settlements,
                Authorized, RoleFor
  <2> QED
    BY <1>1, <1>8, <2>1 DEF DeleteToken, SetStatus, StatusEffect, NativeCall, NativeAccepts
<1> QED
  BY <1>2, <1>3, <1>4, <1>5, <1>6, <1>7, <1>8

(* So they do with what is cashed in, burned, wiped and rescued.           *)
LEMMA CashCallIsDone ==
  ASSUME LedgerInv, NEW r \in Requests, r.op \in {"cashIn", "burn", "wipe", "rescue"}
  PROVE  /\ ContractCall(r) <=> ContractAccepts(r) /\ Effect(r)
         /\ NativeCall(r) <=> NativeAccepts(r) /\ Effect(r)
<1>1. Effect(r) <=>
        /\ UNCHANGED <<statusVars, holdVars>>
        /\ CashEffect(r) /\ AccessEffect(r)
  BY DEF Effect, StatusEffect, HoldsEffect, HoldCreations, Settlements, statusVars
<1>2. CASE r.op = "burn"
  <2>1. /\ ContractCall(r) <=> UNCHANGED keyOf /\ Burn(r.caller, r.amount)
        /\ ContractAccepts(r) <=> /\ HasRole(BURN_ROLE, r.caller) /\ r.amount > 0
                                  /\ r.amount <= BurnableAmount /\ CanBurn(r.amount)
        /\ r.op \notin KeyedOps
    BY <1>2 DEF ContractCall, ContractAccepts, KeyedOps, KeyFor, HoldCreations, Settlements,
                Authorized, RoleFor
  <2> QED
    BY <1>1, <1>2, <2>1
      DEF Burn, CashEffect, AccessEffect, accessVars, NativeCall, NativeAccepts
<1>3. CASE r.op = "rescue"
  <2>1. /\ ContractCall(r) <=> UNCHANGED keyOf /\ Rescue(r.caller, r.amount)
        /\ ContractAccepts(r) <=> /\ HasRole(RESCUE_ROLE, r.caller) /\ r.amount > 0
                                  /\ CanTransfer(balance, Contract, r.caller, r.amount)
                                  /\ rescued + r.amount <= MaxRescued
        /\ r.op \notin KeyedOps
    BY <1>3 DEF ContractCall, ContractAccepts, KeyedOps, KeyFor, HoldCreations, Settlements,
                Authorized, RoleFor
  <2>2. CanTransfer(balance, Contract, r.caller, r.amount) => r.amount <= balance[Contract]
    BY DEF CanTransfer
  <2> QED
    BY <1>1, <1>3, <2>1, <2>2
      DEF Rescue, CashEffect, AccessEffect, accessVars, NativeCall, NativeAccepts
<1>4. CASE r.op = "wipe"
  <2>1. /\ ContractCall(r) <=> /\ keyOf["wipe"] = Contract /\ UNCHANGED keyOf
                               /\ Wipe(r.caller, r.target, r.amount)
        /\ ContractAccepts(r) <=> /\ keyOf["wipe"] = Contract /\ HasRole(WIPE_ROLE, r.caller)
                                  /\ r.amount > 0 /\ CanWipe(r.target, r.amount)
        /\ NativeCall(r) <=> /\ keyOf["wipe"] = r.caller /\ r.caller \in NativeSigners
                             /\ UNCHANGED keyOf /\ NativeWipe(r.target, r.amount)
        /\ NativeAccepts(r) <=> /\ keyOf["wipe"] = r.caller /\ r.caller \in NativeSigners
                                /\ CanWipe(r.target, r.amount)
    <3>1. CanWipe(r.target, r.amount) => Usable
      BY DEF CanWipe
    <3> QED
      BY <1>4, <3>1
        DEF ContractCall, ContractAccepts, NativeCall, NativeAccepts, KeyedOps, KeyFor,
            HoldCreations, Settlements, CanControl, Authorized, RoleFor
  <2> QED
    BY <1>1, <1>4, <2>1 DEF Wipe, NativeWipe, CashEffect, AccessEffect, accessVars
<1>5. CASE r.op = "cashIn"
  <2> DEFINE minted == Credit(balance, Contract, r.amount)
             Spent == IF r.caller \in unlimited THEN UNCHANGED <<allowance, entitled>>
                      ELSE /\ allowance' = [allowance EXCEPT ![r.caller] = @ - r.amount]
                           /\ entitled' = [entitled EXCEPT ![r.caller] = @ - r.amount]
             Allowed == r.caller \in unlimited \/ r.amount <= allowance[r.caller]
             Paid == balance' = IF r.target = Contract THEN minted
                                ELSE Moved(minted, Contract, r.target, r.amount)
             Payable == r.target # Contract => CanTransfer(minted, Contract, r.target, r.amount)
  <2>1. /\ ContractCall(r) <=> UNCHANGED keyOf /\ Mint(r.caller, r.target, r.amount)
        /\ ContractAccepts(r) <=> /\ HasRole(CASHIN_ROLE, r.caller) /\ Allowed /\ r.amount > 0
                                  /\ CheckReserveAmount(r.amount, totalSupply, now)
                                  /\ CanMint /\ totalSupply + r.amount <= MaxSupply
                                  /\ Payable
        /\ r.op \notin KeyedOps
    BY <1>5 DEF ContractCall, ContractAccepts, KeyedOps, KeyFor, HoldCreations, Settlements,
                Authorized, RoleFor
  <2>2. SpendAllowance(r.caller, r.amount) <=> Allowed /\ Spent
    BY DEF SpendAllowance
  <2>3. Mint(r.caller, r.target, r.amount) <=>
          /\ HasRole(CASHIN_ROLE, r.caller) /\ r.amount > 0
          /\ CheckReserveAmount(r.amount, totalSupply, now)
          /\ Allowed /\ Spent /\ CanMint /\ totalSupply + r.amount <= MaxSupply
          /\ totalSupply' = totalSupply + r.amount /\ Payable /\ Paid
          /\ UNCHANGED <<hasRole, unlimited, statusVars, holdVars, reserveVars, now, rescued>>
    <3> HIDE DEF Allowed, Spent
    <3> QED
      BY <2>2 DEF Mint
  <2>4. Effect(r) <=>
          /\ UNCHANGED keyOf
          /\ Spent /\ totalSupply' = totalSupply + r.amount /\ Paid
          /\ UNCHANGED <<hasRole, unlimited, statusVars, holdVars, reserveVars, now, rescued>>
    BY <1>1, <1>5 DEF CashEffect, AccessEffect
  <2> HIDE DEF Allowed, Spent, Paid, Payable
  <2> QED
    BY <2>1, <2>3, <2>4 DEF NativeCall, NativeAccepts
<1> QED
  BY <1>2, <1>3, <1>4, <1>5

(* Nothing but a keyed operation is a call of the token service.           *)
LEMMA HoldsAreNotKeyed ==
  ASSUME NEW r \in Requests, r.op \in HoldOps
  PROVE  r.op \notin KeyedOps /\ ~NativeCall(r) /\ ~NativeAccepts(r)
BY DEF HoldOps, HoldCreations, Settlements, KeyedOps, KeyFor, NativeCall, NativeAccepts

(* An accepted hold is created.                                            *)
LEMMA LockCallIsDone ==
  ASSUME LedgerInv, NEW r \in Requests, r.op \in HoldCreations
  PROVE  ContractCall(r) <=> ContractAccepts(r) /\ Effect(r)
<1>1. /\ r.holder \in Account
      /\ r.op = "createHold" => r.holder = r.caller
      /\ nextHoldId[r.holder] \in 0..MaxHolds /\ MaxHolds \in Nat
  BY ClientAssumption, HoldAssumption DEF LedgerInv, HoldTypeOK
<1>2. nextHoldId[r.holder] + 1 \in HoldId <=> nextHoldId[r.holder] < MaxHolds
  BY <1>1 DEF HoldId
<1>3. Effect(r) <=>
        /\ balance' = Moved(balance, r.holder, Contract, r.hold.amount)
        /\ HoldsEffect(r)
        /\ UNCHANGED <<accessVars, keyOf, totalSupply, statusVars, reserveVars, now, rescued>>
  BY DEF Effect, CashEffect, StatusEffect, AccessEffect, accessVars, statusVars,
         HoldCreations, Settlements
<1>4. RegisterHold(r.holder, r.hold) <=> nextHoldId[r.holder] < MaxHolds /\ HoldsEffect(r)
  BY <1>2 DEF RegisterHold, HoldsEffect
<1>5. CreateHoldInternal(r.holder, r.hold) <=>
        /\ CanLock(r.holder, r.hold) /\ HoldsEffect(r)
        /\ balance' = Moved(balance, r.holder, Contract, r.hold.amount)
        /\ UNCHANGED <<totalSupply, statusVars, now>>
  <2> HIDE DEF HoldsEffect
  <2> QED
    BY <1>4 DEF CreateHoldInternal, CanLock
<1>6. CASE r.op = "createHold"
  <2>1. r.op \notin KeyedOps /\ r.op \notin Settlements /\ r.holder = r.caller
    <3>1. r.op \in HoldOps /\ r.op \notin Settlements
      BY <1>6 DEF HoldOps, HoldCreations, Settlements
    <3>2. r.op \notin KeyedOps
      BY <3>1, HoldsAreNotKeyed
    <3> QED
      BY <1>1, <1>6, <3>1, <3>2
  <2>2. ContractCall(r) <=> /\ keyOf["wipe"] = Contract /\ UNCHANGED keyOf
                            /\ CreateHold(r.caller, r.hold)
    BY <1>6, <2>1 DEF ContractCall, HoldCreations
  <2>3. ContractAccepts(r) <=> keyOf["wipe"] = Contract /\ CanLock(r.holder, r.hold)
    BY <1>6, <2>1 DEF ContractAccepts, HoldCreations, Authorized, RoleFor
  <2>4. /\ ContractCall(r) <=> /\ keyOf["wipe"] = Contract /\ UNCHANGED keyOf
                               /\ CreateHold(r.holder, r.hold)
        /\ ContractAccepts(r) <=> keyOf["wipe"] = Contract /\ CanLock(r.holder, r.hold)
    BY <2>1, <2>2, <2>3
  <2> QED
    BY <1>3, <1>5, <2>4 DEF CreateHold
<1>7. CASE r.op = "createHoldByController"
  <2>1. /\ ContractCall(r) <=> /\ keyOf["wipe"] = Contract /\ UNCHANGED keyOf
                               /\ CreateHoldByController(r.caller, r.holder, r.hold)
        /\ ContractAccepts(r) <=> /\ keyOf["wipe"] = Contract /\ CanLock(r.holder, r.hold)
                                  /\ HasRole(HOLD_CREATOR_ROLE, r.caller)
    BY <1>7, HoldsAreNotKeyed
      DEF ContractCall, ContractAccepts, HoldOps, HoldCreations, Settlements, Authorized, RoleFor
  <2> QED
    BY <1>3, <1>5, <2>1 DEF CreateHoldByController
<1> QED
  BY <1>6, <1>7 DEF HoldCreations

(* An accepted settlement is made.                                         *)
LEMMA SettlementCallIsDone ==
  ASSUME NEW r \in Requests, r.op \in Settlements
  PROVE  ContractCall(r) <=> ContractAccepts(r) /\ Effect(r)
<1> DEFINE hold == holds[r.holder][r.id]
           Rest == /\ DecreaseHoldAmount(r.holder, r.id, PaidAmount(r))
                   /\ balance' = Moved(balance, Contract, PaidTo(r), PaidAmount(r))
                   /\ UNCHANGED <<totalSupply, statusVars, now>>
<1>1. Effect(r) <=> Rest /\ UNCHANGED <<accessVars, keyOf, reserveVars, rescued>>
  BY DEF Effect, CashEffect, StatusEffect, HoldsEffect, AccessEffect, accessVars, statusVars,
         HoldCreations, Settlements
<1>2. ContractAccepts(r) <=> CanSettle(r)
  BY HoldsAreNotKeyed
    DEF ContractAccepts, HoldOps, HoldCreations, Settlements, Authorized, RoleFor
<1>3. CASE r.op = "executeHold"
  <2>1. ContractCall(r) <=> /\ UNCHANGED <<keyOf, accessVars, reserveVars, rescued>>
                            /\ r.target \in Holder
                            /\ ExecuteHold(r.caller, r.holder, r.id, r.target, r.amount)
    BY <1>3, HoldsAreNotKeyed DEF ContractCall, HoldOps, HoldCreations, Settlements
  <2>2. CanSettle(r) <=>
          /\ Live(r.holder, r.id) /\ r.amount <= hold.amount /\ hold.expiration > now
          /\ hold.escrow = r.caller /\ r.amount > 0 /\ r.target \in Holder
          /\ hold.to \in {NoAddress, r.target}
          /\ CanTransfer(balance, Contract, r.target, r.amount)
    BY <1>3 DEF CanSettle
  <2>3. PaidAmount(r) = r.amount /\ PaidTo(r) = r.target
    BY <1>3 DEF PaidAmount, PaidTo
  <2> QED
    BY <1>1, <1>2, <2>1, <2>2, <2>3 DEF ExecuteHold, PayOut
<1>4. CASE r.op = "releaseHold"
  <2>1. ContractCall(r) <=> /\ UNCHANGED <<keyOf, accessVars, reserveVars, rescued>>
                            /\ ReleaseHold(r.caller, r.holder, r.id, r.amount)
    BY <1>4, HoldsAreNotKeyed DEF ContractCall, HoldOps, HoldCreations, Settlements
  <2>2. CanSettle(r) <=>
          /\ Live(r.holder, r.id) /\ r.amount <= hold.amount /\ hold.expiration > now
          /\ hold.escrow = r.caller
          /\ CanTransfer(balance, Contract, r.holder, r.amount)
    BY <1>4 DEF CanSettle
  <2>3. PaidAmount(r) = r.amount /\ PaidTo(r) = r.holder
    BY <1>4 DEF PaidAmount, PaidTo
  <2> QED
    BY <1>1, <1>2, <2>1, <2>2, <2>3 DEF ReleaseHold, PayOut
<1>5. CASE r.op = "reclaimHold"
  <2>1. ContractCall(r) <=> /\ UNCHANGED <<keyOf, accessVars, reserveVars, rescued>>
                            /\ ReclaimHold(r.holder, r.id)
    BY <1>5, HoldsAreNotKeyed DEF ContractCall, HoldOps, HoldCreations, Settlements
  <2>2. CanSettle(r) <=>
          /\ Live(r.holder, r.id) /\ hold.expiration <= now
          /\ CanTransfer(balance, Contract, r.holder, hold.amount)
    BY <1>5 DEF CanSettle
  <2>3. PaidAmount(r) = hold.amount /\ PaidTo(r) = r.holder
    BY <1>5 DEF PaidAmount, PaidTo
  <2> QED
    BY <1>1, <1>2, <2>1, <2>2, <2>3 DEF ReclaimHold, PayOut
<1> QED
  BY <1>3, <1>4, <1>5 DEF Settlements

(* Accepted is what the action would do: a call is possible exactly when   *)
(* it is accepted, for its effect gives every variable one value.  So a    *)
(* checked command succeeds (onlyRole, the modifiers and the response      *)
(* codes of the facets, the precompile's answer).                          *)
THEOREM AcceptedIsDone ==
  ASSUME LedgerInv, NEW r \in Requests
  PROVE  /\ ContractCall(r) <=> ContractAccepts(r) /\ Effect(r)
         /\ NativeCall(r) <=> NativeAccepts(r) /\ Effect(r)
<1>1. r.op \in Operation
  BY ClientAssumption
<1>2. CASE r.op \in HoldCreations
  <2>1. r.op \in HoldOps
    BY <1>2 DEF HoldOps
  <2> QED
    BY <1>2, <2>1, LockCallIsDone, HoldsAreNotKeyed
<1>3. CASE r.op \in Settlements
  <2>1. r.op \in HoldOps
    BY <1>3 DEF HoldOps
  <2> QED
    BY <1>3, <2>1, SettlementCallIsDone, HoldsAreNotKeyed
<1>4. CASE r.op \in {"cashIn", "burn", "wipe", "rescue"}
  BY <1>4, CashCallIsDone
<1>5. CASE r.op \in {"pause", "unpause", "freeze", "unfreeze", "grantKyc", "revokeKyc", "delete"}
  BY <1>5, StatusCallIsDone
<1> QED
  BY <1>1, <1>2, <1>3, <1>4, <1>5 DEF Operation, HoldOps, KeyedOps, KeyFor
=============================================================================
