------------------------------- MODULE Client -------------------------------
(***************************************************************************)
(* An application built on the SDK beside everybody else who uses the same *)
(* stablecoin.  A command handler checks a request before it sends it, and *)
(* each check awaits an answer of the mirror node or of the JSON-RPC relay:*)
(* between two answers, and between the last one and the transaction, the  *)
(* ledger moves on.  The checks restate in TypeScript what the facets      *)
(* demand; this module puts the two side by side.                          *)
(*                                                                         *)
(* A handler is the sequence of its checks; one step is one answer and the *)
(* test the handler makes of it.  One command is in flight; commands of    *)
(* other applications are among the calls of Others, which is all they can *)
(* do to this one.                                                         *)
(*                                                                         *)
(* Account-held keys are the other thing the SDK adds: a key of the token  *)
(* can be handed to an account (updateToken), which then pauses, wipes,    *)
(* freezes or grants KYC with transactions of the token service that never *)
(* pass the facets or their roles.                                         *)
(***************************************************************************)
EXTENDS StableCoin, Sequences

CONSTANTS
  KeyKind,        \* the keys of the token that can change hands
  Handovers,      \* bound: those that do
  NativeSigners,  \* the accounts whose wallet signs Hedera transactions (the
                  \* others use an EVM wallet: RPCTransactionAdapter)
  Requests,       \* bound: the requests [caller, op, target, holder, id,
                  \* amount, hold] users make; target may be NoAddress
  RESERVE_DECIMALS

VARIABLES
  keyOf,          \* keyOf[k]: who holds key k, the proxy or an account
  command         \* the command in flight: its request, the checks still to
                  \* be made, what was seen, whether it was refused, and
                  \* whether what the checks rest on is still as it was

clientVars == <<vars, keyOf, command>>
ledgerVars == <<vars, keyOf>>

HoldCreations == {"createHold", "createHoldByController"}
Settlements == {"executeHold", "releaseHold", "reclaimHold"}
HoldOps == HoldCreations \cup Settlements
KeyFor == [wipe |-> "wipe", pause |-> "pause", unpause |-> "pause",
           freeze |-> "freeze", unfreeze |-> "freeze",
           grantKyc |-> "kyc", revokeKyc |-> "kyc"]
KeyedOps == DOMAIN KeyFor
Operation == HoldOps \cup KeyedOps \cup {"cashIn", "burn", "rescue", "delete"}

ASSUME ClientAssumption ==
  /\ KeyKind = {"wipe", "pause", "freeze", "kyc"}
  /\ Handovers \subseteq KeyKind \X Holder
  /\ NativeSigners \subseteq Account
  /\ RESERVE_DECIMALS \in Nat
  /\ \A r \in Requests :
       /\ r.caller \in Account /\ r.op \in Operation
       /\ r.target \in Holder \cup {NoAddress}
       /\ r.op # "executeHold" => r.target # NoAddress
       /\ r.op # "cashIn" => r.target # Contract
       /\ r.holder \in Account
       /\ r.op = "createHold" => r.holder = r.caller
       /\ r.amount \in Nat /\ r.hold \in HoldData

Idle == [request |-> "none"]
InFlight == command # Idle

-----------------------------------------------------------------------------
(* The calls that reach the ledger                                         *)

(* A call of the facets.  A facet acts through the token service with the  *)
(* proxy's keys, so it reverts where the proxy has lost the key.           *)
ContractCall(r) ==
  /\ r.op \in KeyedOps => keyOf[KeyFor[r.op]] = Contract
  /\ r.op \in HoldCreations => keyOf["wipe"] = Contract
  /\ UNCHANGED keyOf
  /\ \/ r.op = "cashIn" /\ Mint(r.caller, r.target, r.amount)
     \/ r.op = "burn" /\ Burn(r.caller, r.amount)
     \/ r.op = "wipe" /\ Wipe(r.caller, r.target, r.amount)
     \/ r.op = "rescue" /\ Rescue(r.caller, r.amount)
     \/ r.op = "pause" /\ Pause(r.caller)
     \/ r.op = "unpause" /\ Unpause(r.caller)
     \/ r.op = "freeze" /\ Freeze(r.caller, r.target)
     \/ r.op = "unfreeze" /\ Unfreeze(r.caller, r.target)
     \/ r.op = "grantKyc" /\ GrantKyc(r.caller, r.target)
     \/ r.op = "revokeKyc" /\ RevokeKyc(r.caller, r.target)
     \/ r.op = "delete" /\ DeleteToken(r.caller)
     \/ r.op = "createHold" /\ CreateHold(r.caller, r.hold)
     \/ r.op = "createHoldByController" /\ CreateHoldByController(r.caller, r.holder, r.hold)
     \/ /\ \/ /\ r.op = "executeHold"
              /\ r.target \in Holder          \* nothing is sent to address(0)
              /\ ExecuteHold(r.caller, r.holder, r.id, r.target, r.amount)
           \/ r.op = "releaseHold" /\ ReleaseHold(r.caller, r.holder, r.id, r.amount)
           \/ r.op = "reclaimHold" /\ ReclaimHold(r.holder, r.id)
        /\ UNCHANGED <<accessVars, reserveVars, rescued>>

(* A slip: the token service would not look at what the account has.       *)
NativeWipeUnchecked(account, amount) ==
  /\ account # Contract
  /\ balance' = Debit(balance, account, amount)
  /\ totalSupply' = totalSupply - amount
  /\ UNCHANGED <<accessVars, statusVars, holdVars, reserveVars, now, rescued>>

(* A slip: nor at the state of the token.                                  *)
NativeWipeWhilePaused(account, amount) ==
  /\ account # Contract /\ amount <= balance[account]
  /\ NativeWipeUnchecked(account, amount)

(* TokenWipeTransaction                                                    *)
NativeWipe(account, amount) ==
  /\ CanWipe(account, amount)
  /\ balance' = Debit(balance, account, amount)
  /\ totalSupply' = totalSupply - amount
  /\ UNCHANGED <<accessVars, statusVars, holdVars, reserveVars, now, rescued>>

(* A transaction of the token service, signed with the account's own key.  *)
NativeCall(r) ==
  /\ r.op \in KeyedOps
  /\ keyOf[KeyFor[r.op]] = r.caller
  /\ r.caller \in NativeSigners
  /\ UNCHANGED keyOf
  /\ \/ r.op = "wipe" /\ NativeWipe(r.target, r.amount)
     \/ /\ r.op \in {"pause", "unpause"}
        /\ ~deleted
        /\ SetStatus(frozen, kyc, r.op = "pause", deleted)
     \/ /\ r.op \in {"freeze", "unfreeze"}
        /\ Usable
        /\ SetStatus(IF r.op = "freeze" THEN frozen \cup {r.target}
                       ELSE frozen \ {r.target}, kyc, paused, deleted)
     \/ /\ r.op \in {"grantKyc", "revokeKyc"}
        /\ Usable /\ KycKey
        /\ SetStatus(frozen, IF r.op = "grantKyc" THEN kyc \cup {r.target}
                               ELSE kyc \ {r.target}, paused, deleted)

(* HederaTokenManagerFacet.updateToken: to an account or back to the proxy.*)
UpdateToken(caller, kind, holder) ==
  /\ IsAdmin(caller)
  /\ Usable
  /\ keyOf' = [keyOf EXCEPT ![kind] = holder]
  /\ UNCHANGED vars

-----------------------------------------------------------------------------
(* Whether the ledger takes a call as things stand: what the actions above *)
(* ask for, without what they do.                                          *)

(* The roles the facets ask for, and the allowance of a cash-in.           *)
RoleFor == [cashIn |-> CASHIN_ROLE, burn |-> BURN_ROLE, wipe |-> WIPE_ROLE,
            rescue |-> RESCUE_ROLE, pause |-> PAUSE_ROLE, unpause |-> PAUSE_ROLE,
            freeze |-> FREEZE_ROLE, unfreeze |-> FREEZE_ROLE, grantKyc |-> KYC_ROLE,
            revokeKyc |-> KYC_ROLE, delete |-> DELETE_ROLE,
            createHoldByController |-> HOLD_CREATOR_ROLE]
Authorized(r) ==
  /\ r.op \in DOMAIN RoleFor => HasRole(RoleFor[r.op], r.caller)
  /\ r.op = "cashIn" => r.caller \in unlimited \/ r.amount <= allowance[r.caller]

(* createHold, and the bound on the holds of a holder.                     *)
CanLock(holder, hold) ==
  /\ hold.expiration > now /\ hold.amount > 0
  /\ CanWipe(holder, hold.amount) /\ CanMint
  /\ nextHoldId[holder] < MaxHolds

(* executeHold and releaseHold by the escrow, reclaimHold by anyone.       *)
CanSettle(r) ==
  /\ Live(r.holder, r.id)
  /\ LET hold == holds[r.holder][r.id]
     IN /\ r.op # "reclaimHold" =>
             r.amount <= hold.amount /\ hold.expiration > now /\ hold.escrow = r.caller
        /\ r.op = "executeHold" =>
             /\ r.amount > 0 /\ r.target \in Holder /\ hold.to \in {NoAddress, r.target}
             /\ CanTransfer(balance, Contract, r.target, r.amount)
        /\ r.op = "releaseHold" => CanTransfer(balance, Contract, r.holder, r.amount)
        /\ r.op = "reclaimHold" =>
             hold.expiration <= now /\ CanTransfer(balance, Contract, r.holder, hold.amount)

(* What the token service asks for, through the facets or without them.    *)
CanControl(r) ==
  /\ r.op = "wipe" => CanWipe(r.target, r.amount)
  /\ IF r.op \in {"pause", "unpause"} THEN ~deleted ELSE Usable
  /\ r.op \in {"grantKyc", "revokeKyc"} => KycKey

ContractAccepts(r) ==
  /\ r.op \in KeyedOps => keyOf[KeyFor[r.op]] = Contract /\ CanControl(r)
  /\ r.op \in HoldCreations => keyOf["wipe"] = Contract /\ CanLock(r.holder, r.hold)
  /\ r.op \in Settlements => CanSettle(r)
  /\ Authorized(r)
  /\ r.op \in {"cashIn", "burn", "wipe", "rescue"} => r.amount > 0
  /\ r.op = "cashIn" =>
       /\ CheckReserveAmount(r.amount, totalSupply, now)
       /\ CanMint /\ totalSupply + r.amount <= MaxSupply
       /\ r.target # Contract =>
            CanTransfer(Credit(balance, Contract, r.amount), Contract, r.target, r.amount)
  /\ r.op = "burn" => r.amount <= BurnableAmount /\ CanBurn(r.amount)
  /\ r.op = "rescue" =>
       CanTransfer(balance, Contract, r.caller, r.amount) /\ rescued + r.amount <= MaxRescued
  /\ r.op = "delete" => Usable

NativeAccepts(r) ==
  /\ r.op \in KeyedOps
  /\ keyOf[KeyFor[r.op]] = r.caller /\ r.caller \in NativeSigners
  /\ CanControl(r)

-----------------------------------------------------------------------------
(* What a handler sees                                                     *)

(* StableCoinService.getCapabilities: the operations open to the caller in *)
(* the state of the token, through the contract or through the token       *)
(* service.  The caller's roles are not looked at.                         *)
Capabilities(caller) ==
  {cap \in Operation \X {"contract", "hts"} :
     LET op == cap[1]
         access == cap[2]
     IN /\ IF op \in {"pause", "unpause"} THEN ~deleted ELSE Usable
        /\ op \in HoldOps => keyOf["wipe"] = Contract
        /\ op \in {"grantKyc", "revokeKyc"} => KycKey
        /\ IF op \in KeyedOps
             THEN keyOf[KeyFor[op]] = IF access = "hts" THEN caller ELSE Contract
             ELSE access = "contract"}

(* CapabilityDecider: no access is a forbidden operation.                  *)
AccessDecision(r) == {access \in {"contract", "hts"} : <<r.op, access>> \in Capabilities(r.caller)}

(* What the adapter of the caller's wallet makes of it.  The EVM wallet    *)
(* sends nothing but contract calls (performOperation); with a Hedera      *)
(* wallet, holds and rescues are called without a look at the decision     *)
(* (HoldOperations, RescueOperations).                                     *)
LooksAtDecision(r) == r.caller \notin NativeSigners \/ r.op \notin HoldOps \cup {"rescue"}
AdapterSends(r) ==
  \/ "contract" \in AccessDecision(r)
  \/ "hts" \in AccessDecision(r) /\ r.caller \in NativeSigners
  \/ ~LooksAtDecision(r)

(* GetHoldForQueryHandler: an unknown hold reads as an empty one.          *)
EmptyHold == [amount |-> 0, expiration |-> -1, escrow |-> NoAddress, to |-> NoAddress]
HoldFor(r) == IF Live(r.holder, r.id) THEN holds[r.holder][r.id] ELSE EmptyHold

(* GetReserveAmountQueryHandler: the answer of the feed now in use, zero   *)
(* without one, taken as a number of RESERVE_DECIMALS decimals.            *)
ReserveAmount == IF reserveAddress = NoFeed THEN 0 ELSE feed[reserveAddress].answer

(* BigDecimal.setDecimals keeps the whole part alone.                      *)
WholePart(n, decimals) == n \div Power[decimals]

(* ValidationService.checkBurnableAmount                                   *)
checkBurnableAmount(r) == r.amount <= BurnableAmount

(* A slip: anything left of the hold will do.                              *)
HasSomeHoldBalance(r) == HoldFor(r).amount > 0

(* ValidationService.checkHoldBalance                                      *)
checkHoldBalance(r) == HoldFor(r).amount >= r.amount

(* ValidationService.checkValidHoldId: the bounded holds fit one page.     *)
checkValidHoldId(r) == Live(r.holder, r.id)

checkEscrow(r) == HoldFor(r).escrow = r.caller

(* ValidationService.checkHoldTarget: a request may leave the destination  *)
(* out when the hold names one.                                            *)
checkHoldTarget(r) ==
  /\ r.target = NoAddress => HoldFor(r).to # NoAddress
  /\ r.target # NoAddress => HoldFor(r).to \in {NoAddress, r.target}

(* A slip: a hold that expires this second counts as not expired.          *)
checkHoldExpirationStrictly(r) ==
  IF r.op = "reclaimHold" THEN HoldFor(r).expiration < now
                          ELSE HoldFor(r).expiration >= now

(* ValidationService.checkHoldExpiration, by the clock of the application. *)
checkHoldExpiration(r) ==
  IF r.op = "reclaimHold" THEN HoldFor(r).expiration <= now
                          ELSE HoldFor(r).expiration >= now

(* A slip: a reserve that is just enough is not.                           *)
checkReserveStrictly(r, seen) ==
  WholePart(seen.supply + r.amount, TokenDecimals)
    < WholePart(ReserveAmount, RESERVE_DECIMALS)

(* CashInCommandHandler: in whole tokens, against the supply seen before.  *)
checkReserve(r, seen) ==
  WholePart(seen.supply + r.amount, TokenDecimals)
    <= WholePart(ReserveAmount, RESERVE_DECIMALS)

(* One check of a handler on the answer that just arrived.                 *)
Passes(check, r, seen) ==
  \/ check = "capabilities" /\ AdapterSends(r)
  \/ check = "maxSupply" /\ AdapterSends(r) /\ r.amount <= MaxSupply - totalSupply
  \/ check = "proxyKeys" /\ AdapterSends(r) /\ keyOf["wipe"] = Contract
  \/ check = "target" /\ (r.target # NoAddress => CanReceive(r.target))
  \/ check = "holder" /\ CanReceive(r.holder)
  \/ check = "caller" /\ CanReceive(r.caller)
  \/ check = "balanceOfTarget" /\ r.amount <= balance[r.target]
  \/ check = "balanceOfHolder" /\ r.hold.amount <= balance[r.holder]
  \/ check = "balanceOfTreasury" /\ r.amount <= balance[Contract]
  \/ check = "kycRevoked" /\ r.target \notin kyc
  \/ check = "kycGranted" /\ r.target \in kyc
  \/ check = "burnable" /\ checkBurnableAmount(r)
  \/ check = "holdBalance" /\ checkHoldBalance(r)
  \/ check = "holdId" /\ checkValidHoldId(r)
  \/ check = "escrow" /\ checkEscrow(r)
  \/ check = "destination" /\ checkHoldTarget(r)
  \/ check = "expiration" /\ checkHoldExpiration(r)
  \/ check = "reserveAddress"
  \/ check = "reserve" /\ checkReserve(r, seen)

(* The handlers: the checks in the order of their answers.  Every account  *)
(* is taken to be associated with the token, so that the relationship a    *)
(* handler asks for exists; where it compares the relationship later, the  *)
(* check stands where it was read.  A slip: the target is not asked for.   *)
CashInUnseenTarget == <<"maxSupply", "reserveAddress", "reserve">>
CashInHandler == <<"target", "maxSupply", "reserveAddress", "reserve">>
BurnHandler == <<"capabilities", "burnable">>
WipeHandler == <<"balanceOfTarget", "capabilities">>
RescueHandler == <<"caller", "capabilities", "balanceOfTreasury">>
(* The holder is the caller, or the `sourceId' of the controller's request.*)
CreateHoldHandler == <<"proxyKeys", "holder", "balanceOfHolder">>
CreateHoldByControllerHandler == <<"proxyKeys", "holder", "balanceOfHolder">>
ExecuteHoldHandler ==
  <<"capabilities", "holder", "target", "holdBalance", "escrow", "destination", "expiration">>
ReleaseHoldHandler == <<"capabilities", "holder", "holdBalance", "escrow", "expiration">>
(* The relationship is the caller's, though its errors name the holder.    *)
ReclaimHoldHandler == <<"capabilities", "caller", "holdId", "expiration">>
GrantKycHandler == <<"capabilities", "kycRevoked">>
RevokeKycHandler == <<"capabilities", "kycGranted">>
FreezeHandler == <<"capabilities">>
UnFreezeHandler == <<"capabilities">>
PauseHandler == <<"capabilities">>
UnPauseHandler == <<"capabilities">>
DeleteHandler == <<"capabilities">>

Handler ==
  [cashIn |-> CashInHandler, burn |-> BurnHandler, wipe |-> WipeHandler,
   rescue |-> RescueHandler, createHold |-> CreateHoldHandler,
   createHoldByController |-> CreateHoldByControllerHandler,
   executeHold |-> ExecuteHoldHandler, releaseHold |-> ReleaseHoldHandler,
   reclaimHold |-> ReclaimHoldHandler, grantKyc |-> GrantKycHandler,
   revokeKyc |-> RevokeKycHandler, freeze |-> FreezeHandler,
   unfreeze |-> UnFreezeHandler, pause |-> PauseHandler,
   unpause |-> UnPauseHandler, delete |-> DeleteHandler]

-----------------------------------------------------------------------------
(* A command                                                               *)

(* What the checks of a request rest on.  Everything else may change       *)
(* between a check and the transaction without spoiling the answer.        *)
Grounds(r) ==
  <<statusVars, keyOf,
    IF r.op = "cashIn" THEN <<totalSupply, reserveVars, now>>
    ELSE IF r.op = "burn" THEN BurnableAmount
    ELSE IF r.op = "wipe" THEN balance[r.target]
    ELSE IF r.op = "rescue" THEN balance[Contract]
    ELSE IF r.op \in HoldCreations THEN <<balance[r.holder], now>>
    ELSE IF r.op \in Settlements THEN <<HoldFor(r), now, rescued>>
    ELSE 0>>

(* The ledger moves; the command keeps what it saw.                        *)
Unsettled ==
  IF InFlight
    THEN \E r \in {command.request} :
           command' = [command EXCEPT !.standing = @ /\ Grounds(r)' = Grounds(r)]
    ELSE UNCHANGED command

(* The request types validate what needs no answer: nothing is asked for   *)
(* in an amount of zero, nor a hold that has expired.                      *)
AmountOps == {"cashIn", "burn", "wipe", "rescue", "executeHold", "releaseHold"}
HasAmount(r) ==
  /\ r.op \in AmountOps => r.amount > 0
  /\ r.op \in HoldCreations => r.hold.amount > 0

Start ==
  /\ ~InFlight
  /\ \E r \in Requests :
       /\ HasAmount(r)
       /\ r.op \in HoldCreations => r.hold.expiration >= now
       /\ command' = [request |-> r, todo |-> Handler[r.op], refused |-> FALSE,
                      seen |-> [supply |-> 0, access |-> {}], standing |-> TRUE]
  /\ UNCHANGED ledgerVars

(* What is kept of an answer for later: the supply and the access decision *)
(* that came with the coin.                                                *)
Seen(check) ==
  IF check \in {"capabilities", "maxSupply", "proxyKeys"}
    THEN [supply |-> totalSupply, access |-> AccessDecision(command.request)]
    ELSE command.seen

(* A switched off reserve is not asked for an amount.                      *)
Remaining(check) ==
  IF check = "reserveAddress" /\ reserveAddress = NoFeed THEN <<>> ELSE Tail(command.todo)

Answer ==
  /\ InFlight
  /\ command.todo # <<>> /\ ~command.refused
  /\ LET check == Head(command.todo)
     IN \/ /\ Passes(check, command.request, command.seen)
           /\ command' = [command EXCEPT !.todo = Remaining(check), !.seen = Seen(check)]
        \/ /\ ~Passes(check, command.request, command.seen)
           /\ command' = [command EXCEPT !.refused = TRUE]
  /\ UNCHANGED ledgerVars

(* The transaction of the command: native where the decision was `hts'.    *)
Transaction(c) ==
  IF c.seen.access = {"hts"} THEN NativeCall(c.request) ELSE ContractCall(c.request)
Accepts(c) ==
  IF c.seen.access = {"hts"} THEN NativeAccepts(c.request) ELSE ContractAccepts(c.request)

Ready == InFlight /\ command.todo = <<>> /\ ~command.refused

(* It succeeds, or it reverts and the command reports an error.            *)
Send ==
  /\ Ready
  /\ command' = Idle
  /\ \/ \E c \in {command} : Transaction(c)
     \/ ~Accepts(command) /\ UNCHANGED ledgerVars

Fail == InFlight /\ command.refused /\ command' = Idle /\ UNCHANGED ledgerVars

(* Everybody else: the same calls straight to the facets or the token      *)
(* service, key handovers, the reserve, transfers of holders and the clock.*)
Others ==
  /\ \/ \E r \in Requests : ContractCall(r)
     \/ \E r \in Requests : NativeCall(r)
     \/ \E caller \in Account, handover \in Handovers :
          UpdateToken(caller, handover[1], handover[2])
     \/ ReserveNext /\ UNCHANGED keyOf
     \/ Environment /\ UNCHANGED keyOf
  /\ Unsettled

ClientInit == Init /\ keyOf = [k \in KeyKind |-> Contract] /\ command = Idle

ClientNext == Start \/ Answer \/ Send \/ Fail \/ Others

ClientSpec == ClientInit /\ [][ClientNext]_clientVars

-----------------------------------------------------------------------------

(* Balances, supply and status stay what the token service can hold under  *)
(* native transactions too, and a command is one of the requests with what *)
(* is left of its handler.                                                 *)
ClientTypeOK ==
  /\ TypeOK
  /\ keyOf \in [KeyKind -> Holder]
  /\ InFlight =>
       /\ command.request \in Requests
       /\ Len(command.todo) <= Len(Handler[command.request.op])
       /\ command.seen.access \subseteq {"contract", "hts"}

(* What the checks do not see, or see wrong to the good of the request.    *)
Overlooked(r) ==
  \/ ~Authorized(r)
  \/ ~LooksAtDecision(r) /\ ~Usable
  \/ r.op = "cashIn" /\ reserveAddress # NoFeed      \* fractions, age of the round
  \/ r.op \in {"executeHold", "releaseHold"} /\ HoldFor(r).expiration = now
  \/ r.op = "executeHold" /\ r.target = NoAddress
  \/ r.op \in Settlements /\ rescued > 0
  \/ r.op = "reclaimHold" /\ ~CanReceive(r.holder)
  \/ r.op \in HoldCreations /\ r.hold.expiration <= now
  \/ r.op \in HoldCreations /\ nextHoldId[r.holder] = MaxHolds      \* bound
  \/ r.op = "rescue" /\ rescued + r.amount > MaxRescued              \* bound

(* A command whose checks all passed is accepted, whatever happened since  *)
(* they were made, as long as their grounds stand: a settlement by the     *)
(* escrow survives every other hold, cash-in, burn, wipe and transfer, a   *)
(* burn survives a new hold, a cash-in the settlements of holds.  So a     *)
(* stale check costs at most a revert, and only for the reasons named.     *)
CheckedCallsAreAccepted ==
  Ready /\ command.standing /\ ~Overlooked(command.request) => Accepts(command)

(* Where the checks are stricter than the facets.                          *)
Overcautious(r) ==
  \/ r.op = "executeHold" /\ ~CanReceive(r.holder)
  \/ r.op = "reclaimHold" /\ ~CanReceive(r.caller)
  \/ r.op \in Settlements /\ keyOf["wipe"] # Contract
  \/ r.op \in HoldCreations /\ ~CanReceive(r.holder)
  \/ /\ r.op = "cashIn" /\ reserveAddress # NoFeed
     /\ ReserveDecimals[reserveAddress] # RESERVE_DECIMALS

(* A command that was refused, its grounds standing, would have failed or  *)
(* changed nothing: the SDK does not lock anybody out of what the facets   *)
(* allow, beyond the cases named.  Whoever sends the same call to the      *)
(* facets instead, which anybody may at any time, gets no further with it. *)
RefusedCallsWouldFail ==
  [][InFlight /\ command.refused /\ command.standing /\ ~Overcautious(command.request)
       => \A r \in {command.request} : ~(ContractCall(r) /\ vars' # vars)]_clientVars

(* The end-to-end test executes a hold that names its destination without  *)
(* naming it again, and expects the destination to be paid.                *)
DestinationMayBeLeftOut ==
  Ready /\ command.standing /\ command.request.op = "executeHold"
    => (ContractAccepts([command.request EXCEPT !.target = HoldFor(command.request).to])
          => ContractAccepts(command.request))
=============================================================================
