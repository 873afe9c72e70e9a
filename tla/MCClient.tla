------------------------------ MODULE MCClient ------------------------------
(***************************************************************************)
(* Instances of Client for TLC.  a1 is the operator of the stablecoin and  *)
(* has an EVM wallet, a2 is the escrow and has a Hedera wallet.            *)
(***************************************************************************)
EXTENDS Client, TLC

CONSTANTS a1, a2, f0, f2

MCRole == {ADMIN_ROLE, CASHIN_ROLE, BURN_ROLE, WIPE_ROLE, RESCUE_ROLE, PAUSE_ROLE,
           FREEZE_ROLE, DELETE_ROLE, KYC_ROLE, HOLD_CREATOR_ROLE}
MCKeyKind == {"wipe", "pause", "freeze", "kyc"}

(* Every role is a1's.                                                     *)
Operator == [r \in MCRole |-> {a1}]

NoHoldData == [amount |-> 1, expiration |-> 1, escrow |-> a2, to |-> NoAddress]
Request(caller, op, target, holder, amount, hold) ==
  [caller |-> caller, op |-> op, target |-> target, holder |-> holder,
   id |-> 1, amount |-> amount, hold |-> hold]
Call(caller, op, target, amount) == Request(caller, op, target, a1, amount, NoHoldData)

HeldBy(amount, to) == [amount |-> amount, expiration |-> 1, escrow |-> a2, to |-> to]

(* Holds of a1's tokens, the first of which a2 settles, in every state of  *)
(* the token.                                                              *)
HoldRequests ==
  {Request(a1, "createHold", a2, a1, 2, HeldBy(2, to)) : to \in {NoAddress, a2}}
  \cup {Request(a1, "createHoldByController", a2, a1, 1, HeldBy(1, a2))}
  \cup {Call(a2, "executeHold", to, amount) : to \in {NoAddress, a2}, amount \in 1..2}
  \cup {Call(a2, "releaseHold", a2, amount) : amount \in 1..2}
  \cup {Call(a, "reclaimHold", a2, 1) : a \in {a1, a2}}
  \cup {Call(a2, "wipe", a1, 1)}
  \cup {Call(a1, op, a1, 1) : op \in {"rescue", "pause"}}
  \cup {Call(a1, op, a, 1) : op \in {"freeze", "unfreeze"}, a \in {a1, a2}}
  \cup {Call(a1, "cashIn", a1, 2)}

(* Cash-ins and what takes supply out again, under a reserve whose feed    *)
(* has fewer decimals than the token's one or more, in every state of the  *)
(* token.                                                                  *)
SupplyRequests ==
  {Call(a1, "cashIn", account, amount) : account \in {a1, Contract}, amount \in {1, 2}}
  \cup {Call(a1, op, a1, 1) : op \in {"burn", "rescue", "wipe", "delete"}}
  \cup {Call(a1, op, a1, 1) : op \in {"grantKyc", "revokeKyc"}}
  \cup {Call(a, op, a1, 1) : op \in {"pause", "unpause"}, a \in {a1}}

NoDecimals == <<>>
FeedDecimals == (f0 :> 0) @@ (f2 :> 2)
FeedAnswers == {1, 4}
NoHandovers == {}

WipeKeyHandovers == {<<"wipe", a2>>, <<"wipe", Contract>>}
=============================================================================
