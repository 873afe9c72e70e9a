---------------------------- MODULE MCStableCoin ----------------------------
(***************************************************************************)
(* Deployments of StableCoin for TLC, with holds and without a reserve.    *)
(***************************************************************************)
EXTENDS StableCoin, TLC

CONSTANTS a1, a2

MCRole == {ADMIN_ROLE, CASHIN_ROLE, BURN_ROLE, WIPE_ROLE, RESCUE_ROLE, PAUSE_ROLE,
           FREEZE_ROLE, DELETE_ROLE, KYC_ROLE, HOLD_CREATOR_ROLE}

(* a1 runs the stablecoin; a2 may rescue.                                 *)
HoldRoles == [r \in MCRole |-> IF r = RESCUE_ROLE THEN {a2} ELSE {a1}]

(* A negative and a zero amount among those of the call data.              *)
HoldAmounts == -1..2

NoDecimals == <<>>

(* a2 is the escrow; a hold names a destination or leaves it open.         *)
EscrowedHolds == [amount : 1..2, expiration : 0..MaxTime, escrow : {a2},
                  to : {NoAddress, a2}]
=============================================================================
