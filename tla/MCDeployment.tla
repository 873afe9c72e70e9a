---------------------------- MODULE MCDeployment ----------------------------
(***************************************************************************)
(* Deployments for TLC.  Requests come from either account; a1 administers *)
(* and burns.                                                              *)
(***************************************************************************)
EXTENDS Deployment, TLC

CONSTANTS a1, a2, created, f0, f2, omitted

MCRole == {ADMIN_ROLE, CASHIN_ROLE, BURN_ROLE, WIPE_ROLE, RESCUE_ROLE, PAUSE_ROLE,
           FREEZE_ROLE, DELETE_ROLE, KYC_ROLE, HOLD_CREATOR_ROLE}

AdminAndBurner == [r \in MCRole |-> IF r \in {ADMIN_ROLE, BURN_ROLE} THEN {a1} ELSE {}]

Requested(supply, maxSupply, type, createReserve, reserve, amount, threshold, cashin, allowed) ==
  [supply |-> supply, maxSupply |-> maxSupply, supplyType |-> type,
   createReserve |-> createReserve, reserve |-> reserve, amount |-> amount,
   threshold |-> threshold, cashin |-> cashin, allowance |-> allowed]

(* A reserve created, taken, both or none; too small, just enough or more, *)
(* or its amount left out; with fewer decimals than the token's one (f0)   *)
(* or more (created, f2).  Supplies finite, infinite or not said to be.    *)
Requests ==
  {Requested(supply, 2, type, TRUE, NoFeed, amount, 0, {a1}, 1) :
     supply \in {1, 2}, type \in {"FINITE", omitted}, amount \in {1, 2, 4, omitted}}
  \cup {Requested(2, 2, omitted, TRUE, f2, 4, 0, {a1}, 1)}
  \cup {Requested(supply, 2, "FINITE", FALSE, f0, omitted, 1, {a2}, 0) : supply \in {1, 2}}
  \cup {Requested(supply, max, type, FALSE, f2, omitted, 0, {}, 0) :
          supply \in {1, 2}, max \in {0, 2, omitted}, type \in {"FINITE", "INFINITE", omitted}}
  \cup {Requested(supply, 2, omitted, FALSE, NoFeed, omitted, 0, {a1}, 0) : supply \in {2, 3}}

(* The factory is also called past the SDK, which sends no allowance of 0. *)
Structs ==
  {TokenStruct(r) : r \in Requests}
  \cup {[supply |-> 1, maxSupply |-> 2, finite |-> TRUE, createReserve |-> FALSE,
          reserve |-> NoFeed, amount |-> 0, threshold |-> 0, cashin |-> {a1}, allowance |-> 0]}

(* One of the suppliers comes and goes.                                    *)
SupplierChanges == {<<CASHIN_ROLE, a2>>}

FeedDecimals == (created :> 2) @@ (f0 :> 0) @@ (f2 :> 2)
=============================================================================
