----------------------------- MODULE Deployment -----------------------------
(***************************************************************************)
(* The life of a stablecoin from before its deployment: the factory, which *)
(* deploys the proxy, initializes it and creates the token in one call;    *)
(* the example reserve it may deploy with it (HederaReserveFacet); and the *)
(* comparison of initial supply and reserve, which is made three times:    *)
(* by the request type, by the command handler of the SDK, and by the      *)
(* factory.  After the deployment the stablecoin is that of StableCoin.    *)
(*                                                                         *)
(* A proxy and its initialization are one transaction, so that `deployed'  *)
(* is also the flag of the initializers: nobody finds it clear again.  The *)
(* sender is an account without code; what a contract could do while it is *)
(* refunded is left out.                                                   *)
(***************************************************************************)
EXTENDS StableCoin

CONSTANTS
  Created,           \* the feed that a deployment creates
  Age,               \* how old its rounds claim to be, 10 seconds in the code
  Deployments,       \* bound: what the factory is called with
  CreateRequests,    \* bound: what the SDK is asked for
  Omitted,           \* an option left out of a request
  RESERVE_DECIMALS   \* what the SDK takes the decimals of a feed for

(* TokenStruct, as the adapters fill it from a request: an option left out *)
(* is sent as 0, but no allowance is every allowance.  The supply is       *)
(* finite when asked for, or when a maximum is given and nothing is said   *)
(* (constructor of the domain's StableCoin).  The roles are InitialRoles.  *)
TokenStruct(r) ==
  [supply |-> r.supply,
   maxSupply |-> IF r.maxSupply = Omitted THEN 0 ELSE r.maxSupply,
   finite |-> \/ r.supplyType = "FINITE"
              \/ r.supplyType = Omitted /\ r.maxSupply \notin {Omitted, 0},
   createReserve |-> r.createReserve, reserve |-> r.reserve,
   amount |-> IF r.amount = Omitted THEN 0 ELSE r.amount,
   threshold |-> r.threshold, cashin |-> r.cashin,
   allowance |-> IF r.allowance = 0 THEN Unlimited ELSE r.allowance]

ASSUME DeploymentAssumption ==
  /\ Created \in Feed
  /\ ReserveDecimals[Created] = RESERVE_DECIMALS
  /\ Age \in Nat
  /\ \A d \in Deployments :
       /\ d.supply \in Nat /\ d.maxSupply \in Nat /\ d.finite \in BOOLEAN
       /\ d.amount \in Int
       /\ d.createReserve \in BOOLEAN /\ d.reserve \in (Feed \cup {NoFeed}) \ {Created}
       /\ d.threshold \in Nat
       /\ d.cashin \subseteq Account /\ d.allowance \in Nat \cup {Unlimited}

(* A request says as much of a reserve as it likes: amount and reserve may *)
(* both be there.  An allowance left out reads as 0 (port/in StableCoin).  *)
ASSUME RequestAssumption ==
  /\ Omitted \notin Int \cup {"FINITE", "INFINITE"}
  /\ \A r \in CreateRequests :
       /\ TokenStruct(r) \in Deployments
       /\ r.maxSupply \in Nat \cup {Omitted} /\ r.amount \in Int \cup {Omitted}
       /\ r.supplyType \in {"FINITE", "INFINITE", Omitted}

VARIABLES
  deployed,          \* whether the proxy exists and is initialized
  reserveAdmin       \* who may set the created reserve: nobody until it exists

deploymentVars == <<vars, deployed, reserveAdmin>>

-----------------------------------------------------------------------------
(* The factory                                                             *)

(* A slip: the initial amounts are compared as they are.                   *)
ValidationInDecimalsOfNeither(f, amount, supply) == amount >= 0 /\ amount >= supply

(* _validationReserveInitialAmount; a negative amount is refused by the    *)
(* cast.                                                                   *)
ValidationReserveInitialAmount(f, amount, supply) ==
  /\ amount >= 0
  /\ amount * TokenUnit(f) >= supply * ReserveUnit(f)

(* latestRoundData of the created reserve: always Age seconds old.         *)
Round(amount, time) == [answer |-> amount, updatedAt |-> time - Age]

(* _handleReserve: create a feed, take the one named, or none.             *)
HandleReserve(caller, d) ==
  \/ /\ d.createReserve
     /\ now >= Age                    \* true of any real clock
     /\ ValidationReserveInitialAmount(Created, d.amount, d.supply)
     /\ reserveAddress' = Created
     /\ feed' = [feed EXCEPT ![Created] = Round(d.amount, now)]
     /\ reserveAdmin' = {caller}
  \/ /\ ~d.createReserve
     /\ d.reserve # NoFeed
     /\ LET round == feed[d.reserve]
        IN /\ round.updatedAt <= now                      \* assert
           /\ d.threshold > 0 => now - round.updatedAt <= d.threshold
           /\ ValidationReserveInitialAmount(d.reserve, round.answer, d.supply)
     /\ reserveAddress' = d.reserve
     /\ UNCHANGED <<feed, reserveAdmin>>
  \/ /\ ~d.createReserve /\ d.reserve = NoFeed
     /\ reserveAddress' = NoFeed
     /\ UNCHANGED <<feed, reserveAdmin>>

(* _grantInitialRoles: the sender is always an administrator.  The roles   *)
(* do not list the cash-in role; a cash-in account needs an allowance.     *)
GrantInitialRoles(caller, d) ==
  /\ d.cashin # {} => d.allowance # 0                     \* AmountIsZero
  /\ hasRole' = [r \in Role |->
       InitialRoles[r] \cup (IF r = ADMIN_ROLE THEN {caller} ELSE {})
                       \cup (IF r = CASHIN_ROLE THEN d.cashin ELSE {})]
  /\ allowance' = [a \in Account |->
       IF a \in d.cashin /\ d.allowance # Unlimited THEN d.allowance ELSE 0]
  /\ unlimited' = IF d.allowance = Unlimited THEN d.cashin ELSE {}
  /\ entitled' = allowance'

(* The token service takes a finite supply with a maximum and an infinite  *)
(* one without.                                                            *)
SupplyIsValid(d) ==
  IF d.finite THEN 0 < d.maxSupply /\ d.supply <= d.maxSupply ELSE d.maxSupply = 0

(* createFungibleToken, with the proxy as treasury.  The maximum of a      *)
(* finite supply is not kept: MaxSupply bounds every token from here on.   *)
CreateToken(d) ==
  /\ SupplyIsValid(d)
  /\ balance' = [balance EXCEPT ![Contract] = d.supply]
  /\ totalSupply' = d.supply
  /\ UNCHANGED statusVars

(* Whether the factory takes a request as things stand, whoever sends it:  *)
(* what deployStableCoin asks for, without what it does.                   *)
FactoryAccepts(d) ==
  /\ ~deployed
  /\ d.createReserve =>
       now >= Age /\ ValidationReserveInitialAmount(Created, d.amount, d.supply)
  /\ ~d.createReserve /\ d.reserve # NoFeed =>
       LET round == feed[d.reserve]
       IN /\ round.updatedAt <= now
          /\ d.threshold > 0 => now - round.updatedAt <= d.threshold
          /\ ValidationReserveInitialAmount(d.reserve, round.answer, d.supply)
  /\ d.cashin # {} => d.allowance # 0
  /\ SupplyIsValid(d)

(* deployStableCoin, and HederaTokenManagerFacet.initialize within it.     *)
DeployStableCoin(caller, d) ==
  /\ ~deployed
  /\ HandleReserve(caller, d)
  /\ GrantInitialRoles(caller, d)
  /\ CreateToken(d)
  /\ updatedAtThreshold' = d.threshold
  /\ deployed' = TRUE
  /\ UNCHANGED <<holdVars, now, rescued>>

-----------------------------------------------------------------------------
(* The created reserve                                                     *)

SetAmount(caller, amount) ==
  /\ caller \in reserveAdmin
  /\ feed' = [feed EXCEPT ![Created] = Round(amount, now)]
  /\ UNCHANGED <<reserveAddress, updatedAtThreshold, reserveAdmin>>

SetAdmin(caller, account) ==
  /\ caller \in reserveAdmin
  /\ reserveAdmin' = {account}
  /\ UNCHANGED reserveVars

(* Its rounds age with the clock, the others stay as they were published.  *)
Clock ==
  /\ Tick
  /\ feed' = IF reserveAdmin = {} THEN feed
               ELSE [feed EXCEPT ![Created] = Round(feed[Created].answer, now')]
  /\ UNCHANGED <<accessVars, tokenVars, holdVars, reserveAddress, updatedAtThreshold,
                 rescued, deployed, reserveAdmin>>

-----------------------------------------------------------------------------

DeploymentInit ==
  /\ hasRole = [r \in Role |-> {}]
  /\ SupplierInit({}, Unlimited)
  /\ TokenInit(0)
  /\ HoldInit
  /\ ReserveInit
  /\ rescued = 0
  /\ deployed = FALSE
  /\ reserveAdmin = {}

(* The feeds that are not created here publish what they like, once there  *)
(* is a stablecoin as part of Operate.                                     *)
Publish ==
  /\ ~deployed
  /\ \E f \in Feed \ {Created}, answer \in Answers : FeedUpdates(f, answer, now)
  /\ UNCHANGED <<accessVars, tokenVars, holdVars, now, rescued, deployed, reserveAdmin>>

(* The calls of StableCoin.  The created feed answers nothing but what its *)
(* administrator sets, and before it exists nobody knows its address.      *)
Operate ==
  /\ deployed
  /\ Next
  /\ feed'[Created] = feed[Created]
  /\ reserveAddress' = Created => reserveAdmin # {}
  /\ UNCHANGED <<now, deployed, reserveAdmin>>

OperateReserve ==
  /\ \E caller \in Account :
       \/ \E amount \in Answers : SetAmount(caller, amount)
       \/ \E account \in Account : SetAdmin(caller, account)
  /\ UNCHANGED <<accessVars, tokenVars, holdVars, now, rescued, deployed>>

DeploymentNext ==
  \/ \E caller \in Account, d \in Deployments : DeployStableCoin(caller, d)
  \/ Publish
  \/ Operate
  \/ OperateReserve
  \/ Clock

DeploymentSpec == DeploymentInit /\ [][DeploymentNext]_deploymentVars

-----------------------------------------------------------------------------
(* The SDK                                                                 *)

(* CreateRequest compares the amount of a reserve to create in the decimals*)
(* of both.  BigDecimal.setDecimals, used by CreateCommandHandler, keeps   *)
(* the whole part alone: it rounds towards zero.                           *)
InCommonDecimals(n, decimals, other) ==
  IF other > decimals THEN n * Power[other - decimals] ELSE n
WholeTokens(n, decimals) ==
  IF n < 0 THEN 0 - ((0 - n) \div Power[decimals]) ELSE n \div Power[decimals]

(* A slip: a reserve of just the supply is not enough.                     *)
CreationPassesStrictly(r) ==
  /\ r.maxSupply # Omitted => r.supply <= r.maxSupply
  /\ r.reserve # NoFeed =>
       WholeTokens(r.supply, TokenDecimals)
         < WholeTokens(feed[r.reserve].answer, RESERVE_DECIMALS)

(* Another: an existing reserve is compared only if none is to be created, *)
(* and one to be created not at all.                                       *)
CreationPassesUncompared(r) ==
  /\ r.maxSupply # Omitted =>
       r.supply <= r.maxSupply /\ (r.supplyType = "INFINITE" => r.maxSupply = 0)
  /\ r.reserve # NoFeed /\ ~r.createReserve =>
       WholeTokens(r.supply, TokenDecimals)
         <= WholeTokens(feed[r.reserve].answer, RESERVE_DECIMALS)

(* CreateRequest and CreateCommandHandler: what a request leaves out they  *)
(* do not compare, and an existing reserve they do even beside a new one.  *)
(* Any allowance passes.                                                   *)
CreationPasses(r) ==
  /\ r.maxSupply # Omitted =>
       r.supply <= r.maxSupply /\ (r.supplyType = "INFINITE" => r.maxSupply = 0)
  /\ r.createReserve /\ r.amount # Omitted =>
       InCommonDecimals(r.supply, TokenDecimals, RESERVE_DECIMALS)
         <= InCommonDecimals(r.amount, RESERVE_DECIMALS, TokenDecimals)
  /\ r.reserve # NoFeed =>
       WholeTokens(r.supply, TokenDecimals)
         <= WholeTokens(feed[r.reserve].answer, RESERVE_DECIMALS)

-----------------------------------------------------------------------------

Covered == reserveAddress # NoFeed => CoveredByReserve(totalSupply)

(* A stablecoin starts covered by its reserve, whichever way it got it and *)
(* in whatever decimals, and no call of the stablecoin ever uncovers it:   *)
(* that takes a feed that answers less or another feed.  The factory       *)
(* compares once before the token exists, a cash-in again before each      *)
(* mint, and both must scale to the same side.                             *)
CoverLostOnlyToTheFeed ==
  [][\/ Covered'
     \/ /\ deployed
        /\ \/ ~Covered
           \/ reserveAddress' # reserveAddress
           \/ feed'[reserveAddress].answer < feed[reserveAddress].answer]_deploymentVars

(* Requests the SDK reads right: an existing reserve has the decimals it   *)
(* takes every reserve to have, and does not stand beside a new one; no    *)
(* maximum of 0, which it compares and the token service takes for none.   *)
ReadRight(r) ==
  /\ r.maxSupply # 0
  /\ r.reserve # NoFeed => ~r.createReserve /\ ReserveDecimals[r.reserve] = RESERVE_DECIMALS

(* The SDK refuses no deployment the factory accepts: what CreateRequest   *)
(* compares in the decimals of both, and CreateCommandHandler in whole     *)
(* tokens, is never more than _validationReserveInitialAmount asks for.    *)
CreationIsNotRefused ==
  [][~deployed =>
       \A caller \in Account, r \in CreateRequests :
         ReadRight(r) /\ DeployStableCoin(caller, TokenStruct(r)) =>
           CreationPasses(r)]_deploymentVars

(* What the SDK does not look at: a finite supply without a maximum, a     *)
(* reserve to create with its amount left out, which is sent as 0, and of  *)
(* an existing reserve decimals, sign and age, and fractions of a token.   *)
LooksComplete(r) ==
  /\ r.supplyType = "FINITE" => r.maxSupply \notin {Omitted, 0}
  /\ r.createReserve /\ r.amount = Omitted => r.supply = 0
  /\ ~r.createReserve /\ r.reserve # NoFeed =>
       /\ ReserveDecimals[r.reserve] = RESERVE_DECIMALS
       /\ r.supply % Power[TokenDecimals] = 0
       /\ LET round == feed[r.reserve]
          IN /\ round.answer >= 0
             /\ round.updatedAt <= now
             /\ r.threshold > 0 => now - round.updatedAt <= r.threshold

(* All else it does look at: a request that passes its checks is sent such *)
(* that the factory accepts it.  A cash-in account without an allowance is *)
(* no reason to revert, nor is a maximum without a type.                   *)
PassedCreationIsAccepted ==
  \A r \in CreateRequests :
    ~deployed /\ now >= Age /\ LooksComplete(r) /\ CreationPasses(r) =>
      FactoryAccepts(TokenStruct(r))
=============================================================================
