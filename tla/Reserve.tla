------------------------------ MODULE Reserve ------------------------------
(***************************************************************************)
(* Proof of reserve: the data feed a stablecoin compares its supply with   *)
(* before it mints (ReserveStorageWrapper, ReserveFacet).  The feed is an  *)
(* AggregatorV3Interface, any contract that answers latestRoundData.       *)
(***************************************************************************)
EXTENDS Integers

CONSTANTS
  Feed,               \* the data feeds that exist
  NoFeed,             \* address(0): the reserve check is switched off
  Base,               \* 10 in the code; any base tells scaled from unscaled
  TokenDecimals,
  ReserveDecimals,    \* ReserveDecimals[f]: decimals() of feed f
  Answers,            \* bound: the answers a feed can give
  Thresholds          \* bound: the thresholds an administrator sets

ASSUME ReserveAssumption ==
  /\ NoFeed \notin Feed
  /\ Base \in Nat \ {0}
  /\ TokenDecimals \in Nat
  /\ ReserveDecimals \in [Feed -> Nat]
  /\ Answers \subseteq Int
  /\ Thresholds \subseteq Nat

VARIABLES
  reserveAddress,     \* the feed in use, or NoFeed
  updatedAtThreshold, \* oldest answer accepted, in seconds; 0 accepts any
  feed                \* feed[f]: its latest round

reserveVars == <<reserveAddress, updatedAtThreshold, feed>>

ReserveTypeOK ==
  /\ reserveAddress \in Feed \cup {NoFeed}
  /\ updatedAtThreshold \in Nat
  /\ feed \in [Feed -> [answer : Int, updatedAt : Nat]]

(* A stablecoin deployed without a reserve; its administrator may point it *)
(* at a feed at any time (updateReserveAddress).                           *)
ReserveInit ==
  /\ reserveAddress = NoFeed
  /\ updatedAtThreshold = 0
  /\ feed \in [Feed -> [answer : Answers, updatedAt : {0}]]

(* A slip: an answer of a feed with fewer decimals is taken as it is.      *)
UnscaledUnit(f) == 1

(* 10 ** n, as a function that lemmas can be proved about.                 *)
Power[n \in Nat] == IF n = 0 THEN 1 ELSE Base * Power[n - 1]

(* 10 ** (decimals the one has more than the other).                       *)
TokenUnit(f) == IF TokenDecimals > ReserveDecimals[f]
                  THEN Power[TokenDecimals - ReserveDecimals[f]] ELSE 1
ReserveUnit(f) == IF TokenDecimals < ReserveDecimals[f]
                    THEN Power[ReserveDecimals[f] - TokenDecimals] ELSE 1

(* _checkReserveAmount: may `amount' be minted on top of `supply' now?     *)
(* FALSE is a revert, whichever of the checks it comes from.               *)
CheckReserveAmount(amount, supply, time) ==
  \/ reserveAddress = NoFeed
  \/ /\ reserveAddress # NoFeed
     /\ LET round == feed[reserveAddress]
            tokenUnit == TokenUnit(reserveAddress)
            reserveUnit == ReserveUnit(reserveAddress)
        IN /\ round.updatedAt <= time                     \* assert
           /\ \/ updatedAtThreshold = 0
              \/ time - round.updatedAt <= updatedAtThreshold
           /\ round.answer >= 0                           \* assert
           /\ amount % tokenUnit = 0                      \* FormatNumberIncorrect
           /\ round.answer * tokenUnit >= supply * reserveUnit + amount * reserveUnit

UpdateReserveAddress(newAddress) ==
  /\ reserveAddress' = newAddress
  /\ UNCHANGED <<updatedAtThreshold, feed>>

UpdateUpdatedAtThreshold(newThreshold) ==
  /\ updatedAtThreshold' = newThreshold
  /\ UNCHANGED <<reserveAddress, feed>>

(* The feed publishes a round: not a call of the stablecoin.               *)
FeedUpdates(f, answer, time) ==
  /\ feed' = [feed EXCEPT ![f] = [answer |-> answer, updatedAt |-> time]]
  /\ UNCHANGED <<reserveAddress, updatedAtThreshold>>
=============================================================================
