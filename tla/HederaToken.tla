---------------------------- MODULE HederaToken ----------------------------
(***************************************************************************)
(* The token as the Hedera Token Service keeps it: the part of the ledger  *)
(* behind the precompile that the facets call and the mirror that          *)
(* IERC20(token).balanceOf / totalSupply read.  The service is not part of *)
(* the repository: what it does is taken from how the facets use it and    *)
(* from the stand-in the tests run against, contracts/test/PrecompiledMock *)
(* and StableCoinTokenMock, plus the pause that the stand-in leaves empty. *)
(*                                                                         *)
(* Can... is the precompile answering SUCCESS; a facet reverts on every    *)
(* other answer (_checkResponse), so each Can... is a guard of the facet.  *)
(***************************************************************************)
EXTENDS Accounts, Integers

CONSTANTS
  Contract,     \* the stablecoin proxy: the token's treasury
  KycKey        \* whether the token was created with a KYC key

Holder == Account \cup {Contract}

ASSUME TokenAssumption == Contract \notin Account /\ KycKey \in BOOLEAN

VARIABLES
  balance,      \* balance[h]: the tokens of holder h
  totalSupply,
  frozen,       \* the accounts whose transfers are frozen
  kyc,          \* the accounts whose KYC is granted
  paused,
  deleted

statusVars == <<frozen, kyc, paused, deleted>>
tokenVars == <<balance, totalSupply, frozen, kyc, paused, deleted>>

TokenTypeOK ==
  /\ balance \in [Holder -> Nat]
  /\ totalSupply \in Nat
  /\ frozen \subseteq Account
  /\ kyc \subseteq Holder
  /\ paused \in BOOLEAN
  /\ deleted \in BOOLEAN

(* createFungibleToken: the initial supply is the treasury's.              *)
TokenInit(initialSupply) ==
  /\ balance = [h \in Holder |-> IF h = Contract THEN initialSupply ELSE 0]
  /\ totalSupply = initialSupply
  /\ frozen = {}
  /\ kyc = {Contract}
  /\ paused = FALSE
  /\ deleted = FALSE

Usable == ~paused /\ ~deleted

Credit(b, h, amount) == [b EXCEPT ![h] = @ + amount]
Debit(b, h, amount) == [b EXCEPT ![h] = @ - amount]
Moved(b, from, to, amount) == Credit(Debit(b, from, amount), to, amount)

CanReceive(h) == h \notin frozen /\ (KycKey => h \in kyc)

(* transferToken, from the treasury or from the account that asks for it.  *)
CanTransfer(b, from, to, amount) ==
  /\ Usable
  /\ from # to
  /\ 0 <= amount /\ amount <= b[from]
  /\ from \notin frozen
  /\ CanReceive(to)

CanMint == Usable

(* Burning and wiping lower the supply in checked arithmetic.              *)
CanBurn(amount) == Usable /\ amount <= balance[Contract] /\ amount <= totalSupply

(* wipeTokenAccount: never the treasury's own balance.                     *)
CanWipe(account, amount) ==
  /\ Usable
  /\ account # Contract
  /\ amount <= balance[account]
  /\ amount <= totalSupply

(* A holder moves tokens of its own: not a call of the stablecoin.  The    *)
(* recipient may be the stablecoin contract, by mistake or on purpose.     *)
UserTransfer(from, to, amount) ==
  /\ amount > 0
  /\ CanTransfer(balance, from, to, amount)
  /\ KycKey => from \in kyc
  /\ balance' = Moved(balance, from, to, amount)
  /\ UNCHANGED <<totalSupply, statusVars>>
=============================================================================
