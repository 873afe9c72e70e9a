--------------------------- MODULE WalletsProofs ----------------------------
(***************************************************************************)
(* The wallet session, for any accounts, networks, number of routines in   *)
(* progress and changes in the wallets: what the application shows once    *)
(* all routines are done.                                                  *)
(*                                                                         *)
(* The invariant says what is true while they are not.  However they cross *)
(* (ShowingInv), an application that shows something old has a routine in  *)
(* progress that will announce something new.  As long as none has crossed *)
(* another (AloneInv), the routine in progress knows the wallet's account  *)
(* and chain from the point on where it has asked for them.                *)
(***************************************************************************)
EXTENDS Wallets, SequenceTheorems, TLAPS

(* What is left of the routines, by what they await next.                  *)
PairChain == <<"chain", "networkSigner", "account", "accountSigner", "signer">>
PairNetworkSigner == <<"networkSigner", "account", "accountSigner", "signer">>
PairAccount == <<"account", "accountSigner", "signer">>
PairAccountSigner == <<"accountSigner", "signer">>
PairSigner == <<"signer">>
ChainAccounts == <<"accounts", "account", "accountSigner">>
AccountSigner == <<"accountSigner">>
ConnectModal == <<"modal", "session">>
ConnectSession == <<"session">>
StopAppKit == <<"appKitDisconnect">>

(* Routines that refresh the session after an event of the wallet.         *)
Refreshing == {ChainChanged, ChainAccounts, AccountsChanged, AccountSigner}

(* Routines that announce a session, unless MetaMask is locked or had none *)
(* to refresh.                                                             *)
Committed ==
  {PairChain, PairNetworkSigner, PairAccount, PairAccountSigner} \cup Refreshing

Todo ==
  Committed \cup {PairWallet, PairSigner, ConnectWalletConnect, ConnectModal,
                  ConnectSession, StopWalletConnect, StopAppKit}

AddressOrNone == Address \cup {None}
NetworkName == Network \cup {Unrecognized, NoNetwork, ""}
AccountData == [evm : AddressOrNone, network : NetworkName \cup {"none", "NULL"}]
RoutineData == [todo : Todo, evm : AddressOrNone, mirror : NetworkName, network : NetworkName]
Hwc == [provider : BOOLEAN, subscribed : BOOLEAN, account : AccountData, network : NetworkName]
Shown == [wallet : {None, METAMASK, HWALLETCONNECT}, status : {"Paired", "Disconnected"},
          account : AccountData, network : NetworkName]

WalletsTypeOK ==
  /\ selected \in AddressOrNone /\ chain \in Network \cup {Unrecognized}
  /\ environment \in NetworkName
  /\ handler \in {None, METAMASK, HWALLETCONNECT}
  /\ metamask \in [account : AccountData, signer : AddressOrNone]
  /\ hwc \in Hwc
  /\ routines \in Seq(RoutineData)
  /\ shown \in Shown
  /\ crossed \in BOOLEAN

(* What a routine in progress has seen to.                                 *)
RoutineOK(r) ==
  /\ r.todo \in {PairChain, PairNetworkSigner} => r.evm # None
  /\ r.todo \in {PairAccountSigner, AccountSigner} => metamask.account # NoAccount
  /\ r.todo \in {ConnectWalletConnect, ConnectModal, ConnectSession} =>
       environment \in {r.network, chain}

RoutinesOK == \A i \in DOMAIN routines : RoutineOK(routines[i])

NothingToAnnounce == \A i \in DOMAIN routines : routines[i].todo \notin Committed

(* What the application shows, whatever is in progress.                    *)
ShownOK ==
  /\ shown.wallet = handler
  /\ handler = METAMASK => environment \in {chain, NoNetwork}
  /\ Paired(METAMASK) => metamask.account # NoAccount
  /\ Paired(HWALLETCONNECT) =>
       /\ shown.account = hwc.account /\ shown.network = hwc.network
       /\ environment \in {shown.network, chain}

(* It shows what the adapter holds, or that is about to be announced.      *)
IsCurrent ==
  Paired(METAMASK) /\ selected # None =>
    shown.account = metamask.account /\ shown.network = environment

ShowingInv ==
  /\ ShownOK
  /\ NothingToAnnounce => IsCurrent
  /\ RoutinesOK

(* The session is the wallet's, or there is none.                          *)
SessionIsWallets ==
  Paired(METAMASK) =>
    /\ selected # None
    /\ environment \in {chain, NoNetwork}
    /\ environment = NoNetwork => metamask.account = NullAccount
    /\ metamask.account # NullAccount =>
         /\ metamask.account = AccountOn(selected, chain)
         /\ metamask.signer = selected

(* The account the adapter knows is the one the wallet puts first.         *)
AccountIsSelected ==
  selected # None /\ metamask.account.evm # None => metamask.account.evm = selected

(* What the only routine in progress has seen to.                          *)
AloneOK(r) ==
  /\ r.todo # AccountsChanged => AccountIsSelected
  /\ r.todo \notin Refreshing => SessionIsWallets
  /\ r.todo \in {PairWallet, PairChain, PairNetworkSigner, PairAccount, PairAccountSigner} =>
       ~Paired(METAMASK)
  /\ r.todo \in {PairChain, PairNetworkSigner, PairAccount, PairAccountSigner, PairSigner,
                 ChainAccounts, AccountsChanged, AccountSigner} => selected # None
  /\ r.todo \in {PairNetworkSigner, PairAccount, PairAccountSigner,
                 ChainChanged, ChainAccounts} => environment = chain
  /\ r.todo \in {PairChain, PairNetworkSigner, PairAccount, AccountsChanged} =>
       r.evm = selected
  /\ r.todo \in {PairAccount, AccountsChanged} => r.mirror = environment
  /\ r.todo = ChainChanged => r.evm = None /\ (Paired(METAMASK) => selected # None)
  /\ r.todo \in {PairAccountSigner, AccountSigner} =>
       metamask.account = AccountOn(selected, environment) /\ environment \in Network
  /\ r.todo \in {ConnectModal, ConnectSession} => hwc.provider

AloneInv ==
  ~crossed =>
    /\ Len(routines) <= 1
    /\ AtRest => AccountIsSelected /\ SessionIsWallets
    /\ ~AtRest => AloneOK(routines[1])
    /\ Paired(HWALLETCONNECT) => hwc.provider

Inv == WalletsTypeOK /\ ShowingInv /\ AloneInv
-----------------------------------------------------------------------------
(* Routines in progress                                                    *)

(* A routine that ends leaves the others in progress.                      *)
LEMMA ThrowIs ==
  ASSUME WalletsTypeOK, NEW i \in DOMAIN routines, Throw(i)
  PROVE  /\ routines' \in Seq(RoutineData)
         /\ \A k \in DOMAIN routines' : \E j \in DOMAIN routines :
              routines'[k] = routines[j]
         /\ \A j \in DOMAIN routines : j # i =>
              \E k \in DOMAIN routines' : routines'[k] = routines[j]
         /\ Len(routines) <= 1 => routines' = <<>>
<1> DEFINE n == Len(routines)
           before == SubSeq(routines, 1, i - 1)
           after == SubSeq(routines, i + 1, n)
<1>1. routines \in Seq(RoutineData) /\ n \in Nat /\ i \in 1..n
  BY DEF WalletsTypeOK
<1>2. /\ before \in Seq(RoutineData) /\ Len(before) = i - 1
      /\ \A k \in 1..(i - 1) : before[k] = routines[k]
  BY <1>1
<1>3. /\ after \in Seq(RoutineData) /\ Len(after) = n - i
      /\ \A k \in 1..(n - i) : after[k] = routines[k + i]
  BY <1>1
<1>4. routines' = before \o after
  BY DEF Throw, RemoveAt
<1> HIDE DEF before, after
<1>5. /\ routines' \in Seq(RoutineData) /\ Len(routines') = n - 1
      /\ \A k \in 1..(n - 1) :
           routines'[k] = IF k < i THEN routines[k] ELSE routines[k + 1]
  <2>1. /\ routines' \in Seq(RoutineData) /\ Len(routines') = Len(before) + Len(after)
        /\ \A k \in 1..Len(routines') : routines'[k] =
             IF k <= Len(before) THEN before[k] ELSE after[k - Len(before)]
    <3>1. before \in Seq(RoutineData) /\ after \in Seq(RoutineData)
      BY <1>2, <1>3
    <3> QED
      BY <1>4, <3>1
  <2>2. Len(routines') = n - 1
    BY <1>1, <1>2, <1>3, <2>1
  <2>3. ASSUME NEW k \in 1..(n - 1)
        PROVE  routines'[k] = IF k < i THEN routines[k] ELSE routines[k + 1]
    <3>1. CASE k < i
      BY <1>1, <1>2, <2>1, <2>2, <2>3, <3>1
    <3>2. CASE ~(k < i)
      <4>1. k - (i - 1) \in 1..(n - i) /\ (k - (i - 1)) + i = k + 1 /\ ~(k <= i - 1)
        BY <1>1, <2>3, <3>2
      <4>2. routines'[k] = after[k - (i - 1)]
        BY <1>2, <2>1, <2>2, <2>3, <4>1
      <4> QED
        BY <1>3, <3>2, <4>1, <4>2
    <3> QED
      BY <3>1, <3>2
  <2> QED
    BY <2>1, <2>2, <2>3
<1>6. ASSUME NEW k \in DOMAIN routines'
      PROVE  \E j \in DOMAIN routines : routines'[k] = routines[j]
  <2>1. k \in 1..(n - 1)
    BY <1>1, <1>5
  <2>2. k \in 1..n /\ k + 1 \in 1..n
    BY <1>1, <2>1
  <2> QED
    BY <1>1, <1>5, <2>1, <2>2
<1>7. ASSUME NEW j \in DOMAIN routines, j # i
      PROVE  \E k \in DOMAIN routines' : routines'[k] = routines[j]
  <2>1. CASE j < i
    <3>1. j \in 1..(n - 1)
      BY <1>1, <2>1
    <3> QED
      BY <1>5, <2>1, <3>1
  <2>2. CASE j > i
    <3>1. j - 1 \in 1..(n - 1) /\ ~(j - 1 < i) /\ (j - 1) + 1 = j
      BY <1>1, <2>2
    <3> QED
      BY <1>5, <3>1
  <2> QED
    BY <1>1, <1>7, <2>1, <2>2
<1>8. Len(routines) <= 1 => routines' = <<>>
  BY <1>1, <1>5
<1> QED
  BY <1>5, <1>6, <1>7, <1>8

(* A routine that goes on keeps its place, and so do the others.           *)
LEMMA AwaitIs ==
  ASSUME WalletsTypeOK, NEW i \in DOMAIN routines, NEW r \in RoutineData, Await(i, r)
  PROVE  /\ routines' \in Seq(RoutineData)
         /\ DOMAIN routines' = DOMAIN routines
         /\ Len(routines') = Len(routines)
         /\ routines'[i] = r
         /\ \A k \in DOMAIN routines : k # i => routines'[k] = routines[k]
BY DEF WalletsTypeOK, Await, ReplaceAt

(* A routine that starts comes after the others.                           *)
LEMMA StartIs ==
  ASSUME WalletsTypeOK, NEW r \in RoutineData, routines' = Append(routines, r)
  PROVE  /\ routines' \in Seq(RoutineData)
         /\ Len(routines') = Len(routines) + 1
         /\ routines'[Len(routines) + 1] = r
         /\ \A k \in DOMAIN routines : routines'[k] = routines[k]
BY DEF WalletsTypeOK

(* What is left after each await.                                          *)
LEMMA Heads ==
  /\ Head(PairWallet) = "accounts" /\ Tail(PairWallet) = PairChain
  /\ Head(PairChain) = "chain" /\ Tail(PairChain) = PairNetworkSigner
  /\ Head(PairNetworkSigner) = "networkSigner" /\ Tail(PairNetworkSigner) = PairAccount
  /\ Head(PairAccount) = "account" /\ Tail(PairAccount) = PairAccountSigner
  /\ Head(PairAccountSigner) = "accountSigner" /\ Tail(PairAccountSigner) = PairSigner
  /\ Head(PairSigner) = "signer" /\ Tail(PairSigner) = <<>>
  /\ Head(ChainChanged) = "networkSigner" /\ Tail(ChainChanged) = AccountsChanged
  /\ Head(ChainAccounts) = "accounts" /\ Tail(ChainAccounts) = AccountsChanged
  /\ Head(AccountsChanged) = "account" /\ Tail(AccountsChanged) = AccountSigner
  /\ Head(AccountSigner) = "accountSigner" /\ Tail(AccountSigner) = <<>>
  /\ Head(ConnectWalletConnect) = "provider" /\ Tail(ConnectWalletConnect) = ConnectModal
  /\ Head(ConnectModal) = "modal" /\ Tail(ConnectModal) = ConnectSession
  /\ Head(ConnectSession) = "session" /\ Tail(ConnectSession) = <<>>
  /\ Head(StopWalletConnect) = "providerDisconnect" /\ Tail(StopWalletConnect) = StopAppKit
  /\ Head(StopAppKit) = "appKitDisconnect" /\ Tail(StopAppKit) = <<>>
BY DEF PairWallet, PairChain, PairNetworkSigner, PairAccount, PairAccountSigner,
       PairSigner, ChainChanged, ChainAccounts, AccountsChanged, AccountSigner,
       ConnectWalletConnect, ConnectModal, ConnectSession, StopWalletConnect, StopAppKit

(* Where the elements of a concatenation come from.                        *)
LEMMA Concatenated ==
  ASSUME NEW S, NEW s \in Seq(S), NEW t \in Seq(S), NEW w, w = s \o t
  PROVE  /\ w \in Seq(S) /\ Len(w) = Len(s) + Len(t)
         /\ \A k \in 1..Len(w) : w[k] = IF k <= Len(s) THEN s[k] ELSE t[k - Len(s)]
OBVIOUS

(* MetaMask is asked for its accounts before what is left to await.        *)
LEMMA Prepended == <<"accounts">> \o AccountsChanged = ChainAccounts
<1> DEFINE Answer == {"accounts", "account", "accountSigner"}
           whole == <<"accounts">> \o AccountsChanged
<1>1. <<"accounts">> \in Seq(Answer) /\ AccountsChanged \in Seq(Answer)
      /\ ChainAccounts \in Seq(Answer)
  BY DEF AccountsChanged, ChainAccounts
<1>2. /\ Len(<<"accounts">>) = 1 /\ Len(AccountsChanged) = 2 /\ Len(ChainAccounts) = 3
      /\ <<"accounts">>[1] = "accounts"
      /\ AccountsChanged[1] = "account" /\ AccountsChanged[2] = "accountSigner"
      /\ ChainAccounts[1] = "accounts" /\ ChainAccounts[2] = "account"
      /\ ChainAccounts[3] = "accountSigner"
  BY DEF AccountsChanged, ChainAccounts
<1> HIDE DEF Answer
<1>3. /\ whole \in Seq(Answer) /\ Len(whole) = 3
      /\ whole[1] = <<"accounts">>[1]
      /\ whole[2] = AccountsChanged[1] /\ whole[3] = AccountsChanged[2]
  <2> HIDE DEF whole
  <2> DEFINE first == <<"accounts">>
  <2>1. whole = first \o AccountsChanged /\ first \in Seq(Answer)
    BY <1>1 DEF whole
  <2>2. Len(first) = 1 /\ first[1] = "accounts"
    BY <1>2
  <2> HIDE DEF first
  <2>3. /\ whole \in Seq(Answer) /\ Len(whole) = Len(first) + Len(AccountsChanged)
        /\ \A k \in 1..Len(whole) :
             whole[k] = IF k <= Len(first) THEN first[k] ELSE AccountsChanged[k - Len(first)]
    BY <1>1, <2>1, Concatenated
  <2>4. /\ Len(whole) = 3 /\ whole[1] = first[1]
        /\ whole[2] = AccountsChanged[2 - 1] /\ whole[3] = AccountsChanged[3 - 1]
    BY <1>1, <1>2, <2>2, <2>3
  <2> QED
    BY <1>2, <2>2, <2>3, <2>4
<1> HIDE DEF whole
<1>4. \A k \in 1..Len(whole) : whole[k] = ChainAccounts[k]
  <2>1. whole[1] = ChainAccounts[1] /\ whole[2] = ChainAccounts[2]
        /\ whole[3] = ChainAccounts[3]
    BY <1>2, <1>3
  <2> QED
    BY <1>3, <2>1
<1>5. whole = ChainAccounts
  BY <1>1, <1>2, <1>3, <1>4, SeqEqual
<1> QED
  BY <1>5 DEF whole

(* The routines that hear the same answer differ in the rest.              *)
LEMMA Different ==
  /\ PairWallet # ChainAccounts
  /\ PairNetworkSigner # ChainChanged
  /\ PairAccount # AccountsChanged
  /\ PairAccountSigner # AccountSigner
BY DEF PairWallet, ChainAccounts, PairNetworkSigner, ChainChanged,
       PairAccount, AccountsChanged, PairAccountSigner, AccountSigner

(* No two stages of a routine are the same.                                *)
LEMMA Distinct ==
  /\ PairWallet \notin {PairChain, PairNetworkSigner, PairAccount,
          PairAccountSigner, PairSigner, ChainChanged, ChainAccounts,
          AccountsChanged, AccountSigner, ConnectWalletConnect, ConnectModal,
          ConnectSession, StopWalletConnect, StopAppKit}
  /\ PairChain \notin {PairNetworkSigner, PairAccount, PairAccountSigner,
          PairSigner, ChainChanged, ChainAccounts, AccountsChanged, AccountSigner,
          ConnectWalletConnect, ConnectModal, ConnectSession, StopWalletConnect,
          StopAppKit}
  /\ PairNetworkSigner \notin {PairAccount, PairAccountSigner, PairSigner,
          ChainChanged, ChainAccounts, AccountsChanged, AccountSigner,
          ConnectWalletConnect, ConnectModal, ConnectSession, StopWalletConnect,
          StopAppKit}
  /\ PairAccount \notin {PairAccountSigner, PairSigner, ChainChanged,
          ChainAccounts, AccountsChanged, AccountSigner, ConnectWalletConnect,
          ConnectModal, ConnectSession, StopWalletConnect, StopAppKit}
  /\ PairAccountSigner \notin {PairSigner, ChainChanged, ChainAccounts,
          AccountsChanged, AccountSigner, ConnectWalletConnect, ConnectModal,
          ConnectSession, StopWalletConnect, StopAppKit}
  /\ PairSigner \notin {ChainChanged, ChainAccounts, AccountsChanged,
          AccountSigner, ConnectWalletConnect, ConnectModal, ConnectSession,
          StopWalletConnect, StopAppKit}
  /\ ChainChanged \notin {ChainAccounts, AccountsChanged, AccountSigner,
          ConnectWalletConnect, ConnectModal, ConnectSession, StopWalletConnect,
          StopAppKit}
  /\ ChainAccounts \notin {AccountsChanged, AccountSigner, ConnectWalletConnect,
          ConnectModal, ConnectSession, StopWalletConnect, StopAppKit}
  /\ AccountsChanged \notin {AccountSigner, ConnectWalletConnect, ConnectModal,
          ConnectSession, StopWalletConnect, StopAppKit}
  /\ AccountSigner \notin {ConnectWalletConnect, ConnectModal, ConnectSession,
          StopWalletConnect, StopAppKit}
  /\ ConnectWalletConnect \notin {ConnectModal, ConnectSession, StopWalletConnect,
          StopAppKit}
  /\ ConnectModal \notin {ConnectSession, StopWalletConnect, StopAppKit}
  /\ ConnectSession \notin {StopWalletConnect, StopAppKit}
  /\ StopWalletConnect \notin {StopAppKit}
<1> DEFINE Awaited(todo) == Head(todo)
<1>1. /\ Awaited(PairWallet) = "accounts" /\ Awaited(PairChain) = "chain"
      /\ Awaited(PairNetworkSigner) = "networkSigner" /\ Awaited(PairAccount) = "account"
      /\ Awaited(PairAccountSigner) = "accountSigner" /\ Awaited(PairSigner) = "signer"
      /\ Awaited(ChainChanged) = "networkSigner" /\ Awaited(ChainAccounts) = "accounts"
      /\ Awaited(AccountsChanged) = "account" /\ Awaited(AccountSigner) = "accountSigner"
      /\ Awaited(ConnectWalletConnect) = "provider" /\ Awaited(ConnectModal) = "modal"
      /\ Awaited(ConnectSession) = "session" /\ Awaited(StopWalletConnect) = "providerDisconnect"
      /\ Awaited(StopAppKit) = "appKitDisconnect"
  BY Heads
<1> HIDE DEF Awaited
<1> QED
  BY <1>1, Different

(* The last await tells the connections from the rest.                     *)
LEMMA Lasts ==
  /\ \A todo \in {PairWallet, PairChain, PairNetworkSigner, PairAccount,
                   PairAccountSigner, PairSigner} : Last(todo) = "signer"
  /\ \A todo \in {ConnectWalletConnect, ConnectModal, ConnectSession} :
       Last(todo) = "session"
BY DEF PairWallet, PairChain, PairNetworkSigner, PairAccount, PairAccountSigner,
       PairSigner, ConnectWalletConnect, ConnectModal, ConnectSession, Last

(* A lookup or an answer replaces some of what a routine has.              *)
LEMMA RoutineWith ==
  ASSUME NEW r \in RoutineData, NEW todo \in Todo, NEW evm \in AddressOrNone,
         NEW mirror \in NetworkName
  PROVE  /\ [r EXCEPT !.todo = todo] \in RoutineData
         /\ [r EXCEPT !.todo = todo].todo = todo
         /\ [r EXCEPT !.todo = todo].evm = r.evm
         /\ [r EXCEPT !.todo = todo].mirror = r.mirror
         /\ [r EXCEPT !.todo = todo].network = r.network
         /\ [r EXCEPT !.todo = todo, !.evm = evm] \in RoutineData
         /\ [r EXCEPT !.todo = todo, !.evm = evm].todo = todo
         /\ [r EXCEPT !.todo = todo, !.evm = evm].evm = evm
         /\ [r EXCEPT !.todo = todo, !.evm = evm].network = r.network
         /\ [r EXCEPT !.todo = todo, !.evm = evm, !.mirror = mirror] \in RoutineData
         /\ [r EXCEPT !.todo = todo, !.evm = evm, !.mirror = mirror].todo = todo
         /\ [r EXCEPT !.todo = todo, !.evm = evm, !.mirror = mirror].evm = evm
         /\ [r EXCEPT !.todo = todo, !.evm = evm, !.mirror = mirror].mirror = mirror
         /\ [r EXCEPT !.todo = todo, !.evm = evm, !.mirror = mirror].network = r.network
BY DEF RoutineData

-----------------------------------------------------------------------------
(* What a step must see to                                                 *)

(* A step that takes no account away from the adapter and leaves the       *)
(* network alone or follows the chain.                                     *)
KeepsRoutines ==
  /\ metamask.account # NoAccount => metamask'.account # NoAccount
  /\ (environment' = environment /\ chain' = chain) \/ environment' = chain'

(* When a routine goes on.                                                 *)
LEMMA AwaitSafe ==
  ASSUME WalletsTypeOK, ShowingInv, AloneInv, NEW i \in DOMAIN routines,
         NEW r \in RoutineData, Await(i, r), KeepsRoutines, crossed' = crossed,
         RoutineOK(r)', ShownOK',
         r.todo \in Committed \/ IsCurrent' \/ (routines[i].todo \notin Committed /\ (IsCurrent => IsCurrent')),
         ~crossed /\ AloneOK(routines[i]) /\ (Paired(HWALLETCONNECT) => hwc.provider) =>
           /\ AloneOK(r)'
           /\ Paired(HWALLETCONNECT)' => hwc'.provider
  PROVE  ShowingInv' /\ AloneInv'
<1>1. /\ routines' \in Seq(RoutineData)
      /\ DOMAIN routines' = DOMAIN routines
      /\ Len(routines') = Len(routines)
      /\ routines'[i] = r
      /\ \A k \in DOMAIN routines : k # i => routines'[k] = routines[k]
  BY AwaitIs
<1>2. RoutinesOK'
  BY <1>1 DEF KeepsRoutines, ShowingInv, RoutinesOK, RoutineOK
<1>3. (NothingToAnnounce => IsCurrent)'
  BY <1>1 DEF NothingToAnnounce, ShowingInv
<1>4. AloneInv'
  <2> SUFFICES ASSUME ~crossed'
               PROVE  /\ Len(routines') <= 1
                      /\ AtRest' => AccountIsSelected' /\ SessionIsWallets'
                      /\ ~AtRest' => AloneOK(routines[1])'
                      /\ Paired(HWALLETCONNECT)' => hwc'.provider
    BY DEF AloneInv
  <2>1. Len(routines) <= 1 /\ (~AtRest => AloneOK(routines[1]))
        /\ (Paired(HWALLETCONNECT) => hwc.provider)
    BY DEF AloneInv
  <2>2. i = 1 /\ ~AtRest /\ ~AtRest'
    BY <1>1, <2>1 DEF AtRest, WalletsTypeOK
  <2>3. AloneOK(r)' /\ (Paired(HWALLETCONNECT)' => hwc'.provider)
    BY <2>1, <2>2
  <2>4. routines'[1] = r
    BY <1>1, <2>2
  <2>5. AloneOK(routines[1])'
    BY <2>3, <2>4 DEF AloneOK
  <2> QED
    BY <1>1, <2>1, <2>2, <2>3, <2>5
<1> QED
  BY <1>2, <1>3, <1>4 DEF ShowingInv

(* When one ends.                                                          *)
LEMMA ThrowSafe ==
  ASSUME WalletsTypeOK, ShowingInv, AloneInv, NEW i \in DOMAIN routines,
         Throw(i), KeepsRoutines, crossed' = crossed, ShownOK',
         IsCurrent' \/ (routines[i].todo \notin Committed /\ (IsCurrent => IsCurrent')),
         ~crossed /\ AloneOK(routines[i]) /\ (Paired(HWALLETCONNECT) => hwc.provider) =>
           /\ AccountIsSelected' /\ SessionIsWallets'
           /\ Paired(HWALLETCONNECT)' => hwc'.provider
  PROVE  ShowingInv' /\ AloneInv'
<1>1. /\ routines' \in Seq(RoutineData)
      /\ \A k \in DOMAIN routines' : \E j \in DOMAIN routines :
           routines'[k] = routines[j]
      /\ \A j \in DOMAIN routines : j # i =>
           \E k \in DOMAIN routines' : routines'[k] = routines[j]
      /\ Len(routines) <= 1 => routines' = <<>>
  BY ThrowIs
<1>2. RoutinesOK'
  BY <1>1 DEF KeepsRoutines, ShowingInv, RoutinesOK, RoutineOK
<1>3. (NothingToAnnounce => IsCurrent)'
  BY <1>1 DEF NothingToAnnounce, ShowingInv
<1>4. AloneInv'
  <2> SUFFICES ASSUME ~crossed'
               PROVE  /\ Len(routines') <= 1
                      /\ AtRest' => AccountIsSelected' /\ SessionIsWallets'
                      /\ ~AtRest' => AloneOK(routines[1])'
                      /\ Paired(HWALLETCONNECT)' => hwc'.provider
    BY DEF AloneInv
  <2>1. Len(routines) <= 1 /\ (~AtRest => AloneOK(routines[1]))
        /\ (Paired(HWALLETCONNECT) => hwc.provider)
    BY DEF AloneInv
  <2>2. i = 1 /\ ~AtRest
    BY <2>1 DEF AtRest, WalletsTypeOK
  <2>3. routines' = <<>> /\ Len(routines') = 0 /\ AtRest'
    BY <1>1, <2>1 DEF AtRest
  <2> QED
    BY <2>1, <2>2, <2>3
<1> QED
  BY <1>2, <1>3, <1>4 DEF ShowingInv

(* When a wallet's event or the application starts one.                    *)
LEMMA StartSafe ==
  ASSUME WalletsTypeOK, ShowingInv, AloneInv, NEW r \in RoutineData,
         routines' = Append(routines, r), KeepsRoutines, Cross, RoutineOK(r)', ShownOK',
         r.todo \in Committed \/ (IsCurrent => IsCurrent'),
         AccountIsSelected /\ SessionIsWallets /\ (Paired(HWALLETCONNECT) => hwc.provider) =>
           /\ AloneOK(r)'
           /\ Paired(HWALLETCONNECT)' => hwc'.provider
  PROVE  ShowingInv' /\ AloneInv'
<1>1. /\ routines' \in Seq(RoutineData)
      /\ Len(routines') = Len(routines) + 1
      /\ routines'[Len(routines) + 1] = r
      /\ \A k \in DOMAIN routines : routines'[k] = routines[k]
  BY StartIs
<1>2. /\ Len(routines) \in Nat /\ DOMAIN routines = 1..Len(routines)
      /\ DOMAIN routines' = 1..(Len(routines) + 1)
  BY <1>1 DEF WalletsTypeOK
<1>3. RoutinesOK'
  <2> SUFFICES ASSUME NEW k \in DOMAIN routines'
               PROVE  RoutineOK(routines[k])'
    BY DEF RoutinesOK
  <2>1. CASE k = Len(routines) + 1
    BY <1>1, <2>1 DEF RoutineOK
  <2>2. CASE k # Len(routines) + 1
    <3>1. k \in DOMAIN routines
      BY <1>2, <2>2
    <3> QED
      BY <1>1, <3>1 DEF KeepsRoutines, ShowingInv, RoutinesOK, RoutineOK
  <2> QED
    BY <2>1, <2>2
<1>4. (NothingToAnnounce => IsCurrent)'
  BY <1>1, <1>2 DEF NothingToAnnounce, ShowingInv
<1>5. AloneInv'
  <2> SUFFICES ASSUME ~crossed'
               PROVE  /\ Len(routines') <= 1
                      /\ AtRest' => AccountIsSelected' /\ SessionIsWallets'
                      /\ ~AtRest' => AloneOK(routines[1])'
                      /\ Paired(HWALLETCONNECT)' => hwc'.provider
    BY DEF AloneInv
  <2>1. ~crossed /\ AtRest
    BY DEF Cross
  <2>2. Len(routines) = 0 /\ Len(routines') = 1 /\ routines'[1] = r /\ ~AtRest'
    BY <1>1, <2>1 DEF AtRest
  <2>3. AloneOK(r)' /\ (Paired(HWALLETCONNECT)' => hwc'.provider)
    BY <2>1 DEF AloneInv
  <2>4. AloneOK(routines[1])'
    BY <2>2, <2>3 DEF AloneOK
  <2> QED
    BY <2>2, <2>3, <2>4
<1> QED
  BY <1>3, <1>4, <1>5 DEF ShowingInv

(* When an event is dealt with at once.                                    *)
LEMMA IdleSafe ==
  ASSUME WalletsTypeOK, ShowingInv, AloneInv, routines' = routines, KeepsRoutines, Cross,
         ShownOK', IsCurrent => IsCurrent',
         AccountIsSelected /\ SessionIsWallets /\ (Paired(HWALLETCONNECT) => hwc.provider) =>
           /\ AccountIsSelected' /\ SessionIsWallets'
           /\ Paired(HWALLETCONNECT)' => hwc'.provider
  PROVE  ShowingInv' /\ AloneInv'
<1>1. RoutinesOK'
  BY DEF KeepsRoutines, ShowingInv, RoutinesOK, RoutineOK
<1>2. (NothingToAnnounce => IsCurrent)'
  BY DEF NothingToAnnounce, ShowingInv
<1>3. AloneInv'
  BY DEF AloneInv, Cross, AtRest, WalletsTypeOK
<1> QED
  BY <1>1, <1>2, <1>3 DEF ShowingInv

-----------------------------------------------------------------------------
(* What the application is told                                            *)

(* A pairing reaches an application that chose the wallet, no other.       *)
LEMMA PairedIs ==
  ASSUME shown \in Shown, NEW wallet, NEW account \in AccountData,
         NEW network \in NetworkName, walletPaired(wallet, account, network)
  PROVE  /\ shown' \in Shown /\ shown'.wallet = shown.wallet
         /\ shown.wallet # wallet => shown' = shown
         /\ shown.wallet = wallet =>
              shown'.status = "Paired" /\ shown'.account = account /\ shown'.network = network
BY DEF Shown, walletPaired

(* So does the end of one.                                                 *)
LEMMA DisconnectedIs ==
  ASSUME shown \in Shown, NEW wallet, walletDisconnect(wallet)
  PROVE  /\ shown' \in Shown /\ shown'.wallet = shown.wallet
         /\ shown.wallet # wallet => shown' = shown
         /\ shown.wallet = wallet => shown'.status = "Disconnected"
BY DEF Shown, walletDisconnect

(* What a routine awaits next tells how far it has come.                   *)
LEMMA Stages ==
  \A todo \in Todo :
    /\ Head(todo) = "accounts" => todo \in {PairWallet, ChainAccounts}
    /\ Head(todo) = "chain" => todo = PairChain
    /\ Head(todo) = "networkSigner" => todo \in {PairNetworkSigner, ChainChanged}
    /\ Head(todo) = "account" => todo \in {PairAccount, AccountsChanged}
    /\ Head(todo) = "accountSigner" => todo \in {PairAccountSigner, AccountSigner}
    /\ Head(todo) = "signer" => todo = PairSigner
    /\ Head(todo) = "provider" => todo = ConnectWalletConnect
    /\ Head(todo) = "modal" => todo = ConnectModal
    /\ Head(todo) = "session" => todo = ConnectSession
    /\ Head(todo) = "providerDisconnect" => todo = StopWalletConnect
    /\ Head(todo) = "appKitDisconnect" => todo = StopAppKit
BY Heads DEF Todo, Committed, Refreshing

(* A routine in progress awaits something.                                 *)
LEMMA NeverDone == <<>> \notin Todo
BY DEF Todo, Committed, Refreshing, PairWallet, PairChain, PairNetworkSigner, PairAccount,
       PairAccountSigner, PairSigner, ChainChanged, ChainAccounts, AccountsChanged,
       AccountSigner, ConnectWalletConnect, ConnectModal, ConnectSession,
       StopWalletConnect, StopAppKit

(* A routine with more to await goes on, one without ends.                 *)
LEMMA ProceedIs ==
  ASSUME NEW i \in DOMAIN routines, NEW r \in RoutineData, r = routines[i], Proceed(i)
  PROVE  /\ Tail(r.todo) = <<>> => Throw(i)
         /\ Tail(r.todo) \in Todo => Await(i, [r EXCEPT !.todo = Tail(r.todo)])
<1>1. Rest(i) = Tail(r.todo)
  BY DEF Rest
<1> QED
  BY <1>1, NeverDone DEF Proceed, Throw

-----------------------------------------------------------------------------
(* MetaMask's routines                                                     *)

(* The pairing knows the chain, and the network is that chain.             *)
LEMMA OnChainSafe ==
  ASSUME Inv, NEW i \in DOMAIN routines, OnChain(i), UNCHANGED <<walletVars, crossed>>
  PROVE  Inv'
<1> USE DEF Inv
<1>1. PICK r \in RoutineData : r = routines[i]
  BY DEF WalletsTypeOK
<1>2. r.todo = PairChain /\ RoutineOK(r)
  BY <1>1, Stages DEF OnChain, RoutineData, ShowingInv, RoutinesOK
<1>3. PICK s \in RoutineData : s = [r EXCEPT !.todo = PairNetworkSigner]
  BY RoutineWith DEF Todo, Committed, RoutineData
<1>4. s.todo = PairNetworkSigner /\ s.evm = r.evm /\ s.mirror = r.mirror /\ s.network = r.network
  BY <1>3 DEF RoutineData
<1>5. Await(i, s)
  BY <1>1, <1>2, <1>3, <1>4, Heads, ProceedIs DEF OnChain, RoutineData
<1>6. /\ environment' = chain /\ chain' = chain /\ selected' = selected /\ handler' = handler
      /\ metamask' = metamask /\ hwc' = hwc /\ shown' = shown /\ crossed' = crossed
  BY DEF OnChain, walletVars
<1>7. WalletsTypeOK'
  BY <1>5, <1>6, AwaitIs DEF WalletsTypeOK, NetworkName
<1>8. KeepsRoutines /\ ShownOK'
  BY <1>6 DEF KeepsRoutines, ShowingInv, ShownOK, Paired
<1>9. RoutineOK(s)' /\ s.todo \in Committed
  BY <1>2, <1>4, <1>6, Distinct DEF RoutineOK, Committed
<1>10. ASSUME AloneOK(r)
       PROVE  AloneOK(s)'
  BY <1>2, <1>4, <1>6, <1>10, Distinct
     DEF AloneOK, AccountIsSelected, SessionIsWallets, Paired, Refreshing
<1> QED
  BY <1>1, <1>5, <1>6, <1>7, <1>8, <1>9, <1>10, AwaitSafe DEF Paired

(* A pairing, or a refresh without account, knows the first account; or it *)
(* ends, with nothing shown that was not before.                           *)
LEMMA OnAccountsSafe ==
  ASSUME Inv, NEW i \in DOMAIN routines, OnAccounts(i), UNCHANGED <<walletVars, crossed>>
  PROVE  Inv'
<1> USE DEF Inv
<1>1. PICK r \in RoutineData : r = routines[i]
  BY DEF WalletsTypeOK
<1>2. r.todo \in {PairWallet, ChainAccounts}
  BY <1>1, Stages DEF OnAccounts, RoutineData
<1>3. /\ environment' = environment /\ chain' = chain /\ selected' = selected
      /\ handler' = handler /\ metamask' = metamask /\ hwc' = hwc /\ shown' = shown
      /\ crossed' = crossed
  BY DEF OnAccounts, walletVars, adapterVars
<1>4. KeepsRoutines /\ ShownOK'
  BY <1>3 DEF KeepsRoutines, ShowingInv, ShownOK, Paired
<1>5. IsCurrent => IsCurrent'
  BY <1>3 DEF IsCurrent, Paired
<1>6. CASE Throw(i) /\ (r.todo = PairWallet \/ selected = None)
  <2>1. WalletsTypeOK'
    BY <1>3, <1>6, ThrowIs DEF WalletsTypeOK
  <2>2. IsCurrent' \/ r.todo \notin Committed
    BY <1>3, <1>6, Distinct DEF IsCurrent, Committed, Refreshing
  <2>3. ASSUME AloneOK(r)
        PROVE  AccountIsSelected' /\ SessionIsWallets'
    BY <1>2, <1>3, <1>6, <2>3, Distinct
       DEF AloneOK, AccountIsSelected, SessionIsWallets, Paired, Refreshing
  <2> QED
    BY <1>1, <1>3, <1>4, <1>5, <1>6, <2>1, <2>2, <2>3, ThrowSafe DEF Paired
<1>7. CASE r.todo = PairWallet /\ selected # None /\ ~Throw(i)
  <2>1. PICK s \in RoutineData : s = [r EXCEPT !.todo = PairChain, !.evm = selected]
    BY RoutineWith DEF Todo, Committed, WalletsTypeOK, RoutineData
  <2>2. s.todo = PairChain /\ s.evm = selected
    BY <2>1 DEF RoutineData
  <2>3. Await(i, s)
    BY <1>1, <1>7, <2>1, Heads DEF OnAccounts, Rest
  <2>4. WalletsTypeOK'
    BY <1>3, <2>3, AwaitIs DEF WalletsTypeOK
  <2>5. RoutineOK(s)' /\ s.todo \in Committed
    BY <1>7, <2>2, Distinct DEF RoutineOK, Committed
  <2>6. ASSUME AloneOK(r)
        PROVE  AloneOK(s)'
    BY <1>3, <1>7, <2>2, <2>6, Distinct
       DEF AloneOK, AccountIsSelected, SessionIsWallets, Paired, Refreshing
  <2> QED
    BY <1>1, <1>3, <1>4, <2>3, <2>4, <2>5, <2>6, AwaitSafe DEF Paired
<1>8. CASE r.todo = ChainAccounts /\ selected # None
  <2>1. PICK s \in RoutineData :
          s = [r EXCEPT !.todo = AccountsChanged, !.evm = selected, !.mirror = environment]
    BY RoutineWith DEF Todo, Committed, Refreshing, WalletsTypeOK, RoutineData
  <2>2. s.todo = AccountsChanged /\ s.evm = selected /\ s.mirror = environment
    BY <2>1 DEF RoutineData
  <2>3. Await(i, s)
    BY <1>1, <1>8, <2>1, Heads DEF OnAccounts, Rest, LookUp
  <2>4. WalletsTypeOK'
    BY <1>3, <2>3, AwaitIs DEF WalletsTypeOK
  <2>5. RoutineOK(s)' /\ s.todo \in Committed
    BY <2>2, Distinct DEF RoutineOK, Committed, Refreshing
  <2>6. ASSUME AloneOK(r)
        PROVE  AloneOK(s)'
    BY <1>3, <1>8, <2>2, <2>6, Distinct
       DEF AloneOK, AccountIsSelected, SessionIsWallets, Paired, Refreshing
  <2> QED
    BY <1>1, <1>3, <1>4, <2>3, <2>4, <2>5, <2>6, AwaitSafe DEF Paired
<1>9. selected # None \/ Throw(i)
  BY DEF OnAccounts
<1> QED
  BY <1>2, <1>6, <1>7, <1>8, <1>9

(* The account is looked up again on the new network: the one a pairing was*)
(* given, or the one the adapter has.                                      *)
LEMMA OnNetworkSignerSafe ==
  ASSUME Inv, NEW i \in DOMAIN routines, OnNetworkSigner(i), UNCHANGED <<walletVars, crossed>>
  PROVE  Inv'
<1> USE DEF Inv
<1>1. PICK r \in RoutineData : r = routines[i]
  BY DEF WalletsTypeOK
<1>2. r.todo \in {PairNetworkSigner, ChainChanged} /\ RoutineOK(r)
  BY <1>1, Stages DEF OnNetworkSigner, RoutineData, ShowingInv, RoutinesOK
<1>3. /\ environment' = environment /\ chain' = chain /\ selected' = selected
      /\ handler' = handler /\ hwc' = hwc /\ shown' = shown /\ crossed' = crossed
  BY DEF OnNetworkSigner, walletVars
<1>4. /\ metamask' \in [account : AccountData, signer : AddressOrNone]
      /\ metamask'.account = metamask.account
  BY DEF OnNetworkSigner, GetSigner, WalletsTypeOK
<1>5. KeepsRoutines /\ ShownOK'
  BY <1>3, <1>4 DEF KeepsRoutines, ShowingInv, ShownOK, Paired
<1>6. AccountIsSelected => AccountIsSelected'
  BY <1>3, <1>4 DEF AccountIsSelected
<1>7. CASE Throw(i) /\ (selected = None \/ (metamask.account = NoAccount /\ r.todo = ChainChanged))
  <2>1. WalletsTypeOK'
    BY <1>3, <1>4, <1>7, ThrowIs DEF WalletsTypeOK
  <2>2. IsCurrent'
    BY <1>3, <1>7 DEF IsCurrent, ShowingInv, ShownOK, Paired
  <2>3. ASSUME AloneOK(r)
        PROVE  AccountIsSelected' /\ SessionIsWallets'
    <3>1. AccountIsSelected'
      BY <1>2, <1>6, <2>3, Distinct DEF AloneOK
    <3>2. ~Paired(METAMASK)
      BY <1>2, <1>7, <2>3, Distinct DEF AloneOK, ShowingInv, ShownOK
    <3> QED
      BY <1>3, <3>1, <3>2 DEF SessionIsWallets, Paired
  <2> QED
    BY <1>1, <1>3, <1>5, <1>7, <2>1, <2>2, <2>3, ThrowSafe DEF Paired
<1>8. CASE /\ selected # None /\ r.evm = None /\ r.todo = ChainChanged
           /\ metamask.account = NullAccount
           /\ Await(i, [routines[i] EXCEPT !.todo = <<"accounts">> \o Rest(i)])
  <2>1. <<"accounts">> \o Rest(i) = ChainAccounts
    <3>1. Rest(i) = AccountsChanged
      BY <1>1, <1>8, Heads DEF Rest
    <3>2. <<"accounts">> \o AccountsChanged = ChainAccounts
      BY Prepended
    <3> QED
      BY <3>1, <3>2
  <2>2. PICK s \in RoutineData : s = [r EXCEPT !.todo = ChainAccounts]
    BY RoutineWith DEF Todo, Committed, Refreshing, RoutineData
  <2>3. s.todo = ChainAccounts
    BY <2>2 DEF RoutineData
  <2>4. Await(i, s)
    BY <1>1, <1>8, <2>1, <2>2
  <2>5. WalletsTypeOK'
    BY <1>3, <1>4, <2>4, AwaitIs DEF WalletsTypeOK
  <2>6. RoutineOK(s)' /\ s.todo \in Committed
    BY <2>3, Distinct DEF RoutineOK, Committed, Refreshing
  <2>7. ASSUME AloneOK(r)
        PROVE  AloneOK(s)'
    BY <1>3, <1>6, <1>8, <2>3, <2>7, Distinct DEF AloneOK, Refreshing
  <2> QED
    BY <1>1, <1>3, <1>5, <2>4, <2>5, <2>6, <2>7, AwaitSafe DEF Paired
<1>9. ASSUME NEW evm \in Address, selected # None, LookUp(i, evm),
             \/ evm = r.evm
             \/ r.evm = None /\ evm = metamask.account.evm
      PROVE  Inv'
  <2>1. Rest(i) \in {PairAccount, AccountsChanged} /\ Rest(i) = Tail(r.todo)
    BY <1>1, <1>2, Heads DEF Rest
  <2>2. PICK s \in RoutineData :
          s = [r EXCEPT !.todo = Rest(i), !.evm = evm, !.mirror = environment]
    <3>1. Rest(i) \in Todo
      BY <2>1 DEF Todo, Committed, Refreshing
    <3>2. evm \in AddressOrNone /\ environment \in NetworkName
      BY DEF WalletsTypeOK, AddressOrNone
    <3>3. [r EXCEPT !.todo = Rest(i), !.evm = evm, !.mirror = environment] \in RoutineData
      BY <3>1, <3>2, RoutineWith
    <3> QED
      BY <3>3
  <2>3. s.todo = Rest(i) /\ s.evm = evm /\ s.mirror = environment
    BY <2>2 DEF RoutineData
  <2>4. Await(i, s)
    BY <1>1, <1>9, <2>2 DEF LookUp
  <2>5. WalletsTypeOK'
    BY <1>3, <1>4, <2>4, AwaitIs DEF WalletsTypeOK
  <2>6. RoutineOK(s)' /\ s.todo \in Committed
    BY <2>1, <2>3, Distinct DEF RoutineOK, Committed, Refreshing
  <2>7. ASSUME AloneOK(r)
        PROVE  AloneOK(s)'
    <3>1. CASE r.todo = PairNetworkSigner
      <4>1. r.evm # None /\ evm = r.evm
        BY <1>2, <1>9, <3>1 DEF RoutineOK
      <4>2. s.todo = PairAccount
        BY <2>1, <2>3, <3>1, Heads
      <4> QED
        BY <1>3, <1>6, <1>9, <2>3, <2>7, <3>1, <4>1, <4>2, Distinct
           DEF AloneOK, SessionIsWallets, Paired, Refreshing
    <3>2. CASE r.todo = ChainChanged
      <4>1. evm = selected
        BY <1>9, <2>7, <3>2, WalletsAssumption, Distinct
           DEF AloneOK, AccountIsSelected
      <4>2. s.todo = AccountsChanged
        BY <2>1, <2>3, <3>2, Heads
      <4> QED
        BY <1>3, <1>9, <2>3, <4>1, <4>2, Distinct DEF AloneOK, Refreshing
    <3> QED
      BY <1>2, <3>1, <3>2
  <2> QED
    BY <1>1, <1>3, <1>5, <2>4, <2>5, <2>6, <2>7, AwaitSafe DEF Paired
<1>10. /\ r.evm # None => r.evm \in Address
       /\ metamask.account.evm # None => metamask.account.evm \in Address
       /\ r.evm = None => r.todo = ChainChanged
  BY <1>2 DEF RoutineData, AddressOrNone, WalletsTypeOK, AccountData, RoutineOK
<1> QED
  BY <1>1, <1>7, <1>8, <1>9, <1>10 DEF OnNetworkSigner, GetSigner

(* The account is found, or the session is announced without one.          *)
LEMMA OnAccountSafe ==
  ASSUME Inv, NEW i \in DOMAIN routines, OnAccount(i), UNCHANGED <<walletVars, crossed>>
  PROVE  Inv'
<1> USE DEF Inv
<1>1. PICK r \in RoutineData : r = routines[i]
  BY DEF WalletsTypeOK
<1>2. r.todo \in {PairAccount, AccountsChanged} /\ RoutineOK(r)
  BY <1>1, Stages DEF OnAccount, RoutineData, ShowingInv, RoutinesOK
<1>3. /\ environment' = environment /\ chain' = chain /\ selected' = selected
      /\ handler' = handler /\ hwc' = hwc /\ crossed' = crossed
  BY DEF OnAccount, walletVars
<1>4. CASE Found(i) /\ shown' = shown /\ Proceed(i)
           /\ metamask' = [metamask EXCEPT !.account =
                             AccountOn(routines[i].evm, routines[i].mirror)]
  <2>1. r.mirror \in Network /\ r.evm \in Address /\ r.evm # None
    BY <1>1, <1>4, WalletsAssumption DEF Found
  <2>2. AccountOn(r.evm, r.mirror) \in AccountData
    BY <2>1 DEF AccountOn, AccountData, AddressOrNone, NetworkName
  <2>3. /\ metamask' \in [account : AccountData, signer : AddressOrNone]
        /\ metamask'.account = AccountOn(r.evm, r.mirror)
    BY <1>1, <1>4, <2>2 DEF WalletsTypeOK
  <2>4. metamask'.account # NoAccount /\ metamask'.account.evm = r.evm
    BY <2>1, <2>3 DEF AccountOn, NoAccount
  <2>5. Tail(r.todo) \in {PairAccountSigner, AccountSigner}
    BY <1>2, Heads
  <2>6. PICK s \in RoutineData : s = [r EXCEPT !.todo = Tail(r.todo)]
    BY <2>5, RoutineWith DEF Todo, Committed, Refreshing, RoutineData
  <2>7. s.todo = Tail(r.todo)
    BY <2>6 DEF RoutineData
  <2>8. Await(i, s)
    BY <1>1, <1>4, <2>5, <2>6, ProceedIs DEF Todo, Committed, Refreshing
  <2>9. WalletsTypeOK'
    BY <1>3, <1>4, <2>3, <2>8, AwaitIs DEF WalletsTypeOK
  <2>10. KeepsRoutines /\ ShownOK'
    BY <1>3, <1>4, <2>4 DEF KeepsRoutines, ShowingInv, ShownOK, Paired
  <2>11. RoutineOK(s)' /\ s.todo \in Committed
    <3>1. s.todo \in {PairAccountSigner, AccountSigner}
      BY <2>5, <2>7
    <3> QED
      BY <2>4, <3>1, Distinct DEF RoutineOK, Committed, Refreshing
  <2>12. ASSUME AloneOK(r)
         PROVE  AloneOK(s)'
    <3>1. r.evm = selected /\ r.mirror = environment /\ selected # None
      BY <1>2, <2>12, Distinct DEF AloneOK
    <3>2. AccountIsSelected'
      BY <1>3, <2>4, <3>1 DEF AccountIsSelected
    <3>3. metamask'.account = AccountOn(selected, environment) /\ environment \in Network
      BY <2>1, <2>3, <3>1
    <3>4. CASE r.todo = PairAccount
      <4>1. s.todo = PairAccountSigner /\ ~Paired(METAMASK) /\ environment = chain
        BY <2>7, <2>12, <3>4, Heads, Different DEF AloneOK
      <4> QED
        BY <1>3, <1>4, <3>1, <3>2, <3>3, <4>1, Distinct
           DEF AloneOK, SessionIsWallets, Paired, Refreshing, AccountOn
    <3>5. CASE r.todo = AccountsChanged
      <4>1. s.todo = AccountSigner
        BY <2>7, <3>5, Heads
      <4> QED
        BY <1>3, <3>1, <3>2, <3>3, <4>1, Distinct DEF AloneOK, Refreshing, AccountOn
    <3> QED
      BY <1>2, <3>4, <3>5
  <2> QED
    BY <1>1, <1>3, <1>4, <2>8, <2>9, <2>10, <2>11, <2>12, AwaitSafe DEF Paired
<1>5. CASE /\ metamask' = [metamask EXCEPT !.account = NullAccount]
           /\ routines' =
                IF Len(routines[i].todo) = 2 THEN RemoveAt(routines, i)
                  ELSE ReplaceAt(routines, i, [routines[i] EXCEPT !.todo = <<"signer">>])
           /\ Announce(i)
  <2>1. NullAccount \in AccountData /\ NullAccount # NoAccount /\ NullAccount.evm = None
    BY DEF NullAccount, NoAccount, AccountData, AddressOrNone
  <2>2. /\ metamask' \in [account : AccountData, signer : AddressOrNone]
        /\ metamask'.account = NullAccount
    BY <1>5, <2>1 DEF WalletsTypeOK
  <2>3. PICK account \in AccountData, network \in NetworkName :
          account = metamask'.account /\ network = environment
    BY <2>1, <2>2 DEF WalletsTypeOK
  <2>4. shown \in Shown /\ walletPaired(METAMASK, account, network)
    BY <1>5, <2>3 DEF Announce, WalletsTypeOK
  <2>5. /\ shown' \in Shown /\ shown'.wallet = shown.wallet
        /\ shown.wallet # METAMASK => shown' = shown
        /\ shown.wallet = METAMASK =>
             shown'.status = "Paired" /\ shown'.account = account /\ shown'.network = network
    BY <2>4, PairedIs
  <2>6. KeepsRoutines
    BY <1>3, <2>1, <2>2 DEF KeepsRoutines
  <2>7. ShownOK' /\ IsCurrent'
    BY <1>3, <2>1, <2>2, <2>3, <2>5
       DEF ShowingInv, ShownOK, IsCurrent, Paired, METAMASK, HWALLETCONNECT
  <2>8. ASSUME AloneOK(r)
        PROVE  AccountIsSelected' /\ SessionIsWallets' /\ selected # None
    <3>1. selected # None
      BY <1>2, <2>8, Distinct DEF AloneOK
    <3> QED
      BY <1>3, <2>1, <2>2, <2>7, <3>1
         DEF AccountIsSelected, SessionIsWallets, ShownOK, Paired
  <2>9. ASSUME Paired(HWALLETCONNECT)'
        PROVE  Paired(HWALLETCONNECT)
    BY <2>5, <2>9 DEF Paired, METAMASK, HWALLETCONNECT
  <2>10. CASE r.todo = AccountsChanged
    <3>1. Throw(i)
      BY <1>1, <1>5, <2>10 DEF AccountsChanged, Throw
    <3>2. WalletsTypeOK'
      BY <1>3, <2>2, <2>5, <3>1, ThrowIs DEF WalletsTypeOK
    <3> QED
      BY <1>1, <1>3, <2>6, <2>7, <2>8, <2>9, <3>1, <3>2, ThrowSafe
  <2>11. CASE r.todo = PairAccount
    <3>1. PICK s \in RoutineData : s = [r EXCEPT !.todo = PairSigner]
      BY RoutineWith DEF Todo, Committed, Refreshing, RoutineData
    <3>2. s.todo = PairSigner
      BY <3>1 DEF RoutineData
    <3>3. Len(r.todo) = 3
      BY <2>11 DEF PairAccount
    <3>4. Await(i, s)
      BY <1>1, <1>5, <3>1, <3>3 DEF PairSigner, Await
    <3>5. WalletsTypeOK'
      BY <1>3, <2>2, <2>5, <3>4, AwaitIs DEF WalletsTypeOK
    <3>6. RoutineOK(s)'
      BY <3>2, Distinct DEF RoutineOK
    <3>7. ASSUME AloneOK(r)
          PROVE  AloneOK(s)'
      BY <1>3, <2>8, <3>2, <3>7, Distinct DEF AloneOK, Refreshing
    <3> QED
      BY <1>1, <1>3, <2>6, <2>7, <2>9, <3>4, <3>5, <3>6, <3>7, AwaitSafe
  <2> QED
    BY <1>2, <2>10, <2>11
<1> QED
  BY <1>4, <1>5 DEF OnAccount

(* The session is announced with the account and the network of the        *)
(* adapter.                                                                *)
LEMMA OnAccountSignerSafe ==
  ASSUME Inv, NEW i \in DOMAIN routines, OnAccountSigner(i), UNCHANGED <<walletVars, crossed>>
  PROVE  Inv'
<1> USE DEF Inv
<1>1. PICK r \in RoutineData : r = routines[i]
  BY DEF WalletsTypeOK
<1>2. r.todo \in {PairAccountSigner, AccountSigner} /\ RoutineOK(r)
  BY <1>1, Stages DEF OnAccountSigner, RoutineData, ShowingInv, RoutinesOK
<1>3. /\ environment' = environment /\ chain' = chain /\ selected' = selected
      /\ handler' = handler /\ hwc' = hwc /\ crossed' = crossed
  BY DEF OnAccountSigner, walletVars
<1>4. metamask.account # NoAccount
  BY <1>2 DEF RoutineOK
<1>5. CASE selected = None /\ Throw(i) /\ UNCHANGED <<metamask, shown>>
  <2>1. WalletsTypeOK'
    BY <1>3, <1>5, ThrowIs DEF WalletsTypeOK
  <2>2. KeepsRoutines /\ ShownOK' /\ IsCurrent'
    BY <1>3, <1>5 DEF KeepsRoutines, ShowingInv, ShownOK, Paired, IsCurrent
  <2>3. ASSUME AloneOK(r)
        PROVE  FALSE
    BY <1>2, <1>5, <2>3, Distinct DEF AloneOK
  <2> QED
    BY <1>1, <1>3, <1>5, <2>1, <2>2, <2>3, ThrowSafe
<1>6. CASE GetSigner /\ Proceed(i) /\ Announce(i)
  <2>1. /\ metamask' \in [account : AccountData, signer : AddressOrNone]
        /\ metamask'.account = metamask.account /\ metamask'.signer = selected
        /\ selected # None
    BY <1>6 DEF GetSigner, WalletsTypeOK
  <2>2. PICK account \in AccountData, network \in NetworkName :
          account = metamask'.account /\ network = environment
    BY <2>1 DEF WalletsTypeOK
  <2>3. shown \in Shown /\ walletPaired(METAMASK, account, network)
    BY <1>6, <2>2 DEF Announce, WalletsTypeOK
  <2>4. /\ shown' \in Shown /\ shown'.wallet = shown.wallet
        /\ shown.wallet # METAMASK => shown' = shown
        /\ shown.wallet = METAMASK =>
             shown'.status = "Paired" /\ shown'.account = account /\ shown'.network = network
    BY <2>3, PairedIs
  <2>5. KeepsRoutines
    BY <1>3, <2>1 DEF KeepsRoutines
  <2>6. ShownOK' /\ IsCurrent'
    BY <1>3, <1>4, <2>1, <2>2, <2>4
       DEF ShowingInv, ShownOK, IsCurrent, Paired, METAMASK, HWALLETCONNECT
  <2>7. ASSUME AloneOK(r)
        PROVE  AccountIsSelected' /\ SessionIsWallets'
    <3>1. metamask.account = AccountOn(selected, environment) /\ environment \in Network
          /\ AccountIsSelected
      BY <1>2, <2>7, Distinct DEF AloneOK
    <3>2. environment # NoNetwork
      BY <3>1, WalletsAssumption
    <3>3. ASSUME Paired(METAMASK)'
          PROVE  environment = chain
      BY <1>3, <2>6, <3>2, <3>3 DEF ShownOK, Paired
    <3> QED
      BY <1>3, <2>1, <3>1, <3>2, <3>3 DEF AccountIsSelected, SessionIsWallets
  <2>8. ASSUME Paired(HWALLETCONNECT)'
        PROVE  Paired(HWALLETCONNECT)
    BY <2>4, <2>8 DEF Paired, METAMASK, HWALLETCONNECT
  <2>9. CASE r.todo = AccountSigner
    <3>1. Throw(i)
      BY <1>1, <1>6, <2>9, Heads, ProceedIs
    <3>2. WalletsTypeOK'
      BY <1>3, <2>1, <2>4, <3>1, ThrowIs DEF WalletsTypeOK
    <3> QED
      BY <1>1, <1>3, <2>5, <2>6, <2>7, <2>8, <3>1, <3>2, ThrowSafe
  <2>10. CASE r.todo = PairAccountSigner
    <3>1. PICK s \in RoutineData : s = [r EXCEPT !.todo = PairSigner]
      BY RoutineWith DEF Todo, Committed, Refreshing, RoutineData
    <3>2. s.todo = PairSigner
      BY <3>1 DEF RoutineData
    <3>3. Await(i, s)
      BY <1>1, <1>6, <2>10, <3>1, Heads, ProceedIs DEF Todo
    <3>4. WalletsTypeOK'
      BY <1>3, <2>1, <2>4, <3>3, AwaitIs DEF WalletsTypeOK
    <3>5. RoutineOK(s)'
      BY <3>2, Distinct DEF RoutineOK
    <3>6. ASSUME AloneOK(r)
          PROVE  AloneOK(s)'
      BY <1>3, <2>1, <2>7, <3>2, <3>6, Distinct DEF AloneOK, Refreshing
    <3> QED
      BY <1>1, <1>3, <2>5, <2>6, <2>8, <3>3, <3>4, <3>5, <3>6, AwaitSafe
  <2> QED
    BY <1>2, <2>9, <2>10
<1> QED
  BY <1>5, <1>6 DEF OnAccountSigner

(* The end of a pairing changes nothing that is shown.                     *)
LEMMA OnSignerSafe ==
  ASSUME Inv, NEW i \in DOMAIN routines, OnSigner(i), UNCHANGED <<walletVars, crossed>>
  PROVE  Inv'
<1> USE DEF Inv
<1>1. PICK r \in RoutineData : r = routines[i]
  BY DEF WalletsTypeOK
<1>2. r.todo = PairSigner /\ Throw(i)
  BY <1>1, Stages DEF OnSigner, RoutineData
<1>3. /\ environment' = environment /\ chain' = chain /\ selected' = selected
      /\ handler' = handler /\ hwc' = hwc /\ shown' = shown /\ crossed' = crossed
  BY DEF OnSigner, walletVars
<1>4. /\ metamask' \in [account : AccountData, signer : AddressOrNone]
      /\ metamask'.account = metamask.account
      /\ metamask'.signer = selected \/ metamask' = metamask
  BY DEF OnSigner, GetSigner, WalletsTypeOK
<1>5. WalletsTypeOK'
  BY <1>2, <1>3, <1>4, ThrowIs DEF WalletsTypeOK
<1>6. KeepsRoutines /\ ShownOK' /\ (IsCurrent => IsCurrent')
  BY <1>3, <1>4 DEF KeepsRoutines, ShowingInv, ShownOK, Paired, IsCurrent
<1>7. r.todo \notin Committed
  BY <1>2, Distinct DEF Committed, Refreshing
<1>8. ASSUME AloneOK(r)
      PROVE  AccountIsSelected' /\ SessionIsWallets'
  <2>1. AccountIsSelected /\ SessionIsWallets
    BY <1>2, <1>7, <1>8, Distinct DEF AloneOK, Committed
  <2> QED
    BY <1>3, <1>4, <2>1 DEF AccountIsSelected, SessionIsWallets, Paired
<1> QED
  BY <1>1, <1>2, <1>3, <1>5, <1>6, <1>7, <1>8, ThrowSafe DEF Paired

-----------------------------------------------------------------------------
(* Hedera WalletConnect's routines                                         *)

(* A connection with Hedera WalletConnect has its provider before the modal*)
(* opens.                                                                  *)
LEMMA OnProviderSafe ==
  ASSUME Inv, NEW i \in DOMAIN routines, OnProvider(i), UNCHANGED <<walletVars, crossed>>
  PROVE  Inv'
<1> USE DEF Inv
<1>1. PICK r \in RoutineData : r = routines[i]
  BY DEF WalletsTypeOK
<1>2. r.todo = ConnectWalletConnect /\ RoutineOK(r)
  BY <1>1, Stages DEF OnProvider, RoutineData, ShowingInv, RoutinesOK
<1>3. /\ environment' = environment /\ chain' = chain /\ selected' = selected
      /\ handler' = handler /\ metamask' = metamask /\ shown' = shown /\ crossed' = crossed
  BY DEF OnProvider, walletVars
<1>4. /\ hwc' \in Hwc /\ hwc'.account = hwc.account /\ hwc'.network = hwc.network
      /\ hwc.provider => hwc'.provider
  BY DEF OnProvider, WalletsTypeOK, Hwc
<1>5. KeepsRoutines /\ ShownOK' /\ (IsCurrent => IsCurrent') /\ r.todo \notin Committed
  BY <1>2, <1>3, <1>4, Distinct
     DEF KeepsRoutines, ShowingInv, ShownOK, Paired, IsCurrent, Committed, Refreshing
<1>6. ASSUME AloneOK(r)
      PROVE  AccountIsSelected' /\ SessionIsWallets'
  <2>1. AccountIsSelected /\ SessionIsWallets
    BY <1>2, <1>5, <1>6, Distinct DEF AloneOK, Committed
  <2> QED
    BY <1>3, <2>1 DEF AccountIsSelected, SessionIsWallets, Paired
<1>7. CASE Throw(i)
  <2>1. WalletsTypeOK'
    BY <1>3, <1>4, <1>7, ThrowIs DEF WalletsTypeOK
  <2> QED
    BY <1>1, <1>3, <1>4, <1>5, <1>6, <1>7, <2>1, ThrowSafe DEF Paired
<1>8. CASE hwc' = [hwc EXCEPT !.provider = TRUE] /\ Proceed(i)
  <2>1. PICK s \in RoutineData : s = [r EXCEPT !.todo = ConnectModal]
    BY RoutineWith DEF Todo, RoutineData
  <2>2. s.todo = ConnectModal /\ s.network = r.network
    BY <2>1 DEF RoutineData
  <2>3. Await(i, s)
    BY <1>1, <1>2, <1>8, <2>1, Heads, ProceedIs DEF Todo
  <2>4. WalletsTypeOK'
    BY <1>3, <1>4, <2>3, AwaitIs DEF WalletsTypeOK
  <2>5. RoutineOK(s)'
    BY <1>2, <1>3, <2>2, Distinct DEF RoutineOK
  <2>6. hwc'.provider
    BY <1>8 DEF WalletsTypeOK, Hwc
  <2>7. ASSUME AloneOK(r)
        PROVE  AloneOK(s)'
    BY <1>6, <2>2, <2>6, <2>7, Distinct DEF AloneOK, Refreshing
  <2> QED
    BY <1>1, <1>3, <1>4, <1>5, <2>3, <2>4, <2>5, <2>6, <2>7, AwaitSafe
<1> QED
  BY <1>7, <1>8 DEF OnProvider

(* The modal ends in a session, in a stop or in nothing.                   *)
LEMMA OnModalSafe ==
  ASSUME Inv, NEW i \in DOMAIN routines, OnModal(i), UNCHANGED <<walletVars, crossed>>
  PROVE  Inv'
<1> USE DEF Inv
<1>1. PICK r \in RoutineData : r = routines[i]
  BY DEF WalletsTypeOK
<1>2. r.todo = ConnectModal /\ RoutineOK(r)
  BY <1>1, Stages DEF OnModal, RoutineData, ShowingInv, RoutinesOK
<1>3. /\ environment' = environment /\ chain' = chain /\ selected' = selected
      /\ handler' = handler /\ metamask' = metamask /\ hwc' = hwc /\ shown' = shown
      /\ crossed' = crossed
  BY DEF OnModal, walletVars, adapterVars
<1>4. KeepsRoutines /\ ShownOK' /\ (IsCurrent => IsCurrent') /\ r.todo \notin Committed
  BY <1>2, <1>3, Distinct
     DEF KeepsRoutines, ShowingInv, ShownOK, Paired, IsCurrent, Committed, Refreshing
<1>5. ASSUME AloneOK(r)
      PROVE  AccountIsSelected' /\ SessionIsWallets'
  <2>1. AccountIsSelected /\ SessionIsWallets
    BY <1>2, <1>4, <1>5, Distinct DEF AloneOK, Committed
  <2> QED
    BY <1>3, <2>1 DEF AccountIsSelected, SessionIsWallets, Paired
<1>6. CASE Throw(i)
  <2>1. WalletsTypeOK'
    BY <1>3, <1>6, ThrowIs DEF WalletsTypeOK
  <2> QED
    BY <1>1, <1>3, <1>4, <1>5, <1>6, <2>1, ThrowSafe DEF Paired
<1>7. ASSUME NEW s \in RoutineData, Await(i, s),
             \/ s.todo = ConnectSession /\ s.network = r.network /\ hwc.provider
             \/ s.todo = StopWalletConnect
      PROVE  Inv'
  <2>1. WalletsTypeOK'
    BY <1>3, <1>7, AwaitIs DEF WalletsTypeOK
  <2>2. RoutineOK(s)'
    BY <1>2, <1>3, <1>7, Distinct DEF RoutineOK
  <2>3. ASSUME AloneOK(r)
        PROVE  AloneOK(s)'
    BY <1>3, <1>5, <1>7, <2>3, Distinct DEF AloneOK, Refreshing
  <2> QED
    BY <1>1, <1>3, <1>4, <1>7, <2>1, <2>2, <2>3, AwaitSafe DEF Paired
<1>8. CASE hwc.provider /\ Await(i, [routines[i] EXCEPT !.todo = StopWalletConnect])
  <2>1. PICK s \in RoutineData : s = [r EXCEPT !.todo = StopWalletConnect]
    BY RoutineWith DEF Todo, RoutineData
  <2>2. s.todo = StopWalletConnect
    BY <2>1 DEF RoutineData
  <2> QED
    BY <1>1, <1>7, <1>8, <2>1, <2>2
<1>9. CASE hwc.provider /\ \E account \in Address : LookUp(i, account)
  <2>1. PICK account \in Address : LookUp(i, account)
    BY <1>9
  <2>2. Rest(i) = ConnectSession
    BY <1>1, <1>2, Heads DEF Rest
  <2>3. PICK s \in RoutineData :
          s = [r EXCEPT !.todo = ConnectSession, !.evm = account, !.mirror = environment]
    BY RoutineWith DEF Todo, AddressOrNone, WalletsTypeOK, RoutineData
  <2>4. s.todo = ConnectSession /\ s.network = r.network
    BY <2>3 DEF RoutineData
  <2>5. Await(i, s)
    BY <1>1, <2>1, <2>2, <2>3 DEF LookUp
  <2> QED
    BY <1>7, <1>9, <2>4, <2>5
<1> QED
  BY <1>6, <1>8, <1>9 DEF OnModal

(* A session is announced with the account and the network that are kept.  *)
LEMMA OnSessionSafe ==
  ASSUME Inv, NEW i \in DOMAIN routines, OnSession(i), UNCHANGED <<walletVars, crossed>>
  PROVE  Inv'
<1> USE DEF Inv
<1>1. PICK r \in RoutineData : r = routines[i]
  BY DEF WalletsTypeOK
<1>2. r.todo = ConnectSession /\ RoutineOK(r) /\ Throw(i)
  BY <1>1, Stages DEF OnSession, RoutineData, ShowingInv, RoutinesOK
<1>3. /\ environment' = environment /\ chain' = chain /\ selected' = selected
      /\ handler' = handler /\ metamask' = metamask /\ crossed' = crossed
  BY DEF OnSession, walletVars
<1>4. r.todo \notin Committed
  BY <1>2, Distinct DEF Committed, Refreshing
<1>5. /\ hwc' \in Hwc /\ hwc'.provider = hwc.provider
      /\ shown' \in Shown /\ shown'.wallet = shown.wallet
      /\ shown.wallet # HWALLETCONNECT => shown' = shown
      /\ \/ shown' = shown /\ hwc' = hwc
         \/ /\ hwc'.network = r.network
            /\ shown.wallet = HWALLETCONNECT =>
                 shown'.account = hwc'.account /\ shown'.network = r.network
  <2>1. CASE UNCHANGED <<hwc, shown>>
    BY <2>1 DEF WalletsTypeOK
  <2>2. CASE ~UNCHANGED <<hwc, shown>>
    <3>1. r.mirror \in Network /\ r.evm \in Address
      BY <1>1, <2>2, WalletsAssumption DEF OnSession, Found
    <3>2. PICK account \in AccountData, network \in NetworkName :
            account = AccountOn(r.evm, r.mirror) /\ network = r.network
      BY <3>1 DEF AccountOn, AccountData, AddressOrNone, NetworkName, RoutineData
    <3>3. /\ hwc' = [hwc EXCEPT !.account = account, !.network = network,
                                !.subscribed = @ \/ hwc.provider]
          /\ walletPaired(HWALLETCONNECT, account, network)
      BY <1>1, <2>2, <3>2 DEF OnSession
    <3>4. /\ hwc' \in Hwc /\ hwc'.provider = hwc.provider
          /\ hwc'.account = account /\ hwc'.network = network
      BY <3>3 DEF WalletsTypeOK, Hwc
    <3>5. shown \in Shown
      BY DEF WalletsTypeOK
    <3>6. /\ shown' \in Shown /\ shown'.wallet = shown.wallet
          /\ shown.wallet # HWALLETCONNECT => shown' = shown
          /\ shown.wallet = HWALLETCONNECT =>
               shown'.account = account /\ shown'.network = network
      BY <3>3, <3>5, PairedIs
    <3> QED
      BY <3>2, <3>4, <3>6
  <2> QED
    BY <2>1, <2>2
<1>6. WalletsTypeOK'
  BY <1>2, <1>3, <1>5, ThrowIs DEF WalletsTypeOK
<1>7. KeepsRoutines
  BY <1>3 DEF KeepsRoutines
<1>8. ShownOK'
  <2>1. environment \in {r.network, chain}
    BY <1>2 DEF RoutineOK
  <2> QED
    BY <1>3, <1>5, <2>1 DEF ShowingInv, ShownOK, Paired, METAMASK, HWALLETCONNECT
<1>9. IsCurrent => IsCurrent'
  BY <1>3, <1>5 DEF IsCurrent, Paired, METAMASK, HWALLETCONNECT
<1>10. ASSUME AloneOK(r)
       PROVE  AccountIsSelected' /\ SessionIsWallets' /\ hwc'.provider
  <2>1. AccountIsSelected /\ SessionIsWallets /\ hwc.provider
    BY <1>2, <1>4, <1>10, Distinct DEF AloneOK, Committed
  <2> QED
    BY <1>3, <1>5, <2>1
       DEF AccountIsSelected, SessionIsWallets, Paired, METAMASK, HWALLETCONNECT
<1> QED
  BY <1>1, <1>2, <1>3, <1>4, <1>6, <1>7, <1>8, <1>9, <1>10, ThrowSafe

(* The first half of a stop changes nothing.                               *)
LEMMA OnProviderDisconnectSafe ==
  ASSUME Inv, NEW i \in DOMAIN routines, OnProviderDisconnect(i),
         UNCHANGED <<walletVars, crossed>>
  PROVE  Inv'
<1> USE DEF Inv
<1>1. PICK r \in RoutineData : r = routines[i]
  BY DEF WalletsTypeOK
<1>2. r.todo = StopWalletConnect
  BY <1>1, Stages DEF OnProviderDisconnect, RoutineData
<1>3. /\ environment' = environment /\ chain' = chain /\ selected' = selected
      /\ handler' = handler /\ metamask' = metamask /\ hwc' = hwc /\ shown' = shown
      /\ crossed' = crossed
  BY DEF OnProviderDisconnect, walletVars, adapterVars
<1>4. KeepsRoutines /\ ShownOK' /\ (IsCurrent => IsCurrent') /\ r.todo \notin Committed
  BY <1>2, <1>3, Distinct
     DEF KeepsRoutines, ShowingInv, ShownOK, Paired, IsCurrent, Committed, Refreshing
<1>5. ASSUME AloneOK(r)
      PROVE  AccountIsSelected' /\ SessionIsWallets'
  <2>1. AccountIsSelected /\ SessionIsWallets
    BY <1>2, <1>4, <1>5, Distinct DEF AloneOK, Committed
  <2> QED
    BY <1>3, <2>1 DEF AccountIsSelected, SessionIsWallets, Paired
<1>6. CASE Throw(i)
  <2>1. WalletsTypeOK'
    BY <1>3, <1>6, ThrowIs DEF WalletsTypeOK
  <2> QED
    BY <1>1, <1>3, <1>4, <1>5, <1>6, <2>1, ThrowSafe DEF Paired
<1>7. CASE Proceed(i)
  <2>1. PICK s \in RoutineData : s = [r EXCEPT !.todo = StopAppKit]
    BY RoutineWith DEF Todo, RoutineData
  <2>2. s.todo = StopAppKit
    BY <2>1 DEF RoutineData
  <2>3. Await(i, s)
    BY <1>1, <1>2, <1>7, <2>1, Heads, ProceedIs DEF Todo
  <2>4. WalletsTypeOK'
    BY <1>3, <2>3, AwaitIs DEF WalletsTypeOK
  <2>5. RoutineOK(s)'
    BY <2>2, Distinct DEF RoutineOK
  <2>6. ASSUME AloneOK(r)
        PROVE  AloneOK(s)'
    BY <1>5, <2>2, <2>6, Distinct DEF AloneOK, Refreshing
  <2> QED
    BY <1>1, <1>3, <1>4, <2>3, <2>4, <2>5, <2>6, AwaitSafe DEF Paired
<1> QED
  BY <1>6, <1>7 DEF OnProviderDisconnect

(* The provider goes together with the pairing that is shown.              *)
LEMMA OnAppKitDisconnectSafe ==
  ASSUME Inv, NEW i \in DOMAIN routines, OnAppKitDisconnect(i),
         UNCHANGED <<walletVars, crossed>>
  PROVE  Inv'
<1> USE DEF Inv
<1>1. PICK r \in RoutineData : r = routines[i]
  BY DEF WalletsTypeOK
<1>2. r.todo = StopAppKit /\ Throw(i)
  BY <1>1, Stages DEF OnAppKitDisconnect, RoutineData
<1>3. /\ environment' = environment /\ chain' = chain /\ selected' = selected
      /\ handler' = handler /\ metamask' = metamask /\ crossed' = crossed
  BY DEF OnAppKitDisconnect, walletVars
<1>4. shown \in Shown /\ hwc \in Hwc
  BY DEF WalletsTypeOK
<1>5. /\ hwc' \in Hwc /\ hwc'.account = hwc.account /\ hwc'.network = hwc.network
      /\ shown' \in Shown /\ shown'.wallet = shown.wallet
      /\ shown.wallet # HWALLETCONNECT => shown' = shown
      /\ \/ hwc' = hwc /\ shown' = shown
         \/ shown.wallet = HWALLETCONNECT => shown'.status = "Disconnected"
  BY <1>4, DisconnectedIs DEF OnAppKitDisconnect, Hwc
<1>6. WalletsTypeOK'
  BY <1>2, <1>3, <1>5, ThrowIs DEF WalletsTypeOK
<1>7. KeepsRoutines /\ r.todo \notin Committed
  BY <1>2, <1>3, Distinct DEF KeepsRoutines, Committed, Refreshing
<1>8. ShownOK' /\ (IsCurrent => IsCurrent')
  BY <1>3, <1>5 DEF ShowingInv, ShownOK, IsCurrent, Paired, METAMASK, HWALLETCONNECT
<1>9. ASSUME AloneOK(r)
      PROVE  AccountIsSelected' /\ SessionIsWallets'
  <2>1. AccountIsSelected /\ SessionIsWallets
    BY <1>2, <1>7, <1>9, Distinct DEF AloneOK, Committed
  <2> QED
    BY <1>3, <1>5, <2>1
       DEF AccountIsSelected, SessionIsWallets, Paired, METAMASK, HWALLETCONNECT
<1>10. ASSUME Paired(HWALLETCONNECT)'
       PROVE  Paired(HWALLETCONNECT) /\ hwc' = hwc
  BY <1>5, <1>10 DEF Paired
<1> QED
  BY <1>1, <1>2, <1>3, <1>6, <1>7, <1>8, <1>9, <1>10, ThrowSafe

-----------------------------------------------------------------------------
(* The wallets, and the application                                        *)

(* A routine that stops the connection has seen to nothing.                *)
LEMMA StopHWCSafe ==
  ASSUME Inv, StopHWC, Cross,
         chain' = chain, selected' = selected, environment' = environment, handler' = handler,
         metamask' = metamask, hwc' = hwc
  PROVE  Inv'
<1> USE DEF Inv
<1>1. KeepsRoutines
  BY DEF KeepsRoutines
<1>2. crossed' \in BOOLEAN
  BY DEF Cross, AtRest, WalletsTypeOK
<1>3. CASE hwc.provider
  <2>1. PICK s \in RoutineData : s = Routine(StopWalletConnect, None, NoNetwork, "")
    BY DEF Routine, RoutineData, Todo, AddressOrNone, NetworkName
  <2>2. s.todo = StopWalletConnect
    BY <2>1 DEF Routine
  <2>3. routines' = Append(routines, s) /\ shown' = shown
    BY <1>3, <2>1 DEF StopHWC, Start
  <2>4. WalletsTypeOK'
    BY <1>2, <2>3, StartIs DEF WalletsTypeOK
  <2>5. RoutineOK(s)'
    BY <2>2, Distinct DEF RoutineOK
  <2>6. ShownOK' /\ (IsCurrent => IsCurrent')
    BY <2>3 DEF ShowingInv, ShownOK, Paired, IsCurrent
  <2>7. ASSUME AccountIsSelected, SessionIsWallets
        PROVE  AloneOK(s)'
    BY <2>2, <2>3, <2>7, Distinct
       DEF AloneOK, AccountIsSelected, SessionIsWallets, Paired, Refreshing
  <2> QED
    BY <1>1, <2>3, <2>4, <2>5, <2>6, <2>7, StartSafe DEF Paired
<1>4. CASE ~hwc.provider
  <2>1. walletDisconnect(HWALLETCONNECT) /\ routines' = routines /\ shown \in Shown
    BY <1>4 DEF StopHWC, WalletsTypeOK
  <2>2. /\ shown' \in Shown /\ shown'.wallet = shown.wallet
        /\ shown.wallet # HWALLETCONNECT => shown' = shown
        /\ shown.wallet = HWALLETCONNECT => shown'.status = "Disconnected"
    BY <2>1, DisconnectedIs
  <2>3. WalletsTypeOK'
    BY <1>2, <2>1, <2>2 DEF WalletsTypeOK
  <2>4. ShownOK' /\ (IsCurrent => IsCurrent') /\ ~Paired(HWALLETCONNECT)'
    BY <2>2 DEF ShowingInv, ShownOK, IsCurrent, Paired, METAMASK, HWALLETCONNECT
  <2>5. ASSUME AccountIsSelected, SessionIsWallets
        PROVE  AccountIsSelected' /\ SessionIsWallets'
    BY <2>2, <2>5
       DEF AccountIsSelected, SessionIsWallets, Paired, METAMASK, HWALLETCONNECT
  <2> QED
    BY <1>1, <2>1, <2>3, <2>4, <2>5, IdleSafe
<1> QED
  BY <1>3, <1>4

(* Another first account is looked up, or the pairing ends at once.        *)
LEMMA SelectAccountSafe ==
  ASSUME Inv, SelectAccount
  PROVE  Inv'
<1> USE DEF Inv
<1>1. PICK account \in AddressOrNone : selected' = account /\ OnAccountsChanged(account)
  BY DEF SelectAccount, AddressOrNone
<1>2. /\ chain' = chain /\ environment' = environment /\ handler' = handler
      /\ metamask' = metamask /\ hwc' = hwc /\ Cross
  BY DEF SelectAccount, adapterVars
<1>3. KeepsRoutines /\ crossed' \in BOOLEAN
  BY <1>2 DEF KeepsRoutines, Cross, AtRest, WalletsTypeOK
<1>4. CASE account # None /\ metamask.account # NoAccount /\ account # metamask.account.evm
  <2>1. PICK s \in RoutineData : s = Routine(AccountsChanged, account, environment, "")
    BY DEF Routine, RoutineData, Todo, Committed, Refreshing, NetworkName, WalletsTypeOK
  <2>2. s.todo = AccountsChanged /\ s.evm = account /\ s.mirror = environment
    BY <2>1 DEF Routine
  <2>3. routines' = Append(routines, s) /\ shown' = shown
    BY <1>1, <1>4, <2>1 DEF OnAccountsChanged, Start
  <2>4. WalletsTypeOK'
    BY <1>1, <1>2, <1>3, <2>3, StartIs DEF WalletsTypeOK
  <2>5. RoutineOK(s)' /\ s.todo \in Committed
    BY <2>2, Distinct DEF RoutineOK, Committed, Refreshing
  <2>6. ShownOK'
    BY <1>2, <2>3 DEF ShowingInv, ShownOK, Paired
  <2>7. AloneOK(s)'
    BY <1>1, <1>2, <1>4, <2>2, Distinct DEF AloneOK, Refreshing
  <2> QED
    BY <1>2, <1>3, <2>3, <2>4, <2>5, <2>6, <2>7, StartSafe DEF Paired
<1>5. CASE ~(account # None /\ metamask.account # NoAccount /\ account # metamask.account.evm)
  <2>1. walletDisconnect(METAMASK) /\ routines' = routines /\ shown \in Shown
    BY <1>1, <1>5 DEF OnAccountsChanged, WalletsTypeOK
  <2>2. /\ shown' \in Shown /\ shown'.wallet = shown.wallet
        /\ shown.wallet # METAMASK => shown' = shown
        /\ shown.wallet = METAMASK => shown'.status = "Disconnected"
    BY <2>1, DisconnectedIs
  <2>3. WalletsTypeOK'
    BY <1>1, <1>2, <1>3, <2>1, <2>2 DEF WalletsTypeOK
  <2>4. ~Paired(METAMASK)'
    BY <2>2 DEF Paired
  <2>5. ShownOK' /\ IsCurrent' /\ SessionIsWallets'
    BY <1>2, <2>2, <2>4
       DEF ShowingInv, ShownOK, IsCurrent, SessionIsWallets, Paired, METAMASK, HWALLETCONNECT
  <2>6. AccountIsSelected'
    BY <1>1, <1>2, <1>5 DEF AccountIsSelected, NoAccount
  <2>7. Paired(HWALLETCONNECT)' => Paired(HWALLETCONNECT)
    BY <2>2 DEF Paired, METAMASK, HWALLETCONNECT
  <2> QED
    BY <1>2, <1>3, <2>1, <2>3, <2>5, <2>6, <2>7, IdleSafe
<1> QED
  BY <1>4, <1>5

(* The network follows the chain, and the account is looked up there.      *)
LEMMA SwitchChainSafe ==
  ASSUME Inv, SwitchChain
  PROVE  Inv'
<1> USE DEF Inv
<1>1. /\ chain' \in Network \cup {Unrecognized} /\ environment' = chain'
      /\ selected' = selected /\ handler' = handler
      /\ metamask' = metamask /\ hwc' = hwc /\ shown' = shown /\ Cross
  BY DEF SwitchChain
<1>2. PICK s \in RoutineData : s = Routine(ChainChanged, None, NoNetwork, "")
  BY DEF Routine, RoutineData, Todo, Committed, Refreshing, NetworkName, AddressOrNone
<1>3. s.todo = ChainChanged /\ s.evm = None
  BY <1>2 DEF Routine
<1>4. routines' = Append(routines, s)
  BY <1>2 DEF SwitchChain, Start
<1>5. WalletsTypeOK'
  BY <1>1, <1>4, StartIs DEF WalletsTypeOK, NetworkName, Cross, AtRest
<1>6. KeepsRoutines /\ ShownOK'
  BY <1>1 DEF KeepsRoutines, ShowingInv, ShownOK, Paired
<1>7. RoutineOK(s)' /\ s.todo \in Committed
  BY <1>3, Distinct DEF RoutineOK, Committed, Refreshing
<1>8. ASSUME AccountIsSelected, SessionIsWallets
      PROVE  AloneOK(s)'
  BY <1>1, <1>3, <1>8, Distinct
     DEF AloneOK, AccountIsSelected, SessionIsWallets, Paired, Refreshing
<1> QED
  BY <1>1, <1>4, <1>5, <1>6, <1>7, <1>8, StartSafe DEF Paired

(* The other side stops the connection.                                    *)
LEMMA EndSessionSafe ==
  ASSUME Inv, EndSession
  PROVE  Inv'
BY StopHWCSafe DEF EndSession, adapterVars

(* The application ends the pairing of the wallet it chose.                *)
LEMMA DisconnectSafe ==
  ASSUME Inv, Disconnect
  PROVE  Inv'
<1> USE DEF Inv
<1>1. /\ chain' = chain /\ selected' = selected /\ environment' = environment
      /\ handler' = handler /\ metamask' = metamask /\ hwc' = hwc /\ Cross
  BY DEF Disconnect, adapterVars, walletVars
<1>2. CASE StopHWC
  BY <1>1, <1>2, StopHWCSafe
<1>3. CASE walletDisconnect(METAMASK) /\ UNCHANGED routines
  <2>1. shown \in Shown
    BY DEF WalletsTypeOK
  <2>2. /\ shown' \in Shown /\ shown'.wallet = shown.wallet
        /\ shown.wallet # METAMASK => shown' = shown
        /\ shown.wallet = METAMASK => shown'.status = "Disconnected"
    BY <1>3, <2>1, DisconnectedIs
  <2>3. WalletsTypeOK'
    BY <1>1, <1>3, <2>2 DEF WalletsTypeOK, Cross, AtRest
  <2>4. KeepsRoutines /\ ~Paired(METAMASK)'
    BY <1>1, <2>2 DEF KeepsRoutines, Paired
  <2>5. ShownOK' /\ IsCurrent' /\ SessionIsWallets'
    BY <1>1, <2>2, <2>4
       DEF ShowingInv, ShownOK, IsCurrent, SessionIsWallets, Paired, METAMASK, HWALLETCONNECT
  <2>6. AccountIsSelected => AccountIsSelected'
    BY <1>1 DEF AccountIsSelected
  <2>7. Paired(HWALLETCONNECT)' => Paired(HWALLETCONNECT)
    BY <2>2 DEF Paired, METAMASK, HWALLETCONNECT
  <2> QED
    BY <1>1, <1>3, <2>3, <2>4, <2>5, <2>6, <2>7, IdleSafe
<1> QED
  BY <1>2, <1>3 DEF Disconnect

(* A new connection starts when none is being made, and stops the one      *)
(* before.                                                                 *)
LEMMA ConnectSafe ==
  ASSUME Inv, NEW wallet \in {METAMASK, HWALLETCONNECT}, NEW network \in NetworkName,
         wallet = METAMASK => network = NoNetwork, Connect(wallet, network)
  PROVE  Inv'
<1> USE DEF Inv
<1>1. /\ chain' = chain /\ selected' = selected /\ environment' = network
      /\ handler' = wallet /\ metamask' = metamask /\ hwc' = hwc
  BY DEF Connect, walletVars
<1>2. /\ shown' \in Shown /\ shown'.wallet = wallet /\ shown'.status # "Paired"
  BY DEF Connect, WalletsTypeOK, Shown
<1>3. PICK r \in RoutineData :
        r = IF wallet = METAMASK THEN Routine(PairWallet, None, NoNetwork, "")
              ELSE Routine(ConnectWalletConnect, None, NoNetwork, network)
  <2>1. /\ {PairWallet, ConnectWalletConnect} \subseteq Todo
        /\ None \in AddressOrNone /\ {NoNetwork, ""} \subseteq NetworkName
    BY DEF Todo, NetworkName, AddressOrNone
  <2>2. Routine(PairWallet, None, NoNetwork, "") \in RoutineData
    BY <2>1 DEF Routine, RoutineData
  <2>3. Routine(ConnectWalletConnect, None, NoNetwork, network) \in RoutineData
    BY <2>1 DEF Routine, RoutineData
  <2> QED
    BY <2>2, <2>3
<1>4. /\ r.todo = IF wallet = METAMASK THEN PairWallet ELSE ConnectWalletConnect
      /\ wallet # METAMASK => r.network = network
  BY <1>3 DEF Routine
<1>5. PICK s \in RoutineData : s = Routine(StopWalletConnect, None, NoNetwork, "")
  BY DEF Routine, RoutineData, Todo, NetworkName, AddressOrNone
<1>6. s.todo = StopWalletConnect
  BY <1>5 DEF Routine
<1>7. PICK stopping \in Seq(RoutineData) :
        /\ stopping = <<>> \/ stopping = <<s>>
        /\ routines' = routines \o stopping \o <<r>>
        /\ crossed' = (crossed \/ Len(routines') > 1)
  <2>1. <<>> \in Seq(RoutineData) /\ <<s>> \in Seq(RoutineData)
    OBVIOUS
  <2>2. CASE handler = HWALLETCONNECT /\ hwc.provider
    BY <1>3, <1>5, <2>1, <2>2, Zenon DEF Connect
  <2>3. CASE ~(handler = HWALLETCONNECT /\ hwc.provider)
    BY <1>3, <2>1, <2>3, Zenon DEF Connect
  <2> QED
    BY <2>2, <2>3
<1>8. /\ routines' \in Seq(RoutineData) /\ Len(routines') > Len(routines)
      /\ \A k \in DOMAIN routines' :
           \/ k \in DOMAIN routines /\ routines'[k] = routines[k]
           \/ routines'[k] \in {r, s}
      /\ Len(routines') = 1 => routines'[1] = r
  BY <1>7 DEF WalletsTypeOK
<1>9. WalletsTypeOK'
  BY <1>1, <1>2, <1>7, <1>8 DEF WalletsTypeOK, NetworkName
<1>10. ~Paired(METAMASK)' /\ ~Paired(HWALLETCONNECT)'
  BY <1>2 DEF Paired
<1>11. ShownOK' /\ IsCurrent' /\ SessionIsWallets'
  BY <1>1, <1>2, <1>10 DEF ShownOK, IsCurrent, SessionIsWallets
<1>12. RoutinesOK'
  <2> SUFFICES ASSUME NEW k \in DOMAIN routines'
               PROVE  RoutineOK(routines[k])'
    BY DEF RoutinesOK
  <2>1. CASE routines'[k] \in {r, s}
    BY <1>1, <1>4, <1>6, <2>1, Distinct DEF RoutineOK
  <2>2. CASE k \in DOMAIN routines /\ routines'[k] = routines[k]
    <3>1. routines[k].todo \notin {ConnectWalletConnect, ConnectModal, ConnectSession}
      BY <2>2, Lasts DEF Connect, Connecting
    <3>2. RoutineOK(routines[k])
      BY <2>2 DEF ShowingInv, RoutinesOK
    <3> QED
      BY <1>1, <2>2, <3>1, <3>2 DEF RoutineOK
  <2> QED
    BY <1>8, <2>1, <2>2
<1>13. AloneInv'
  <2> SUFFICES ASSUME ~crossed'
               PROVE  /\ Len(routines') <= 1
                      /\ AtRest' => AccountIsSelected' /\ SessionIsWallets'
                      /\ ~AtRest' => AloneOK(routines[1])'
                      /\ Paired(HWALLETCONNECT)' => hwc'.provider
    BY DEF AloneInv
  <2>1. ~crossed /\ ~(Len(routines') > 1)
    BY <1>7, Zenon
  <2>2. Len(routines) = 0 /\ Len(routines') = 1 /\ routines'[1] = r /\ AtRest /\ ~AtRest'
    <3>1. PICK m \in Nat, n \in Nat : m = Len(routines) /\ n = Len(routines')
      BY <1>8 DEF WalletsTypeOK
    <3>2. m = 0 /\ n = 1
      <4>1. n > m /\ ~(n > 1)
        BY <1>8, <2>1, <3>1
      <4> QED
        BY <4>1
    <3>3. routines = <<>> /\ routines' # <<>>
      <4>1. routines \in Seq(RoutineData) /\ routines' \in Seq(RoutineData)
        BY <1>8 DEF WalletsTypeOK
      <4>2. routines = <<>>
        BY <3>1, <3>2, <4>1, EmptySeq
      <4>3. ASSUME routines' = <<>>
            PROVE  FALSE
        <5>1. Len(<<>>) = 0
          OBVIOUS
        <5>2. Len(routines') = Len(<<>>)
          BY <4>3
        <5>3. n = 0
          BY <3>1, <5>1, <5>2, Zenon
        <5> QED
          BY <3>2, <5>3
      <4> QED
        BY <4>2, <4>3
    <3> QED
      BY <1>8, <3>1, <3>2, <3>3 DEF AtRest
  <2>3. AccountIsSelected'
    BY <1>1, <2>1, <2>2 DEF AloneInv, AccountIsSelected
  <2>4. AloneOK(r)'
    BY <1>4, <1>10, <1>11, <2>3, Distinct DEF AloneOK, Refreshing
  <2>5. AloneOK(routines[1])'
    BY <2>2, <2>4 DEF AloneOK
  <2> QED
    BY <1>10, <2>2, <2>5
<1> QED
  BY <1>9, <1>11, <1>12, <1>13 DEF ShowingInv

-----------------------------------------------------------------------------

(* A page that was just loaded shows nothing.                              *)
LEMMA InitSafe == WalletsInit => Inv
<1> SUFFICES ASSUME WalletsInit
             PROVE  Inv
  OBVIOUS
<1>1. NoAccount \in AccountData /\ NoAccount.evm = None
  BY DEF NoAccount, AccountData, AddressOrNone
<1>2. WalletsTypeOK
  <2>1. selected \in AddressOrNone /\ environment \in NetworkName
        /\ chain \in Network \cup {Unrecognized} /\ crossed \in BOOLEAN
        /\ handler \in {None, METAMASK, HWALLETCONNECT} /\ NoNetwork \in NetworkName
    BY DEF WalletsInit, AddressOrNone, NetworkName
  <2>2. metamask \in [account : AccountData, signer : AddressOrNone]
    BY <1>1, <2>1 DEF WalletsInit
  <2>3. hwc \in Hwc
    BY <1>1, <2>1 DEF WalletsInit, Hwc
  <2>4. shown \in Shown
    BY <1>1, <2>1 DEF WalletsInit, Shown
  <2>5. routines \in Seq(RoutineData)
    BY DEF WalletsInit
  <2> QED
    BY <2>1, <2>2, <2>3, <2>4, <2>5 DEF WalletsTypeOK
<1>3. ~Paired(METAMASK) /\ ~Paired(HWALLETCONNECT) /\ routines = <<>>
  BY DEF WalletsInit, Paired
<1>4. ShowingInv
  BY <1>3, WalletsAssumption
     DEF WalletsInit, ShowingInv, ShownOK, IsCurrent, RoutinesOK, METAMASK
<1>5. AloneInv
  BY <1>1, <1>3 DEF WalletsInit, AloneInv, AtRest, AccountIsSelected, SessionIsWallets
<1> QED
  BY <1>2, <1>4, <1>5 DEF Inv

(* Every step keeps the invariant.                                         *)
LEMMA NextSafe ==
  ASSUME Inv, [WalletsNext]_walletsVars
  PROVE  Inv'
<1>1. CASE SelectAccount
  BY <1>1, SelectAccountSafe
<1>2. CASE SwitchChain
  BY <1>2, SwitchChainSafe
<1>3. CASE EndSession
  BY <1>3, EndSessionSafe
<1>4. CASE Connect(METAMASK, NoNetwork)
  BY <1>4, ConnectSafe DEF NetworkName
<1>5. CASE \E network \in Network : Connect(HWALLETCONNECT, network)
  BY <1>5, ConnectSafe DEF NetworkName, METAMASK, HWALLETCONNECT
<1>6. CASE Disconnect
  BY <1>6, DisconnectSafe
<1>7. CASE Resume
  <2>1. UNCHANGED <<walletVars, crossed>>
    BY <1>7 DEF Resume
  <2>2. PICK i \in DOMAIN routines :
          \/ OnAccounts(i) \/ OnChain(i) \/ OnNetworkSigner(i) \/ OnAccount(i)
          \/ OnAccountSigner(i) \/ OnSigner(i)
          \/ OnProvider(i) \/ OnModal(i) \/ OnSession(i)
          \/ OnProviderDisconnect(i) \/ OnAppKitDisconnect(i)
    BY <1>7 DEF Resume
  <2> QED
    BY <2>1, <2>2, OnAccountsSafe, OnChainSafe, OnNetworkSignerSafe, OnAccountSafe,
       OnAccountSignerSafe, OnSignerSafe, OnProviderSafe, OnModalSafe, OnSessionSafe,
       OnProviderDisconnectSafe, OnAppKitDisconnectSafe
<1>8. CASE UNCHANGED walletsVars
  BY <1>8 DEF walletsVars, walletVars, adapterVars, Inv, WalletsTypeOK, ShowingInv, ShownOK,
              IsCurrent, RoutinesOK, RoutineOK, NothingToAnnounce, AloneInv, AloneOK, AtRest,
              AccountIsSelected, SessionIsWallets, Paired
<1> QED
  BY <1>1, <1>2, <1>3, <1>4, <1>5, <1>6, <1>7, <1>8 DEF WalletsNext

(* Whatever the routines are doing, an application that shows something    *)
(* old will hear something new; one that never saw two of them at once     *)
(* has the session of the wallet.                                          *)
THEOREM Invariance == WalletsSpec => []Inv
<1>1. Inv /\ [WalletsNext]_walletsVars => Inv'
  BY NextSafe
<1> QED
  BY InitSafe, <1>1, PTL DEF WalletsSpec

(* RPCTransactionAdapter, HederaWalletConnectTransactionAdapter and the    *)
(* web application: once all routines are done, a pairing is shown with    *)
(* the account and the network the adapters hold.                          *)
THEOREM ShownCorrect == WalletsSpec => []ShownIsHeld
<1>1. Inv => ShownIsHeld
  <2> SUFFICES ASSUME Inv, AtRest
               PROVE  ShownIsHeld
    BY DEF ShownIsHeld
  <2>1. ShownOK /\ IsCurrent
    BY DEF Inv, ShowingInv, NothingToAnnounce, AtRest
  <2> QED
    BY <2>1 DEF ShownOK, IsCurrent, ShownIsHeld, Paired
<1> QED
  BY <1>1, Invariance, PTL

(* RPCTransactionAdapter: without two routines at once, MetaMask's session *)
(* at rest is the wallet's own account and chain.                          *)
THEOREM SessionCorrect == WalletsSpec => []SessionFollowsWallet
<1>1. Inv => SessionFollowsWallet
  BY DEF Inv, AloneInv, SessionIsWallets, SessionFollowsWallet
<1> QED
  BY <1>1, Invariance, PTL

(* HederaWalletConnectTransactionAdapter: without two routines at once, a  *)
(* pairing that is shown has a provider behind it.                         *)
THEOREM ProviderCorrect == WalletsSpec => []ProviderBehindPairing
<1>1. Inv => ProviderBehindPairing
  BY DEF Inv, AloneInv, ProviderBehindPairing
<1> QED
  BY <1>1, Invariance, PTL
=============================================================================
