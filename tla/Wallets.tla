------------------------------ MODULE Wallets -------------------------------
(***************************************************************************)
(* The browser session: the two wallet adapters an application can pair    *)
(* with, MetaMask (RPCTransactionAdapter) and Hedera WalletConnect         *)
(* (HederaWalletConnectTransactionAdapter), the network they share, and    *)
(* the web application that shows what they announce.                      *)
(*                                                                         *)
(* The code runs on one thread, but every routine awaits the wallet or the *)
(* mirror node several times and others run meanwhile.  A routine is what  *)
(* is left of its awaits; a step is one answer and the code up to the next *)
(* await.  A wallet's events and answers share one channel, so that an     *)
(* event is handled when the wallet changes.                               *)
(***************************************************************************)
EXTENDS Naturals, Sequences, SequencesExt

CONSTANTS
  Address,       \* EVM addresses of the accounts in the wallets
  Network,       \* Hedera networks
  Registered,    \* the addresses the mirror node of each network knows
  None,          \* no address: a locked wallet, a pairing without account
  Unrecognized,  \* a chain of the wallet that is no Hedera network
  MaxRoutines,   \* bound: routines in progress
  MaxChanges     \* bound: changes made in the wallets

METAMASK == "Metamask"
HWALLETCONNECT == "HWC"
NoNetwork == "-"    \* what the application asks MetaMask's connection for

ASSUME WalletsAssumption ==
  /\ Registered \in [Network -> SUBSET Address]
  /\ None \notin Address \cup {METAMASK, HWALLETCONNECT}
  /\ Network \cap {Unrecognized, NoNetwork} = {}
  /\ MaxRoutines \in Nat \ {0} /\ MaxChanges \in Nat

VARIABLES
  selected,      \* the account MetaMask puts first, None while it is locked
  chain,         \* the chain MetaMask is on
  changes,       \* changes made so far
  environment,   \* NetworkService.environment, with it the mirror node in use
  handler,       \* Injectable.currentTransactionHandler
  metamask,      \* RPCTransactionAdapter: account and signer
  hwc,           \* the other adapter: provider (and appKit, adapter) present,
                 \* subscribed to its events, account, network
  routines,      \* routines in progress, oldest first
  shown,         \* the application: last wallet, status, account, network
  crossed        \* whether, since the page was loaded, anything began while
                 \* something else was in progress

walletVars == <<selected, chain, changes>>
adapterVars == <<environment, handler, metamask, hwc>>
walletsVars == <<walletVars, adapterVars, routines, shown, crossed>>

NoAccount == [evm |-> None, network |-> "none"]      \* never assigned
NullAccount == [evm |-> None, network |-> "NULL"]    \* Account.NULL
AccountOn(evm, network) == [evm |-> evm, network |-> network]

(* The routines: what they await, in this order.                           *)
PairWallet == <<"accounts", "chain", "networkSigner", "account", "accountSigner", "signer">>
ChainChanged == <<"networkSigner", "account", "accountSigner">>
AccountsChanged == <<"account", "accountSigner">>
ConnectWalletConnect == <<"provider", "modal", "session">>
StopWalletConnect == <<"providerDisconnect", "appKitDisconnect">>

(* A lookup is answered by the mirror node in use when it was asked.       *)
Routine(todo, evm, mirror, network) ==
  [todo |-> todo, evm |-> evm, mirror |-> mirror, network |-> network]

AtRest == routines = <<>>
Connecting ==
  \E i \in DOMAIN routines :
     Last(routines[i].todo) \in {"signer", "session"}

-----------------------------------------------------------------------------
(* The application (Router.tsx) hears only the wallet it chose last.       *)

walletPaired(wallet, account, network) ==
  shown' = IF shown.wallet = wallet
             THEN [shown EXCEPT !.status = "Paired", !.account = account, !.network = network]
             ELSE shown

walletDisconnect(wallet) ==
  shown' = IF shown.wallet = wallet THEN [shown EXCEPT !.status = "Disconnected"] ELSE shown

-----------------------------------------------------------------------------
(* Routines                                                                *)

Start(todo, evm, mirror, network) ==
  /\ Len(routines) < MaxRoutines
  /\ routines' = Append(routines, Routine(todo, evm, mirror, network))

(* Whatever begins in the midst of something else.                         *)
Cross == crossed' = (crossed \/ ~AtRest)

Await(i, routine) == routines' = ReplaceAt(routines, i, routine)
Rest(i) == Tail(routines[i].todo)
Proceed(i) ==
  IF Rest(i) = <<>> THEN routines' = RemoveAt(routines, i)
                    ELSE Await(i, [routines[i] EXCEPT !.todo = Rest(i)])
Throw(i) == routines' = RemoveAt(routines, i)

(* Ask the mirror node in use for an address.                              *)
LookUp(i, evm) ==
  Await(i, [routines[i] EXCEPT !.todo = Rest(i), !.evm = evm, !.mirror = environment])

(* The lookup finds the account, unless it is unknown there or fails.      *)
Found(i) ==
  /\ routines[i].mirror \in Network
  /\ routines[i].evm \in Registered[routines[i].mirror]

(* getSigner takes the account the wallet has selected, and throws when a  *)
(* locked wallet is not unlocked.                                          *)
GetSigner == selected # None /\ metamask' = [metamask EXCEPT !.signer = selected]

-----------------------------------------------------------------------------
(* RPCTransactionAdapter                                                   *)

(* pairWallet and the event handlers announce what the adapter and the     *)
(* network service hold at the end of the routine.  A slip: what the       *)
(* routine looked up.                                                      *)
AnnounceLookedUp(i) ==
  walletPaired(METAMASK,
               IF metamask'.account = NullAccount THEN NullAccount
                 ELSE AccountOn(routines[i].evm, routines[i].mirror),
               routines[i].mirror)
Announce(i) == walletPaired(METAMASK, metamask'.account, environment)

(* pairWallet: eth_requestAccounts, which a wallet that is not locked      *)
(* answers; also in the handler of chainChanged, which needs no            *)
(* eth_chainId then.  A wallet that lost its provider refuses pairing.     *)
OnAccounts(i) ==
  /\ Head(routines[i].todo) = "accounts"
  /\ LET pairing == Head(Rest(i)) = "chain"
     IN \/ /\ selected # None
           /\ IF pairing THEN Await(i, [routines[i] EXCEPT !.todo = Rest(i), !.evm = selected])
                         ELSE LookUp(i, selected)
        \/ (pairing \/ selected = None) /\ Throw(i)
  /\ UNCHANGED <<adapterVars, shown>>

(* pairWallet: eth_chainId, and setMetamaskNetwork up to its first await.  *)
OnChain(i) ==
  /\ Head(routines[i].todo) = "chain"
  /\ environment' = chain
  /\ Proceed(i)
  /\ UNCHANGED <<handler, metamask, hwc, shown>>

(* The end of setMetamaskNetwork.  pairWallet goes on with the address it  *)
(* was given, the handler of chainChanged with that of its account.        *)
OnNetworkSigner(i) ==
  /\ Head(routines[i].todo) = "networkSigner"
  /\ \/ /\ GetSigner
        /\ \/ routines[i].evm # None /\ LookUp(i, routines[i].evm)
           \/ /\ routines[i].evm = None
              /\ \/ metamask.account = NoAccount /\ Throw(i)
                 \/ /\ metamask.account = NullAccount
                    /\ Await(i, [routines[i] EXCEPT !.todo = <<"accounts">> \o Rest(i)])
                 \/ metamask.account.evm # None /\ LookUp(i, metamask.account.evm)
     \/ selected = None /\ Throw(i) /\ UNCHANGED metamask
  /\ UNCHANGED <<environment, handler, hwc, shown>>

(* setMetasmaskAccount: an account that is not found is the null account,  *)
(* and the signer stays.                                                   *)
OnAccount(i) ==
  /\ Head(routines[i].todo) = "account"
  /\ \/ /\ Found(i)
        /\ metamask' = [metamask EXCEPT !.account =
                          AccountOn(routines[i].evm, routines[i].mirror)]
        /\ Proceed(i)
        /\ UNCHANGED shown
     \/ /\ metamask' = [metamask EXCEPT !.account = NullAccount]
        /\ routines' =
             IF Len(routines[i].todo) = 2 THEN RemoveAt(routines, i)
               ELSE ReplaceAt(routines, i, [routines[i] EXCEPT !.todo = <<"signer">>])
        /\ Announce(i)
  /\ UNCHANGED <<environment, handler, hwc>>

OnAccountSigner(i) ==
  /\ Head(routines[i].todo) = "accountSigner"
  /\ \/ GetSigner /\ Proceed(i) /\ Announce(i)
     \/ selected = None /\ Throw(i) /\ UNCHANGED <<metamask, shown>>
  /\ UNCHANGED <<environment, handler, hwc>>

(* The end of connectMetamask.                                             *)
OnSigner(i) ==
  /\ Head(routines[i].todo) = "signer"
  /\ \/ GetSigner
     \/ selected = None /\ UNCHANGED metamask
  /\ Throw(i)
  /\ UNCHANGED <<environment, handler, hwc, shown>>

(* A slip: an account is only looked up when none is known.                *)
AccountsChangedOnce(account) ==
  IF account # None /\ metamask.account.evm = None /\ metamask.account # NoAccount
    THEN /\ Start(AccountsChanged, account, environment, "")
         /\ UNCHANGED shown
    ELSE walletDisconnect(METAMASK) /\ UNCHANGED routines

(* The handler of accountsChanged, up to its first await.                  *)
OnAccountsChanged(account) ==
  IF account # None /\ metamask.account # NoAccount /\ account # metamask.account.evm
    THEN /\ Start(AccountsChanged, account, environment, "")
         /\ UNCHANGED shown
    ELSE walletDisconnect(METAMASK) /\ UNCHANGED routines

(* The user locks MetaMask, unlocks it, puts another account first, or     *)
(* connects one more behind it.                                            *)
SelectAccount ==
  /\ changes < MaxChanges /\ changes' = changes + 1
  /\ \E account \in Address \cup {None} :
       /\ {account, selected} # {None}
       /\ selected' = account
       /\ OnAccountsChanged(account)
  /\ Cross
  /\ UNCHANGED <<chain, adapterVars>>

(* The handler of chainChanged: setMetamaskNetwork up to its first await.  *)
SwitchChain ==
  /\ changes < MaxChanges /\ changes' = changes + 1
  /\ \E c \in (Network \cup {Unrecognized}) \ {chain} :
       /\ chain' = c
       /\ environment' = c
  /\ Start(ChainChanged, None, NoNetwork, "")
  /\ Cross
  /\ UNCHANGED <<selected, handler, metamask, hwc, shown>>

-----------------------------------------------------------------------------
(* HederaWalletConnectTransactionAdapter                                   *)

(* initAdaptersAndProvider.                                                *)
OnProvider(i) ==
  /\ Head(routines[i].todo) = "provider"
  /\ \/ hwc' = [hwc EXCEPT !.provider = TRUE] /\ Proceed(i)
     \/ Throw(i) /\ UNCHANGED hwc
  /\ UNCHANGED <<environment, handler, metamask, shown>>

(* openPairingModal is closed, with or without a session, or times out.  A *)
(* session on a foreign EVM chain is stopped before the connection fails.  *)
OnModal(i) ==
  /\ Head(routines[i].todo) = "modal"
  /\ \/ Throw(i)
     \/ hwc.provider /\ \E account \in Address : LookUp(i, account)
     \/ hwc.provider /\ Await(i, [routines[i] EXCEPT !.todo = StopWalletConnect])
  /\ UNCHANGED <<adapterVars, shown>>

(* resolveAndCacheAccount and subscribe.                                   *)
OnSession(i) ==
  /\ Head(routines[i].todo) = "session"
  /\ \/ /\ Found(i)
        /\ LET account == AccountOn(routines[i].evm, routines[i].mirror)
           IN /\ hwc' = [hwc EXCEPT !.account = account, !.network = routines[i].network,
                                    !.subscribed = @ \/ hwc.provider]
              /\ walletPaired(HWALLETCONNECT, account, routines[i].network)
     \/ UNCHANGED <<hwc, shown>>
  /\ Throw(i)
  /\ UNCHANGED <<environment, handler, metamask>>

(* stop: a failure to disconnect leaves everything as it is.               *)
OnProviderDisconnect(i) ==
  /\ Head(routines[i].todo) = "providerDisconnect"
  /\ Proceed(i) \/ Throw(i)
  /\ UNCHANGED <<adapterVars, shown>>

(* A slip: nobody is told.                                                 *)
OnAppKitDisconnectSilently(i) ==
  /\ Head(routines[i].todo) = "appKitDisconnect"
  /\ hwc' = [hwc EXCEPT !.provider = FALSE]
  /\ Throw(i)
  /\ UNCHANGED <<environment, handler, metamask, shown>>

OnAppKitDisconnect(i) ==
  /\ Head(routines[i].todo) = "appKitDisconnect"
  /\ \/ hwc' = [hwc EXCEPT !.provider = FALSE] /\ walletDisconnect(HWALLETCONNECT)
     \/ UNCHANGED <<hwc, shown>>
  /\ Throw(i)
  /\ UNCHANGED <<environment, handler, metamask>>

(* Without a provider there is nothing to wait for.                        *)
StopHWC ==
  IF hwc.provider THEN Start(StopWalletConnect, None, NoNetwork, "") /\ UNCHANGED shown
                  ELSE walletDisconnect(HWALLETCONNECT) /\ UNCHANGED routines

(* The other side ends the session: session_delete, disconnect or both.    *)
EndSession ==
  /\ changes < MaxChanges /\ changes' = changes + 1
  /\ hwc.subscribed
  /\ StopHWC
  /\ Cross
  /\ UNCHANGED <<selected, chain, adapterVars>>

-----------------------------------------------------------------------------
(* The application                                                         *)

(* ModalWalletConnect, SDKService.connectWallet and Network.connect: set   *)
(* the network, register the handler, which stops the one before without   *)
(* waiting for it, and start pairing.                                      *)
Connect(wallet, network) ==
  /\ shown.status # "Paired"
  /\ ~Connecting                                     \* bound
  /\ shown' = [shown EXCEPT !.wallet = wallet, !.network = network]
  /\ environment' = network
  /\ handler' = wallet
  /\ LET connection == IF wallet = METAMASK
                         THEN Routine(PairWallet, None, NoNetwork, "")
                         ELSE Routine(ConnectWalletConnect, None, NoNetwork, network)
         stopping == IF handler = HWALLETCONNECT /\ hwc.provider
                       THEN <<Routine(StopWalletConnect, None, NoNetwork, "")>> ELSE <<>>
     IN /\ routines' = routines \o stopping \o <<connection>>
        /\ Len(routines') <= MaxRoutines
        /\ crossed' = (crossed \/ Len(routines') > 1)
  /\ UNCHANGED <<walletVars, metamask, hwc>>

(* InnactivityTimer: Network.disconnect after a while without input.       *)
Disconnect ==
  /\ shown.status = "Paired"
  /\ \/ handler = METAMASK /\ walletDisconnect(METAMASK) /\ UNCHANGED routines
     \/ handler = HWALLETCONNECT /\ StopHWC
  /\ Cross
  /\ UNCHANGED <<walletVars, adapterVars>>

-----------------------------------------------------------------------------

Resume ==
  /\ \E i \in DOMAIN routines :
       \/ OnAccounts(i) \/ OnChain(i) \/ OnNetworkSigner(i) \/ OnAccount(i)
       \/ OnAccountSigner(i) \/ OnSigner(i)
       \/ OnProvider(i) \/ OnModal(i) \/ OnSession(i)
       \/ OnProviderDisconnect(i) \/ OnAppKitDisconnect(i)
  /\ UNCHANGED <<walletVars, crossed>>

WalletsInit ==
  /\ selected \in Address \cup {None} /\ chain \in Network \cup {Unrecognized}
  /\ changes = 0
  /\ environment \in Network /\ handler = None
  /\ metamask = [account |-> NoAccount, signer |-> selected]
  /\ hwc = [provider |-> FALSE, subscribed |-> FALSE, account |-> NoAccount,
            network |-> NoNetwork]
  /\ routines = <<>>
  /\ shown = [wallet |-> None, status |-> "Disconnected", account |-> NoAccount,
              network |-> environment]
  /\ crossed = FALSE

WalletsNext ==
  \/ SelectAccount \/ SwitchChain \/ EndSession
  \/ Connect(METAMASK, NoNetwork)
  \/ \E network \in Network : Connect(HWALLETCONNECT, network)
  \/ Disconnect
  \/ Resume

WalletsSpec == WalletsInit /\ [][WalletsNext]_walletsVars

-----------------------------------------------------------------------------

Paired(wallet) == shown.status = "Paired" /\ shown.wallet = wallet

(* Whatever the routines of the two adapters, the wallets and the user did *)
(* to each other, an application that shows a pairing once they are done   *)
(* shows the account of the adapter that will send its transactions, on    *)
(* the network the SDK is configured for; with Hedera WalletConnect that   *)
(* configuration may also be MetaMask's chain, whose events keep setting   *)
(* it.                                                                     *)
ShownIsHeld ==
  /\ AtRest /\ Paired(METAMASK) /\ selected # None =>
       /\ handler = METAMASK
       /\ shown.account = metamask.account
       /\ shown.network = environment
  /\ AtRest /\ Paired(HWALLETCONNECT) =>
       /\ handler = HWALLETCONNECT
       /\ shown.account = hwc.account /\ shown.network = hwc.network
       /\ environment \in {shown.network, chain}

(* The session at rest is the wallet's, as long as no two routines ran at  *)
(* once: MetaMask's chain is the network, its first account the account,   *)
(* looked up on that network, and the one that signs.                      *)
SessionFollowsWallet ==
  AtRest /\ Paired(METAMASK) /\ ~crossed =>
    /\ selected # None
    /\ environment \in {chain, NoNetwork}
    /\ environment = NoNetwork => metamask.account = NullAccount
    /\ metamask.account # NullAccount =>
         /\ metamask.account = AccountOn(selected, chain)
         /\ metamask.signer = selected

(* Nor is Hedera WalletConnect shown as paired when its provider is gone.  *)
ProviderBehindPairing ==
  AtRest /\ Paired(HWALLETCONNECT) /\ ~crossed => hwc.provider
=============================================================================
