# TLA+ verification of stablecoin-studio

Hedera Stablecoin Studio lets an issuer deploy and run stablecoins on the Hedera
network. Its own core is a set of Solidity facets behind an upgradeable proxy
(`src/contracts`), a small Node service that collects signatures for transactions of
multi-key accounts (`src/backend`), and a TypeScript SDK with a CLI and a web
application on top. This directory holds TLA+ specifications of the contracts, of the
backend and of those parts of the SDK that decide something (the checks before a
transaction, the wallet session), the TLC configurations that check them and the proofs
TLAPS checks.

Contents: [the system](#the-system) (inventory), [modules](#modules) (how state and
actions correspond to the code), [runs](#runs) (bounds, results),
[proofs](#proofs), [what is not modelled](#what-is-not-modelled), [plan](#plan).

## The system

| component | state it keeps | operations | hard behaviour | what makes it correct |
|---|---|---|---|---|
| Role registry (`RolesStorageWrapper`, `RolesFacet`, `RoleManagementFacet`) | per role an array of accounts, per account a flag and its position in the array | grant, revoke; batches of roles x accounts in nested loops | swap and pop on revocation; the last administrator removed half way through a batch; duplicates in call data | array and positions are two views of one set; an administrator remains; a batch is atomic |
| Suppliers (`SupplierAdminFacet`, `SupplierAdminStorageWrapper`) | allowance and unlimited flag per account | grant limited or unlimited, revoke, reset, increase, decrease; also through the two role facets | three facets write role and allowance, one of them the role only; cash-ins in between | flag and allowance agree; nobody cashes in more than was granted |
| Cash-in, burn, wipe, rescue | none of their own: balances live in the token service | mint to the treasury and pass on; burn from the treasury; wipe an account; rescue from the treasury | the treasury holds both free and held tokens; the service may refuse (pause, freeze, KYC) | what is held stays backed; a refused call leaves no trace |
| Holds (`HoldManagementFacet`) | data by account and id, set of live ids, next id, held amount by account and in all | create (own or by controller), execute, release, reclaim | four records updated by five operations; expiry; partial amounts; ids of dead holds | records agree; a hold pays only its parties; ids name one hold forever; locking conserves tokens |
| Proof of reserve (`ReserveStorageWrapper`, `ReserveFacet`) | feed address, age limit | check before a cash-in; change either | decimals of token and feed differ either way; stale or negative answers; feed replaced | a cash-in never takes the supply above the reserve |
| Token status facets | none: pause, freeze, KYC, deletion are the service's | pause, unpause, freeze, unfreeze, grant and revoke KYC, delete | order of status calls and of movements | nothing moves on a halted token |
| Business logic resolver | implementations of each facet by version, selector blacklists | register, add to and remove from a blacklist | one counter per facet; unknown versions resolve to the first | see the next line |
| Diamond cut manager | configurations: latest version, open batch, five tables per version | create in one call or in batches, cancel | a batch left open and continued by someone else; leftovers of a cancelled one; two facets with one selector | a published version never changes; nothing unpublished leaks into the next; dispatch and loupe agree |
| Resolver proxies | resolver, configuration, version | deploy, update configuration or version | registrations and batches while proxies run | a proxy follows published versions only |
| Backend: transactions | one table of transactions | create, sign, delete, update status | every handler reads a row, awaits, and saves the whole row | the status agrees with the signatures beside it |
| Backend: auto-submit job | none between runs; within one: the rows collected | list pages, expire, submit | runs overlap; tasks nobody awaits; receipts that do not arrive; rows deleted meanwhile; process dies | EXECUTED is true; EXPIRED only after the window; every transaction is dealt with |
| Factory and initializers | once-only flags | deploy: reserve, roles, allowance, token, initial supply | the initial supply is compared with a reserve in other decimals, by the SDK and by the factory | a stablecoin starts covered; the SDK and the factory agree |
| Example reserve (`HederaReserveFacet`) | amount, administrator | set amount, set administrator | its rounds are always ten seconds old | only its administrator changes what it answers |
| SDK use cases (`app/usecase/command/stablecoin`) | the command in flight: what it has seen | for each operation: queries with checks, then a transaction through the contract or the token service | the ledger moves between the answers; the checks restate the facets in TypeScript; keys of the token change hands | a check that passed still holds where nothing it rests on changed; nobody is locked out |
| SDK wallet adapters (MetaMask, Hedera WalletConnect) and what the web application shows | current handler, account, signer, network; provider and subscriptions | pair, follow the wallet's events, stop | event handlers await several answers and run into each other | what is shown is what will sign |
| Selector sets, migration proxy, backend and mirror clients, CLI, defender scripts | settings, connections | encoding, prompts, requests | | not modelled (below) |

**How they interact.** A stablecoin is a proxy; each call goes through the resolver,
which names the facet for the selector, and runs there by `delegatecall` on the
proxy's storage. Facets share that storage (roles, allowances, holds, reserve) and call
the token service, in which the proxy is the treasury of the token and holds its
supply and wipe keys. A call is one transaction: it runs alone, and a revert undoes it.
Holders also move tokens without any contract. The backend is separate from the
contracts: it stores serialized transactions of any kind, adds signatures and submits.
Within its one Node process code runs alone from `await` to `await`. So does the SDK in
a browser or a CLI: it reads the ledger through the mirror node and the JSON-RPC relay,
decides, and sends a call of a facet or, where an account holds the key, a transaction of
the token service. Nothing holds the ledger still in between.

`PROJECT.json` lists under `hazards` every place where this code is hard to test, with
the properties that cover it.

## Modules

| module | models | composed of |
|---|---|---|
| `Accounts` | the set of accounts, shared by the contract modules | |
| `Roles` | abstract: who holds which role, calls atomic | `Accounts` |
| `RoleRegistry` | the storage and the loops; implements `Roles` | `INSTANCE Roles` |
| `HederaToken` | external: the ledger of the token service | `Accounts` |
| `SupplierAdmin` | roles and allowances, call by call | `Roles` |
| `HoldManagement` | holds | `HederaToken` |
| `Reserve` | the reserve check | |
| `StableCoin` | one deployed stablecoin, all facets together | the three above |
| `StableCoinProofs` | theorems about `StableCoin` | `StableCoin`, `TLAPS` |
| `ConfigurationRegistry` | abstract: append-only published versions, proxies follow them | |
| `Resolver` | resolver, diamond cut manager, proxies; implements `ConfigurationRegistry` | `INSTANCE ConfigurationRegistry` |
| `MultiSig` | the backend | |
| `MultiSigProofs` | theorems about `MultiSig` | `MultiSig`, `TLAPS` |
| `Deployment` | factory, initializers, example reserve, the SDK's checks of a creation | `EXTENDS StableCoin` |
| `Client` | the SDK's commands beside everybody else | `EXTENDS StableCoin` |
| `Wallets` | the wallet session of the SDK and the web application | |
| `HoldSumsProofs` | theorems about the totals of holds and the supply in `StableCoin` | `StableCoinProofs` |
| `DeploymentProofs`, `ClientProofs` | theorems about `Deployment` and `Client` | `HoldSumsProofs` and the module |
| `RoleRegistryProofs`, `ResolverProofs`, `WalletsProofs` | theorems about the three modules, the two refinements included | the module, `TLAPS` |
| `MCStableCoin`, `MCDeployment`, `MCClient`, `MCResolver`, `MCMultiSig`, `MCWallets` | values for TLC | |

Operators keep the names of the code. The operators whose comment says *a slip* are not
part of a specification: each is a definition as a plausible mistake would make it, and
shows that some property would notice (`mutants` in `PROJECT.json`).

### Contracts

A call is one action: its guards are the modifiers, the `require`s and the success of
every call to the token service; a revert is a disabled action. The one exception is
`RoleRegistry`, where an iteration of the inner loop of `grantRoles`/`revokeRoles` is a
step and `tx` holds call data, loop counters and the storage a revert goes back to.
Its refinement shows that the loops may be used as one atomic call elsewhere, and
`SupplierAdmin` does so.

* `hasRole` is `roles[r].members[a].active`. `allowance`, `unlimited` are
  `supplierAllowances`, `unlimitedSupplierAllowances`. `entitled` is a history variable:
  what was granted to an account under limited allowances and not cashed in yet.
* `holds`, `holdIds`, `nextHoldId`, `heldByAccount`, `totalHeld` are the five fields of
  `HoldDataStorage`. Amounts are signed as in the code: `releaseHold` does not
  reject negative ones, only the transfer does.
* `balance`, `totalSupply`, `frozen`, `kyc`, `paused`, `deleted` belong to the token
  service. `Can...` is the answer SUCCESS. The stand-in of the tests
  (`contracts/test/PrecompiledMock.sol`) has no pause; the model adds the service's.
  Burning and wiping lower the supply in checked arithmetic, so neither exceeds it.
* `rescued` is a history variable: all that was ever rescued.
* `reserveAddress`, `updatedAtThreshold` are the reserve's storage; `feed` is the feed's.
  `Power` stands for the powers of ten of the scaling, of any base: a small one separates
  scaled from unscaled amounts as well and keeps amounts small. It is a recursive function,
  not `^`, so that lemmas can be proved about it. `StableCoin` starts without a feed;
  deployments with one are those of `Deployment`.
* The bounds `MaxSupply`, `MaxRescued`, `MaxHolds`, `MaxAllowance`, `MaxTime`,
  `MaxFacetVersions`, `MaxVersions` are guards, and the sets `Amounts`, `NewHolds`,
  `Allowances`, `Answers`, `Thresholds`, `RoleChanges`, `FacetLists`, `BlacklistSets`
  are the call data TLC enumerates.

In `Resolver`, `content[c][v]` is everything the manager stores under a hash of
configuration `c` and version `v`: the facets, the address, selectors and interfaces of
each, and the dispatch from selector to address and to facet. `batchVersion` is
`batchVersion` of the code, zero when no batch is open. Callers are left out because
every writing call is an administrator's.

`Deployment` adds what is before the first state of `StableCoin`. A deployment is one
transaction: the factory makes the proxy, initializes it and creates the token, so
`deployed` stands for the once-only flags too, and no state shows a proxy without a
token. `HandleReserve` is `_handleReserve` with its three cases; `GrantInitialRoles` and
`CreateToken` are the parts of `initialize` that leave a state behind. The rounds of the
created reserve are computed when they are read (`block.timestamp - 10`), so `Clock` ages
them; with a threshold of one to nine seconds, which the factory accepts, nothing could
ever be cashed in under it. The sender is an account without code: what a contract could do when it is refunded
in the middle of the initialization is left out. After a deployment every call of
`StableCoin` may follow (`Operate`); the created feed answers what its administrator sets,
and before it exists nobody names it. `Publish` is the other feeds before a deployment.

The SDK's side of a creation is about requests (`CreateRequests`), in which options may be
left out. `CreationPasses` is what `CreateRequest` and `CreateCommandHandler` compare, in
the decimals of both, and in whole tokens with two decimals for every feed
(`RESERVE_DECIMALS`); an option left out is compared with nothing. `TokenStruct` is what the
adapters send for a request: 0 for a maximum or an amount left out, every allowance for
none. The factory takes any `Deployments`, those among them. Two properties compare the two:

* `CreationIsNotRefused`: no deployment the factory carries out would have been refused by
  the SDK. Excepted (`ReadRight`) are an existing reserve with other decimals than the SDK
  expects or beside a new one, and a maximum of 0, which the SDK compares with the supply
  and the token service takes for none.
* `PassedCreationIsAccepted`: what passes the SDK the factory carries out, where the SDK
  looks at all it asks for. Excepted (`LooksComplete`) is what it does not look at: the
  amount of a new reserve left out although there is a supply (`CreateRequest.ts:287`,
  `CreateCommandHandler.ts:121`: sent as 0, and `_validationReserveInitialAmount` reverts);
  a finite supply asked for without a maximum; of an existing reserve decimals other than
  two, a negative answer, the age of the round, and fractions of a token.

The largest supply of the token service (`MAX_SUPPLY`) is above the bounds of the model. A
maximum is looked at when the token is created and not kept: every token is minted up to
`MaxSupply` afterwards. `FactoryAccepts` is what the factory asks for, gathered from the
modifiers and functions behind `deployStableCoin`; that it asks for no more and no less is
proved (`AcceptedIsDeployed`).

### SDK

`Client` puts the checks of a command handler beside the facets. A handler is the sequence
of its checks (`CashInHandler`, ...), in the order in which their answers arrive; `Answer`
is one answer and the test made of it, `Send` the transaction, `Fail` the error. One
command is in flight; a second application can do no more to it than send its
transactions, and those are in `Others`, next to transfers, handovers of keys, the reserve
and the clock. An answer of the mirror node that lags behind is an answer given earlier,
that is, more steps of `Others` after it.

`standing` is a history variable: true as long as what the request's checks rest on
(`Grounds`) is as it was when the command started. Two properties use it.
`CheckedCallsAreAccepted`: a command that passed all its checks succeeds if its grounds
stand, whatever else happened meanwhile. Whether the ledger takes a call as things stand is
`Accepts`: `ContractAccepts` is what the facet and the token service behind it ask for,
`NativeAccepts` what the token service asks for directly (`CanLock`, `CanSettle`,
`CanControl` are their parts). They restate guards of the actions, and
that they do so exactly is proved (`AcceptedIsDone`). `RefusedCallsWouldFail`: a refused one would have
failed on the ledger or changed nothing. It is stated of steps: while the refusal stands, no
step is the refused call and changes anything; anybody may make that call to the facets in
any state (`Others`), so this says that it is not possible. Both have exceptions, and these are the places
where SDK and contracts differ; each is a disjunct of `Overlooked` or `Overcautious`:

* not asked at all: roles and allowances (`Authorized`); with a Hedera wallet, whether the
  token is paused or deleted before holds and rescues; whether tokens a settlement pays
  were rescued; at a reclaim, whether the *holder* can receive (the relationship
  asked for is the caller's);
* asked wrong to the good of the request: fractions of a token, the age of a round and the
  decimals of a feed at a cash-in; the second of expiry, which the SDK counts on both sides;
  a destination that is left out (see `ClientDestination`);
* stricter than the facets: the holder's relationship at an execution, the caller's at a
  reclaim, which the contract lets anyone make (`HoldManagementFacet.sol:268`); the wipe
  key for settlements, which do not use it; feeds with other than two decimals.

`keyOf` is who holds a key of the token. `UpdateToken` hands one over, and then
`NativeCall` wipes, pauses, freezes or grants KYC without the facets, and the facet reverts.
`Capabilities` and `AccessDecision` choose between the two as `getCapabilities` and
`CapabilityDecider` do; `AdapterSends` is what the adapter of the wallet makes of it
(an EVM wallet sends contract calls only). `HasAmount` is the validation of the request
types: nothing is asked for in an amount of zero or less. Every account is taken to be associated with
the token. Administrators' calls are left out of this composition, roles stay as deployed:
the handlers do not look at them.

`Wallets` is the browser session. A *routine* is what is left of the awaits of a call or an
event handler: `<<"networkSigner", "account", "accountSigner">>` is the handler of
MetaMask's `chainChanged` after it has set the network. A step (`OnAccount`, ...) is
one answer and the code up to the next await; answers may be failures where the code has a
way to go on. `environment` is the network of `NetworkService`, shared by both adapters,
and a lookup is answered by the mirror node in use when it was sent. `handler` is the
adapter that sends transactions; a registration starts the disconnection of the one before
and does not wait for it. `shown` is what `Router.tsx` keeps of the events. `Connect`,
`Disconnect` are the application's; it lets one connection be attempted at a time
(`~Connecting`, a modal). A reload of the page starts over and is `Init`. The history
variable `crossed` says that a routine ever began while another was in progress.

### Backend

`db` is the table, with a row per id or `NoRow`. Code that waits at an `await` is a
*flow*, with what it will do next and the data it carries over:

| flow | waits in | then |
|---|---|---|
| `Saving(t, row)` | `sign`, `updateStatus`: `await save` | `Select`: what the table has of the row by now; nothing to do if it is the same |
| `Writing(t, row, found)` | the same `await` | `Write`: the columns in which `row` differs from `found`, if the row is still there; an insert if none was found, also of a row deleted since it was read |
| `Deleting(t)` | `delete` | `DeleteRow` |
| `Updating(t, status)` | a task of the job, before `updateStatus` reads | `UpdateStatus`: reads again; a row that is gone is an unhandled rejection and ends the process |
| `Submitting(t, row)` | a task of the job: `await submit` | `Submit`: executed and so answered, executed without a receipt, or refused |

`run[j]` is what run `j` has collected. The query of a page has no order, so a page is
any set of rows of the right size (`ItemsOf`). When a run leaves its loop it starts a
task for each collected transaction and waits for none. `StartRun` asks only that the
slot `j` is free: with several slots runs overlap. `network` is the consensus result of
each transaction; the network executes a transaction at most once, within its window
(180 seconds in the SDK, `Validity` here) and with enough signatures.

A save is two waits without a lock between them: the library selects the row and then
updates the columns that differ (`WithChanges`). An insert of an id that is back by then
fails; in a task nobody catches that. Saves of a row that overlap can lose a signature and
mix columns: with two requests to sign at once TLC finds, in eleven steps, a row SIGNED
with fewer signatures than its threshold (one request reads and selects an old row, other
signatures and their status are saved before it writes). The history variable `tangled`
has the ids of the rows that were read to be changed while another change of them was
under way; `StatusTellsSignatures`, `SubmissionsAreSigned` and `SignaturesAreKept` speak of
all other rows, and what they say needs this condition. `ExecutedIsTrue` and
`ExpiredAfterWindow` hold for every row. `signed_keys` and `signatures` are one set: the
order in which signatures came is left out. A page and its count are one read.

## Runs

All runs finish within three minutes with two workers. "States" are distinct states.

| run | states | checks | bounds and why they are enough |
|---|---|---|---|
| `RoleRegistry` | 140 000 | types, `RegistryConsistent`, `AdminListNeverEmpty`, `ImplementsRoles` | three accounts, so that a swap has a first, a middle and a last; two roles, one with reverting grants; call data of up to 2 roles x 2 accounts, duplicates included |
| `StableCoinHolds` | 510 000 | types, records of holds, the supply as the sum of balances, backing, parties of a hold, ids, conservation | two accounts, two holds each, amounts -1..2 (partial, exact, zero, negative), three moments (before, at, after expiry), supply up to 2; the token paused, deleted, frozen for or closed to either account at any time |
| `Deployment` | 406 000 | `PassedCreationIsAccepted`, `CreationIsNotRefused`, `CoverLostOnlyToTheFeed`, `UnlimitedHasNoAllowance`, `AllowanceWithinEntitlement` | reserves created, taken, both or none, with fewer and with more decimals than the token's one, too small, just enough and larger, or the amount left out; supplies finite, infinite or not said to be, with a maximum, without, or 0; requests the factory refuses (supply over the maximum, a new reserve of no amount, a finite supply without a maximum, a clock too young for the age of a round) and a call past the SDK with a cash-in account and no allowance; rounds are too young to be outdated and answers positive, the theorems have the rest; after the deployment cash-ins, burns and transfers of single units by two accounts, feeds that answer less and more, one account made and unmade a supplier by every call that does so, limited and unlimited, allowances up to 2 |
| `ClientHolds` | 737 000 | types, `CheckedCallsAreAccepted`, `RefusedCallsWouldFail`, `HaltedTokenKeepsItsRecords` | an operator with an EVM wallet, an escrow with a Hedera wallet; one hold with and without destination, partial and whole settlements; pause, freeze, wipe and a wipe key that changes hands, at any time; the moment before a hold expires and the one at which it does, on which SDK and facets differ (any time: see the proofs) |
| `ClientSupply` | 500 000 | `CheckedCallsAreAccepted`, `RefusedCallsWouldFail`, `MintWithinReserve` | a KYC key; cash-in, burn, wipe, rescue, deletion; a token with one decimal, a feed with none and one with two, so both ways of scaling; answers too small, exact and larger; thresholds on and off |
| `Wallets` | 4 370 000 | `ShownIsHeld`, `SessionFollowsWallet`, `ProviderBehindPairing` | two accounts, one unknown on the second network; a locked wallet, a foreign chain; two routines at once (a third adds orders of the same steps: checked once with 17 million states), three changes in the wallets. The session may rest for good: deadlock is not an error |
| `MultiSig` | 610 000 | types, `StatusTellsSignatures`, `SubmissionsAreSigned`, `SignaturesAreKept`, `ExecutedIsTrue`, `ExpiredAfterWindow`, and the liveness property `AutoExpire` | one transaction with two keys, thresholds one and all, two runs at once and beside them a request to sign and one to delete (`Signer`, `Deleter`), so that up to three saves of a row overlap and it may go and come back; one crash, a start now or later |
| `Resolver` | 91 000 | types, `NothingBesidesTheBatch`, `DispatchAgreesWithLoupe`, `ImplementsRegistry` | two facets, two implementations that share a selector, two versions, two configurations, one proxy |

Four runs show where the code does not do what a document says of it:

* `MultiSigLastPage`: the job increments its page number before it compares it with the
  number of pages, so it never reads the last of two or more pages. A transaction there
  is neither submitted nor expired, although `documentation/backend/architecture.md`
  says the job expires what was not executed in time. (`autoSubmit.service.ts:97-99`;
  a page has 100 rows, so it takes more than 100 rows in the table.)
* `MultiSigExpired`: `sign` does not look at the status. The signature of another key on
  an executed transaction makes it SIGNED again; past its window it becomes EXPIRED,
  which by the same page means it was not executed.
* `StableCoinRescue`: `rescue` is limited by the treasury's whole balance. Held tokens
  are part of it, so it can take what `usage.md` describes as locked under an escrow;
  the hold can then not be paid out. `HoldsBackedUpToRescues` in `StableCoinHolds`
  states exactly how much can be missing.
* `ClientDestination`: a request to execute a hold may leave the destination out when the
  hold names one. The checks let it pass, the adapters send the zero address, and the
  facet reverts. The end-to-end test `StableCoin.test.ts:723` does this and expects the
  destination to be paid; it runs against a mock.

**Fairness.** Only `MultiSig` and `MultiSigLastPage` check liveness. The clock
advances; the cron starts a run in a free slot; a run gets the page it asked for; a task
of the job takes its next step (the database answers; the client's `execute` and
`getReceipt` end with an answer, an error or a timeout). All are weak fairness
conditions on steps that stay enabled. Users owe nothing: nobody has to sign, and a
request may hang forever. A process that dies is assumed to be started again, at most
`MaxRestarts` times for reasons other than its own rejections. `AutoExpire` needs both
the repetition of the runs and the fact that a row deleted under a task does not leave
the others unfinished for good.

**What the properties do not see.** Three things that the code does, the model does too,
and no property forbids, because none that did would be true of it:

* a plain `grantRole` after `revokeRole` makes an unlimited supplier again
  (`RolesFacet.sol:34` leaves the flag); the invariants of suppliers are about allowances;
* a configuration built with a version of a facet that nobody registered has the first
  version in it (`Resolve`); `Resolver` and `ConfigurationRegistry` both say so, and the
  refinement does not see it;
* a signature that an overlapping save overwrites is lost, and a lookup that crosses
  another decides the account. `SignaturesAreKept`, `StatusTellsSignatures` and
  `SubmissionsAreSigned` are of rows outside `tangled`, `SessionFollowsWallet` and
  `ProviderBehindPairing` of sessions without `crossed`; `ExecutedIsTrue`,
  `ExpiredAfterWindow` and `ShownIsHeld` hold of all.

## Proofs

### The backend

`MultiSigProofs` proves about `MultiSig`, for any finite sets of transactions and keys,
any requests, runs, page size, validity and clock:

| theorem | states |
|---|---|
| `TypeCorrect` | `Spec => []MultiSigTypeOK` |
| `StatusCorrect` | `Spec => []StatusTellsSignatures` |
| `SubmissionsCorrect` | `Spec => []SubmissionsAreSigned` |
| `ExecutedCorrect` | `Spec => []ExecutedIsTrue` |
| `ExpiredCorrect` | `Spec => []ExpiredAfterWindow` |
| `SignaturesCorrect` | `Spec => SignaturesAreKept`, an action property |
| `Invariance` | `Spec => []Inv`, from which the six follow |

**Why a stronger invariant.** A step can save what was read long before, so the table is
right only if everything a flow carries or a run has collected is right too. `Inv` says
that of every copy of a row: EXECUTED only if the network says so, EXPIRED only after the
window, a status that agrees with its signatures unless its id is in `tangled`; and a
pending update to EXECUTED or EXPIRED is justified already. A write of single columns can
make a row that no flow carried, so it must be known that the columns of all copies fit
together: keys, threshold and start date are written once and then only copied. No
variable says so; `Inv` therefore says there is a function from ids to origins with which
every copy agrees (`\E origin : AllSound(origin)`). `Untangled` is the rest: of an id that
is not in `tangled` at most one change is under way, and the row is what that change read
or selected, or gone, so the change contains all its signatures (`Grounded`).
Creating a row under a new id chooses the function's value there, and this is sound
because no copy with that id exists: ids are given out once (`created`). Every other step
keeps the function. The proof has a lemma for each action and, under it, a step for each
group of copies the action can disturb.

**Assumptions** (`ASSUME`s of the module): keys and transactions are finite sets, a
request to add a transaction names at least one key and a threshold of at least zero
(the validation of the DTO), requests are not tasks, `NoRow` is not a row.

### A stablecoin

`StableCoinProofs` proves about `StableCoin`, for any accounts and roles, any deployment,
any amounts and holds in the call data, any feeds, decimals and bounds:

| theorem | states |
|---|---|
| `TypeCorrect` | `Spec => []TypeOK` |
| `RecordsCorrect` | `Spec => []HoldRegistryConsistent` |
| `BackingCorrect` | `Spec => []HoldsBackedUpToRescues` |
| `UnlimitedCorrect`, `AllowanceCorrect` | `Spec => []UnlimitedHasNoAllowance`, `Spec => []AllowanceWithinEntitlement` |
| `IdsCorrect` | `Spec => HoldIdsAreNeverReused` |
| `PaymentsCorrect` | `Spec => HoldPaysItsParties` |
| `HaltCorrect` | `Spec => HaltedTokenKeepsItsRecords` |
| `LockingCorrect` | `Spec => LockingConservesTokens` |
| `ReserveCorrect` | `Spec => MintWithinReserve` |
| `Invariance` | `Spec => []Inv`, on which all of them rest |

Three of them are stated once for what a step may do to the ledger and used again below
for the two compositions: a step leaves the records of holds alone, creates one hold or
settles one (`HoldsMove`, `StepMovesHolds`), and from that alone follow the ids
(`MoveKeepsIds`), the parties (`MovePaysParties`) and the conservation of tokens
(`MoveConservesTokens`).

**The invariant** is the conjunction of `AccessInv` (roles and allowances), `LedgerInv`
(balances, holds, what was rescued) and the type of the feed. They are only inductive with
their types, and `HoldsBackedUpToRescues` is only with `HoldRegistryConsistent`: a
settlement pays the amount of a live hold, which has data, and it is a number. No step
mixes the parts except a cash-in, which needs the allowance to be spent and the balances
to be credited, so most steps need one lemma. `CreditIs`, `DebitIs` and `MovedIs` say what
a movement does to balances; `RegisterKeepsRecords` and `DecreaseKeepsRecords` what the two
functions that write the records of holds do; `EverySettlementPays` brings `executeHold`,
`releaseHold` and `reclaimHold` to one form, from which the invariant and the properties of
steps follow; `StepKinds` says that no other call touches the records of holds.

**The reserve.** The facet scales the side with fewer decimals by a power of ten and
compares; `MintWithinReserve` compares the two fractions by multiplying both out. That the
two agree (`ScalingIs`) needs the laws of powers (`PowerStep`, `PowerPositive`, `PowerSum`),
and these need induction. The provers cannot instantiate the induction theorems of the
library, which take an operator; each law is proved from a least counterexample instead
(`LeastExists`, from `WFMin` over the order of the naturals), whose predecessor is none.
That there is a function with the recursion of `Power` at all is proved in the same way
(`PowersExist`). `OnlyMintRaisesSupply` says that no other call raises the supply: creating
a hold mints what it wiped.

**Assumptions** (`ASSUME`s of the modules): the contract is not one of the accounts and
the addresses named in call data are; roles of the facets are roles; supply, clock and
bounds are natural numbers, amounts integers; the marks `Unlimited`, `NoHold`, `NoAddress`,
`NoFeed` are none of the values they stand beside. No set has to be finite.

### The totals of holds and the supply

`HoldSumsProofs` proves of `StableCoin`, under the same assumptions:

| theorem | states |
|---|---|
| `AccountSumCorrect` | `Spec => []AccountTotalMatchesHolds` |
| `TotalSumCorrect` | `Spec => []TotalMatchesHolds` |
| `SumsInvariance` | `Spec => []SumsInv`, on which both rest |
| `SupplyCorrect` | `Spec => []SupplyMatchesBalances` |
| `SupplyInvariance` | `Spec => []SupplyInv`, on which it rests |

A sum of amounts is the cardinality of a set with one element for every unit held. Accounts
and ids need not be finite in number, so the invariant says that these sets are finite too:
a step changes the amount of one hold, which adds finitely many units or takes them away
(`UnitsGrow`, `AllUnitsGrow`). `SumsFollow` is the arithmetic both writers of the records
share. Records that contradict each other (a dead id with data) would have units nobody
counts, so `HeldUnitsAre` needs `HoldRegistryConsistent`.

The supply is counted in the same way, one element for every token in a balance. A step moves
tokens, takes them from one account, or mints them to the treasury and passes them on
(`TokensMove`, `StepMovesTokens`); what a movement does to the count is `SupplyFollows`, of
which a credit, a debit and a transfer are cases. A hold is created by a wipe and a mint of one
amount, which together are a movement to the treasury.

### The role registry

`RoleRegistryProofs` proves about `RoleRegistry`, for any accounts, roles, call data and
length of a batch:

| theorem | states |
|---|---|
| `TypeCorrect` | `Spec => []RegistryTypeOK` |
| `ConsistencyCorrect` | `Spec => []RegistryConsistent` |
| `AdminCorrect` | `Spec => []AdminListNeverEmpty` |
| `RolesRefined` | `Spec => ImplementsRoles`: the loops implement the atomic calls of `Roles` |
| `Invariance` | `Spec => []Inv`, on which all of them rest |

The invariant has the two views of a role together (`TwoViews`), in the storage and in the
copy a revert goes back to (`StorageOK`). For the refinement it also has to say how far the
loops are: the members are those of the copy with, or without, the pairs of role and account
gone through so far (`SoFar`, `Processed`). When the loops end these are all pairs, and that
is what the atomic call does; until then the committed storage does not change, and a step
is a stutter. `PopKeepsViews` is the swap and pop, with the cases in which the last account
is the one revoked and in which it is not. The assumptions are that the two roles the
facets name are roles, and differ, and that a batch is not empty.

### The resolver

`ResolverProofs` proves about `Resolver`, for any facets, implementations, selectors, lists of
facets and numbers of versions:

| theorem | states |
|---|---|
| `TypeCorrect` | `Spec => []ResolverTypeOK` |
| `NothingBesidesCorrect` | `Spec => []NothingBesidesTheBatch` |
| `DispatchCorrect` | `Spec => []DispatchAgreesWithLoupe` |
| `RegistryRefined` | `Spec => ImplementsRegistry`: published versions never change and proxies follow them |
| `Invariance` | `Spec => []Inv`, on which all of them rest |

Cancelling a batch looks only at the facets in its list. It leaves nothing behind because
everything stored for a version can be found from that list, which is `Described`, and
has to hold of every version at any time (`WithFacetsOK`: also after a second batch, and
after a batch whose facets share selectors). `Agreeing` is the dispatch beside the loupe.
Version 0, which is cleaned when no batch is open, is empty. In the refinement a batch that
is not the last one is a stutter. Versions are found by the largest one with a property,
which exists by the same argument from the order of the naturals as above
(`LargestExists`). The assumptions are types of the constants and that `Zero` is no
address and no facet.

### A deployment

`DeploymentProofs` proves of `Deployment`, for any requests, options left out, feeds and ages:

| theorem | states |
|---|---|
| `DeploymentTypeCorrect` | `DeploymentSpec => []TypeOK` |
| `DeploymentBackingCorrect` | `DeploymentSpec => []HoldsBackedUpToRescues` |
| `DeploymentUnlimitedCorrect`, `DeploymentAllowanceCorrect` | `DeploymentSpec => []UnlimitedHasNoAllowance`, `DeploymentSpec => []AllowanceWithinEntitlement` |
| `CoverCorrect` | `DeploymentSpec => CoverLostOnlyToTheFeed` |
| `CreationCorrect` | `DeploymentSpec => CreationIsNotRefused` |
| `PassedCreationCorrect` | `DeploymentSpec => []PassedCreationIsAccepted` |
| `AcceptedIsDeployed` | `DeployStableCoin(caller, d) <=> FactoryAccepts(d) /\ FactoryEffect(caller, d)` |
| `DeploymentReserveCorrect` | `DeploymentSpec => MintWithinReserve` |
| `DeploymentSupplyCorrect` | `DeploymentSpec => []SupplyMatchesBalances` |
| `DeploymentHoldSumsCorrect` | `DeploymentSpec => [](AccountTotalMatchesHolds /\ TotalMatchesHolds)` |
| `DeploymentRecordsCorrect`, `DeploymentPaymentsCorrect`, `DeploymentHoldsCorrect` | the records, parties, ids and conservation of holds |
| `DeploymentInvariance` | `DeploymentSpec => []DeploymentInv` |
| `DeploymentSums` | `DeploymentSpec => [](NoTokenYet /\ SumsInv /\ SupplyInv)`, on which the two about sums rest |

`DeploymentInv` is `Inv` of `StableCoin` with three facts more. Nothing is held before the
deployment: `CreateToken` sets the balance of the treasury, and only then does it cover
what is held. No feed is in use before it, or the deployment could lose a cover that there
was. And whoever may set the created reserve, the clock has reached `Age`, or the
time of its rounds would not be a natural number. The calls are those of `StableCoinProofs`
(`StepSafe`); the deployment, the created reserve and its clock are proved here.
`FactoryCovers` is the factory's comparison of supply and reserve in the decimals of either,
`OperateCovers` what a later call does to the cover, and `FactoryIsStricter` that the
comparison in whole tokens never asks for more (`WholePartsCompare`). The other way round,
`AmountCovers` and `WholeSupplyIsCovered` lift what the SDK compared to the scale of the
factory: an amount in the decimals of both, and a supply without fractions that is within
the whole tokens of an existing reserve.

The factory sets a balance instead of adding to it, so the supply is the sum of the balances
after it only because there were none before: `NoTokenYet`. `DeploymentMoves` says that
every other step does to holds and tokens what a call of the stablecoin does or nothing.

`PassedCreationIsAccepted` is about a state, `AcceptedIsDeployed` makes it one about calls:
`FactoryEffect` gives each variable exactly one value, so a deployment is possible, whoever
sends it, exactly when `FactoryAccepts` holds. The factory also refuses a negative amount,
of which the SDK has no test of its own; a comparison with a supply that is not negative
excludes it (`AmountCovers`, positive scales).

### The client

`ClientProofs` proves of `Client`, for any requests, keys handed over and signers:

| theorem | states |
|---|---|
| `ClientTypeCorrect` | `ClientSpec => []ClientTypeOK` |
| `ClientBackingCorrect` | `ClientSpec => []HoldsBackedUpToRescues` |
| `ClientHaltCorrect` | `ClientSpec => HaltedTokenKeepsItsRecords` |
| `ClientReserveCorrect` | `ClientSpec => MintWithinReserve` |
| `RefusalsCorrect` | `ClientSpec => RefusedCallsWouldFail` |
| `RefusalInvariance` | `ClientSpec => []RefusalInv`, on which it rests |
| `AcceptanceCorrect` | `ClientSpec => []CheckedCallsAreAccepted` |
| `AcceptanceInvariance` | `ClientSpec => []AcceptanceInv`, on which it rests |
| `AcceptedIsDone` | `ContractCall(r) <=> ContractAccepts(r) /\ Effect(r)`, and the same for `NativeCall` |
| `ClientAccountSumCorrect`, `ClientTotalSumCorrect`, `ClientSupplyCorrect` | `ClientSpec => []AccountTotalMatchesHolds`, `[]TotalMatchesHolds`, `[]SupplyMatchesBalances` |
| `ClientSums` | `ClientSpec => [](SumsInv /\ SupplyInv)`, on which the three rest |
| `ClientRecordsCorrect`, `ClientIdsCorrect`, `ClientPaymentsCorrect`, `ClientLockingCorrect` | the records, ids, parties and conservation of holds |
| `ClientInvariance` | `ClientSpec => []ClientInv` |

`ClientInv` is `Inv`, the type of the keys, and `CommandInv`: a command is a request with a
list of checks no longer than its handler and an access decision. It is needed because what
`Send` does is the request in the command, so the ledger keeps its invariant only if that
request is one users make. `ClientSteps` reduces a step of the composition to what it does
to the ledger: a call of a facet, a transaction of the token service, a key that changes
hands, or a step that `StableCoinProofs` covers. Native transactions are the new part:
they never touch the treasury (`CanWipe`) and write statuses only. `ClientAssumption`
gives requests their types: a target that is an account where the operation needs one, and
a holder who is the caller where a hold is of the caller's own tokens.

**Refusals.** `RefusedCallsWouldFail` relates an answer to later states. `RefusalInv` says
what a command knows meanwhile: what is left of the handler is its end, so that the check
at hand is one of its handler (`ChecksAre`); a supply that was read is the supply while the
grounds stand; and the check that failed would fail again. The last is inductive because
`Grounds` has everything the checks read: `GroundsDecide` shows it check by check, and is
the lemma that fails when a handler looks at something its grounds leave out.
`AcceptedCallPasses` is the other half: whatever a facet accepts, every check of the handler
would have let through, so the exceptions in `Overcautious` are all there are. It needs
that the proxy has KYC, since a cash-in may go to the treasury (`ProxyKeepsKyc`), and for
the reserve that a comparison in whole tokens is no stricter than the facet's
(`CashInIsWithinReserve`). TLC has checked `RefusalInv` in both runs of `Client`.

**Acceptances.** `CheckedCallsAreAccepted` is about the moment before the transaction, when
the answers may be old. It is not inductive: nothing in it says what has been checked.
`AcceptanceInv` does: of a command in flight whose grounds stand, every check of its handler
that is no longer to be done would pass again now (`Passed`), and the access decision it
keeps is the one it would be given now, or none if no answer brought one. It rests on two facts.
What has been checked and what is left make up the handler, also where a switched off
reserve cuts it short (`CommandHasPassed`); and a check that passed passes again as long as
the grounds are as they were (`GroundsKeepPassed`, by `GroundsDecide`). `AllPassed` is
the case in which nothing is left. Then the checks have to imply the guards: `ContractAccepted` and
`NativeAccepted` take the operations one by one (`LockAccepted`, `SettlementAccepted`,
`CashAccepted`, `ControlIsChecked`). The SDK never asks whether the treasury can pay a
hold; that it can is the ledger's invariant: it has every token held unless one was rescued
(`HoldsBackedUpToRescues`), and a hold is no more than what is held (`HoldWithinTotal`, from
the sums), `TreasuryPaysHold`. So the exceptions in `Overlooked` are all there are. TLC has
checked `AcceptanceInv` in both runs of `Client`.

`AcceptedIsDone` says that acceptance is what the actions ask for. Each is split into
what it asks for and its `Effect`, which gives every variable of the ledger exactly one
value: `StatusCallIsDone`, `CashCallIsDone`, `LockCallIsDone`, `SettlementCallIsDone`.
A call is therefore possible exactly when it is accepted; in the terms of the logic it is
`ENABLED`, of which the prover knows nothing.

**Sums and steps.** `ClientMoves` reduces a step of the composition to `HoldsMove` and
`TokensMove`, as `StepMovesHolds` and `StepMovesTokens` do for the stablecoin alone. What is
new is the native wipe, which takes as much from the supply as from the account.

### The wallet session

`WalletsProofs` proves about `Wallets`, for any accounts, networks, routines in progress and
changes in the wallets:

| theorem | states |
|---|---|
| `ShownCorrect` | `WalletsSpec => []ShownIsHeld` |
| `SessionCorrect` | `WalletsSpec => []SessionFollowsWallet` |
| `ProviderCorrect` | `WalletsSpec => []ProviderBehindPairing` |
| `Invariance` | `WalletsSpec => []Inv`, on which all of them rest |

The three properties are about a session at rest; the invariant is about the routines on
the way there. `ShowingInv` holds however they cross: if what is shown is old, some routine
in progress will announce what is new (`NothingToAnnounce`), and each has seen to what its
next answers need (`RoutineOK`). `AloneInv` holds as long as no routine began while another
was in progress (`crossed`): the one routine knows the account and the chain of the wallet
from the point on where it has asked for them. There is a lemma for each answer and each
event. The assumptions say that the marks for no account, no network and an unknown one
are none of the addresses, wallets and networks.

### What is model-checked only

* `AutoExpire`: liveness under fairness is out of the prover's reach.
* The four disagreements with documents (`AutoExpire` in `MultiSigLastPage`,
  `ExpiredMeansNotExecuted`, `HoldsBacked`, `DestinationMayBeLeftOut`) are counterexamples of TLC.

Every other property of a passing run is a theorem, for all values of the constants. The
allowances are proved of `StableCoin` and `Deployment`; `Client` leaves administrators out.
No module has a `RECURSIVE` operator, with which the provers do not work.

## What is not modelled

* Names, symbol and metadata of the token, the refund of HBAR at a deployment and what a
  sender with code could do then; `rescueHBAR`, custom fees, associations and expiry of
  the token: they touch none of the state the properties are about.
* The selector sets with their index maps and the pages of `getHoldsIdFor` and of the
  resolver's lists: pure functions. `Resolver` takes a set for a set, `Client` one page
  for all holds (a page has a hundred).
* `updateResolver`, which moves a proxy to another resolver contract; the `delegatecall`.
* `PUT /transactions/{id}`, which sets any status from outside: no code of the repository
  reaches the call. Request validation, filters and `deleteAllTransactions`.
* In the SDK: handlers of role, allowance, reserve, fee and token updates, which check
  nothing of the ledger before they send; the encoding of calls and the reading of results;
  the custodial and multi-signature adapters, which register without waiting for a wallet;
  the clients of backend and mirror node. The CLI is prompts and a settings file over the
  SDK, and so are the forms of the web application. The defender scripts
  configure an external service. Together these are most of the repository's lines, and hold
  none of its protocol.
* The migration proxy: two thin contracts over the proxies of a library.
* Overflow: the contracts use Solidity 0.8, which reverts, and cast through `SafeCast`.

## Plan

1. *(done)* `RoleRegistry` and `Roles`; `HederaToken`, `SupplierAdmin`, `HoldManagement`,
   `Reserve` and their composition `StableCoin`; `MultiSig` and its proofs; `Resolver`
   and `ConfigurationRegistry`.
2. *(done)* `Deployment`: factory, initializer, example reserve, and the SDK's checks of
   a creation. `Client`: the SDK's commands composed with `StableCoin`, and keys that change
   hands. `Wallets`: the browser session.
3. `MultiSig`: *(done)* a save as select and update of the differing columns. Left: the
   update request, a property about rows that come back after their deletion.
4. `SetsAndPages`: the selector set with its index map, the pages of `getHoldsIdFor` and
   of the resolver's lists, against reference definitions over bounded inputs;
   `updateResolver`.
5. *(done)* Proofs: the totals of holds and the supply; the role registry and its refinement
   of `Roles`; the resolver and its refinement of `ConfigurationRegistry`; the wallet session;
   the reserve in any decimals; the checks of the SDK, both what they refuse and what they let
   through; sums and properties of steps again under `Deployment` and `Client`.
6. Left for proofs: the safety half of `AutoExpire`, that a run that ends has
   started a task for every transaction of the pages it read.
