------------------------------ MODULE Resolver ------------------------------
(***************************************************************************)
(* The BusinessLogicResolver every stablecoin proxy delegates through: the *)
(* registry of facet implementations by facet id and version, the          *)
(* configurations (versioned sets of facets with the table from function   *)
(* selectors to implementations), built in one call or in batches, and     *)
(* the proxies that follow a version of a configuration.                   *)
(* BusinessLogicResolver(Wrapper), DiamondCutManager(Wrapper),             *)
(* ResolverProxyUnstructured and DiamondCutFacet.                          *)
(*                                                                         *)
(* Every call that writes is an administrator's (onlyRole(ADMIN_ROLE), the *)
(* registry of module RoleRegistry); anyone else's reverts, so callers are *)
(* left out.  Each call is one transaction and one action.                 *)
(***************************************************************************)
EXTENDS Integers, Sequences, FiniteSets, Functions

CONSTANTS
  FacetId, Address, Selector, InterfaceId, Config, Proxy,
  Zero,               \* address(0) and bytes32(0)
  SelectorsOf,        \* getStaticFunctionSelectors() of an implementation
  InterfacesOf,       \* getStaticInterfaceIds() of an implementation
  FacetLists,         \* bound: the facet configurations in call data, by
                      \* the configuration they are for
  BlacklistSets,      \* bound: the selector lists in blacklist calls, same
  MaxFacetVersions,   \* bound: registrations
  MaxVersions         \* bound: versions of each configuration

ASSUME ResolverAssumption ==
  /\ Zero \notin Address \cup FacetId
  /\ SelectorsOf \in [Address -> SUBSET Selector]
  /\ InterfacesOf \in [Address -> SUBSET InterfaceId]
  /\ \A c \in Config : BlacklistSets[c] \subseteq SUBSET Selector
  /\ MaxFacetVersions \in Nat
  /\ MaxVersions \in [Config -> Nat]

(* A facet in the call data of a configuration: its id and its version.    *)
FacetConfiguration == [id : FacetId, version : Nat]

ASSUME FacetListsAssumption ==
  \A c \in Config : FacetLists[c] \subseteq Seq(FacetConfiguration) \ {<<>>}

VARIABLES
  logics,         \* logics[f]: the implementations of facet f by version
  blacklist,      \* selectorBlacklist
  active,         \* the configurations with an activated version
  latestVersion,
  batchVersion,   \* the version under construction, 0 when there is none
  content,        \* content[c][v]: all that is stored under hash(c, v, ...)
  proxy           \* proxy[p]: the configuration and version it follows

vars == <<logics, blacklist, active, latestVersion, batchVersion, content, proxy>>

Version(c) == 0..MaxVersions[c]

(* facetIds and facetVersions, addr, selectors, facetAddress with          *)
(* selectorToFacetId, interfaceIds and supportsInterface.                  *)
Content ==
  [facets : Seq(FacetConfiguration),
   addr : [FacetId -> Address \cup {Zero}],
   selectors : [FacetId -> SUBSET Selector],
   facetAddress : [Selector -> Address \cup {Zero}],
   selectorToFacetId : [Selector -> FacetId \cup {Zero}],
   interfaceIds : [FacetId -> SUBSET InterfaceId],
   supportsInterface : SUBSET InterfaceId]

Empty ==
  [facets |-> <<>>,
   addr |-> [f \in FacetId |-> Zero],
   selectors |-> [f \in FacetId |-> {}],
   facetAddress |-> [s \in Selector |-> Zero],
   selectorToFacetId |-> [s \in Selector |-> Zero],
   interfaceIds |-> [f \in FacetId |-> {}],
   supportsInterface |-> {}]

Undeployed == <<>>

ResolverTypeOK ==
  /\ logics \in [FacetId -> Seq(Address)]
  /\ blacklist \in [Config -> SUBSET Selector]
  /\ active \subseteq Config
  /\ latestVersion \in [Config -> Nat]
  /\ batchVersion \in [Config -> Nat]
  /\ \A c \in Config : /\ latestVersion[c] \in Version(c)
                       /\ batchVersion[c] \in {0, latestVersion[c] + 1} \cap Version(c)
                       /\ latestVersion[c] > 0 <=> c \in active
  /\ DOMAIN content = Config
  /\ \A c \in Config : content[c] \in [Version(c) -> Content]
  /\ proxy \in [Proxy -> (Config \X Nat) \cup {Undeployed}]

Init ==
  /\ logics = [f \in FacetId |-> <<>>]
  /\ blacklist = [c \in Config |-> {}]
  /\ active = {}
  /\ latestVersion = [c \in Config |-> 0]
  /\ batchVersion = [c \in Config |-> 0]
  /\ content = [c \in Config |-> [v \in Version(c) |-> Empty]]
  /\ proxy = [p \in Proxy |-> Undeployed]

-----------------------------------------------------------------------------
(* Business logics                                                         *)

RegisteredFacets == {f \in FacetId : logics[f] # <<>>}      \* businessLogicActive

(* registerBusinessLogics: an implementation for every facet registered so *)
(* far and for any number of new ones; each gets its own next version.     *)
RegisterBusinessLogics(implementation) ==
  LET keys == DOMAIN implementation
  IN  /\ keys # {}                              \* EmptyBusinessLogicList
      /\ RegisteredFacets \subseteq keys        \* AllBusinessLogicKeysMustBeenInformed
      /\ \A f \in keys : Len(logics[f]) < MaxFacetVersions
      /\ logics' = [f \in FacetId |-> IF f \in keys
                      THEN Append(logics[f], implementation[f]) ELSE logics[f]]
      /\ UNCHANGED <<blacklist, active, latestVersion, batchVersion, content, proxy>>

(* _resolveBusinessLogicByVersion: the index of a version nobody           *)
(* registered reads as 0, so such a version is the facet's first one.      *)
Resolve(f, version) ==
  IF f \notin RegisteredFacets THEN Zero
  ELSE logics[f][IF version \in 1..Len(logics[f]) THEN version ELSE 1]

SetBlacklist(c, selectors) ==
  /\ blacklist' = [blacklist EXCEPT ![c] = selectors]
  /\ UNCHANGED <<logics, active, latestVersion, batchVersion, content, proxy>>

AddSelectorsToBlacklist(c, selectors) == SetBlacklist(c, blacklist[c] \cup selectors)
RemoveSelectorsFromBlacklist(c, selectors) == SetBlacklist(c, blacklist[c] \ selectors)

-----------------------------------------------------------------------------
(* Configurations                                                          *)

IsOngoing(c) == batchVersion[c] # 0

(* The version a batch writes to: the ongoing one or the next.             *)
TargetVersion(c) == IF IsOngoing(c) THEN batchVersion[c] ELSE latestVersion[c] + 1

(* The position in `list' of the last facet whose implementation has       *)
(* selector s, 0 when there is none: a later facet overwrites the entry    *)
(* an earlier one made for the selector.                                   *)
LastWith(list, s) ==
  LET having == {i \in DOMAIN list :
                   s \in SelectorsOf[Resolve(list[i].id, list[i].version)]}
  IN  IF having = {} THEN 0 ELSE CHOOSE i \in having : \A k \in having : k <= i

(* _addFacetsToBatchConfiguration on what is stored for the version.       *)
WithFacets(stored, list) ==
  LET Added(f) == {Resolve(list[i].id, list[i].version) :
                     i \in {k \in DOMAIN list : list[k].id = f}}
      Impl(i) == Resolve(list[i].id, list[i].version)
  IN  [facets |-> stored.facets \o list,
       addr |-> [f \in FacetId |-> IF Added(f) = {} THEN stored.addr[f]
                                   ELSE CHOOSE a \in Added(f) : TRUE],
       selectors |-> [f \in FacetId |-> IF Added(f) = {} THEN stored.selectors[f]
                                        ELSE UNION {SelectorsOf[a] : a \in Added(f)}],
       facetAddress |-> [s \in Selector |-> IF LastWith(list, s) = 0
                           THEN stored.facetAddress[s] ELSE Impl(LastWith(list, s))],
       selectorToFacetId |-> [s \in Selector |-> IF LastWith(list, s) = 0
                           THEN stored.selectorToFacetId[s] ELSE list[LastWith(list, s)].id],
       interfaceIds |-> [f \in FacetId |-> IF Added(f) = {} THEN stored.interfaceIds[f]
                                           ELSE UNION {InterfacesOf[a] : a \in Added(f)}],
       supportsInterface |-> stored.supportsInterface
                               \cup UNION {InterfacesOf[Impl(i)] : i \in DOMAIN list}]

(* A slip: a facet that an earlier batch added is not looked for.          *)
CanAddTwice(c, stored, list) ==
  /\ \A i \in DOMAIN list :
       /\ list[i].id \in RegisteredFacets
       /\ SelectorsOf[Resolve(list[i].id, list[i].version)] \cap blacklist[c] = {}
  /\ \A i, k \in DOMAIN list : i # k => list[i].id # list[k].id

(* The reverts of _addFacetsToBatchConfiguration and _registerSelectors.   *)
CanAdd(c, stored, list) ==
  /\ \A i \in DOMAIN list :
       /\ list[i].id \in RegisteredFacets                  \* FacetIdNotRegistered
       /\ stored.addr[list[i].id] = Zero                   \* DuplicatedFacet...
       /\ SelectorsOf[Resolve(list[i].id, list[i].version)]
            \cap blacklist[c] = {}                         \* SelectorBlacklisted
  /\ \A i, k \in DOMAIN list : i # k => list[i].id # list[k].id

(* A slip: the batch stays open once it is published.                      *)
ActivateKeepingBatch(c, version, isLastBatch) ==
  /\ active' = IF isLastBatch THEN active \cup {c} ELSE active
  /\ latestVersion' = IF isLastBatch THEN [latestVersion EXCEPT ![c] = version]
                      ELSE latestVersion
  /\ batchVersion' = [batchVersion EXCEPT ![c] = version]

(* _activateConfiguration: the last batch publishes the version.           *)
ActivateConfiguration(c, version, isLastBatch) ==
  \/ /\ isLastBatch
     /\ active' = active \cup {c}
     /\ latestVersion' = [latestVersion EXCEPT ![c] = version]
     /\ batchVersion' = [batchVersion EXCEPT ![c] = 0]
  \/ /\ ~isLastBatch
     /\ batchVersion' = [batchVersion EXCEPT ![c] = version]
     /\ UNCHANGED <<active, latestVersion>>

CreateBatchConfiguration(c, list, isLastBatch) ==
  LET version == TargetVersion(c)
  IN  /\ version \in Version(c)                            \* bound
      /\ CanAdd(c, content[c][version], list)
      /\ content' = [content EXCEPT ![c][version] = WithFacets(@, list)]
      /\ ActivateConfiguration(c, version, isLastBatch)
      /\ UNCHANGED <<logics, blacklist, proxy>>

(* createConfiguration also finishes a batch somebody left open.           *)
CreateConfiguration(c, list) == CreateBatchConfiguration(c, list, TRUE)

(* A slip: the facets are cleaned but not the dispatch of their selectors. *)
CleanedButDispatch(stored) ==
  [Empty EXCEPT !.facetAddress = stored.facetAddress,
                !.selectorToFacetId = stored.selectorToFacetId]

(* What _cancelBatchConfiguration leaves of what is stored for a version:  *)
(* it walks the facet ids listed and, for each, its selectors and          *)
(* interface ids.                                                          *)
Cleaned(stored) ==
  LET facets == {stored.facets[i].id : i \in DOMAIN stored.facets}
      selectors == UNION {stored.selectors[f] : f \in facets}
      interfaces == UNION {stored.interfaceIds[f] : f \in facets}
  IN  [facets |-> <<>>,
       addr |-> [f \in FacetId |-> IF f \in facets THEN Zero ELSE stored.addr[f]],
       selectors |-> [f \in FacetId |-> IF f \in facets THEN {} ELSE stored.selectors[f]],
       facetAddress |-> [s \in Selector |->
         IF s \in selectors THEN Zero ELSE stored.facetAddress[s]],
       selectorToFacetId |-> [s \in Selector |->
         IF s \in selectors THEN Zero ELSE stored.selectorToFacetId[s]],
       interfaceIds |-> [f \in FacetId |->
         IF f \in facets THEN {} ELSE stored.interfaceIds[f]],
       supportsInterface |-> stored.supportsInterface \ interfaces]

(* A slip: the latest version is cleaned instead of the batch's.           *)
CancelLatest(c) ==
  /\ content' = [content EXCEPT ![c][latestVersion[c]] = Cleaned(@)]
  /\ batchVersion' = [batchVersion EXCEPT ![c] = 0]
  /\ UNCHANGED <<logics, blacklist, active, latestVersion, proxy>>

(* cancelBatchConfiguration: without an ongoing batch it cleans version 0, *)
(* where nothing is ever stored.                                           *)
CancelBatchConfiguration(c) ==
  /\ content' = [content EXCEPT ![c][batchVersion[c]] = Cleaned(@)]
  /\ batchVersion' = [batchVersion EXCEPT ![c] = 0]
  /\ UNCHANGED <<logics, blacklist, active, latestVersion, proxy>>

-----------------------------------------------------------------------------
(* Proxies                                                                 *)

(* _checkResolverProxyConfigurationRegistered.                             *)
IsRegistered(c, version) == c \in active /\ version <= latestVersion[c]

SetConfig(p, c, version) ==
  /\ IsRegistered(c, version)
  /\ proxy' = [proxy EXCEPT ![p] = <<c, version>>]
  /\ UNCHANGED <<logics, blacklist, active, latestVersion, batchVersion, content>>

(* The constructor of a ResolverProxy.                                     *)
DeployProxy(p, c, version) == proxy[p] = Undeployed /\ SetConfig(p, c, version)

UpdateConfig(p, c, version) == proxy[p] # Undeployed /\ SetConfig(p, c, version)

UpdateConfigVersion(p, version) ==
  proxy[p] # Undeployed /\ SetConfig(p, proxy[p][1], version)

Next ==
  \/ \E keys \in SUBSET FacetId : \E implementation \in [keys -> Address] :
       RegisterBusinessLogics(implementation)
  \/ \E c \in Config :
       \/ \E selectors \in BlacklistSets[c] :
            \/ AddSelectorsToBlacklist(c, selectors)
            \/ RemoveSelectorsFromBlacklist(c, selectors)
       \/ \E list \in FacetLists[c] :
            \/ CreateConfiguration(c, list)
            \/ \E isLastBatch \in BOOLEAN : CreateBatchConfiguration(c, list, isLastBatch)
       \/ CancelBatchConfiguration(c)
       \/ \E p \in Proxy, version \in Version(c) :
            \/ DeployProxy(p, c, version)
            \/ UpdateConfig(p, c, version)
  \/ \E p \in Proxy, version \in UNION {Version(c) : c \in Config} :
       UpdateConfigVersion(p, version)

Spec == Init /\ [][Next]_vars

-----------------------------------------------------------------------------

(* What is stored for a version nobody activated and no batch is building  *)
(* is empty: a cancelled batch leaves no selector behind that the next     *)
(* batch, which reuses its version number, would publish unawares.         *)
NothingBesidesTheBatch ==
  \A c \in Config : \A v \in Version(c) :
    v \notin 1..latestVersion[c] /\ v # batchVersion[c] => content[c][v] = Empty

(* The dispatch table and the loupe tell one story: a selector that is     *)
(* dispatched goes to the implementation of the facet named for it, a      *)
(* facet that is part of the configuration and lists the selector, and     *)
(* every selector a facet lists is dispatched.                             *)
DispatchAgreesWithLoupe ==
  \A c \in Config : \A v \in Version(c) :
    LET stored == content[c][v]
    IN  \A s \in Selector :
          LET f == stored.selectorToFacetId[s]
          IN  \/ /\ f = Zero
                 /\ stored.facetAddress[s] = Zero
                 /\ \A g \in FacetId : s \notin stored.selectors[g]
              \/ /\ f # Zero
                 /\ stored.facetAddress[s] = stored.addr[f]
                 /\ stored.addr[f] # Zero
                 /\ s \in stored.selectors[f]

(* The part of what is stored that decides where a proxy's calls go.       *)
Table(stored) == [dispatch |-> stored.facetAddress, interfaces |-> stored.supportsInterface]
Registry ==
  INSTANCE ConfigurationRegistry
    WITH DispatchTable <- [dispatch : [Selector -> Address \cup {Zero}],
                           interfaces : SUBSET InterfaceId],
         published <- [c \in Config |->
                         [v \in 1..latestVersion[c] |-> Table(content[c][v])]],
         follows <- proxy

(* Versions are append-only and proxies follow published ones only: no     *)
(* batch, cancellation, blacklisting or registration of logic changes what *)
(* a deployed proxy pinned to a version executes.                          *)
ImplementsRegistry == Registry!RegistrySpec
=============================================================================
