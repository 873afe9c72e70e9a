--------------------------- MODULE ResolverProofs ---------------------------
(***************************************************************************)
(* The resolver, for any facets, implementations, selectors, lists of      *)
(* facets and numbers of versions: what is stored for a version is         *)
(* described by its list of facets, so a cancelled batch leaves nothing;   *)
(* the dispatch and the loupe agree; and published versions never change.  *)
(***************************************************************************)
EXTENDS Resolver, SequenceTheorems, WellFoundedInduction, TLAPS

FacetIds(stored) == {stored.facets[i].id : i \in DOMAIN stored.facets}

(* All that is stored for a version can be found from its list of facets:  *)
(* _cancelBatchConfiguration looks nowhere else.  And a facet in the list  *)
(* has an implementation: that is how a second batch recognises it.        *)
Described(stored) ==
  /\ \A f \in FacetIds(stored) : stored.addr[f] # Zero
  /\ \A f \in FacetId \ FacetIds(stored) :
       stored.addr[f] = Zero /\ stored.selectors[f] = {} /\ stored.interfaceIds[f] = {}
  /\ \A s \in Selector : (\A f \in FacetId : s \notin stored.selectors[f]) =>
       stored.facetAddress[s] = Zero /\ stored.selectorToFacetId[s] = Zero
  /\ \A n \in stored.supportsInterface : \E f \in FacetId : n \in stored.interfaceIds[f]

(* The dispatch and the loupe of one version.                              *)
Agreeing(stored) ==
  \A s \in Selector :
    LET f == stored.selectorToFacetId[s]
    IN  \/ /\ f = Zero
           /\ stored.facetAddress[s] = Zero
           /\ \A g \in FacetId : s \notin stored.selectors[g]
        \/ /\ f # Zero
           /\ stored.facetAddress[s] = stored.addr[f]
           /\ stored.addr[f] # Zero
           /\ s \in stored.selectors[f]

ContentOK(stored) == stored \in Content /\ Described(stored) /\ Agreeing(stored)

(* Version 0 is what cancelBatchConfiguration cleans without a batch.      *)
Inv ==
  /\ ResolverTypeOK
  /\ NothingBesidesTheBatch
  /\ \A c \in Config : /\ \A v \in Version(c) : ContentOK(content[c][v])
                       /\ content[c][0] = Empty

-----------------------------------------------------------------------------
(* What is stored for one version                                          *)

(* Nothing is in order.                                                    *)
LEMMA EmptyOK == ContentOK(Empty)
<1>1. /\ Empty.facets = <<>>
      /\ Empty.addr = [f \in FacetId |-> Zero]
      /\ Empty.selectors = [f \in FacetId |-> {}]
      /\ Empty.facetAddress = [s \in Selector |-> Zero]
      /\ Empty.selectorToFacetId = [s \in Selector |-> Zero]
      /\ Empty.interfaceIds = [f \in FacetId |-> {}]
      /\ Empty.supportsInterface = {}
  BY DEF Empty
<1>2. Empty \in Content
  BY DEF Empty, Content
<1>3. FacetIds(Empty) = {}
  BY <1>1 DEF FacetIds
<1> QED
  BY <1>1, <1>2, <1>3 DEF ContentOK, Described, Agreeing

(* Cleaning what is described leaves nothing.                              *)
LEMMA CleanedIsEmpty ==
  ASSUME NEW stored, ContentOK(stored)
  PROVE  Cleaned(stored) = Empty
<1> DEFINE ids == FacetIds(stored)
           sels == UNION {stored.selectors[f] : f \in ids}
           ints == UNION {stored.interfaceIds[f] : f \in ids}
<1>1. /\ stored.addr \in [FacetId -> Address \cup {Zero}]
      /\ stored.selectors \in [FacetId -> SUBSET Selector]
      /\ stored.facetAddress \in [Selector -> Address \cup {Zero}]
      /\ stored.interfaceIds \in [FacetId -> SUBSET InterfaceId]
      /\ stored.supportsInterface \in SUBSET InterfaceId
  BY DEF ContentOK, Content
<1>2. [f \in FacetId |-> IF f \in ids THEN Zero ELSE stored.addr[f]]
        = [f \in FacetId |-> Zero]
  BY DEF ContentOK, Described
<1>3. [f \in FacetId |-> IF f \in ids THEN {} ELSE stored.selectors[f]]
        = [f \in FacetId |-> {}]
  BY DEF ContentOK, Described
<1>4. [f \in FacetId |-> IF f \in ids THEN {} ELSE stored.interfaceIds[f]]
        = [f \in FacetId |-> {}]
  BY DEF ContentOK, Described
<1>5. ASSUME NEW s \in Selector, s \notin sels
      PROVE  stored.facetAddress[s] = Zero /\ stored.selectorToFacetId[s] = Zero
  <2>1. ASSUME NEW f \in FacetId
        PROVE  s \notin stored.selectors[f]
    <3>1. CASE f \in ids
      BY <1>5, <3>1
    <3>2. CASE f \notin ids
      BY <3>2 DEF ContentOK, Described
    <3> QED
      BY <3>1, <3>2
  <2> QED
    BY <2>1 DEF ContentOK, Described
<1>6. stored.supportsInterface \ ints = {}
  <2>1. ASSUME NEW n \in stored.supportsInterface
        PROVE  n \in ints
    <3>1. PICK f \in FacetId : n \in stored.interfaceIds[f]
      BY DEF ContentOK, Described
    <3>2. f \in ids
      BY <3>1 DEF ContentOK, Described
    <3> QED
      BY <3>1, <3>2
  <2> QED
    BY <2>1
<1> HIDE DEF ids, sels, ints
<1>7. /\ [s \in Selector |-> IF s \in sels THEN Zero ELSE stored.facetAddress[s]]
          = [s \in Selector |-> Zero]
      /\ [s \in Selector |-> IF s \in sels THEN Zero ELSE stored.selectorToFacetId[s]]
          = [s \in Selector |-> Zero]
  BY <1>5
<1>8. Cleaned(stored) =
        [facets |-> <<>>,
         addr |-> [f \in FacetId |-> IF f \in ids THEN Zero ELSE stored.addr[f]],
         selectors |-> [f \in FacetId |-> IF f \in ids THEN {} ELSE stored.selectors[f]],
         facetAddress |-> [s \in Selector |-> IF s \in sels THEN Zero ELSE stored.facetAddress[s]],
         selectorToFacetId |-> [s \in Selector |-> IF s \in sels THEN Zero ELSE stored.selectorToFacetId[s]],
         interfaceIds |-> [f \in FacetId |-> IF f \in ids THEN {} ELSE stored.interfaceIds[f]],
         supportsInterface |-> stored.supportsInterface \ ints]
  BY Zenon DEF Cleaned, ids, sels, ints, FacetIds
<1> QED
  BY <1>2, <1>3, <1>4, <1>6, <1>7, <1>8 DEF Empty

(* The implementations a list of registered facets stands for.             *)
LEMMA ResolveIs ==
  ASSUME ResolverTypeOK, NEW f \in RegisteredFacets, NEW version \in Nat
  PROVE  Resolve(f, version) \in Address
<1>1. f \in FacetId /\ logics[f] \in Seq(Address) /\ logics[f] # <<>>
  BY DEF RegisteredFacets, ResolverTypeOK
<1>2. 1 \in 1..Len(logics[f])
  BY <1>1
<1>3. \A k \in 1..Len(logics[f]) : logics[f][k] \in Address
  BY <1>1
<1> QED
  BY <1>2, <1>3 DEF Resolve

(* A set of positions has a largest: the distances of the others from its  *)
(* end have a smallest.                                                    *)
LEMMA LargestExists ==
  ASSUME NEW n \in Nat, NEW S \in SUBSET (1..n), S # {}
  PROVE  \E i \in S : \A k \in S : k <= i
<1> DEFINE T == {n - i : i \in S}
           R == {ss \in Nat \X Nat : ss[1] < ss[2]}
<1>1. T \subseteq Nat /\ T # {}
  <2>1. \A i \in S : n - i \in Nat
    OBVIOUS
  <2>2. \E i \in S : n - i \in T
    OBVIOUS
  <2> QED
    BY <2>1, <2>2
<1>2. \A x \in T, y \in T : y < x => <<y, x>> \in R
  BY <1>1
<1>3. IsWellFoundedOn(R, Nat)
  BY NatLessThanWellFounded DEF OpToRel
<1>4. \E x \in T : \A y \in T : ~(<<y, x>> \in R)
  <2> HIDE DEF T, R
  <2> QED BY <1>1, <1>3, WFMin
<1>5. PICK x \in T : \A y \in T : ~(<<y, x>> \in R)
  BY <1>4
<1>6. \A y \in T : ~(y < x)
  BY <1>2, <1>5
<1>7. PICK i \in S : x = n - i
  OBVIOUS
<1>8. \A k \in S : n - k \in T
  OBVIOUS
<1> HIDE DEF T, R
<1>9. \A k \in S : ~(n - k < n - i)
  BY <1>6, <1>7, <1>8
<1>10. ASSUME NEW k \in S
       PROVE  k <= i
  <2>1. k \in Int /\ i \in Int /\ ~(n - k < n - i)
    BY <1>9
  <2> QED
    BY <2>1
<1> QED
  BY <1>10

(* The last facet with a selector has it, and there is none only if no     *)
(* facet has.                                                              *)
LEMMA LastWithIs ==
  ASSUME NEW list \in Seq(FacetConfiguration), NEW s
  PROVE  /\ LastWith(list, s) = 0 => \A i \in DOMAIN list :
              s \notin SelectorsOf[Resolve(list[i].id, list[i].version)]
         /\ LastWith(list, s) # 0 =>
              /\ LastWith(list, s) \in DOMAIN list
              /\ s \in SelectorsOf[Resolve(list[LastWith(list, s)].id,
                                           list[LastWith(list, s)].version)]
<1> DEFINE having == {i \in DOMAIN list :
                        s \in SelectorsOf[Resolve(list[i].id, list[i].version)]}
<1>1. having \in SUBSET (1..Len(list)) /\ Len(list) \in Nat
  OBVIOUS
<1>2. LastWith(list, s) = IF having = {} THEN 0
                          ELSE CHOOSE i \in having : \A k \in having : k <= i
  BY DEF LastWith
<1>3. CASE having = {}
  BY <1>2, <1>3
<1>4. CASE having # {}
  <2> HIDE DEF having
  <2>1. \E i \in having : \A k \in having : k <= i
    BY <1>1, <1>4, LargestExists
  <2>2. LastWith(list, s) \in having
    BY <1>2, <1>4, <2>1
  <2>3. LastWith(list, s) # 0
    BY <1>1, <2>2
  <2> QED
    BY <1>1, <2>2, <2>3 DEF having
<1> QED
  BY <1>3, <1>4

(* What a list adds, field by field: each of its facets comes with its own *)
(* implementation, the others keep what they have.                         *)
Extension(stored, list, W) ==
  LET Impl(i) == Resolve(list[i].id, list[i].version)
      ids == {list[i].id : i \in DOMAIN list}
  IN  /\ \A i \in DOMAIN list : /\ list[i].id \in FacetId
                                /\ W.addr[list[i].id] = Impl(i)
                                /\ W.selectors[list[i].id] = SelectorsOf[Impl(i)]
                                /\ W.interfaceIds[list[i].id] = InterfacesOf[Impl(i)]
      /\ \A f \in FacetId \ ids : /\ W.addr[f] = stored.addr[f]
                                  /\ W.selectors[f] = stored.selectors[f]
                                  /\ W.interfaceIds[f] = stored.interfaceIds[f]
      /\ W.facets = stored.facets \o list
      /\ W.supportsInterface = stored.supportsInterface
             \cup UNION {InterfacesOf[Impl(i)] : i \in DOMAIN list}
      /\ \A s \in Selector :
           \/ /\ \A i \in DOMAIN list : s \notin SelectorsOf[Impl(i)]
              /\ W.facetAddress[s] = stored.facetAddress[s]
              /\ W.selectorToFacetId[s] = stored.selectorToFacetId[s]
           \/ \E i \in DOMAIN list : /\ s \in SelectorsOf[Impl(i)]
                                     /\ W.facetAddress[s] = Impl(i)
                                     /\ W.selectorToFacetId[s] = list[i].id

(* That is what _addFacetsToBatchConfiguration adds.                       *)
LEMMA WithFacetsExtends ==
  ASSUME NEW stored, NEW list \in Seq(FacetConfiguration),
         \A i, k \in DOMAIN list : i # k => list[i].id # list[k].id
  PROVE  Extension(stored, list, WithFacets(stored, list))
<1> DEFINE W == WithFacets(stored, list)
           Impl(i) == Resolve(list[i].id, list[i].version)
           ids == {list[i].id : i \in DOMAIN list}
           Added(f) == {Impl(i) : i \in {k \in DOMAIN list : list[k].id = f}}
           addr == [f \in FacetId |-> IF Added(f) = {} THEN stored.addr[f]
                                       ELSE CHOOSE a \in Added(f) : TRUE]
           selectors == [f \in FacetId |-> IF Added(f) = {} THEN stored.selectors[f]
                                            ELSE UNION {SelectorsOf[a] : a \in Added(f)}]
           table == [s \in Selector |-> IF LastWith(list, s) = 0
                       THEN stored.facetAddress[s] ELSE Impl(LastWith(list, s))]
           named == [s \in Selector |-> IF LastWith(list, s) = 0
                       THEN stored.selectorToFacetId[s] ELSE list[LastWith(list, s)].id]
           interfaceIds == [f \in FacetId |-> IF Added(f) = {} THEN stored.interfaceIds[f]
                                               ELSE UNION {InterfacesOf[a] : a \in Added(f)}]
           supported == stored.supportsInterface
                          \cup UNION {InterfacesOf[Impl(i)] : i \in DOMAIN list}
<1>1. W = [facets |-> stored.facets \o list, addr |-> addr, selectors |-> selectors,
           facetAddress |-> table, selectorToFacetId |-> named,
           interfaceIds |-> interfaceIds, supportsInterface |-> supported]
  BY Zenon DEF WithFacets
<1>2. ASSUME NEW i \in DOMAIN list
      PROVE  list[i].id \in FacetId /\ Added(list[i].id) = {Impl(i)}
  <2>1. list[i].id \in FacetId
    <3>1. list[i] \in FacetConfiguration
      OBVIOUS
    <3> QED
      BY <3>1 DEF FacetConfiguration
  <2>2. {k \in DOMAIN list : list[k].id = list[i].id} = {i}
    OBVIOUS
  <2> HIDE DEF Impl
  <2> QED
    BY <2>1, <2>2
<1>3. ASSUME NEW f \in FacetId \ ids
      PROVE  Added(f) = {}
  OBVIOUS
<1>4. ASSUME NEW s \in Selector
      PROVE  \/ /\ \A i \in DOMAIN list : s \notin SelectorsOf[Impl(i)]
                /\ table[s] = stored.facetAddress[s]
                /\ named[s] = stored.selectorToFacetId[s]
             \/ \E i \in DOMAIN list : /\ s \in SelectorsOf[Impl(i)]
                                       /\ table[s] = Impl(i)
                                       /\ named[s] = list[i].id
  <2>1. CASE LastWith(list, s) = 0
    BY <2>1, LastWithIs
  <2>2. CASE LastWith(list, s) # 0
    <3>1. LastWith(list, s) \in DOMAIN list /\ s \in SelectorsOf[Impl(LastWith(list, s))]
      BY <2>2, LastWithIs
    <3>2. table[s] = Impl(LastWith(list, s)) /\ named[s] = list[LastWith(list, s)].id
      BY <2>2
    <3> HIDE DEF table, named, Impl
    <3> QED
      BY <3>1, <3>2
  <2> QED
    BY <2>1, <2>2
<1> HIDE DEF Added, Impl
<1>5. ASSUME NEW i \in DOMAIN list
      PROVE  /\ addr[list[i].id] = Impl(i)
             /\ selectors[list[i].id] = SelectorsOf[Impl(i)]
             /\ interfaceIds[list[i].id] = InterfacesOf[Impl(i)]
  BY <1>2
<1>6. ASSUME NEW f \in FacetId \ ids
      PROVE  /\ addr[f] = stored.addr[f]
             /\ selectors[f] = stored.selectors[f]
             /\ interfaceIds[f] = stored.interfaceIds[f]
  BY <1>3
<1> HIDE DEF addr, selectors, table, named, interfaceIds, supported, W, ids
<1>7. /\ W.facets = stored.facets \o list /\ W.addr = addr /\ W.selectors = selectors
      /\ W.facetAddress = table /\ W.selectorToFacetId = named
      /\ W.interfaceIds = interfaceIds /\ W.supportsInterface = supported
  BY <1>1
<1>8. supported = stored.supportsInterface
                    \cup UNION {InterfacesOf[Impl(i)] : i \in DOMAIN list}
  BY DEF supported
<1> QED
  BY <1>2, <1>4, <1>5, <1>6, <1>7, <1>8 DEF Extension, W, Impl, ids
(* The facets the reverts let through keep a version in order: none of     *)
(* them has been added to it before, so what the earlier ones stored is    *)
(* overwritten in the dispatch table alone.                                *)
LEMMA WithFacetsOK ==
  ASSUME ResolverTypeOK, NEW c \in Config, NEW stored, ContentOK(stored),
         NEW list \in Seq(FacetConfiguration), CanAdd(c, stored, list)
  PROVE  ContentOK(WithFacets(stored, list))
<1> DEFINE W == WithFacets(stored, list)
           Impl(i) == Resolve(list[i].id, list[i].version)
           ids == {list[i].id : i \in DOMAIN list}
<1>1. /\ stored.facets \in Seq(FacetConfiguration)
      /\ stored.addr \in [FacetId -> Address \cup {Zero}]
      /\ stored.selectors \in [FacetId -> SUBSET Selector]
      /\ stored.facetAddress \in [Selector -> Address \cup {Zero}]
      /\ stored.selectorToFacetId \in [Selector -> FacetId \cup {Zero}]
      /\ stored.interfaceIds \in [FacetId -> SUBSET InterfaceId]
      /\ stored.supportsInterface \in SUBSET InterfaceId
  BY DEF ContentOK, Content
<1>2. \A i, k \in DOMAIN list : i # k => list[i].id # list[k].id
  BY DEF CanAdd
<1>3. /\ \A i \in DOMAIN list : /\ list[i].id \in FacetId
                                /\ W.addr[list[i].id] = Impl(i)
                                /\ W.selectors[list[i].id] = SelectorsOf[Impl(i)]
                                /\ W.interfaceIds[list[i].id] = InterfacesOf[Impl(i)]
      /\ \A f \in FacetId \ ids : /\ W.addr[f] = stored.addr[f]
                                  /\ W.selectors[f] = stored.selectors[f]
                                  /\ W.interfaceIds[f] = stored.interfaceIds[f]
      /\ W.facets = stored.facets \o list
      /\ W.supportsInterface = stored.supportsInterface
             \cup UNION {InterfacesOf[Impl(i)] : i \in DOMAIN list}
      /\ \A s \in Selector :
           \/ /\ \A i \in DOMAIN list : s \notin SelectorsOf[Impl(i)]
              /\ W.facetAddress[s] = stored.facetAddress[s]
              /\ W.selectorToFacetId[s] = stored.selectorToFacetId[s]
           \/ \E i \in DOMAIN list : /\ s \in SelectorsOf[Impl(i)]
                                     /\ W.facetAddress[s] = Impl(i)
                                     /\ W.selectorToFacetId[s] = list[i].id
  <2>1. Extension(stored, list, W)
    BY <1>2, WithFacetsExtends
  <2> HIDE DEF W
  <2> QED
    BY <2>1 DEF Extension
<1>4. ASSUME NEW i \in DOMAIN list
      PROVE  /\ Impl(i) \in Address /\ Impl(i) # Zero
             /\ stored.addr[list[i].id] = Zero
             /\ SelectorsOf[Impl(i)] \in SUBSET Selector
             /\ InterfacesOf[Impl(i)] \in SUBSET InterfaceId
  <2>1. list[i] \in FacetConfiguration
    OBVIOUS
  <2>2. list[i].version \in Nat
    BY <2>1 DEF FacetConfiguration
  <2>3. list[i].id \in RegisteredFacets /\ stored.addr[list[i].id] = Zero
    BY DEF CanAdd
  <2>4. Impl(i) \in Address
    BY <2>2, <2>3, ResolveIs
  <2> HIDE DEF Impl
  <2> QED
    BY <2>3, <2>4, ResolverAssumption
<1> HIDE DEF Impl, W
<1>5. FacetIds(W) = FacetIds(stored) \cup ids
  <2>1. /\ W.facets \in Seq(FacetConfiguration)
        /\ Len(W.facets) = Len(stored.facets) + Len(list)
        /\ \A i \in 1..Len(stored.facets) : W.facets[i] = stored.facets[i]
        /\ \A i \in 1..Len(list) : W.facets[i + Len(stored.facets)] = list[i]
    BY <1>1, <1>3
  <2>2. ASSUME NEW i \in DOMAIN W.facets
        PROVE  W.facets[i].id \in FacetIds(stored) \cup ids
    <3>1. CASE i \in 1..Len(stored.facets)
      BY <1>1, <2>1, <3>1 DEF FacetIds
    <3>2. CASE i \notin 1..Len(stored.facets)
      <4>1. i - Len(stored.facets) \in 1..Len(list)
        BY <1>1, <2>1, <3>2
      <4>2. W.facets[i] = list[i - Len(stored.facets)]
        BY <1>1, <2>1, <4>1
      <4> QED
        BY <4>1, <4>2
    <3> QED
      BY <3>1, <3>2
  <2>3. ASSUME NEW i \in DOMAIN stored.facets
        PROVE  stored.facets[i].id \in FacetIds(W)
    <3>1. i \in DOMAIN W.facets /\ W.facets[i] = stored.facets[i]
      BY <1>1, <2>1
    <3> QED
      BY <3>1 DEF FacetIds
  <2>4. ASSUME NEW i \in DOMAIN list
        PROVE  list[i].id \in FacetIds(W)
    <3>1. /\ i + Len(stored.facets) \in DOMAIN W.facets
          /\ W.facets[i + Len(stored.facets)] = list[i]
      BY <1>1, <2>1
    <3> QED
      BY <3>1 DEF FacetIds
  <2> QED
    BY <2>2, <2>3, <2>4 DEF FacetIds
<1>6. W \in Content
  <2> DEFINE addr == W.addr
             selectors == W.selectors
             table == W.facetAddress
             named == W.selectorToFacetId
             interfaceIds == W.interfaceIds
             supported == W.supportsInterface
  <2>1. /\ W = [facets |-> W.facets, addr |-> addr, selectors |-> selectors,
                facetAddress |-> table, selectorToFacetId |-> named,
                interfaceIds |-> interfaceIds, supportsInterface |-> supported]
        /\ addr = [f \in FacetId |-> addr[f]]
        /\ selectors = [f \in FacetId |-> selectors[f]]
        /\ table = [s \in Selector |-> table[s]]
        /\ named = [s \in Selector |-> named[s]]
        /\ interfaceIds = [f \in FacetId |-> interfaceIds[f]]
    BY DEF W, WithFacets
  <2>2. W.facets \in Seq(FacetConfiguration)
    BY <1>1, <1>3
  <2>3. \A f \in FacetId : /\ W.addr[f] \in Address \cup {Zero}
                           /\ W.selectors[f] \in SUBSET Selector
                           /\ W.interfaceIds[f] \in SUBSET InterfaceId
    <3> SUFFICES ASSUME NEW f \in FacetId
                 PROVE  /\ W.addr[f] \in Address \cup {Zero}
                        /\ W.selectors[f] \in SUBSET Selector
                        /\ W.interfaceIds[f] \in SUBSET InterfaceId
      OBVIOUS
    <3>1. CASE f \in ids
      <4>1. PICK i \in DOMAIN list : f = list[i].id
        BY <3>1
      <4> QED
        BY <1>3, <1>4, <4>1
    <3>2. CASE f \notin ids
      BY <1>1, <1>3, <3>2
    <3> QED
      BY <3>1, <3>2
  <2>4. \A s \in Selector : /\ W.facetAddress[s] \in Address \cup {Zero}
                            /\ W.selectorToFacetId[s] \in FacetId \cup {Zero}
    BY <1>1, <1>3, <1>4
  <2>5. W.supportsInterface \in SUBSET InterfaceId
    BY <1>1, <1>3, <1>4
  <2>6. /\ addr \in [FacetId -> Address \cup {Zero}]
        /\ selectors \in [FacetId -> SUBSET Selector]
        /\ table \in [Selector -> Address \cup {Zero}]
        /\ named \in [Selector -> FacetId \cup {Zero}]
        /\ interfaceIds \in [FacetId -> SUBSET InterfaceId]
        /\ supported \in SUBSET InterfaceId
    BY <2>1, <2>3, <2>4, <2>5
  <2> HIDE DEF addr, selectors, table, named, interfaceIds, supported
  <2> QED
    BY <2>1, <2>2, <2>6 DEF Content
<1>7. Agreeing(W)
  <2> SUFFICES ASSUME NEW s \in Selector
               PROVE  LET f == W.selectorToFacetId[s]
                      IN  \/ /\ f = Zero
                             /\ W.facetAddress[s] = Zero
                             /\ \A g \in FacetId : s \notin W.selectors[g]
                          \/ /\ f # Zero
                             /\ W.facetAddress[s] = W.addr[f]
                             /\ W.addr[f] # Zero
                             /\ s \in W.selectors[f]
    BY DEF Agreeing
  <2>1. CASE \E i \in DOMAIN list : /\ s \in SelectorsOf[Impl(i)]
                                    /\ W.facetAddress[s] = Impl(i)
                                    /\ W.selectorToFacetId[s] = list[i].id
    BY <1>3, <1>4, <2>1, ResolverAssumption
  <2>2. CASE /\ \A i \in DOMAIN list : s \notin SelectorsOf[Impl(i)]
             /\ W.facetAddress[s] = stored.facetAddress[s]
             /\ W.selectorToFacetId[s] = stored.selectorToFacetId[s]
    <3>1. CASE stored.selectorToFacetId[s] = Zero
      <4>1. /\ stored.facetAddress[s] = Zero
            /\ \A g \in FacetId : s \notin stored.selectors[g]
        BY <3>1 DEF ContentOK, Agreeing
      <4>2. ASSUME NEW g \in FacetId
            PROVE  s \notin W.selectors[g]
        <5>1. CASE g \in ids
          <6>1. PICK i \in DOMAIN list : g = list[i].id
            BY <5>1
          <6> QED
            BY <1>3, <2>2, <6>1
        <5>2. CASE g \notin ids
          BY <1>3, <4>1, <5>2
        <5> QED
          BY <5>1, <5>2
      <4> QED
        BY <2>2, <3>1, <4>1, <4>2
    <3>2. CASE stored.selectorToFacetId[s] # Zero
      <4> DEFINE f == stored.selectorToFacetId[s]
      <4>1. /\ f \in FacetId
            /\ stored.facetAddress[s] = stored.addr[f]
            /\ stored.addr[f] # Zero
            /\ s \in stored.selectors[f]
        BY <1>1, <3>2 DEF ContentOK, Agreeing
      <4>2. f \notin ids
        BY <1>4, <4>1
      <4> QED
        BY <1>3, <2>2, <3>2, <4>1, <4>2
    <3> QED
      BY <3>1, <3>2
  <2> QED
    BY <1>3, <2>1, <2>2
<1>8. Described(W)
  <2>1. \A f \in FacetIds(W) : W.addr[f] # Zero
    <3> SUFFICES ASSUME NEW f \in FacetIds(W)
                 PROVE  W.addr[f] # Zero
      OBVIOUS
    <3>1. CASE f \in ids
      BY <1>3, <1>4, <3>1
    <3>2. CASE f \notin ids
      <4>1. f \in FacetIds(stored)
        BY <1>5, <3>2
      <4>2. f \in FacetId
        <5>1. PICK i \in DOMAIN stored.facets : f = stored.facets[i].id
          BY <4>1 DEF FacetIds
        <5>2. stored.facets[i] \in FacetConfiguration
          BY <1>1
        <5> QED
          BY <5>1, <5>2 DEF FacetConfiguration
      <4>3. stored.addr[f] # Zero
        BY <4>1 DEF ContentOK, Described
      <4> QED
        BY <1>3, <3>2, <4>2, <4>3
    <3> QED
      BY <3>1, <3>2
  <2>2. \A f \in FacetId \ FacetIds(W) :
          W.addr[f] = Zero /\ W.selectors[f] = {} /\ W.interfaceIds[f] = {}
    BY <1>3, <1>5 DEF ContentOK, Described
  <2>3. \A s \in Selector : (\A f \in FacetId : s \notin W.selectors[f]) =>
          W.facetAddress[s] = Zero /\ W.selectorToFacetId[s] = Zero
    BY <1>6, <1>7 DEF Agreeing, Content
  <2>4. \A n \in W.supportsInterface : \E f \in FacetId : n \in W.interfaceIds[f]
    <3> SUFFICES ASSUME NEW n \in W.supportsInterface
                 PROVE  \E f \in FacetId : n \in W.interfaceIds[f]
      OBVIOUS
    <3>1. CASE n \in stored.supportsInterface
      <4>1. PICK f \in FacetId : n \in stored.interfaceIds[f]
        BY <3>1 DEF ContentOK, Described
      <4>2. f \in FacetIds(stored)
        BY <4>1 DEF ContentOK, Described
      <4>3. stored.addr[f] # Zero
        BY <4>2 DEF ContentOK, Described
      <4>4. f \notin ids
        BY <1>4, <4>3
      <4> QED
        BY <1>3, <4>1, <4>4
    <3>2. CASE \E i \in DOMAIN list : n \in InterfacesOf[Impl(i)]
      BY <1>3, <3>2
    <3> QED
      BY <1>3, <3>1, <3>2
  <2> QED
    BY <2>1, <2>2, <2>3, <2>4 DEF Described
<1> QED
  BY <1>6, <1>7, <1>8 DEF ContentOK, W
-----------------------------------------------------------------------------
(* The calls                                                               *)

(* The resolver is deployed with nothing stored.                           *)
LEMMA InitSafe ==
  ASSUME Init
  PROVE  Inv
<1>1. \A c \in Config : MaxVersions[c] \in Nat /\ 0 \in Version(c)
  BY ResolverAssumption DEF Version
<1>2. \A c \in Config : \A v \in Version(c) : content[c][v] = Empty
  BY DEF Init
<1>3. Empty \in Content
  BY EmptyOK DEF ContentOK
<1>4. ResolverTypeOK
  <2>1. /\ DOMAIN content = Config
        /\ \A c \in Config : content[c] \in [Version(c) -> Content]
    <3> HIDE DEF Empty, Content, Version
    <3> QED
      BY <1>3 DEF Init
  <2>2. \A f \in FacetId : logics[f] \in Seq(Address)
    BY DEF Init
  <2> QED
    BY <1>1, <2>1, <2>2 DEF Init, ResolverTypeOK, Undeployed, Version
<1>5. NothingBesidesTheBatch
  BY <1>2 DEF NothingBesidesTheBatch
<1> QED
  BY <1>1, <1>2, <1>4, <1>5, EmptyOK DEF Inv

(* Registering implementations touches no configuration.                   *)
LEMMA RegisterBusinessLogicsSafe ==
  ASSUME Inv, NEW keys \in SUBSET FacetId, NEW implementation \in [keys -> Address],
         RegisterBusinessLogics(implementation)
  PROVE  Inv'
<1>1. /\ DOMAIN implementation = keys
      /\ logics' = [f \in FacetId |-> IF f \in keys
                      THEN Append(logics[f], implementation[f]) ELSE logics[f]]
      /\ blacklist' = blacklist /\ active' = active /\ latestVersion' = latestVersion
      /\ batchVersion' = batchVersion /\ content' = content /\ proxy' = proxy
  BY DEF RegisterBusinessLogics
<1>2. logics' \in [FacetId -> Seq(Address)]
  <2>1. ASSUME NEW f \in FacetId
        PROVE  logics'[f] \in Seq(Address)
    <3>1. logics[f] \in Seq(Address)
      BY DEF Inv, ResolverTypeOK
    <3>2. CASE f \in keys
      <4>1. implementation[f] \in Address
        BY <3>2
      <4>2. Append(logics[f], implementation[f]) \in Seq(Address)
        BY <3>1, <4>1
      <4> QED
        BY <1>1, <3>2, <4>2
    <3>3. CASE f \notin keys
      BY <1>1, <3>1, <3>3
    <3> QED
      BY <3>2, <3>3
  <2> QED
    BY <1>1, <2>1
<1> QED
  BY <1>1, <1>2 DEF Inv, ResolverTypeOK, NothingBesidesTheBatch

(* Nor does changing a blacklist.                                          *)
LEMMA SetBlacklistSafe ==
  ASSUME Inv, NEW c \in Config, NEW selectors \in SUBSET Selector,
         SetBlacklist(c, selectors)
  PROVE  Inv'
<1>1. /\ blacklist' = [blacklist EXCEPT ![c] = selectors]
      /\ logics' = logics /\ active' = active /\ latestVersion' = latestVersion
      /\ batchVersion' = batchVersion /\ content' = content /\ proxy' = proxy
  BY DEF SetBlacklist
<1>2. blacklist' \in [Config -> SUBSET Selector]
  BY <1>1 DEF Inv, ResolverTypeOK
<1> QED
  BY <1>1, <1>2 DEF Inv, ResolverTypeOK, NothingBesidesTheBatch

(* Nor does pointing a proxy to a version.                                 *)
LEMMA SetConfigSafe ==
  ASSUME Inv, NEW p \in Proxy, NEW c \in Config, NEW version \in Nat,
         SetConfig(p, c, version)
  PROVE  Inv'
<1>1. /\ proxy' = [proxy EXCEPT ![p] = <<c, version>>]
      /\ logics' = logics /\ active' = active /\ latestVersion' = latestVersion
      /\ batchVersion' = batchVersion /\ content' = content /\ blacklist' = blacklist
  BY DEF SetConfig
<1>2. proxy' \in [Proxy -> (Config \X Nat) \cup {Undeployed}]
  BY <1>1 DEF Inv, ResolverTypeOK
<1> QED
  BY <1>1, <1>2 DEF Inv, ResolverTypeOK, NothingBesidesTheBatch

(* A batch always builds the version after the latest.                     *)
LEMMA TargetIsNext ==
  ASSUME ResolverTypeOK, NEW c \in Config
  PROVE  /\ TargetVersion(c) = latestVersion[c] + 1
         /\ latestVersion[c] \in Nat
         /\ batchVersion[c] \in {0, latestVersion[c] + 1}
         /\ MaxVersions[c] \in Nat
<1>1. /\ latestVersion[c] \in Nat
      /\ batchVersion[c] \in {0, latestVersion[c] + 1}
  BY DEF ResolverTypeOK
<1> QED
  BY <1>1, ResolverAssumption DEF TargetVersion, IsOngoing

(* A step that writes one version.                                         *)
Writes(c, version, stored) == content' = [content EXCEPT ![c][version] = stored]

(* What a step leaves of the content when it writes one version.           *)
LEMMA OneVersionWritten ==
  ASSUME ResolverTypeOK, NEW c \in Config, NEW version \in Version(c), NEW stored,
         Writes(c, version, stored)
  PROVE  /\ content'[c][version] = stored
         /\ \A d \in Config : \A v \in Version(d) :
              d # c \/ v # version => content'[d][v] = content[d][v]
         /\ DOMAIN content' = Config
         /\ stored \in Content =>
              \A d \in Config : content'[d] \in [Version(d) -> Content]
<1>1. /\ DOMAIN content = Config
      /\ \A d \in Config : content[d] \in [Version(d) -> Content]
  BY DEF ResolverTypeOK
<1> HIDE DEF Content, Version
<1>2. /\ DOMAIN content' = Config
      /\ content'[c] = [content[c] EXCEPT ![version] = stored]
      /\ \A d \in Config : d # c => content'[d] = content[d]
  BY <1>1 DEF Writes
<1> QED
  BY <1>1, <1>2

(* A batch writes to a version nobody has published.                       *)
LEMMA CreateBatchConfigurationSafe ==
  ASSUME Inv, NEW c \in Config, NEW list \in Seq(FacetConfiguration),
         NEW isLastBatch \in BOOLEAN, CreateBatchConfiguration(c, list, isLastBatch)
  PROVE  Inv'
<1> DEFINE version == TargetVersion(c)
           W == WithFacets(content[c][version], list)
<1>1. /\ version \in Version(c)
      /\ CanAdd(c, content[c][version], list)
      /\ content' = [content EXCEPT ![c][version] = W]
      /\ ActivateConfiguration(c, version, isLastBatch)
      /\ logics' = logics /\ blacklist' = blacklist /\ proxy' = proxy
  BY DEF CreateBatchConfiguration
<1>2. /\ version = latestVersion[c] + 1
      /\ latestVersion[c] \in Nat
      /\ batchVersion[c] \in {0, latestVersion[c] + 1}
      /\ MaxVersions[c] \in Nat
  BY TargetIsNext DEF Inv
<1>3. ContentOK(W)
  BY <1>1, WithFacetsOK DEF Inv
<1> HIDE DEF W, version
<1>4. /\ content'[c][version] = W
      /\ \A d \in Config : \A v \in Version(d) :
           d # c \/ v # version => content'[d][v] = content[d][v]
      /\ DOMAIN content' = Config
      /\ \A d \in Config : content'[d] \in [Version(d) -> Content]
  <2>1. ResolverTypeOK /\ W \in Content
    BY <1>3 DEF Inv, ContentOK
  <2>2. version \in Version(c) /\ Writes(c, version, W)
    BY <1>1 DEF Writes
  <2> QED
    BY <2>1, <2>2, OneVersionWritten
<1>5. \/ /\ active' = active \cup {c}
         /\ latestVersion' = [latestVersion EXCEPT ![c] = version]
         /\ batchVersion' = [batchVersion EXCEPT ![c] = 0]
      \/ /\ batchVersion' = [batchVersion EXCEPT ![c] = version]
         /\ active' = active /\ latestVersion' = latestVersion
  BY <1>1 DEF ActivateConfiguration
<1>6. /\ latestVersion \in [Config -> Nat] /\ batchVersion \in [Config -> Nat]
      /\ active \subseteq Config
      /\ \A d \in Config : /\ latestVersion[d] \in Version(d)
                           /\ batchVersion[d] \in {0, latestVersion[d] + 1} \cap Version(d)
                           /\ latestVersion[d] > 0 <=> d \in active
  BY DEF Inv, ResolverTypeOK
<1>7. 0 \in Version(c) /\ version \in Nat /\ version # 0
  BY <1>2 DEF Version
<1>8. \A d \in Config : d # c =>
        latestVersion'[d] = latestVersion[d] /\ batchVersion'[d] = batchVersion[d]
  BY <1>5, <1>6
<1>9. \/ c \in active' /\ latestVersion'[c] = version /\ batchVersion'[c] = 0
      \/ /\ latestVersion'[c] = latestVersion[c] /\ batchVersion'[c] = version
         /\ active' = active
  BY <1>5, <1>6
<1>10. /\ latestVersion' \in [Config -> Nat] /\ batchVersion' \in [Config -> Nat]
       /\ active' \subseteq Config
  <2>1. /\ [latestVersion EXCEPT ![c] = version] \in [Config -> Nat]
        /\ [batchVersion EXCEPT ![c] = version] \in [Config -> Nat]
        /\ [batchVersion EXCEPT ![c] = 0] \in [Config -> Nat]
    BY <1>6, <1>7
  <2> QED
    BY <1>5, <1>6, <2>1
<1>11. ASSUME NEW d \in Config
       PROVE  /\ latestVersion'[d] \in Version(d)
              /\ batchVersion'[d] \in {0, latestVersion'[d] + 1} \cap Version(d)
              /\ latestVersion'[d] > 0 <=> d \in active'
  <2>1. CASE d = c
    BY <1>1, <1>2, <1>6, <1>7, <1>9, <2>1
  <2>2. CASE d # c
    BY <1>5, <1>6, <1>8, <2>2
  <2> QED
    BY <2>1, <2>2
<1>12. ResolverTypeOK'
  BY <1>1, <1>4, <1>10, <1>11 DEF Inv, ResolverTypeOK, Version, Undeployed
<1>13. NothingBesidesTheBatch'
  <2> SUFFICES ASSUME NEW d \in Config, NEW v \in Version(d),
                      v \notin 1..latestVersion'[d], v # batchVersion'[d]
               PROVE  content'[d][v] = Empty
    BY DEF NothingBesidesTheBatch, Version
  <2>1. CASE d = c
    <3>1. v \in Nat
      BY <1>2, <2>1 DEF Version
    <3>2. v # version /\ v \notin 1..latestVersion[c]
      BY <1>2, <1>9, <2>1, <3>1
    <3>3. content'[d][v] = content[d][v]
      BY <1>4, <3>2
    <3>4. CASE v = 0
      BY <2>1, <3>3, <3>4 DEF Inv
    <3>5. CASE v # 0
      <4>1. v # batchVersion[c]
        BY <1>2, <3>2, <3>5
      <4> QED
        BY <2>1, <3>2, <3>3, <4>1 DEF Inv, NothingBesidesTheBatch
    <3> QED
      BY <3>4, <3>5
  <2>2. CASE d # c
    <3>1. v \notin 1..latestVersion[d] /\ v # batchVersion[d]
      BY <1>8, <2>2
    <3> QED
      BY <1>4, <2>2, <3>1 DEF Inv, NothingBesidesTheBatch
  <2> QED
    BY <2>1, <2>2
<1>14. ASSUME NEW d \in Config, NEW v \in Version(d)
       PROVE  ContentOK(content'[d][v])
  BY <1>3, <1>4 DEF Inv
<1>15. ASSUME NEW d \in Config
       PROVE  content'[d][0] = Empty
  <2>1. 0 \in Version(d)
    BY ResolverAssumption DEF Version
  <2> QED
    BY <1>4, <1>7, <2>1 DEF Inv
<1> QED
  BY <1>12, <1>13, <1>14, <1>15 DEF Inv, Version

(* A cancelled batch leaves its version as it was before.                  *)
LEMMA CancelBatchConfigurationSafe ==
  ASSUME Inv, NEW c \in Config, CancelBatchConfiguration(c)
  PROVE  Inv'
<1> DEFINE version == batchVersion[c]
           W == Cleaned(content[c][version])
<1>1. /\ content' = [content EXCEPT ![c][version] = W]
      /\ batchVersion' = [batchVersion EXCEPT ![c] = 0]
      /\ logics' = logics /\ blacklist' = blacklist /\ proxy' = proxy
      /\ active' = active /\ latestVersion' = latestVersion
  BY DEF CancelBatchConfiguration
<1>2. /\ latestVersion \in [Config -> Nat] /\ batchVersion \in [Config -> Nat]
      /\ \A d \in Config : /\ latestVersion[d] \in Version(d)
                           /\ batchVersion[d] \in {0, latestVersion[d] + 1} \cap Version(d)
                           /\ latestVersion[d] > 0 <=> d \in active
  BY DEF Inv, ResolverTypeOK
<1>3. W = Empty
  <2>1. ContentOK(content[c][version])
    BY <1>2 DEF Inv
  <2> QED
    BY <2>1, CleanedIsEmpty
<1> HIDE DEF W
<1>4. /\ content'[c][version] = Empty
      /\ \A d \in Config : \A v \in Version(d) :
           d # c \/ v # version => content'[d][v] = content[d][v]
      /\ DOMAIN content' = Config
      /\ \A d \in Config : content'[d] \in [Version(d) -> Content]
  <2>1. Empty \in Content
    BY EmptyOK DEF ContentOK
  <2>2. version \in Version(c)
    BY <1>2
  <2> HIDE DEF version
  <2> QED
    <3>1. ResolverTypeOK /\ Writes(c, version, Empty)
      BY <1>1, <1>3 DEF Inv, Writes
    <3> QED
      BY <2>1, <2>2, <3>1, OneVersionWritten
<1>5. /\ batchVersion' \in [Config -> Nat]
      /\ batchVersion'[c] = 0
      /\ \A d \in Config : d # c => batchVersion'[d] = batchVersion[d]
  BY <1>1, <1>2
<1>6. \A d \in Config : 0 \in Version(d)
  BY ResolverAssumption DEF Version
<1>7. ResolverTypeOK'
  <2>1. ASSUME NEW d \in Config
        PROVE  /\ latestVersion'[d] \in Version(d)
               /\ batchVersion'[d] \in {0, latestVersion'[d] + 1} \cap Version(d)
               /\ latestVersion'[d] > 0 <=> d \in active'
    BY <1>1, <1>2, <1>5, <1>6
  <2> QED
    BY <1>1, <1>4, <1>5, <2>1 DEF Inv, ResolverTypeOK, Version, Undeployed
<1>8. NothingBesidesTheBatch'
  <2> SUFFICES ASSUME NEW d \in Config, NEW v \in Version(d),
                      v \notin 1..latestVersion'[d], v # batchVersion'[d]
               PROVE  content'[d][v] = Empty
    BY DEF NothingBesidesTheBatch, Version
  <2>1. CASE d = c /\ v = version
    BY <1>4, <2>1
  <2>2. CASE d # c \/ v # version
    <3>1. v \notin 1..latestVersion[d] /\ v # batchVersion[d]
      BY <1>1, <1>5, <2>2
    <3> QED
      BY <1>4, <2>2, <3>1 DEF Inv, NothingBesidesTheBatch
  <2> QED
    BY <2>1, <2>2
<1>9. ASSUME NEW d \in Config, NEW v \in Version(d)
      PROVE  ContentOK(content'[d][v])
  BY <1>4, EmptyOK DEF Inv
<1>10. ASSUME NEW d \in Config
       PROVE  content'[d][0] = Empty
  BY <1>4, <1>6 DEF Inv
<1> QED
  BY <1>7, <1>8, <1>9, <1>10 DEF Inv, Version
(* A deployed proxy follows some configuration.                            *)
LEMMA FollowedIsConfig ==
  ASSUME Inv, NEW p \in Proxy, proxy[p] # Undeployed
  PROVE  proxy[p][1] \in Config
BY DEF Inv, ResolverTypeOK

(* Every step of the system keeps the invariant.                           *)
LEMMA NextSafe ==
  ASSUME Inv, [Next]_vars
  PROVE  Inv'
<1>1. CASE UNCHANGED vars
  BY <1>1 DEF vars, Inv, ResolverTypeOK, NothingBesidesTheBatch
<1>2. CASE \E keys \in SUBSET FacetId : \E implementation \in [keys -> Address] :
             RegisterBusinessLogics(implementation)
  BY <1>2, RegisterBusinessLogicsSafe
<1>3. CASE \E c \in Config : \E selectors \in BlacklistSets[c] :
             \/ AddSelectorsToBlacklist(c, selectors)
             \/ RemoveSelectorsFromBlacklist(c, selectors)
  <2>1. PICK c \in Config : \E selectors \in BlacklistSets[c] :
               \/ AddSelectorsToBlacklist(c, selectors)
               \/ RemoveSelectorsFromBlacklist(c, selectors)
    BY <1>3
  <2>2. PICK selectors \in BlacklistSets[c] :
               \/ AddSelectorsToBlacklist(c, selectors)
               \/ RemoveSelectorsFromBlacklist(c, selectors)
    BY <2>1
  <2>3. blacklist[c] \in SUBSET Selector /\ selectors \in SUBSET Selector
    BY ResolverAssumption DEF Inv, ResolverTypeOK
  <2>4. /\ blacklist[c] \cup selectors \in SUBSET Selector
        /\ blacklist[c] \ selectors \in SUBSET Selector
    BY <2>3
  <2> QED
    BY <2>2, <2>4, SetBlacklistSafe
       DEF AddSelectorsToBlacklist, RemoveSelectorsFromBlacklist
<1>4. CASE \E c \in Config : \E list \in FacetLists[c] :
             \/ CreateConfiguration(c, list)
             \/ \E isLastBatch \in BOOLEAN : CreateBatchConfiguration(c, list, isLastBatch)
  <2>1. PICK c \in Config : \E list \in FacetLists[c] :
               \/ CreateConfiguration(c, list)
               \/ \E isLastBatch \in BOOLEAN : CreateBatchConfiguration(c, list, isLastBatch)
    BY <1>4
  <2>2. PICK list \in FacetLists[c] : \E isLastBatch \in BOOLEAN :
               CreateBatchConfiguration(c, list, isLastBatch)
    BY <2>1 DEF CreateConfiguration
  <2>3. list \in Seq(FacetConfiguration)
    BY FacetListsAssumption
  <2> QED
    BY <2>2, <2>3, CreateBatchConfigurationSafe
<1>5. CASE \E c \in Config : CancelBatchConfiguration(c)
  BY <1>5, CancelBatchConfigurationSafe
<1>6. CASE \E c \in Config, p \in Proxy, version \in Nat : SetConfig(p, c, version)
  BY <1>6, SetConfigSafe
<1>7. (\E c \in Config, p \in Proxy : \E version \in Version(c) :
         DeployProxy(p, c, version) \/ UpdateConfig(p, c, version))
      => (\E c \in Config, p \in Proxy, version \in Nat : SetConfig(p, c, version))
  BY DEF DeployProxy, UpdateConfig, Version
<1>8. (\E p \in Proxy, version \in UNION {Version(c) : c \in Config} :
         UpdateConfigVersion(p, version))
      => (\E c \in Config, p \in Proxy, version \in Nat : SetConfig(p, c, version))
  BY FollowedIsConfig DEF UpdateConfigVersion, Version
<1> QED
  BY <1>1, <1>2, <1>3, <1>4, <1>5, <1>6, <1>7, <1>8 DEF Next

(* In every reachable state each version is described by its list of       *)
(* facets and its dispatch table agrees with them, and a version nobody    *)
(* published and no batch is building is empty.                            *)
THEOREM Invariance == Spec => []Inv
<1>1. Init => Inv
  BY InitSafe
<1>2. Inv /\ [Next]_vars => Inv'
  BY NextSafe
<1> QED
  BY <1>1, <1>2, PTL DEF Spec

(* Every variable of the resolver has its type: a batch that is open       *)
(* builds the version after the latest, and a configuration is active      *)
(* exactly when it has a version.                                          *)
THEOREM TypeCorrect == Spec => []ResolverTypeOK
<1>1. Inv => ResolverTypeOK
  BY DEF Inv
<1> QED
  BY <1>1, Invariance, PTL

(* A cancelled batch leaves no facet, selector or interface behind for the *)
(* next batch, which reuses its version number (cancelBatchConfiguration). *)
THEOREM NothingBesidesCorrect == Spec => []NothingBesidesTheBatch
<1>1. Inv => NothingBesidesTheBatch
  BY DEF Inv
<1> QED
  BY <1>1, Invariance, PTL

(* The dispatch table a proxy delegates through and the loupe its users    *)
(* read tell one story (_registerSelectors, _cleanAllSelectorsAndInter-    *)
(* faces).                                                                 *)
THEOREM DispatchCorrect == Spec => []DispatchAgreesWithLoupe
<1>1. Inv => DispatchAgreesWithLoupe
  BY DEF Inv, ContentOK, Agreeing, DispatchAgreesWithLoupe
<1> QED
  BY <1>1, Invariance, PTL

-----------------------------------------------------------------------------
(* What the proxies are promised                                           *)

Published == [c \in Config |-> [v \in 1..latestVersion[c] |-> Table(content[c][v])]]

(* Nothing is published at the start.                                      *)
LEMMA InitRefines ==
  ASSUME Init
  PROVE  Registry!RegistryInit
<1>1. ASSUME NEW c \in Config
      PROVE  [v \in 1..latestVersion[c] |-> Table(content[c][v])] = <<>>
  <2>1. latestVersion[c] = 0
    BY DEF Init
  <2> QED
    BY <2>1
<1>2. Published = [c \in Config |-> <<>>]
  BY <1>1 DEF Published
<1> QED
  BY <1>2 DEF Init, Published, Registry!RegistryInit, Registry!Unborn, Undeployed

(* A published version is one that something can be stored under.          *)
LEMMA PublishedStored ==
  ASSUME ResolverTypeOK, NEW c \in Config
  PROVE  1..latestVersion[c] \subseteq Version(c)
<1>1. latestVersion[c] \in Nat /\ latestVersion[c] \in Version(c) /\ MaxVersions[c] \in Nat
  BY ResolverAssumption DEF ResolverTypeOK
<1> QED
  BY <1>1 DEF Version

(* Appending to a sequence given by its elements.                          *)
LEMMA AppendIs ==
  ASSUME NEW n \in Nat, NEW list, list = [v \in 1..n |-> list[v]], NEW last
  PROVE  Append(list, last) = [v \in 1..(n + 1) |-> IF v <= n THEN list[v] ELSE last]
<1> DEFINE S == {list[k] : k \in 1..n} \cup {last}
<1>1. last \in S /\ \A v \in 1..n : list[v] \in S
  OBVIOUS
<1> HIDE DEF S
<1>2. list \in [1..n -> S]
  BY <1>1
<1>3. list \in Seq(S) /\ Len(list) = n
  BY <1>2
<1> QED
  BY <1>1, <1>3

(* A step that keeps what is stored under the published versions publishes *)
(* nothing.                                                                *)
LEMMA NothingPublished ==
  ASSUME ResolverTypeOK, latestVersion' = latestVersion,
         \A c \in Config : \A v \in 1..latestVersion[c] : content'[c][v] = content[c][v]
  PROVE  Published' = Published
<1>1. \A c \in Config : \A v \in 1..latestVersion[c] :
        Table(content'[c][v]) = Table(content[c][v])
  OBVIOUS
<1>2. \A c \in Config : latestVersion'[c] = latestVersion[c]
  OBVIOUS
<1> HIDE DEF Table
<1>3. \A c \in Config :
        [v \in 1..latestVersion'[c] |-> Table(content'[c][v])]
          = [v \in 1..latestVersion[c] |-> Table(content[c][v])]
  BY <1>1, <1>2
<1> QED
  BY <1>3 DEF Published

(* The last batch of a version publishes it, with what is stored for it    *)
(* then; any other batch publishes nothing.                                *)
LEMMA CreateBatchConfigurationRefines ==
  ASSUME Inv, NEW c \in Config, NEW list \in Seq(FacetConfiguration),
         NEW isLastBatch \in BOOLEAN, CreateBatchConfiguration(c, list, isLastBatch)
  PROVE  Registry!RegistryNext \/ (Published' = Published /\ proxy' = proxy)
<1> DEFINE version == TargetVersion(c)
           W == WithFacets(content[c][version], list)
<1>1. /\ version \in Version(c)
      /\ CanAdd(c, content[c][version], list)
      /\ content' = [content EXCEPT ![c][version] = W]
      /\ ActivateConfiguration(c, version, isLastBatch)
      /\ proxy' = proxy
  BY DEF CreateBatchConfiguration
<1>2. /\ version = latestVersion[c] + 1
      /\ latestVersion[c] \in Nat
      /\ latestVersion \in [Config -> Nat]
      /\ ResolverTypeOK
      /\ \A d \in Config : 1..latestVersion[d] \subseteq Version(d)
  BY TargetIsNext, PublishedStored DEF Inv, ResolverTypeOK
<1>3. ContentOK(W)
  BY <1>1, WithFacetsOK DEF Inv
<1> HIDE DEF W, version
<1>4. /\ content'[c][version] = W
      /\ \A d \in Config : \A v \in Version(d) :
           d # c \/ v # version => content'[d][v] = content[d][v]
  <2>1. ResolverTypeOK /\ W \in Content
    BY <1>3 DEF Inv, ContentOK
  <2>2. version \in Version(c) /\ Writes(c, version, W)
    BY <1>1 DEF Writes
  <2> QED
    BY <2>1, <2>2, OneVersionWritten
<1>5. \A d \in Config : \A v \in 1..latestVersion[d] : content'[d][v] = content[d][v]
  BY <1>2, <1>4
<1>6. CASE latestVersion' = latestVersion
  BY <1>1, <1>2, <1>5, <1>6, NothingPublished
<1>7. CASE latestVersion' = [latestVersion EXCEPT ![c] = version]
  <2>1. PICK table \in [dispatch : [Selector -> Address \cup {Zero}],
                        interfaces : SUBSET InterfaceId] : table = Table(W)
    <3>1. /\ W.facetAddress \in [Selector -> Address \cup {Zero}]
          /\ W.supportsInterface \in SUBSET InterfaceId
      BY <1>3 DEF ContentOK, Content
    <3> QED
      BY <3>1 DEF Table
  <2>2. [v \in 1..latestVersion'[c] |-> Table(content'[c][v])]
          = Append([v \in 1..latestVersion[c] |-> Table(content[c][v])], table)
    <3> DEFINE before == [v \in 1..latestVersion[c] |-> Table(content[c][v])]
               after == [v \in 1..latestVersion'[c] |-> Table(content'[c][v])]
    <3>1. latestVersion'[c] = latestVersion[c] + 1
      BY <1>2, <1>7
    <3>2. \A v \in 1..latestVersion[c] : Table(content'[c][v]) = Table(content[c][v])
      BY <1>5
    <3>3. Table(content'[c][latestVersion[c] + 1]) = table
      BY <1>2, <1>4, <2>1
    <3> HIDE DEF Table
    <3>4. Append(before, table) =
            [v \in 1..(latestVersion[c] + 1) |->
               IF v <= latestVersion[c] THEN before[v] ELSE table]
      <4>1. before = [v \in 1..latestVersion[c] |-> before[v]]
        OBVIOUS
      <4> HIDE DEF before
      <4> QED
        BY <1>2, <4>1, AppendIs
    <3>5. \A v \in 1..(latestVersion[c] + 1) :
            Table(content'[c][v]) = IF v <= latestVersion[c] THEN before[v] ELSE table
      BY <1>2, <3>2, <3>3
    <3>6. after = [v \in 1..(latestVersion[c] + 1) |->
                     IF v <= latestVersion[c] THEN before[v] ELSE table]
      <4> HIDE DEF before
      <4> QED
        BY <3>1, <3>5
    <3> QED
      BY <3>4, <3>6
  <2>3. \A d \in Config : d # c =>
          [v \in 1..latestVersion'[d] |-> Table(content'[d][v])]
            = [v \in 1..latestVersion[d] |-> Table(content[d][v])]
    <3>1. \A d \in Config : d # c => latestVersion'[d] = latestVersion[d]
      BY <1>2, <1>7
    <3>2. \A d \in Config : \A v \in 1..latestVersion[d] :
            Table(content'[d][v]) = Table(content[d][v])
      BY <1>5
    <3> HIDE DEF Table
    <3> QED
      BY <3>1, <3>2
  <2>4. Published' = [Published EXCEPT ![c] = Append(@, table)]
    BY <2>2, <2>3 DEF Published
  <2>5. Registry!Publish(c, table)
    BY <1>1, <2>4 DEF Registry!Publish, Published
  <2> QED
    BY <2>5 DEF Registry!RegistryNext
<1> QED
  BY <1>1, <1>6, <1>7 DEF ActivateConfiguration

(* A cancellation publishes nothing and takes nothing back.                *)
LEMMA CancelBatchConfigurationRefines ==
  ASSUME Inv, NEW c \in Config, CancelBatchConfiguration(c)
  PROVE  Published' = Published /\ proxy' = proxy
<1>1. /\ ResolverTypeOK
      /\ batchVersion[c] \in Version(c)
      /\ batchVersion[c] \in {0, latestVersion[c] + 1}
      /\ latestVersion[c] \in Nat
      /\ \A d \in Config : 1..latestVersion[d] \subseteq Version(d)
  BY PublishedStored DEF Inv, ResolverTypeOK
<1>2. /\ content' = [content EXCEPT ![c][batchVersion[c]] = Cleaned(content[c][batchVersion[c]])]
      /\ latestVersion' = latestVersion /\ proxy' = proxy
  BY DEF CancelBatchConfiguration
<1> HIDE DEF Version
<1>3. \A d \in Config : \A v \in Version(d) :
        d # c \/ v # batchVersion[c] => content'[d][v] = content[d][v]
  BY <1>1, <1>2, OneVersionWritten
<1>4. \A d \in Config : \A v \in 1..latestVersion[d] : content'[d][v] = content[d][v]
  BY <1>1, <1>3
<1> QED
  BY <1>1, <1>2, <1>4, NothingPublished

(* A proxy is pointed to a version that was published.                     *)
LEMMA SetConfigRefines ==
  ASSUME Inv, NEW p \in Proxy, NEW c \in Config, NEW version \in Nat,
         SetConfig(p, c, version)
  PROVE  Registry!RegistryNext
<1>1. /\ c \in active /\ version <= latestVersion[c]
      /\ proxy' = [proxy EXCEPT ![p] = <<c, version>>]
      /\ content' = content /\ latestVersion' = latestVersion
  BY DEF SetConfig, IsRegistered
<1>2. ResolverTypeOK /\ latestVersion[c] \in Nat /\ latestVersion[c] > 0
  BY <1>1 DEF Inv, ResolverTypeOK
<1>3. Published' = Published
  BY <1>1, <1>2, NothingPublished
<1>4. Published[c] = [v \in 1..latestVersion[c] |-> Table(content[c][v])]
  BY DEF Published
<1>5. Len(Published[c]) = latestVersion[c] /\ Published[c] # <<>>
  <2> HIDE DEF Table
  <2> QED
    BY <1>2, <1>4
<1>6. version \in 0..Len(Published[c])
  BY <1>1, <1>2, <1>5
<1>7. Registry!Follow(p, c, version)
  BY <1>1, <1>3, <1>5, <1>6 DEF Registry!Follow, Published
<1>8. version \in 0..Len([d \in Config |->
                           [v \in 1..latestVersion[d] |-> Table(content[d][v])]][c])
  BY <1>6 DEF Published
<1> QED
  BY <1>7, <1>8 DEF Registry!RegistryNext
(* Every other step keeps what is published and whom the proxies follow.   *)
LEMMA NextRefines ==
  ASSUME Inv, [Next]_vars
  PROVE  Registry!RegistryNext \/ (Published' = Published /\ proxy' = proxy)
<1>1. ASSUME latestVersion' = latestVersion, content' = content, proxy' = proxy
      PROVE  Published' = Published /\ proxy' = proxy
  BY <1>1 DEF Published
<1>2. CASE UNCHANGED vars
  BY <1>1, <1>2 DEF vars
<1>3. CASE \E keys \in SUBSET FacetId : \E implementation \in [keys -> Address] :
             RegisterBusinessLogics(implementation)
  BY <1>1, <1>3 DEF RegisterBusinessLogics
<1>4. CASE \E c \in Config : \E selectors \in BlacklistSets[c] :
             \/ AddSelectorsToBlacklist(c, selectors)
             \/ RemoveSelectorsFromBlacklist(c, selectors)
  BY <1>1, <1>4 DEF AddSelectorsToBlacklist, RemoveSelectorsFromBlacklist, SetBlacklist
<1>5. CASE \E c \in Config : \E list \in FacetLists[c] :
             \/ CreateConfiguration(c, list)
             \/ \E isLastBatch \in BOOLEAN : CreateBatchConfiguration(c, list, isLastBatch)
  <2>1. PICK c \in Config : \E list \in FacetLists[c] : \E isLastBatch \in BOOLEAN :
               CreateBatchConfiguration(c, list, isLastBatch)
    BY <1>5 DEF CreateConfiguration
  <2>2. PICK list \in FacetLists[c] : \E isLastBatch \in BOOLEAN :
               CreateBatchConfiguration(c, list, isLastBatch)
    BY <2>1
  <2>3. list \in Seq(FacetConfiguration)
    BY FacetListsAssumption
  <2> QED
    BY <2>2, <2>3, CreateBatchConfigurationRefines
<1>6. CASE \E c \in Config : CancelBatchConfiguration(c)
  BY <1>6, CancelBatchConfigurationRefines
<1>7. CASE \E c \in Config, p \in Proxy, version \in Nat : SetConfig(p, c, version)
  BY <1>7, SetConfigRefines
<1>8. (\E c \in Config, p \in Proxy : \E version \in Version(c) :
         DeployProxy(p, c, version) \/ UpdateConfig(p, c, version))
      => (\E c \in Config, p \in Proxy, version \in Nat : SetConfig(p, c, version))
  BY DEF DeployProxy, UpdateConfig, Version
<1>9. (\E p \in Proxy, version \in UNION {Version(c) : c \in Config} :
         UpdateConfigVersion(p, version))
      => (\E c \in Config, p \in Proxy, version \in Nat : SetConfig(p, c, version))
  BY FollowedIsConfig DEF UpdateConfigVersion, Version
<1> QED
  BY <1>2, <1>3, <1>4, <1>5, <1>6, <1>7, <1>8, <1>9 DEF Next

(* Versions are append-only and proxies follow published ones only: no     *)
(* batch, cancellation, blacklisting or registration of an implementation  *)
(* changes where the calls to a proxy pinned to a version go.              *)
THEOREM RegistryRefined == Spec => ImplementsRegistry
<1>1. Init => Registry!RegistryInit
  BY InitRefines
<1>2. Inv /\ [Next]_vars => [Registry!RegistryNext]_<<Published, proxy>>
  BY NextRefines
<1>3. Inv /\ [Next]_vars
      => [Registry!RegistryNext]_<<[c \in Config |->
            [v \in 1..latestVersion[c] |-> Table(content[c][v])]], proxy>>
  BY <1>2 DEF Published
<1> QED
  BY <1>1, <1>3, Invariance, PTL DEF Spec, ImplementsRegistry, Registry!RegistrySpec
=============================================================================
