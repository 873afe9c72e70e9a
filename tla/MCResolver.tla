---------------------------- MODULE MCResolver ----------------------------
(***************************************************************************)
(* Instances of Resolver for TLC: two facets whose implementations share a *)
(* selector, so that a later facet overwrites an earlier one's entry.      *)
(***************************************************************************)
EXTENDS Resolver, TLC

CONSTANTS fa, fb, x, y, s1, s2, c1, c2

MCSelectorsOf == (x :> {s1}) @@ (y :> {s1, s2})
MCInterfacesOf == (x :> {}) @@ (y :> {"erc165"})

(* Both facets, in either order or alone, at a registered version or not.  *)
Facets(version) == {[id |-> fa, version |-> version], [id |-> fb, version |-> 1]}
Lists ==
  {<<a>> : a \in Facets(2)}
    \cup {l \in Facets(1) \X Facets(1) : l[1].id # l[2].id}

(* The second configuration is there to move to: one facet, one version.   *)
MCFacetLists == (c1 :> Lists) @@ (c2 :> {<<[id |-> fa, version |-> 1]>>})
MCBlacklistSets == (c1 :> {{s2}}) @@ (c2 :> {})
MCMaxVersions == (c1 :> 2) @@ (c2 :> 1)
=============================================================================
