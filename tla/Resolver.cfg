SPECIFICATION Spec
CONSTANTS
  fa = fa
  fb = fb
  x = x
  y = y
  s1 = s1
  s2 = s2
  c1 = c1
  c2 = c2
  FacetId = {fa, fb}
  Address = {x, y}
  Selector = {s1, s2}
  InterfaceId = {"erc165"}
  Config = {c1, c2}
  Proxy = {p1}
  Zero = zero
  SelectorsOf <- MCSelectorsOf
  InterfacesOf <- MCInterfacesOf
  FacetLists <- MCFacetLists
  BlacklistSets <- MCBlacklistSets
  MaxFacetVersions = 2
  MaxVersions <- MCMaxVersions
INVARIANTS
  ResolverTypeOK
  NothingBesidesTheBatch
  DispatchAgreesWithLoupe
PROPERTY
  ImplementsRegistry
