----------------------- MODULE ConfigurationRegistry -----------------------
(***************************************************************************)
(* What the resolver promises to the proxies that delegate to it: a        *)
(* configuration is a list of published versions that only grows, a        *)
(* published version never changes, and a proxy only ever follows a        *)
(* version that was published (0: whatever is the latest one).             *)
(*                                                                         *)
(* How a version comes about, in one call or in batches that may be        *)
(* cancelled half way, is the Resolver module's matter.                    *)
(***************************************************************************)
EXTENDS Integers, Sequences

CONSTANTS
  Config,         \* configuration ids
  Proxy,          \* proxies
  DispatchTable   \* what a version is: where the proxy's calls go

VARIABLES
  published,      \* published[c]: the versions of configuration c
  follows         \* follows[p]: the configuration and version of proxy p

Unborn == <<>>    \* a proxy that is not deployed

RegistryInit ==
  /\ published = [c \in Config |-> <<>>]
  /\ follows = [p \in Proxy |-> Unborn]

Publish(c, table) ==
  /\ published' = [published EXCEPT ![c] = Append(@, table)]
  /\ UNCHANGED follows

Follow(p, c, version) ==
  /\ published[c] # <<>>
  /\ version \in 0..Len(published[c])
  /\ follows' = [follows EXCEPT ![p] = <<c, version>>]
  /\ UNCHANGED published

RegistryNext ==
  \/ \E c \in Config : \E table \in DispatchTable : Publish(c, table)
  \/ \E p \in Proxy, c \in Config : \E version \in 0..Len(published[c]) :
       Follow(p, c, version)

RegistrySpec == RegistryInit /\ [][RegistryNext]_<<published, follows>>
=============================================================================
