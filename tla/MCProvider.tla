----------------------------- MODULE MCProvider -----------------------------
(***************************************************************************)
(* The two parts of rpc.Provider, for TLC: the methods and their answers   *)
(* (ProviderCalls) and the cached chain id (ChainIdCache).  No method but  *)
(* ChainID reads or writes the cache, and ChainID touches nothing of the   *)
(* others: the parts share no variable, and every property is about one of *)
(* them.  The behaviours of a part are the same whatever the other does,   *)
(* so each runs from all its initial states while the other stays in one   *)
(* of its own.                                                             *)
(***************************************************************************)
EXTENDS ProviderCalls, ChainIdCache

ProviderVars == <<vars, cacheVars>>

ProviderInit == Init /\ CacheInit

\* One initial state of each part.
CacheRests  == CacheInit /\ nodeId = CHOOSE id \in ChainIds : TRUE
MethodsRest  == Init /\ tx = (CHOOSE t \in Txs : TRUE) /\ exec = "SUCCEEDED"

MethodStep  == CacheRests /\ Next /\ UNCHANGED cacheVars
ChainIdStep == MethodsRest /\ CacheNext /\ UNCHANGED vars

ProviderNext == MethodStep \/ ChainIdStep

ProviderSpec == ProviderInit /\ [][ProviderNext]_ProviderVars
=============================================================================
