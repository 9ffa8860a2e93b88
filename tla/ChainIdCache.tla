---------------------------- MODULE ChainIdCache ----------------------------
(***************************************************************************)
(* Provider.ChainID and NewAccount: the chain id that a provider caches in *)
(* an unsynchronised string field, filled by whichever goroutine asks      *)
(* first.                                                                  *)
(*                                                                         *)
(* Every element of Callers is one NewAccount in a goroutine of its own,   *)
(* all on one provider.  A Go string is two words, a pointer and a length, *)
(* stored and loaded one at a time in an order the compiler chooses.  A    *)
(* word is named by the id it belongs to, NoId being the nil pointer and   *)
(* the length 0, so that a string is whole when both words have one name.  *)
(* The node behind the URL is external; it may be restarted on another     *)
(* chain.                                                                  *)
(***************************************************************************)
EXTENDS Naturals

CONSTANTS
  Callers,      \* goroutines, one NewAccount each
  ChainIds,     \* the chain ids a node may have, all non-empty
  NoId,         \* the empty string
  MaxRestarts   \* bound: restarts of the node on another chain

ASSUME CacheAssumption ==
  /\ NoId \notin ChainIds
  /\ ChainIds # {}
  /\ MaxRestarts \in Nat

VARIABLES
  nodeId,    \* the chain id the node has now
  restarts,  \* how often the node was restarted
  chainID,   \* provider.chainID, a record of its two words
  callPc,    \* callPc[c]: where the call is
  raw,       \* raw[c]: HexToShortStr of the node's answer
  todo,      \* todo[c]: the words still to store or to load
  got,       \* got[c]: the string that provider.ChainID returns to c
  late,      \* history: an account existed already when c began
  settled    \* history: the cached id, if nobody could change it when c began

cacheVars == <<nodeId, restarts, chainID, callPc, raw, todo, got, late, settled>>

Words == {"ptr", "len"}
EmptyString == [w \in Words |-> NoId]
Whole(str) == str["ptr"] = str["len"]

CacheInit ==
  /\ nodeId \in ChainIds
  /\ restarts = 0
  /\ chainID = EmptyString
  /\ callPc = [c \in Callers |-> "start"]
  /\ raw = [c \in Callers |-> NoId]
  /\ todo = [c \in Callers |-> {}]
  /\ got = [c \in Callers |-> EmptyString]
  /\ late = [c \in Callers |-> FALSE]
  /\ settled = [c \in Callers |-> NoId]

\* Calls that have seen an empty cache and have not stored their answer yet.
Filling == {c \in Callers : callPc[c] \in {"request", "store"}}

\* Mutant of Check: the cache is never looked at.
UncachedCheck(c) ==
  /\ callPc[c] = "start"
  /\ callPc' = [callPc EXCEPT ![c] = "request"]
  /\ late' = [late EXCEPT ![c] = \E d \in Callers : callPc[d] = "account"]
  /\ settled' = [settled EXCEPT ![c] =
                   IF Filling = {} /\ Whole(chainID) THEN chainID["ptr"] ELSE NoId]
  /\ UNCHANGED <<nodeId, restarts, chainID, raw, todo, got>>

\* if provider.chainID != "": the comparison loads the length only.
Check(c) ==
  /\ callPc[c] = "start"
  /\ late' = [late EXCEPT ![c] = \E d \in Callers : callPc[d] = "account"]
  /\ settled' = [settled EXCEPT ![c] =
                   IF Filling = {} /\ Whole(chainID) THEN chainID["ptr"] ELSE NoId]
  /\ IF chainID["len"] # NoId
     THEN /\ callPc' = [callPc EXCEPT ![c] = "load"]
          /\ todo' = [todo EXCEPT ![c] = Words]
     ELSE /\ callPc' = [callPc EXCEPT ![c] = "request"]
          /\ UNCHANGED todo
  /\ UNCHANGED <<nodeId, restarts, chainID, raw, got>>

\* Mutant of ChainIdAnswer: the hexadecimal text is stored as it came.
HexAnswer(c) ==
  /\ callPc[c] = "request"
  /\ callPc' = [callPc EXCEPT ![c] = "store"]
  /\ raw' = [raw EXCEPT ![c] = <<"hex", nodeId>>]
  /\ todo' = [todo EXCEPT ![c] = Words]
  /\ UNCHANGED <<nodeId, restarts, chainID, got, late, settled>>

\* CallContext returns the id the node has when the request arrives.
ChainIdAnswer(c) ==
  /\ callPc[c] = "request"
  /\ callPc' = [callPc EXCEPT ![c] = "store"]
  /\ raw' = [raw EXCEPT ![c] = nodeId]
  /\ todo' = [todo EXCEPT ![c] = Words]
  /\ UNCHANGED <<nodeId, restarts, chainID, got, late, settled>>

\* Mutant of RequestFails: an error empties the cache.
ClearingFailure(c) ==
  /\ callPc[c] = "request"
  /\ callPc' = [callPc EXCEPT ![c] = "error"]
  /\ chainID' = EmptyString
  /\ UNCHANGED <<nodeId, restarts, raw, todo, got, late, settled>>

\* CallContext fails: Err(InternalError, err), and the cache stays as it is.
RequestFails(c) ==
  /\ callPc[c] = "request"
  /\ callPc' = [callPc EXCEPT ![c] = "error"]
  /\ UNCHANGED <<nodeId, restarts, chainID, raw, todo, got, late, settled>>

\* The answer is no hexadecimal text: SetString gives HexToShortStr a nil number,
\* and taking its bytes panics, before anything is stored.
NoHexAnswer(c) ==
  /\ callPc[c] = "request"
  /\ callPc' = [callPc EXCEPT ![c] = "panicked"]
  /\ UNCHANGED <<nodeId, restarts, chainID, raw, todo, got, late, settled>>

\* provider.chainID = utils.HexToShortStr(result), one word at a time.
Store(c) ==
  /\ callPc[c] = "store"
  /\ \E w \in todo[c] :
       /\ chainID' = [chainID EXCEPT ![w] = raw[c]]
       /\ IF todo[c] = {w}
          THEN /\ callPc' = [callPc EXCEPT ![c] = "load"]
               /\ todo' = [todo EXCEPT ![c] = Words]
          ELSE /\ todo' = [todo EXCEPT ![c] = @ \ {w}]
               /\ UNCHANGED callPc
  /\ UNCHANGED <<nodeId, restarts, raw, got, late, settled>>

\* The values a load may give: the field's, or the one the caller has just stored,
\* which the compiler may have kept in a register.
Readable(c, w) == {chainID[w]} \cup ({raw[c]} \ {NoId})

\* return provider.chainID, one word at a time.
Load(c) ==
  /\ callPc[c] = "load"
  /\ \E w \in todo[c] : \E v \in Readable(c, w) :
       /\ got' = [got EXCEPT ![c][w] = v]
       /\ todo' = [todo EXCEPT ![c] = @ \ {w}]
       /\ callPc' = [callPc EXCEPT ![c] = IF todo[c] = {w} THEN "bytes" ELSE "load"]
  /\ UNCHANGED <<nodeId, restarts, chainID, raw, late, settled>>

\* account.ChainId = new(felt.Felt).SetBytes([]byte(chainID)): copying bytes
\* from the nil pointer is a fault.
MakeAccount(c) ==
  /\ callPc[c] = "bytes"
  /\ callPc' = [callPc EXCEPT ![c] =
       IF got[c]["ptr"] = NoId /\ got[c]["len"] # NoId THEN "crashed" ELSE "account"]
  /\ UNCHANGED <<nodeId, restarts, chainID, raw, todo, got, late, settled>>

Restart ==
  /\ restarts < MaxRestarts
  /\ restarts' = restarts + 1
  /\ nodeId' \in ChainIds \ {nodeId}
  /\ UNCHANGED <<chainID, callPc, raw, todo, got, late, settled>>

CallerStep(c) ==
  \/ Check(c) \/ ChainIdAnswer(c) \/ RequestFails(c) \/ NoHexAnswer(c)
  \/ Store(c) \/ Load(c) \/ MakeAccount(c)

CacheNext == Restart \/ \E c \in Callers : CallerStep(c)

CacheSpec == CacheInit /\ [][CacheNext]_cacheVars
-----------------------------------------------------------------------------
(* Properties.                                                             *)

Strings == [Words -> ChainIds \cup {NoId}]

CacheTypeOK ==
  /\ nodeId \in ChainIds
  /\ restarts \in 0..MaxRestarts
  /\ chainID \in Strings
  /\ callPc \in [Callers -> {"start", "request", "store", "load", "bytes",
                             "account", "crashed", "error", "panicked"}]
  /\ raw \in [Callers -> ChainIds \cup {NoId}]
  /\ todo \in [Callers -> SUBSET Words]
  /\ got \in [Callers -> Strings]
  /\ late \in [Callers -> BOOLEAN]
  /\ settled \in [Callers -> ChainIds \cup {NoId}]

\* A call that begins when the cache is filled and no other call can still store
\* into it gets the cached id, whole, even if the node has changed its chain
\* since: accounts made one after the other agree on ChainId.
SettledCacheIsStable ==
  \A c \in Callers :
    settled[c] # NoId /\ callPc[c] = "account" =>
      got[c] = [w \in Words |-> settled[c]]

\* Once one account has been made, a call that begins later never asks the node
\* again and can neither fail nor panic; and, with one chain id, it gets the whole id however many
\* stores are still under way: they all store the words that are there already.
LateIdIsWhole ==
  \A c \in Callers :
    late[c] =>
      /\ callPc[c] \notin {"request", "store", "error", "panicked"}
      /\ restarts = 0 /\ callPc[c] \in {"bytes", "account", "crashed"} =>
           got[c] = [w \in Words |-> nodeId]

\* README.md:51 "Good concurrency support": goroutines that share a provider each
\* get a whole id or an error.  Violated: the length may be seen before the
\* pointer is stored.
SharedProviderIsSafe ==
  restarts = 0 =>
    \A c \in Callers :
      callPc[c] # "crashed" /\ (callPc[c] = "account" => Whole(got[c]))
=============================================================================
