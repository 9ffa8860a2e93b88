--------------------------- MODULE AtomicKeystore ---------------------------
(***************************************************************************)
(* What a keystore promises: each Put and each Sign works on the map of    *)
(* keys in one step, at some moment between its call and its return.       *)
(***************************************************************************)
CONSTANTS
  Clients,    \* the calls, one goroutine each
  Requests,   \* what may be asked
  Senders,    \* the identifiers of keys
  NoKey,      \* no key is registered
  NoRequest,  \* nothing has been asked
  Outcomes(_, _)  \* how a Sign of a request may end with the key it has found

VARIABLES
  keys,   \* keys[s]: the key registered for s
  asked,  \* asked[g]: the request of g
  found,  \* found[g]: the key that g has put or has found, NoRequest before
  told    \* told[g]: what g was told, NoRequest before it returns

vars == <<keys, asked, found, told>>

Init ==
  /\ keys = [s \in Senders |-> NoKey]
  /\ asked = [g \in Clients |-> NoRequest]
  /\ found = [g \in Clients |-> NoRequest]
  /\ told = [g \in Clients |-> NoRequest]

Ask(g) ==
  /\ asked[g] = NoRequest
  /\ \E r \in Requests : asked' = [asked EXCEPT ![g] = r]
  /\ UNCHANGED <<keys, found, told>>

\* The moment at which the call happens.
Happen(g) ==
  /\ asked[g] # NoRequest
  /\ found[g] = NoRequest
  /\ told[g] = NoRequest
  /\ \/ /\ asked[g].op = "put"
        /\ keys' = [keys EXCEPT ![asked[g].sender] = asked[g].key]
        /\ found' = [found EXCEPT ![g] = asked[g].key]
     \/ /\ asked[g].op = "sign"
        /\ found' = [found EXCEPT ![g] = keys[asked[g].sender]]
        /\ UNCHANGED keys
  /\ UNCHANGED <<asked, told>>

Tell(g) ==
  /\ found[g] # NoRequest
  /\ told[g] = NoRequest
  /\ \E o \in Outcomes(asked[g], found[g]) : told' = [told EXCEPT ![g] = o]
  /\ UNCHANGED <<keys, asked, found>>

\* A call that cannot be served is refused without a look at the keys.
Refuse(g) ==
  /\ asked[g] # NoRequest
  /\ found[g] = NoRequest
  /\ told[g] = NoRequest
  /\ \E o \in Outcomes(asked[g], NoRequest) : told' = [told EXCEPT ![g] = o]
  /\ UNCHANGED <<keys, asked, found>>

Next == \E g \in Clients : Ask(g) \/ Happen(g) \/ Tell(g) \/ Refuse(g)

Spec == Init /\ [][Next]_vars
=============================================================================
