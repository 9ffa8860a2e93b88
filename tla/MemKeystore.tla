----------------------------- MODULE MemKeystore -----------------------------
(***************************************************************************)
(* MemKeystore and the signing methods of Account that use it.             *)
(*                                                                         *)
(* Every element of Clients is a goroutine with one call: a Put, or one of *)
(* SignInvokeTransaction, SignDeployAccountTransaction and                 *)
(* SignDeclareTransaction, which hash the transaction, look the key up     *)
(* under the mutex, and sign outside it.                                   *)
(***************************************************************************)
CONSTANTS
  Clients,
  Senders,    \* public keys, by which private keys are registered
  Keys,       \* private keys
  Messages,   \* transactions to sign
  Unhashable, \* the transactions whose hash method returns an error
  Unsignable, \* the transactions whose hash the curve refuses: 0, or 2^251 and more
  NoKey,
  NoRequest,
  Free        \* the mutex is not held

Put(s, k)  == [op |-> "put", sender |-> s, key |-> k]
Sign(s, m) == [op |-> "sign", sender |-> s, message |-> m]
Requests == {Put(s, k) : s \in Senders, k \in Keys}
              \cup {Sign(s, m) : s \in Senders, m \in Messages}

Signature(k, m) == [kind |-> "signature", key |-> k, message |-> m]
Failure(e)      == [kind |-> e, key |-> NoKey, message |-> NoRequest]
Stored          == Failure("stored")
Errors  == {"hashError", "ErrSenderNoExist", "ctxError", "invalidBitLength"}
Signatures == {Signature(k, m) : k \in Keys, m \in Messages}
Results == {Stored} \cup {Failure(e) : e \in Errors} \cup Signatures

ASSUME KeyAssumption ==
  /\ NoKey \notin Keys
  /\ NoRequest \notin Keys \cup {NoKey}
  /\ NoRequest \notin Requests
  /\ NoRequest \notin Results
  /\ Free \notin Clients
  /\ Unhashable \cup Unsignable \subseteq Messages

VARIABLES
  mu,       \* who holds ks.mu
  keys,     \* ks.keys
  ctxDone,  \* ctxDone[g]: the context of g is done
  pc,       \* pc[g]: where the call is
  req,      \* req[g]: its arguments
  found,    \* found[g]: the key that Put stores or Get returns
  told,     \* told[g]: the returned values, with the signature set in the transaction
  known     \* history: what keys held for the sender of g during its call

vars == <<mu, keys, ctxDone, pc, req, found, told, known>>

Init ==
  /\ mu = Free
  /\ keys = [s \in Senders |-> NoKey]
  /\ ctxDone = [g \in Clients |-> FALSE]
  /\ pc = [g \in Clients |-> "idle"]
  /\ req = [g \in Clients |-> NoRequest]
  /\ found = [g \in Clients |-> NoRequest]
  /\ told = [g \in Clients |-> NoRequest]
  /\ known = [g \in Clients |-> {}]

Return(g, o) ==
  /\ told' = [told EXCEPT ![g] = o]
  /\ pc' = [pc EXCEPT ![g] = "returned"]

\* The call; a Sign hashes the transaction first.
Call(g) ==
  /\ pc[g] = "idle"
  /\ \E r \in Requests :
       /\ req' = [req EXCEPT ![g] = r]
       /\ known' = [known EXCEPT ![g] = {keys[r.sender]}]
       /\ pc' = [pc EXCEPT ![g] = IF r.op = "sign" THEN "hash" ELSE "lock"]
  /\ UNCHANGED <<mu, keys, ctxDone, found, told>>

\* account.TransactionHash...(*tx): an error returns at once, and Signature stays
\* as it was.
Hash(g) ==
  /\ pc[g] = "hash"
  /\ IF req[g].message \in Unhashable
     THEN Return(g, Failure("hashError"))
     ELSE pc' = [pc EXCEPT ![g] = "lock"] /\ UNCHANGED told
  /\ UNCHANGED <<mu, keys, ctxDone, req, found, known>>

\* Mutant of Lock: the mutex of readers, taken without looking at writers.
LockFreeGet(g) ==
  /\ pc[g] = "lock"
  /\ IF req[g].op = "sign" THEN UNCHANGED mu ELSE mu = Free /\ mu' = g
  /\ pc' = [pc EXCEPT ![g] = "map"]
  /\ UNCHANGED <<keys, ctxDone, req, found, told, known>>

\* ks.mu.Lock()
Lock(g) ==
  /\ pc[g] = "lock"
  /\ mu = Free
  /\ mu' = g
  /\ pc' = [pc EXCEPT ![g] = "map"]
  /\ UNCHANGED <<keys, ctxDone, req, found, told, known>>

\* ks.keys[senderAddress] = k
Store(g) ==
  /\ pc[g] = "map"
  /\ req[g].op = "put"
  /\ keys' = [keys EXCEPT ![req[g].sender] = req[g].key]
  /\ found' = [found EXCEPT ![g] = req[g].key]
  /\ known' = [d \in Clients |->
                 IF pc[d] \notin {"idle", "returned"} /\ req[d].sender = req[g].sender
                 THEN known[d] \cup {req[g].key} ELSE known[d]]
  /\ pc' = [pc EXCEPT ![g] = "unlock"]
  /\ UNCHANGED <<mu, ctxDone, req, told>>

\* Mutant of Load: a key that another call has put or found is taken from a cache.
CachedLoad(g) ==
  /\ pc[g] = "map"
  /\ req[g].op = "sign"
  /\ \E k \in {keys[req[g].sender]} \cup
              {found[d] : d \in {e \in Clients : req[e] # NoRequest /\ found[e] # NoRequest
                                              /\ req[e].sender = req[g].sender}} :
       found' = [found EXCEPT ![g] = k]
  /\ pc' = [pc EXCEPT ![g] = "unlock"]
  /\ UNCHANGED <<mu, keys, ctxDone, req, told, known>>

\* k, exists := ks.keys[senderAddress]
Load(g) ==
  /\ pc[g] = "map"
  /\ req[g].op = "sign"
  /\ found' = [found EXCEPT ![g] = keys[req[g].sender]]
  /\ pc' = [pc EXCEPT ![g] = "unlock"]
  /\ UNCHANGED <<mu, keys, ctxDone, req, told, known>>

\* Mutant of Unlock: an early return without the deferred unlock.
LeakyUnlock(g) ==
  /\ pc[g] = "unlock"
  /\ mu' = IF found[g] = NoKey THEN mu ELSE Free
  /\ \/ req[g].op = "put" /\ Return(g, Stored)
     \/ req[g].op = "sign" /\ found[g] = NoKey /\ Return(g, Failure("ErrSenderNoExist"))
     \/ /\ req[g].op = "sign" /\ found[g] # NoKey
        /\ pc' = [pc EXCEPT ![g] = "select"]
        /\ UNCHANGED told
  /\ UNCHANGED <<keys, ctxDone, req, found, known>>

\* Mutant of Unlock: exists is not looked at.
UncheckedGet(g) ==
  /\ pc[g] = "unlock"
  /\ mu' = Free
  /\ IF req[g].op = "put" THEN Return(g, Stored)
     ELSE pc' = [pc EXCEPT ![g] = "select"] /\ UNCHANGED told
  /\ UNCHANGED <<keys, ctxDone, req, found, known>>

\* defer ks.mu.Unlock(), on each return; a key that is missing ends the Sign.
Unlock(g) ==
  /\ pc[g] = "unlock"
  /\ mu' = Free
  /\ \/ req[g].op = "put" /\ Return(g, Stored)
     \/ req[g].op = "sign" /\ found[g] = NoKey /\ Return(g, Failure("ErrSenderNoExist"))
     \/ /\ req[g].op = "sign" /\ found[g] # NoKey
        /\ pc' = [pc EXCEPT ![g] = "select"]
        /\ UNCHANGED told
  /\ UNCHANGED <<keys, ctxDone, req, found, known>>

\* sign: select with a default, so that a done context always wins.
Select(g) ==
  /\ pc[g] = "select"
  /\ IF ctxDone[g]
     THEN Return(g, Failure("ctxError"))
     ELSE pc' = [pc EXCEPT ![g] = "curve"] /\ UNCHANGED told
  /\ UNCHANGED <<mu, keys, ctxDone, req, found, known>>

\* curve.Curve.Sign(msgHash, key), which no context interrupts.
CurveSign(g) ==
  /\ pc[g] = "curve"
  /\ Return(g, IF req[g].message \in Unsignable THEN Failure("invalidBitLength")
               ELSE Signature(found[g], req[g].message))
  /\ UNCHANGED <<mu, keys, ctxDone, req, found, known>>

\* Until the call returns; a context that was done before it ends right after Call.
CtxEnds(g) ==
  /\ pc[g] \in {"hash", "lock", "map", "unlock", "select", "curve"}
  /\ req[g].op = "sign"
  /\ ~ctxDone[g]
  /\ ctxDone' = [ctxDone EXCEPT ![g] = TRUE]
  /\ UNCHANGED <<mu, keys, pc, req, found, told, known>>

Run(g) ==
  \/ Hash(g) \/ Store(g) \/ Load(g) \/ Unlock(g) \/ Select(g) \/ CurveSign(g)

Next == \E g \in Clients : Call(g) \/ Lock(g) \/ Run(g) \/ CtxEnds(g)

\* A goroutine that can run does run.  sync.Mutex hands itself to a waiter that
\* has starved, so whoever finds the mutex free again and again gets it.
Fairness == \A g \in Clients : WF_vars(Run(g)) /\ SF_vars(Lock(g))

Spec == Init /\ [][Next]_vars
FairSpec == Spec /\ Fairness
-----------------------------------------------------------------------------
(* Properties.                                                             *)

Outcomes(r, k) ==
  IF r.op = "put" THEN (IF k \in Keys THEN {Stored} ELSE {})
  ELSE IF k = NoRequest THEN {Failure("hashError")}
  ELSE IF k = NoKey THEN {Failure("ErrSenderNoExist")}
  ELSE {Failure("ctxError"), Failure("invalidBitLength"), Signature(k, r.message)}

TypeOK ==
  /\ mu \in Clients \cup {Free}
  /\ keys \in [Senders -> Keys \cup {NoKey}]
  /\ ctxDone \in [Clients -> BOOLEAN]
  /\ pc \in [Clients -> {"idle", "hash", "lock", "map", "unlock", "select", "curve",
                         "returned"}]
  /\ req \in [Clients -> Requests \cup {NoRequest}]
  /\ found \in [Clients -> Keys \cup {NoKey, NoRequest}]
  /\ told \in [Clients -> Results \cup {NoRequest}]
  /\ known \in [Clients -> SUBSET (Keys \cup {NoKey})]

\* A signature is made with a key that was registered for the sender at some
\* moment of the call, however Puts and the late signing interleave, and
\* ErrSenderNoExist is returned only if at some moment there was none.
SignatureIsCurrent ==
  \A g \in Clients : told[g] # NoRequest =>
    /\ told[g].kind = "signature" => told[g].key \in known[g]
    /\ told[g].kind = "ErrSenderNoExist" => NoKey \in known[g]

\* The inductive invariant: the holder of the mutex is the one call in the map or
\* about to unlock; a call knows its request, what it has found and, at the end,
\* what it was told; and what it found was there during the call.
MutexInv == \A g \in Clients : pc[g] \in {"map", "unlock"} <=> mu = g

CallInv ==
  \A g \in Clients :
    /\ pc[g] = "idle" <=> req[g] = NoRequest
    /\ pc[g] \in {"hash", "select", "curve"} => req[g].op = "sign"
    /\ pc[g] \in {"idle", "hash", "lock", "map"} => found[g] = NoRequest
    /\ pc[g] = "unlock" => found[g] # NoRequest
    /\ pc[g] = "unlock" /\ req[g].op = "put" => found[g] # NoKey
    /\ pc[g] \in {"select", "curve"} => found[g] \in Keys
    /\ pc[g] = "returned" <=> told[g] # NoRequest

KnownInv ==
  \A g \in Clients :
    /\ pc[g] \notin {"idle", "returned"} => keys[req[g].sender] \in known[g]
    /\ found[g] \in known[g] \cup {NoRequest}

KeyInv == TypeOK /\ MutexInv /\ CallInv /\ KnownInv /\ SignatureIsCurrent

\* The map of a MemKeystore is never touched by a Put and another call at once,
\* which would be a fatal error of the Go runtime.
MapIsNotRaced ==
  \A g, d \in Clients :
    g # d /\ pc[g] = "map" /\ pc[d] = "map" => req[g].op # "put"

\* Every call returns, whatever the others do and whether or not a key is there.
EveryCallReturns ==
  \A g \in Clients : pc[g] # "idle" ~> pc[g] = "returned"

\* The mutex makes each call one step on the map: AtomicKeystore.
Atomic == INSTANCE AtomicKeystore WITH asked <- req
KeepsPromise == Atomic!Spec
=============================================================================
