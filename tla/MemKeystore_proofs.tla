------------------------- MODULE MemKeystore_proofs -------------------------
(***************************************************************************)
(* Proofs about MemKeystore: KeyInv is inductive; with it the map is never *)
(* raced, signatures are made with current keys, and MemKeystore           *)
(* implements AtomicKeystore, for every number of goroutines and keys.     *)
(***************************************************************************)
EXTENDS MemKeystore, TLAPS

LEMMA RequestFacts ==
  ASSUME NEW r \in Requests
  PROVE  /\ r.sender \in Senders
         /\ r.op \in {"put", "sign"}
         /\ r.op = "put" => r.key \in Keys
         /\ r.op = "sign" => r.message \in Messages
BY DEF Requests, Put, Sign

\* The results, told apart by their kind.
LEMMA ResultFacts ==
  /\ \A e \in Errors : Failure(e) \in Results /\ Failure(e).kind = e
  /\ Stored \in Results /\ Stored.kind = "stored"
  /\ \A k \in Keys, m \in Messages :
       /\ Signature(k, m) \in Results
       /\ Signature(k, m).kind = "signature" /\ Signature(k, m).key = k
  /\ NoRequest \notin Results
<1>1. NoRequest \notin Results
  BY KeyAssumption
<1>2. ASSUME NEW e \in Errors PROVE Failure(e) \in Results /\ Failure(e).kind = e
  BY DEF Failure, Results
<1>3. Stored \in Results /\ Stored.kind = "stored"
  BY DEF Failure, Stored, Results
<1>4. ASSUME NEW k \in Keys, NEW m \in Messages
      PROVE  /\ Signature(k, m) \in Results
             /\ Signature(k, m).kind = "signature" /\ Signature(k, m).key = k
  <2>1. Signature(k, m) \in Signatures
    BY DEF Signatures
  <2>2. Signature(k, m) \in Results
    BY <2>1 DEF Results
  <2> QED BY <2>2 DEF Signature
<1> QED BY <1>1, <1>2, <1>3, <1>4

LEMMA InitKeyInv == Init => KeyInv
BY KeyAssumption DEF Init, KeyInv, TypeOK, MutexInv, CallInv, KnownInv, SignatureIsCurrent
-----------------------------------------------------------------------------
(* One lemma for each action, one step in it for each part of KeyInv.      *)

\* A call begins: it knows what is registered then.
LEMMA CallStep ==
  ASSUME KeyInv, NEW g \in Clients, Call(g)
  PROVE  KeyInv'
<1> USE DEF KeyInv
<1>1. TypeOK'
  BY RequestFacts, ResultFacts DEF TypeOK, Call, CallInv, Errors
<1>2. MutexInv'
  BY KeyAssumption DEF TypeOK, MutexInv, Call
<1>3. CallInv'
  BY KeyAssumption, RequestFacts, ResultFacts DEF TypeOK, CallInv, Call, Errors
<1>4. KnownInv'
  BY KeyAssumption, RequestFacts DEF TypeOK, CallInv, KnownInv, Call
<1>5. SignatureIsCurrent'
  BY KeyAssumption, ResultFacts, RequestFacts DEF TypeOK, CallInv, KnownInv, SignatureIsCurrent, Call, Errors
<1> QED BY <1>1, <1>2, <1>3, <1>4, <1>5

\* The transaction is hashed, or the hash method's error is returned.
LEMMA HashStep ==
  ASSUME KeyInv, NEW g \in Clients, Hash(g)
  PROVE  KeyInv'
<1> USE DEF KeyInv
<1>1. TypeOK'
  BY RequestFacts, ResultFacts DEF TypeOK, Hash, CallInv, Errors, Return
<1>2. MutexInv'
  BY KeyAssumption DEF TypeOK, MutexInv, Hash, Return
<1>3. CallInv'
  BY KeyAssumption, RequestFacts, ResultFacts DEF TypeOK, CallInv, Hash, Errors, Return
<1>4. KnownInv'
  BY KeyAssumption, RequestFacts DEF TypeOK, CallInv, KnownInv, Hash, Return
<1>5. SignatureIsCurrent'
  BY KeyAssumption, ResultFacts, RequestFacts DEF TypeOK, CallInv, KnownInv, SignatureIsCurrent, Hash, Errors, Return
<1> QED BY <1>1, <1>2, <1>3, <1>4, <1>5

\* The mutex is taken: nobody else was in the map.
LEMMA LockStep ==
  ASSUME KeyInv, NEW g \in Clients, Lock(g)
  PROVE  KeyInv'
<1> USE DEF KeyInv
<1>1. TypeOK'
  BY RequestFacts, ResultFacts DEF TypeOK, Lock, CallInv, Errors
<1>2. MutexInv'
  BY KeyAssumption DEF TypeOK, MutexInv, Lock
<1>3. CallInv'
  BY KeyAssumption, RequestFacts, ResultFacts DEF TypeOK, CallInv, Lock, Errors
<1>4. KnownInv'
  BY KeyAssumption, RequestFacts DEF TypeOK, CallInv, KnownInv, Lock
<1>5. SignatureIsCurrent'
  BY KeyAssumption, ResultFacts, RequestFacts DEF TypeOK, CallInv, KnownInv, SignatureIsCurrent, Lock, Errors
<1> QED BY <1>1, <1>2, <1>3, <1>4, <1>5

\* Put stores: the calls that are under way learn of the key.
LEMMA StoreStep ==
  ASSUME KeyInv, NEW g \in Clients, Store(g)
  PROVE  KeyInv'
<1> USE DEF KeyInv
<1>1. TypeOK'
  BY RequestFacts, ResultFacts DEF TypeOK, Store, CallInv, Errors
<1>2. MutexInv'
  BY KeyAssumption DEF TypeOK, MutexInv, Store
<1>3. CallInv'
  BY KeyAssumption, RequestFacts, ResultFacts DEF TypeOK, CallInv, Store, Errors
<1>4. KnownInv'
  BY KeyAssumption, RequestFacts DEF TypeOK, CallInv, KnownInv, Store
<1>5. SignatureIsCurrent'
  BY KeyAssumption, ResultFacts, RequestFacts DEF TypeOK, CallInv, KnownInv, SignatureIsCurrent, Store, Errors
<1> QED BY <1>1, <1>2, <1>3, <1>4, <1>5

\* Get reads what is registered now.
LEMMA LoadStep ==
  ASSUME KeyInv, NEW g \in Clients, Load(g)
  PROVE  KeyInv'
<1> USE DEF KeyInv
<1>1. TypeOK'
  BY RequestFacts, ResultFacts DEF TypeOK, Load, CallInv, Errors
<1>2. MutexInv'
  BY KeyAssumption DEF TypeOK, MutexInv, Load
<1>3. CallInv'
  BY KeyAssumption, RequestFacts, ResultFacts DEF TypeOK, CallInv, Load, Errors
<1>4. KnownInv'
  BY KeyAssumption, RequestFacts DEF TypeOK, CallInv, KnownInv, Load
<1>5. SignatureIsCurrent'
  BY KeyAssumption, ResultFacts, RequestFacts DEF TypeOK, CallInv, KnownInv, SignatureIsCurrent, Load, Errors
<1> QED BY <1>1, <1>2, <1>3, <1>4, <1>5

\* The mutex is released: nobody else held it.
LEMMA UnlockStep ==
  ASSUME KeyInv, NEW g \in Clients, Unlock(g)
  PROVE  KeyInv'
<1> USE DEF KeyInv
<1>1. TypeOK'
  BY RequestFacts, ResultFacts DEF TypeOK, Unlock, CallInv, Errors, Return
<1>2. MutexInv'
  BY KeyAssumption DEF TypeOK, MutexInv, Unlock, Return
<1>3. CallInv'
  BY KeyAssumption, RequestFacts, ResultFacts DEF TypeOK, CallInv, Unlock, Errors, Return
<1>4. KnownInv'
  BY KeyAssumption, RequestFacts DEF TypeOK, CallInv, KnownInv, Unlock, Return
<1>5. SignatureIsCurrent'
  BY KeyAssumption, ResultFacts, RequestFacts DEF TypeOK, CallInv, KnownInv, SignatureIsCurrent, Unlock, Errors, Return
<1> QED BY <1>1, <1>2, <1>3, <1>4, <1>5

\* A done context ends the Sign.
LEMMA SelectStep ==
  ASSUME KeyInv, NEW g \in Clients, Select(g)
  PROVE  KeyInv'
<1> USE DEF KeyInv
<1>1. TypeOK'
  BY RequestFacts, ResultFacts DEF TypeOK, Select, CallInv, Errors, Return
<1>2. MutexInv'
  BY KeyAssumption DEF TypeOK, MutexInv, Select, Return
<1>3. CallInv'
  BY KeyAssumption, RequestFacts, ResultFacts DEF TypeOK, CallInv, Select, Errors, Return
<1>4. KnownInv'
  BY KeyAssumption, RequestFacts DEF TypeOK, CallInv, KnownInv, Select, Return
<1>5. SignatureIsCurrent'
  BY KeyAssumption, ResultFacts, RequestFacts DEF TypeOK, CallInv, KnownInv, SignatureIsCurrent, Select, Errors, Return
<1> QED BY <1>1, <1>2, <1>3, <1>4, <1>5

\* The curve signs with the key that was found.
LEMMA CurveSignStep ==
  ASSUME KeyInv, NEW g \in Clients, CurveSign(g)
  PROVE  KeyInv'
<1> USE DEF KeyInv
<1>1. TypeOK'
  BY RequestFacts, ResultFacts DEF TypeOK, CurveSign, CallInv, Errors, Return
<1>2. MutexInv'
  BY KeyAssumption DEF TypeOK, MutexInv, CurveSign, Return
<1>3. CallInv'
  BY KeyAssumption, RequestFacts, ResultFacts DEF TypeOK, CallInv, CurveSign, Errors, Return
<1>4. KnownInv'
  BY KeyAssumption, RequestFacts DEF TypeOK, CallInv, KnownInv, CurveSign, Return
<1>5. SignatureIsCurrent'
  BY KeyAssumption, ResultFacts, RequestFacts DEF TypeOK, CallInv, KnownInv, SignatureIsCurrent, CurveSign, Errors, Return
<1> QED BY <1>1, <1>2, <1>3, <1>4, <1>5

\* A context ends.
LEMMA CtxEndsStep ==
  ASSUME KeyInv, NEW g \in Clients, CtxEnds(g)
  PROVE  KeyInv'
<1> USE DEF KeyInv
<1>1. TypeOK'
  BY RequestFacts, ResultFacts DEF TypeOK, CtxEnds, CallInv, Errors
<1>2. MutexInv'
  BY KeyAssumption DEF TypeOK, MutexInv, CtxEnds
<1>3. CallInv'
  BY KeyAssumption, RequestFacts, ResultFacts DEF TypeOK, CallInv, CtxEnds, Errors
<1>4. KnownInv'
  BY KeyAssumption, RequestFacts DEF TypeOK, CallInv, KnownInv, CtxEnds
<1>5. SignatureIsCurrent'
  BY KeyAssumption, ResultFacts, RequestFacts DEF TypeOK, CallInv, KnownInv, SignatureIsCurrent, CtxEnds, Errors
<1> QED BY <1>1, <1>2, <1>3, <1>4, <1>5

-----------------------------------------------------------------------------
LEMMA StutterKeyInv == KeyInv /\ UNCHANGED vars => KeyInv'
BY DEF KeyInv, vars, TypeOK, MutexInv, CallInv, KnownInv, SignatureIsCurrent

LEMMA NextKeyInv == KeyInv /\ [Next]_vars => KeyInv'
<1> SUFFICES ASSUME KeyInv, Next PROVE KeyInv'
  BY StutterKeyInv
<1> PICK g \in Clients : Call(g) \/ Lock(g) \/ Run(g) \/ CtxEnds(g)
  BY DEF Next
<1> QED BY CallStep, LockStep, HashStep, StoreStep, LoadStep, UnlockStep, SelectStep,
           CurveSignStep, CtxEndsStep DEF Run

\* The whole invariant holds in every state, for all constants that satisfy
\* KeyAssumption.
THEOREM KeyInvCorrect == Spec => []KeyInv
BY InitKeyInv, NextKeyInv, PTL DEF Spec

\* Type correctness of MemKeystore.
THEOREM TypeCorrect == Spec => []TypeOK
<1>1. KeyInv => TypeOK
  BY DEF KeyInv
<1> QED BY <1>1, KeyInvCorrect, PTL

\* The map of a MemKeystore is never touched by a Put and another call at once.
THEOREM NoRace == Spec => []MapIsNotRaced
<1>1. KeyInv => MapIsNotRaced
  BY DEF KeyInv, MutexInv, MapIsNotRaced
<1> QED BY <1>1, KeyInvCorrect, PTL

\* A signature is made with a key that was registered during the call.
THEOREM CurrentCorrect == Spec => []SignatureIsCurrent
<1>1. KeyInv => SignatureIsCurrent
  BY DEF KeyInv
<1> QED BY <1>1, KeyInvCorrect, PTL
-----------------------------------------------------------------------------
(* The refinement: Store and Load are the moments at which calls happen.   *)

LEMMA OutcomeFacts ==
  ASSUME NEW r, NEW k
  PROVE  /\ k = NoRequest /\ r.op = "sign" => Failure("hashError") \in Outcomes(r, k)
         /\ k = NoKey /\ k # NoRequest /\ r.op = "sign" =>
              Failure("ErrSenderNoExist") \in Outcomes(r, k)
         /\ k \in Keys /\ r.op = "put" => Stored \in Outcomes(r, k)
         /\ k \notin {NoRequest, NoKey} /\ r.op = "sign" =>
              /\ Failure("ctxError") \in Outcomes(r, k)
              /\ Failure("invalidBitLength") \in Outcomes(r, k)
              /\ Signature(k, r.message) \in Outcomes(r, k)
BY DEF Outcomes

LEMMA StepIsAtomic == KeyInv /\ KeyInv' /\ [Next]_vars => [Atomic!Next]_(Atomic!vars)
<1> SUFFICES ASSUME KeyInv, Next PROVE [Atomic!Next]_(Atomic!vars)
  BY DEF vars, Atomic!vars
<1> PICK g \in Clients : Call(g) \/ Lock(g) \/ Run(g) \/ CtxEnds(g)
  BY DEF Next
<1> USE DEF KeyInv, CallInv
<1>1. CASE Call(g)
  <2>1. Atomic!Ask(g)
    BY <1>1 DEF Call, Atomic!Ask
  <2> QED BY <2>1 DEF Atomic!Next
<1>2. CASE Lock(g) \/ CtxEnds(g)
  BY <1>2 DEF Lock, CtxEnds, Atomic!vars
<1>3. CASE Hash(g)
  <2>1. CASE req[g].message \in Unhashable
    <3>1. Atomic!Refuse(g)
      BY <1>3, <2>1, OutcomeFacts DEF Hash, Return, Atomic!Refuse
    <3> QED BY <3>1 DEF Atomic!Next
  <2>2. CASE req[g].message \notin Unhashable
    BY <1>3, <2>2 DEF Hash, Atomic!vars
  <2> QED BY <2>1, <2>2
<1>4. CASE Store(g) \/ Load(g)
  <2>1. Atomic!Happen(g)
    BY <1>4 DEF Store, Load, Atomic!Happen
  <2> QED BY <2>1 DEF Atomic!Next
<1>5. CASE Unlock(g)
  <2>1. CASE req[g].op = "sign" /\ found[g] # NoKey
    BY <1>5, <2>1 DEF Unlock, Atomic!vars
  <2>2. CASE req[g].op = "put"
    <3>1. Stored \in Outcomes(req[g], found[g])
      BY <1>5, <2>2, OutcomeFacts DEF Unlock, TypeOK
    <3>2. Atomic!Tell(g)
      BY <1>5, <2>2, <3>1 DEF Unlock, Return, Atomic!Tell
    <3> QED BY <3>2 DEF Atomic!Next
  <2>3. CASE req[g].op = "sign" /\ found[g] = NoKey
    <3>1. Failure("ErrSenderNoExist") \in Outcomes(req[g], found[g])
      BY <1>5, <2>3, OutcomeFacts DEF Unlock
    <3>2. Atomic!Tell(g)
      BY <1>5, <2>3, <3>1 DEF Unlock, Return, Atomic!Tell
    <3> QED BY <3>2 DEF Atomic!Next
  <2> QED BY <1>5, <2>1, <2>2, <2>3 DEF Unlock
<1>6. CASE Select(g)
  <2>1. CASE ctxDone[g]
    <3>1. found[g] \notin {NoRequest, NoKey} /\ req[g].op = "sign"
      BY <1>6, KeyAssumption DEF Select
    <3>2. Atomic!Tell(g)
      BY <1>6, <2>1, <3>1, OutcomeFacts DEF Select, Return, Atomic!Tell
    <3> QED BY <3>2 DEF Atomic!Next
  <2>2. CASE ~ctxDone[g]
    BY <1>6, <2>2 DEF Select, Atomic!vars
  <2> QED BY <2>1, <2>2
<1>7. CASE CurveSign(g)
  <2>1. found[g] \notin {NoRequest, NoKey} /\ req[g].op = "sign"
    BY <1>7, KeyAssumption DEF CurveSign
  <2>2. Atomic!Tell(g)
    BY <1>7, <2>1, OutcomeFacts DEF CurveSign, Return, Atomic!Tell
  <2> QED BY <2>2 DEF Atomic!Next
<1> QED BY <1>1, <1>2, <1>3, <1>4, <1>5, <1>6, <1>7 DEF Run

\* MemKeystore implements AtomicKeystore: every Put and every Sign works on the map
\* at one moment of its call, for every number of goroutines.
THEOREM PromiseCorrect == Spec => KeepsPromise
<1>1. Init => Atomic!Init
  BY DEF Init, Atomic!Init
<1> QED BY <1>1, StepIsAtomic, KeyInvCorrect, PTL DEF Spec, KeepsPromise, Atomic!Spec
=============================================================================
