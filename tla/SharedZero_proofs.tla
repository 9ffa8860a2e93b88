-------------------------- MODULE SharedZero_proofs --------------------------
(***************************************************************************)
(* Proofs about SharedZero and TxSeparation.  ZeroInv is inductive, and    *)
(* with it the type invariant, HashIsReference and SoloHashIsOwn hold for  *)
(* every number of goroutines, every domain and every list of definitions. *)
(*                                                                         *)
(* HashSeparatesTxs is a matter of which lists are hashed.  A hash has the *)
(* shape of its type (its function, its prefix and its length), and no two *)
(* types share one; two hashes of one type are then compared field by      *)
(* field.  The calldata of FmtCalldata and the lists of entry points are   *)
(* lists of lists that were flattened, which FlattenTheorems tells apart   *)
(* by a head in each of them that determines its length.                   *)
(***************************************************************************)
EXTENDS TxSeparation, FlattenTheorems, FiniteSetTheorems

\* Only the types of ReadsZero depend on what felt.Zero holds.
LEMMA HashWithoutZero ==
  ASSUME NEW tx, NEW z, ~ReadsZero(tx)
  PROVE  HashOf(tx, z) = HashOf(tx, Zero)
BY DEF HashOf, ReadsZero

\* The field of a definition holds one of the texts, and what it parses to is a
\* felt unless it is NoFelt.
LEMMA FieldFacts ==
  ASSUME TypeOK, NEW g \in Typers, HasField(g), Parsed[Field(g)] # NoFelt
  PROVE  Parsed[Field(g)] \in Felts
<1>1. domain[g] \in [Names -> Texts]
  BY ZeroAssumption DEF TypeOK
<1>2. Field(g) \in Texts
  BY <1>1 DEF Field, HasField
<1> QED BY <1>2 DEF Felts

\* Appending the next value of F extends the list of its values.
LEMMA AppendMeant ==
  ASSUME NEW n \in Nat, NEW F(_), NEW s, s = [i \in 1..n |-> F(i)]
  PROVE  Append(s, F(n + 1)) = [i \in 1..(n + 1) |-> F(i)]
OBVIOUS
-----------------------------------------------------------------------------
(* The steps of a typed-data hash.  None touches hashes.                   *)

\* What ZeroInv says of the finished hashes survives a step that adds none.
LEMMA HashesKept ==
  ASSUME ZeroInv, UNCHANGED hashes
  PROVE  /\ \A h \in hashes' : h.tx \in Txs /\ \E z \in Readable : h.res = HashOf(h.tx, z)
         /\ HashIsReference'
BY DEF ZeroInv, TypeOK, HashIsReference

\* The definitions are a sequence.
LEMMA LengthFacts == ZeroAssumption => Len(Definitions) \in Nat
BY DEF ZeroAssumption

\* A call begins: it is alone when nothing runs, and those that run are not.
LEMMA StartStep ==
  ASSUME ZeroInv, NEW g \in Typers, StartTyped(g)
  PROVE  ZeroInv'
<1> USE DEF ZeroInv
<1>1. TypeOK'
  BY HashesKept DEF TypeOK, StartTyped, Readable, Felts
<1>2. RunInv'
  BY DEF RunInv, StartTyped, TypeOK, HasField, Field, Current
<1>3. AloneInv'
  BY DEF AloneInv, StartTyped, TypeOK, Running
<1>4. SoloInv'
  BY LengthFacts, ZeroAssumption DEF SoloInv, RunInv, StartTyped, TypeOK, Running, Field, Current
<1>5. UntouchedInv'
  BY DEF UntouchedInv, StartTyped
<1> QED BY <1>1, <1>2, <1>3, <1>4, <1>5, HashesKept DEF StartTyped

\* The element of the current definition is added; for a hash that is alone it is
\* the one that is meant.
LEMMA AdvanceStep ==
  ASSUME ZeroInv, NEW g \in Typers, NEW enc \in Seq(Readable), Advance(g, enc),
         pc[g] \in {"next", "read"}, index[g] <= Len(Definitions),
         alone[g] /\ Parses(domain[g]) =>
           Element(Current(g), enc) = Meant(domain[g], Current(g)),
         UNCHANGED <<zero, domain, alone, hashes, touched>>
  PROVE  ZeroInv'
<1> USE DEF ZeroInv
<1>1. TypeOK'
  <2> DEFINE D == [name : STRING, type : STRING]
             T == [type : STRING, of : Seq(Readable), len : Nat]
  <2>1. Current(g) \in D
    <3> HIDE DEF D
    <3>1. Definitions \in Seq(D) /\ index[g] \in 1..Len(Definitions)
      BY LengthFacts, ZeroAssumption DEF D, TypeOK
    <3> QED BY <3>1, ElementOfSeq DEF Current
  <2>2. Element(Current(g), enc) \in T
    <3>1. Current(g).type \in STRING /\ Len(enc) \in Nat
      BY <2>1
    <3> QED BY <3>1 DEF Element
  <2>3. elems' \in [Typers -> Seq(T)]
    <3> HIDE DEF T
    <3>1. elems \in [Typers -> Seq(T)]
      BY DEF T, TypeOK
    <3>2. Append(elems[g], Element(Current(g), enc)) \in Seq(T)
      BY <2>2, <3>1, AppendProperties
    <3> QED BY <3>1, <3>2 DEF Advance
  <2>4. Readable' = Readable
    BY DEF Readable, Felts
  <2>5. index' \in [Typers -> 1..(Len(Definitions) + 1)]
    BY LengthFacts, ZeroAssumption DEF TypeOK, Advance
  <2>6. pc' \in [Typers -> {"idle", "next", "writing", "mixing", "read", "done"}]
    BY DEF TypeOK, Advance
  <2>7. /\ zero' \in Readable' /\ domain' \in [Typers -> Domains]
        /\ alone' \in [Typers -> BOOLEAN] /\ touched' \in BOOLEAN
        /\ elems' \in [Typers -> Seq([type : STRING, of : Seq(Readable'), len : Nat])]
    BY <2>3, <2>4 DEF TypeOK
  <2>8. \A h \in hashes' : h.tx \in Txs /\ \E z \in Readable' : h.res = HashOf(h.tx, z)
    BY <2>4, HashesKept
  <2> QED BY <2>5, <2>6, <2>7, <2>8 DEF TypeOK
<1>2. RunInv'
  BY LengthFacts, ZeroAssumption DEF RunInv, Advance, TypeOK, HasField, Field, Current
<1>3. AloneInv'
  BY DEF AloneInv, Advance, TypeOK, Running
<1>4. SoloInv'
  <2> SUFFICES ASSUME NEW d \in Typers, alone[d], Parses(domain[d])
               PROVE  /\ elems'[d] = [i \in 1..(index'[d] - 1) |->
                                        Meant(domain[d], Definitions[i])]
                      /\ pc'[d] # "mixing"
                      /\ pc'[d] = "read" => zero = Parsed[Field(d)']
    BY DEF SoloInv, Parses
  <2>1. CASE d # g
    BY <2>1 DEF SoloInv, Advance, TypeOK, Field, Current
  <2>2. CASE d = g
    <3>1. pc'[g] = "next" /\ index'[g] = index[g] + 1
      BY DEF Advance, TypeOK
    <3>2. elems'[g] = Append(elems[g], Meant(domain[g], Definitions[index[g]]))
      <4>1. g \in DOMAIN elems /\ elems' = [elems EXCEPT ![g] = Append(@, Element(Current(g), enc))]
        BY DEF Advance, TypeOK
      <4> QED BY <2>2, <4>1 DEF Current
    <3>3. elems[g] = [i \in 1..(index[g] - 1) |-> Meant(domain[g], Definitions[i])]
      BY <2>2 DEF SoloInv
    <3>4. index[g] - 1 \in Nat /\ (index[g] - 1) + 1 = index[g]
      BY LengthFacts, ZeroAssumption DEF TypeOK
    <3> DEFINE F(i) == Meant(domain[g], Definitions[i])
    <3>5. Append(elems[g], F(index[g])) = [i \in 1..index[g] |-> F(i)]
      <4> HIDE DEF F
      <4>1. elems[g] = [i \in 1..(index[g] - 1) |-> F(i)]
        BY <3>3 DEF F
      <4> QED BY <3>4, <4>1, AppendMeant
    <3>6. index'[g] - 1 = index[g]
      BY <3>1, LengthFacts, ZeroAssumption DEF TypeOK
    <3> QED BY <2>2, <3>1, <3>2, <3>5, <3>6
  <2> QED BY <2>1, <2>2
<1>5. UntouchedInv'
  BY DEF UntouchedInv
<1> QED BY <1>1, <1>2, <1>3, <1>4, <1>5, HashesKept

\* A definition without a case adds its empty element.
LEMMA NoCaseStep ==
  ASSUME ZeroInv, NEW g \in Typers, NoCase(g)
  PROVE  ZeroInv'
<1>1. Element(Current(g), <<>>) = Meant(domain[g], Current(g))
  BY DEF NoCase, HasField, Meant
<1>2. <<>> \in Seq(Readable)
  OBVIOUS
<1> QED BY <1>1, <1>2, AdvanceStep DEF NoCase

\* The element read from felt.Zero is added.
LEMMA ReadFieldStep ==
  ASSUME ZeroInv, NEW g \in Typers, ReadField(g)
  PROVE  ZeroInv'
<1>1. index[g] <= Len(Definitions) /\ HasField(g)
  BY DEF ZeroInv, RunInv, ReadField
<1>2. alone[g] /\ Parses(domain[g]) =>
        Element(Current(g), <<zero>>) = Meant(domain[g], Current(g))
  BY <1>1 DEF ZeroInv, SoloInv, ReadField, HasField, Meant, Field
<1>3. <<zero>> \in Seq(Readable)
  BY DEF ZeroInv, TypeOK
<1> QED BY <1>1, <1>2, <1>3, AdvanceStep DEF ReadField

\* A store begins: a hash that is alone is the only one running, so no other one
\* reads felt.Zero or is mixed with it.
LEMMA BeginStep ==
  ASSUME ZeroInv, NEW g \in Typers, BeginSetBytes(g)
  PROVE  ZeroInv'
<1> USE DEF ZeroInv
<1>1. TypeOK'
  BY HashesKept DEF TypeOK, BeginSetBytes, Readable, Felts
<1>2. RunInv'
  BY DEF RunInv, BeginSetBytes, TypeOK, HasField, Field, Current, Writing
<1>3. AloneInv'
  BY DEF AloneInv, BeginSetBytes, TypeOK, Running, Writing
<1>4. SoloInv'
  <2> SUFFICES ASSUME NEW d \in Typers, alone[d], Parses(domain[d])
               PROVE  /\ pc'[d] # "mixing"
                      /\ pc'[d] # "read" \/ (pc'[d] = pc[d] /\ zero' = zero)
    BY DEF SoloInv, BeginSetBytes, Field, Current, Parses
  <2>1. CASE d = g
    <3>1. Writing \subseteq {}
      BY <2>1 DEF AloneInv, Running, Writing, BeginSetBytes, TypeOK
    <3> QED BY <2>1, <3>1 DEF BeginSetBytes, TypeOK
  <2>2. CASE d # g
    <3>1. d \notin Running
      BY <2>2 DEF AloneInv, Running, BeginSetBytes
    <3>2. pc[d] \in {"idle", "done"} /\ d \notin Writing
      BY <3>1 DEF Running, Writing
    <3>3. pc'[d] = pc[d]
      BY <2>2, <3>2 DEF BeginSetBytes, TypeOK
    <3> QED BY <3>2, <3>3
  <2> QED BY <2>1, <2>2
<1>5. UntouchedInv'
  BY DEF UntouchedInv, BeginSetBytes
<1> QED BY <1>1, <1>2, <1>3, <1>4, <1>5, HashesKept DEF BeginSetBytes

\* A string that does not parse leaves felt.Zero as it is.
LEMMA SkipStep ==
  ASSUME ZeroInv, NEW g \in Typers, SkipSetBytes(g)
  PROVE  ZeroInv'
<1> USE DEF ZeroInv
<1>1. TypeOK'
  BY HashesKept DEF TypeOK, SkipSetBytes, Readable, Felts
<1>2. RunInv'
  BY DEF RunInv, SkipSetBytes, TypeOK, HasField, Field, Current
<1>3. AloneInv'
  BY DEF AloneInv, SkipSetBytes, TypeOK, Running
<1>4. SoloInv'
  BY DEF SoloInv, SkipSetBytes, TypeOK, Field, Current, Parses, HasField
<1>5. UntouchedInv'
  BY DEF UntouchedInv, SkipSetBytes
<1> QED BY <1>1, <1>2, <1>3, <1>4, <1>5, HashesKept DEF SkipSetBytes

\* A store ends: a hash that is alone was not mixed, and finds its own felt.
LEMMA EndStep ==
  ASSUME ZeroInv, NEW g \in Typers, EndSetBytes(g)
  PROVE  ZeroInv'
<1> USE DEF ZeroInv
<1>1. TypeOK'
  <2>1. Parsed[Field(g)] \in Felts
    BY FieldFacts DEF EndSetBytes, Writing, RunInv
  <2> QED BY <2>1, HashesKept DEF TypeOK, EndSetBytes, Readable
<1>2. RunInv'
  BY DEF RunInv, EndSetBytes, TypeOK, HasField, Field, Current, Writing
<1>3. AloneInv'
  BY DEF AloneInv, EndSetBytes, TypeOK, Running, Writing
<1>4. SoloInv'
  <2> SUFFICES ASSUME NEW d \in Typers, alone[d], Parses(domain[d])
               PROVE  /\ pc'[d] # "mixing"
                      /\ pc'[d] = "read" => zero' = Parsed[Field(d)]
    BY DEF SoloInv, EndSetBytes, Field, Current, Parses
  <2>1. CASE d = g
    <3>1. pc[g] # "mixing"
      BY <2>1 DEF SoloInv
    <3> QED BY <2>1, <3>1 DEF EndSetBytes, TypeOK
  <2>2. CASE d # g
    <3>1. d \notin Running
      BY <2>2 DEF AloneInv, Running, Writing, EndSetBytes
    <3>2. pc[d] \in {"idle", "done"} /\ pc'[d] = pc[d]
      BY <2>2, <3>1 DEF Running, EndSetBytes, TypeOK
    <3> QED BY <3>2
  <2> QED BY <2>1, <2>2
<1>5. UntouchedInv'
  <2>1. touched
    BY DEF EndSetBytes, RunInv, Writing
  <2> QED BY <2>1 DEF UntouchedInv, EndSetBytes
<1> QED BY <1>1, <1>2, <1>3, <1>4, <1>5, HashesKept DEF EndSetBytes

\* The hash ends behind the last definition.
LEMMA EndTypedStep ==
  ASSUME ZeroInv, NEW g \in Typers, EndTyped(g)
  PROVE  ZeroInv'
<1> USE DEF ZeroInv
<1>1. TypeOK'
  BY HashesKept DEF TypeOK, EndTyped, Readable, Felts
<1>2. RunInv'
  BY LengthFacts, ZeroAssumption DEF RunInv, EndTyped, TypeOK, HasField, Field, Current
<1>3. AloneInv'
  BY DEF AloneInv, EndTyped, TypeOK, Running
<1>4. SoloInv'
  BY DEF SoloInv, EndTyped, TypeOK, Field, Current, Parses
<1>5. UntouchedInv'
  BY DEF UntouchedInv, EndTyped
<1> QED BY <1>1, <1>2, <1>3, <1>4, <1>5, HashesKept DEF EndTyped

-----------------------------------------------------------------------------
\* A transaction is hashed: before the first store felt.Zero is 0, and after it
\* only the types of ReadsZero depend on it.
LEMMA HashTxStep ==
  ASSUME ZeroInv, HashTx
  PROVE  ZeroInv'
<1> PICK tx \in Txs :
       hashes' = hashes \cup {[tx |-> tx, res |-> HashOf(tx, zero), touched |-> touched,
                               quiet |-> Running = {}]}
  BY DEF HashTx
<1>1. UNCHANGED <<zero, pc, domain, index, elems, alone, touched>>
  BY DEF HashTx, typedVars
<1>2. HashIsReference'
  <2>1. HashOf(tx, zero) = HashOf(tx, Zero) \/ (ReadsZero(tx) /\ touched)
    BY HashWithoutZero DEF ZeroInv, UntouchedInv
  <2> QED BY <2>1 DEF ZeroInv, HashIsReference
<1>3. TypeOK'
  <2>1. \A h \in hashes' : h.tx \in Txs /\ \E z \in Readable : h.res = HashOf(h.tx, z)
    BY DEF ZeroInv, TypeOK
  <2>2. Readable' = Readable
    BY DEF Readable, Felts
  <2> QED BY <1>1, <2>1, <2>2 DEF ZeroInv, TypeOK
<1>4. RunInv' /\ AloneInv' /\ SoloInv' /\ UntouchedInv'
  BY <1>1 DEF ZeroInv, RunInv, AloneInv, SoloInv, UntouchedInv, Running, HasField, Field,
              Current, Parses
<1> QED BY <1>2, <1>3, <1>4 DEF ZeroInv

\* ZeroInv holds before the first call.
LEMMA InitZeroInv == Init => ZeroInv
<1> SUFFICES ASSUME Init PROVE ZeroInv
  OBVIOUS
<1>1. TypeOK
  <2> DEFINE T == [type : STRING, of : Seq(Readable), len : Nat]
  <2>1. elems \in [Typers -> Seq(T)]
    BY DEF Init
  <2>2. index \in [Typers -> 1..(Len(Definitions) + 1)]
    BY LengthFacts, ZeroAssumption DEF Init
  <2>3. zero \in Readable /\ hashes = {} /\ touched \in BOOLEAN
    BY DEF Init, Readable
  <2>4. /\ pc \in [Typers -> {"idle", "next", "writing", "mixing", "read", "done"}]
        /\ domain \in [Typers -> Domains]
        /\ alone \in [Typers -> BOOLEAN]
    BY DEF Init
  <2> QED BY <2>1, <2>2, <2>3, <2>4 DEF TypeOK
<1>2. RunInv /\ AloneInv /\ UntouchedInv /\ HashIsReference
  BY DEF Init, RunInv, AloneInv, UntouchedInv, HashIsReference, Running
<1>3. SoloInv
  BY DEF Init, SoloInv
<1> QED BY <1>1, <1>2, <1>3 DEF ZeroInv

\* A step that changes nothing keeps ZeroInv.
LEMMA StutterZeroInv == ZeroInv /\ UNCHANGED vars => ZeroInv'
<1> SUFFICES ASSUME ZeroInv, UNCHANGED vars PROVE ZeroInv'
  OBVIOUS
<1>1. TypeOK' /\ HashIsReference' /\ UntouchedInv'
  <2>1. Readable' = Readable
    BY DEF Readable, Felts
  <2> QED BY <2>1 DEF ZeroInv, TypeOK, HashIsReference, UntouchedInv, vars, typedVars
<1>2. RunInv' /\ AloneInv' /\ SoloInv'
  BY DEF ZeroInv, RunInv, AloneInv, SoloInv, Running, HasField, Field, Current, Parses,
         vars, typedVars
<1> QED BY <1>1, <1>2 DEF ZeroInv

\* The whole invariant holds in every state, for all constants that satisfy
\* HashAssumption and ZeroAssumption.
THEOREM ZeroInvCorrect == Spec => []ZeroInv
<1>1. ZeroInv /\ [Next]_vars => ZeroInv'
  <2> SUFFICES ASSUME ZeroInv, Next PROVE ZeroInv'
    BY StutterZeroInv
  <2>1. CASE HashTx
    BY <2>1, HashTxStep
  <2>2. CASE \E g \in Typers : TyperStep(g)
    <3> PICK g \in Typers : TyperStep(g)
      BY <2>2
    <3> QED BY StartStep, NoCaseStep, BeginStep, SkipStep, EndStep, ReadFieldStep,
               EndTypedStep DEF TyperStep
  <2> QED BY <2>1, <2>2 DEF Next
<1> QED BY <1>1, InitZeroInv, PTL DEF Spec

\* Type correctness of SharedZero: felt.Zero holds 0, a felt that was stored or
\* the torn value, and every finished hash is that of one of these.
THEOREM TypeCorrect == Spec => []TypeOK
<1>1. ZeroInv => TypeOK
  BY DEF ZeroInv
<1> QED BY <1>1, ZeroInvCorrect, PTL

\* A transaction hash differs from the protocol's only if its type reads
\* &felt.Zero and a typed-data hash has stored into it before.
THEOREM ReferenceCorrect == Spec => []HashIsReference
<1>1. ZeroInv => HashIsReference
  BY DEF ZeroInv
<1> QED BY <1>1, ZeroInvCorrect, PTL

\* A typed-data hash that no other overlaps with hashes its own strings, for
\* every list of definitions and every number of other goroutines.
THEOREM SoloCorrect == Spec => []SoloHashIsOwn
<1>1. ASSUME ZeroInv PROVE SoloHashIsOwn
  <2> SUFFICES ASSUME NEW g \in Typers, pc[g] = "done", alone[g], Parses(domain[g])
               PROVE  elems[g] = [i \in 1..Len(Definitions) |->
                                    Meant(domain[g], Definitions[i])]
    BY DEF SoloHashIsOwn
  <2>1. index[g] - 1 = Len(Definitions)
    BY <1>1, LengthFacts, ZeroAssumption DEF ZeroInv, RunInv
  <2>2. elems[g] = [i \in 1..(index[g] - 1) |-> Meant(domain[g], Definitions[i])]
    BY <1>1 DEF ZeroInv, SoloInv
  <2> QED BY <2>1, <2>2
<1> QED BY <1>1, ZeroInvCorrect, PTL
-----------------------------------------------------------------------------
(* FmtCalldata: which calls a list of felts is made of.                    *)

\* The elements of a calldata are numbers.
Felt == Int

\* Lengths and offsets are elements too.
LEMMA NatIsFelt == Nat \subseteq Felt
BY DEF Felt

Call == [ContractAddress : Felt, EntryPointSelector : Felt, Calldata : Seq(Felt)]

\* A call is its three fields.
LEMMA CallIs ==
  ASSUME NEW a \in Call, NEW b \in Call,
         a.ContractAddress = b.ContractAddress,
         a.EntryPointSelector = b.EntryPointSelector,
         a.Calldata = b.Calldata
  PROVE  a = b
BY DEF Call

\* What FmtCallDataCairo2 appends for a call.
SizedCall(call) ==
  <<call.ContractAddress, call.EntryPointSelector, Len(call.Calldata)>> \o call.Calldata

\* The calls of a sequence.
LEMMA CallFacts ==
  ASSUME NEW calls \in Seq(Call)
  PROVE  /\ Len(calls) \in Nat /\ DOMAIN calls = 1 .. Len(calls)
         /\ \A i \in 1 .. Len(calls) : calls[i] \in Call
BY LenProperties, ElementOfSeq

\* A list with three elements put before it.
LEMMA HeadedFacts ==
  ASSUME NEW a \in Felt, NEW b \in Felt, NEW c \in Felt, NEW d \in Seq(Felt)
  PROVE  /\ <<a, b, c>> \o d \in Seq(Felt)
         /\ Len(<<a, b, c>> \o d) = 3 + Len(d)
         /\ Len(d) \in Nat
         /\ (<<a, b, c>> \o d)[1] = a
         /\ (<<a, b, c>> \o d)[2] = b
         /\ (<<a, b, c>> \o d)[3] = c
<1>1. Len(d) \in Nat
  BY LenProperties
<1>2. PICK h : h = <<a, b, c>>
  OBVIOUS
<1>3. h \in Seq(Felt) /\ Len(h) = 3 /\ h[1] = a /\ h[2] = b /\ h[3] = c
  BY <1>2
<1>4. /\ h \o d \in Seq(Felt) /\ Len(h \o d) = Len(h) + Len(d)
      /\ \A i \in 1 .. Len(h) + Len(d) :
           (h \o d)[i] = IF i <= Len(h) THEN h[i] ELSE d[i - Len(h)]
  BY <1>3, ConcatProperties
<1>5. \A i \in {1, 2, 3} : (h \o d)[i] = h[i]
  BY <1>1, <1>3, <1>4
<1>6. /\ h \o d \in Seq(Felt) /\ Len(h \o d) = 3 + Len(d)
      /\ (h \o d)[1] = a /\ (h \o d)[2] = b /\ (h \o d)[3] = c
  BY <1>3, <1>4, <1>5
<1> QED BY <1>1, <1>2, <1>6, Zenon

\* Its length and its first three elements.
LEMMA SizedCallFacts ==
  ASSUME NEW call \in Call
  PROVE  /\ SizedCall(call) \in Seq(Felt)
         /\ Len(SizedCall(call)) = 3 + Len(call.Calldata)
         /\ Len(call.Calldata) \in Nat
         /\ SizedCall(call)[1] = call.ContractAddress
         /\ SizedCall(call)[2] = call.EntryPointSelector
         /\ SizedCall(call)[3] = Len(call.Calldata)
<1>1. call.Calldata \in Seq(Felt) /\ call.ContractAddress \in Felt
      /\ call.EntryPointSelector \in Felt
  BY DEF Call
<1>2. Len(call.Calldata) \in Felt
  BY <1>1, NatIsFelt, LenProperties
<1>3. PICK a, b, c, d : /\ a = call.ContractAddress /\ b = call.EntryPointSelector
                        /\ c = Len(call.Calldata) /\ d = call.Calldata
  OBVIOUS
<1>4. SizedCall(call) = <<a, b, c>> \o d
  BY <1>3, Zenon DEF SizedCall
<1>5. a \in Felt /\ b \in Felt /\ c \in Felt /\ d \in Seq(Felt)
  BY <1>1, <1>2, <1>3, Zenon
<1>6. /\ <<a, b, c>> \o d \in Seq(Felt)
      /\ Len(<<a, b, c>> \o d) = 3 + Len(d)
      /\ Len(d) \in Nat
      /\ (<<a, b, c>> \o d)[1] = a
      /\ (<<a, b, c>> \o d)[2] = b
      /\ (<<a, b, c>> \o d)[3] = c
  BY <1>5, HeadedFacts
<1> QED BY <1>3, <1>4, <1>6, Zenon

\* What is appended for a call tells the call.
LEMMA SizedCallSeparates ==
  ASSUME NEW a \in Call, NEW b \in Call, SizedCall(a) = SizedCall(b)
  PROVE  a = b
<1>1. /\ a.ContractAddress = b.ContractAddress
      /\ a.EntryPointSelector = b.EntryPointSelector
      /\ Len(a.Calldata) = Len(b.Calldata)
  BY SizedCallFacts
<1>2. a.Calldata = b.Calldata
  <2> DEFINE h(call) == <<call.ContractAddress, call.EntryPointSelector, Len(call.Calldata)>>
  <2>1. /\ h(a) \in Seq(Felt) /\ Len(h(a)) = 3 /\ h(b) \in Seq(Felt) /\ Len(h(b)) = 3
        /\ a.Calldata \in Seq(Felt) /\ b.Calldata \in Seq(Felt)
    BY SizedCallFacts DEF Call
  <2>2. h(a) \o a.Calldata = h(b) \o b.Calldata
    BY DEF SizedCall
  <2> HIDE DEF h
  <2> QED BY <2>1, <2>2, ConcatSeparates
<1> QED BY <1>1, <1>2 DEF Call

\* The list of a FmtCallDataCairo2 tells how many calls there are, where each ends
\* and what it is.
LEMMA Cairo2Separates ==
  ASSUME NEW p \in Seq(Call), NEW q \in Seq(Call),
         FmtCallDataCairo2(p) = FmtCallDataCairo2(q)
  PROVE  p = q
<1> DEFINE lists(calls) == [i \in DOMAIN calls |-> SizedCall(calls[i])]
<1>1. ASSUME NEW calls \in Seq(Call)
      PROVE  /\ lists(calls) \in Lists(Felt) /\ Len(lists(calls)) = Len(calls)
             /\ \A i \in 1 .. Len(calls) : lists(calls)[i] = SizedCall(calls[i])
             /\ FmtCallDataCairo2(calls) = <<Len(calls)>> \o FlattenSeq(lists(calls))
  <2>1. /\ Len(calls) \in Nat /\ DOMAIN calls = 1 .. Len(calls)
        /\ \A i \in 1 .. Len(calls) : SizedCall(calls[i]) \in Seq(Felt)
    BY CallFacts, SizedCallFacts
  <2>2. FmtCallDataCairo2(calls) = <<Len(calls)>> \o FlattenSeq(lists(calls))
    BY DEF FmtCallDataCairo2, SizedCall
  <2> QED BY <2>1, <2>2 DEF Lists
<1> HIDE DEF lists
<1>2. FlattenSeq(lists(p)) \in Seq(Felt) /\ FlattenSeq(lists(q)) \in Seq(Felt)
  BY <1>1, FlattenTyped
<1>3. Len(p) = Len(q) /\ FlattenSeq(lists(p)) = FlattenSeq(lists(q))
  <2>1. <<Len(p)>> \o FlattenSeq(lists(p)) = <<Len(q)>> \o FlattenSeq(lists(q))
    BY <1>1
  <2> QED BY <1>2, <2>1, ConsSeparates
<1>4. ASSUME NEW i \in 1 .. Len(lists(p))
      PROVE  /\ Len(lists(p)[i]) >= 3 /\ Len(lists(q)[i]) >= 3
             /\ (\A k \in 1 .. 3 : lists(p)[i][k] = lists(q)[i][k]) =>
                  Len(lists(p)[i]) = Len(lists(q)[i])
  <2>1. i \in 1 .. Len(p) /\ i \in 1 .. Len(q)
    BY <1>1, <1>3
  <2> DEFINE a == p[i]
             b == q[i]
  <2>2. a \in Call /\ b \in Call /\ lists(p)[i] = SizedCall(a) /\ lists(q)[i] = SizedCall(b)
    BY <1>1, <2>1, CallFacts
  <2> HIDE DEF a, b
  <2>3. /\ Len(SizedCall(a)) = 3 + Len(a.Calldata) /\ Len(a.Calldata) \in Nat
        /\ Len(SizedCall(b)) = 3 + Len(b.Calldata) /\ Len(b.Calldata) \in Nat
    BY <2>2, SizedCallFacts
  <2>4. ASSUME \A k \in 1 .. 3 : SizedCall(a)[k] = SizedCall(b)[k]
        PROVE  Len(a.Calldata) = Len(b.Calldata)
    <3>1. SizedCall(a)[3] = SizedCall(b)[3]
      BY <2>4
    <3> QED BY <2>2, <3>1, SizedCallFacts
  <2>5. /\ Len(SizedCall(a)) >= 3 /\ Len(SizedCall(b)) >= 3
        /\ Len(a.Calldata) = Len(b.Calldata) => Len(SizedCall(a)) = Len(SizedCall(b))
    BY <2>3
  <2> QED BY <2>2, <2>4, <2>5
<1>5. lists(p) = lists(q)
  <2>1. PICK s, t : s = lists(p) /\ t = lists(q)
    OBVIOUS
  <2>2. /\ s \in Lists(Felt) /\ t \in Lists(Felt) /\ Len(s) = Len(t)
        /\ FlattenSeq(s) = FlattenSeq(t)
        /\ \A i \in 1 .. Len(s) :
             /\ Len(s[i]) >= 3 /\ Len(t[i]) >= 3
             /\ (\A k \in 1 .. 3 : s[i][k] = t[i][k]) => Len(s[i]) = Len(t[i])
    BY <1>1, <1>3, <1>4, <2>1, Zenon
  <2>3. s = t
    BY <2>2, FlattenSeparates
  <2> QED BY <2>1, <2>3
<1>6. ASSUME NEW i \in 1 .. Len(p) PROVE p[i] = q[i]
  <2>1. SizedCall(p[i]) = SizedCall(q[i])
    BY <1>1, <1>3, <1>5
  <2> QED BY <1>3, <2>1, CallFacts, SizedCallSeparates
<1> QED BY <1>3, <1>6, SeqEqual

\* What FmtCallDataCairo0 appends for a call: where its data begins and how long it is.
PlacedCall(calls, i) ==
  <<calls[i].ContractAddress, calls[i].EntryPointSelector,
    Len(Data(SubSeq(calls, 1, i - 1))), Len(calls[i].Calldata)>>

Places(calls) == [i \in DOMAIN calls |-> PlacedCall(calls, i)]

DataLists(calls) == [i \in DOMAIN calls |-> calls[i].Calldata]

\* The data of the calls is one list of elements.
LEMMA DataFacts ==
  ASSUME NEW calls \in Seq(Call)
  PROVE  /\ DataLists(calls) \in Lists(Felt) /\ Len(DataLists(calls)) = Len(calls)
         /\ \A i \in 1 .. Len(calls) : DataLists(calls)[i] = calls[i].Calldata
         /\ Data(calls) = FlattenSeq(DataLists(calls))
         /\ Data(calls) \in Seq(Felt)
<1>1. /\ Len(calls) \in Nat /\ DOMAIN calls = 1 .. Len(calls)
      /\ \A i \in 1 .. Len(calls) : calls[i].Calldata \in Seq(Felt)
  BY CallFacts DEF Call
<1>2. DataLists(calls) \in Lists(Felt) /\ Len(DataLists(calls)) = Len(calls)
  BY <1>1 DEF DataLists, Lists
<1>3. Data(calls) = FlattenSeq(DataLists(calls))
  BY DEF Data, DataLists
<1> QED BY <1>1, <1>2, <1>3, FlattenTyped DEF DataLists

\* The places of the calls: four elements each, from which all but the data is read.
LEMMA PlacesFacts ==
  ASSUME NEW calls \in Seq(Call)
  PROVE  /\ Places(calls) \in Lists(Felt) /\ Len(Places(calls)) = Len(calls)
         /\ \A i \in 1 .. Len(calls) :
              /\ Len(Places(calls)[i]) = 4
              /\ Places(calls)[i][1] = calls[i].ContractAddress
              /\ Places(calls)[i][2] = calls[i].EntryPointSelector
              /\ Places(calls)[i][4] = Len(calls[i].Calldata)
         /\ FlattenSeq(Places(calls)) \in Seq(Felt)
         /\ Len(FlattenSeq(Places(calls))) = 4 * Len(calls)
<1>1. /\ Len(calls) \in Nat /\ DOMAIN calls = 1 .. Len(calls)
      /\ \A i \in 1 .. Len(calls) : calls[i] \in Call
  BY CallFacts
<1>2. ASSUME NEW i \in 1 .. Len(calls)
      PROVE  /\ PlacedCall(calls, i) \in Seq(Felt) /\ Len(PlacedCall(calls, i)) = 4
             /\ PlacedCall(calls, i)[1] = calls[i].ContractAddress
             /\ PlacedCall(calls, i)[2] = calls[i].EntryPointSelector
             /\ PlacedCall(calls, i)[4] = Len(calls[i].Calldata)
  <2> DEFINE place == Len(Data(SubSeq(calls, 1, i - 1)))
             size == Len(calls[i].Calldata)
  <2>1. SubSeq(calls, 1, i - 1) \in Seq(Call)
    <3>1. i - 1 \in 0 .. Len(calls) /\ 1 \in 1 .. Len(calls) + 1
      BY <1>1
    <3>2. \A j \in 1 .. i - 1 : calls[j] \in Call
      BY <1>1
    <3> QED BY <1>1, <3>1, <3>2, SubSeqProperties
  <2>2. place \in Felt
    BY NatIsFelt, <2>1, DataFacts, LenProperties
  <2>3. size \in Felt /\ calls[i].ContractAddress \in Felt /\ calls[i].EntryPointSelector \in Felt
    <3>1. calls[i] \in Call
      BY <1>1
    <3> QED BY NatIsFelt, <3>1, LenProperties DEF Call
  <2>4. PlacedCall(calls, i) =
          <<calls[i].ContractAddress, calls[i].EntryPointSelector, place, size>>
    BY DEF PlacedCall
  <2> HIDE DEF place, size
  <2>5. /\ PlacedCall(calls, i) \in Seq(Felt) /\ Len(PlacedCall(calls, i)) = 4
        /\ PlacedCall(calls, i)[1] = calls[i].ContractAddress
        /\ PlacedCall(calls, i)[2] = calls[i].EntryPointSelector
        /\ PlacedCall(calls, i)[4] = size
    BY <2>2, <2>3, <2>4
  <2> QED BY <2>5 DEF size
<1>3. /\ Places(calls) \in Lists(Felt) /\ Len(Places(calls)) = Len(calls)
      /\ \A i \in 1 .. Len(calls) : Places(calls)[i] = PlacedCall(calls, i)
  <2> HIDE DEF PlacedCall
  <2> QED BY <1>1, <1>2 DEF Places, Lists
<1>4. /\ FlattenSeq(Places(calls)) \in Seq(Felt)
      /\ Len(FlattenSeq(Places(calls))) = 4 * Len(calls)
  BY <1>2, <1>3, FlattenWidth
<1> QED BY <1>2, <1>3, <1>4

\* Four lists, joined from the left and from the right.
FromLeft(x, y, u, v)  == ((x \o y) \o u) \o v
FromRight(x, y, u, v) == x \o (y \o (u \o v))

\* Concatenation of the four parts is associative.
LEMMA FourParts ==
  ASSUME NEW x \in Seq(Felt), NEW y \in Seq(Felt), NEW u \in Seq(Felt), NEW v \in Seq(Felt)
  PROVE  FromLeft(x, y, u, v) = FromRight(x, y, u, v)
<1>1. PICK a, r : a = x \o y /\ r = u \o v
  OBVIOUS
<1>2. a \in Seq(Felt) /\ r \in Seq(Felt)
  BY <1>1, ConcatProperties
<1>3. (a \o u) \o v = a \o (u \o v)
  <2>1. \A e \in Seq(Felt) : (e \o u) \o v = e \o (u \o v)
    BY ConcatAssociative
  <2> QED BY <1>2, <2>1, Zenon
<1>4. (x \o y) \o r = x \o (y \o r)
  <2>1. \A e \in Seq(Felt) : (x \o y) \o e = x \o (y \o e)
    BY ConcatAssociative
  <2> QED BY <1>2, <2>1, Zenon
<1> QED BY <1>1, <1>3, <1>4, Zenon DEF FromLeft, FromRight

\* The list of a FmtCallDataCairo0 tells how many calls there are, their addresses,
\* selectors and sizes, and the data that is cut into these sizes.
LEMMA Cairo0Separates ==
  ASSUME NEW p \in Seq(Call), NEW q \in Seq(Call),
         FmtCallDataCairo0(p) = FmtCallDataCairo0(q)
  PROVE  p = q
<1> DEFINE rest(calls) == <<Len(Data(calls))>> \o Data(calls)
<1>1. ASSUME NEW calls \in Seq(Call)
      PROVE  /\ FmtCallDataCairo0(calls) =
                  <<Len(calls)>> \o (FlattenSeq(Places(calls)) \o rest(calls))
             /\ rest(calls) \in Seq(Felt)
             /\ FlattenSeq(Places(calls)) \o rest(calls) \in Seq(Felt)
  <2>1. Len(calls) \in Felt /\ Data(calls) \in Seq(Felt) /\ FlattenSeq(Places(calls)) \in Seq(Felt)
    BY NatIsFelt, CallFacts, DataFacts, PlacesFacts
  <2>2. FmtCallDataCairo0(calls) =
          <<Len(calls)>> \o FlattenSeq(Places(calls)) \o <<Len(Data(calls))>> \o Data(calls)
    BY DEF FmtCallDataCairo0, Places, PlacedCall
  <2> DEFINE n == <<Len(calls)>>
             f == FlattenSeq(Places(calls))
             m == <<Len(Data(calls))>>
             d == Data(calls)
  <2>3. n \in Seq(Felt) /\ f \in Seq(Felt) /\ m \in Seq(Felt) /\ d \in Seq(Felt)
    BY NatIsFelt, <2>1, LenProperties
  <2>4. FmtCallDataCairo0(calls) = FromLeft(n, f, m, d)
    BY <2>2, Zenon DEF FromLeft
  <2>5. rest(calls) = m \o d
    OBVIOUS
  <2> HIDE DEF n, f, m, d
  <2>6. FromLeft(n, f, m, d) = FromRight(n, f, m, d)
    BY <2>3, FourParts
  <2>7. \A x, y \in Seq(Felt) : x \o y \in Seq(Felt)
    BY ConcatProperties
  <2>8. m \o d \in Seq(Felt) /\ f \o (m \o d) \in Seq(Felt)
    BY <2>3, <2>7, Zenon
  <2> QED BY <2>4, <2>5, <2>6, <2>8, Zenon DEF n, f, FromRight
<1> HIDE DEF rest
<1>2. Len(p) = Len(q) /\
      FlattenSeq(Places(p)) \o rest(p) = FlattenSeq(Places(q)) \o rest(q)
  <2>1. PICK a, b, x, y : /\ a = FlattenSeq(Places(p)) \o rest(p) /\ x = Len(p)
                          /\ b = FlattenSeq(Places(q)) \o rest(q) /\ y = Len(q)
    OBVIOUS
  <2>2. a \in Seq(Felt) /\ b \in Seq(Felt) /\ <<x>> \o a = <<y>> \o b
    BY <1>1, <2>1, Zenon
  <2>3. x = y /\ a = b
    BY <2>2, ConsSeparates
  <2> QED BY <2>1, <2>3, Zenon
<1>3. FlattenSeq(Places(p)) = FlattenSeq(Places(q)) /\ rest(p) = rest(q)
  <2>1. Len(FlattenSeq(Places(p))) = Len(FlattenSeq(Places(q)))
    BY <1>2, PlacesFacts
  <2>2. PICK a, b, c, d : /\ a = FlattenSeq(Places(p)) /\ c = rest(p)
                          /\ b = FlattenSeq(Places(q)) /\ d = rest(q)
    OBVIOUS
  <2>3. /\ a \in Seq(Felt) /\ b \in Seq(Felt) /\ c \in Seq(Felt) /\ d \in Seq(Felt)
        /\ Len(a) = Len(b) /\ a \o c = b \o d
    BY <1>1, <1>2, <2>1, <2>2, PlacesFacts, Zenon
  <2>4. a = b /\ c = d
    BY <2>3, ConcatSeparates
  <2> QED BY <2>2, <2>4, Zenon
<1>4. Places(p) = Places(q)
  <2>1. Len(Places(p)) = Len(Places(q)) /\ Len(Places(p)) = Len(p)
    BY <1>2, PlacesFacts
  <2>2. \A i \in 1 .. Len(Places(p)) : Len(Places(p)[i]) = 4 /\ Len(Places(q)[i]) = 4
    BY <1>2, <2>1, PlacesFacts
  <2>3. \A i \in 1 .. Len(Places(p)) :
          /\ Len(Places(p)[i]) >= 4 /\ Len(Places(q)[i]) >= 4
          /\ (\A k \in 1 .. 4 : Places(p)[i][k] = Places(q)[i][k]) =>
               Len(Places(p)[i]) = Len(Places(q)[i])
    <3> SUFFICES ASSUME NEW i \in 1 .. Len(Places(p))
                 PROVE  /\ Len(Places(p)[i]) >= 4 /\ Len(Places(q)[i]) >= 4
                        /\ Len(Places(p)[i]) = Len(Places(q)[i])
      OBVIOUS
    <3>1. Len(Places(p)[i]) = 4 /\ Len(Places(q)[i]) = 4
      BY <2>2
    <3> QED BY <3>1
  <2>4. Places(p) \in Lists(Felt) /\ Places(q) \in Lists(Felt)
    BY PlacesFacts
  <2> QED BY <1>3, <2>1, <2>3, <2>4, FlattenSeparates
<1>5. ASSUME NEW i \in 1 .. Len(p)
      PROVE  /\ p[i].ContractAddress = q[i].ContractAddress
             /\ p[i].EntryPointSelector = q[i].EntryPointSelector
             /\ Len(p[i].Calldata) = Len(q[i].Calldata)
  BY <1>2, <1>4, PlacesFacts
<1>6. Data(p) = Data(q)
  <2>1. <<Len(Data(p))>> \o Data(p) = <<Len(Data(q))>> \o Data(q)
    BY <1>3 DEF rest
  <2> QED BY <2>1, DataFacts, ConsSeparates
<1>7. DataLists(p) = DataLists(q)
  <2>1. /\ DataLists(p) \in Lists(Felt) /\ DataLists(q) \in Lists(Felt)
        /\ Len(DataLists(p)) = Len(DataLists(q)) /\ Len(DataLists(p)) = Len(p)
        /\ FlattenSeq(DataLists(p)) = FlattenSeq(DataLists(q))
    BY <1>2, <1>6, DataFacts
  <2>2. \A i \in 1 .. Len(DataLists(p)) :
          /\ Len(DataLists(p)[i]) \in Nat
          /\ Len(DataLists(p)[i]) = Len(DataLists(q)[i])
    <3> SUFFICES ASSUME NEW i \in 1 .. Len(p)
                 PROVE  /\ Len(DataLists(p)[i]) \in Nat
                        /\ Len(DataLists(p)[i]) = Len(DataLists(q)[i])
      BY <2>1
    <3>1. DataLists(p)[i] = p[i].Calldata /\ DataLists(q)[i] = q[i].Calldata
      BY <1>2, DataFacts
    <3>2. DataLists(p)[i] \in Seq(Felt)
      BY <2>1, ListFacts
    <3> QED BY <1>5, <3>1, <3>2, LenProperties
  <2>3. \A i \in 1 .. Len(DataLists(p)) :
          /\ Len(DataLists(p)[i]) >= 0 /\ Len(DataLists(q)[i]) >= 0
          /\ (\A k \in 1 .. 0 : DataLists(p)[i][k] = DataLists(q)[i][k]) =>
               Len(DataLists(p)[i]) = Len(DataLists(q)[i])
    BY <2>2
  <2> QED BY <2>1, <2>3, FlattenSeparates
<1>8. ASSUME NEW i \in 1 .. Len(p) PROVE p[i] = q[i]
  <2>1. p[i].Calldata = q[i].Calldata
    BY <1>2, <1>7, DataFacts
  <2>2. p[i] \in Call /\ q[i] \in Call
    BY <1>2, CallFacts
  <2> QED BY <1>5, <2>1, <2>2, CallIs
<1> QED BY <1>2, <1>8, SeqEqual

\* FmtCalldata is a list of felts, and two different sequences of calls never have
\* the same one, in either Cairo version.
LEMMA CalldataFacts ==
  ASSUME NEW version \in CairoVersions, NEW p \in Seq(Call)
  PROVE  FmtCalldata(version, p) \in Seq(Felt)
<1>1. FmtCallDataCairo0(p) \in Seq(Felt)
  <2>1. Len(p) \in Felt /\ Data(p) \in Seq(Felt) /\ FlattenSeq(Places(p)) \in Seq(Felt)
    BY NatIsFelt, CallFacts, DataFacts, PlacesFacts
  <2>2. FmtCallDataCairo0(p) =
          <<Len(p)>> \o FlattenSeq(Places(p)) \o <<Len(Data(p))>> \o Data(p)
    BY DEF FmtCallDataCairo0, Places, PlacedCall
  <2>3. <<Len(p)>> \in Seq(Felt) /\ <<Len(Data(p))>> \in Seq(Felt)
    BY NatIsFelt, <2>1, LenProperties
  <2>4. <<Len(p)>> \o FlattenSeq(Places(p)) \in Seq(Felt)
    BY <2>1, <2>3, ConcatProperties
  <2>5. <<Len(p)>> \o FlattenSeq(Places(p)) \o <<Len(Data(p))>> \in Seq(Felt)
    BY <2>3, <2>4, ConcatProperties
  <2> QED BY <2>1, <2>2, <2>5, ConcatProperties
<1>2. FmtCallDataCairo2(p) \in Seq(Felt)
  <2> DEFINE lists == [i \in DOMAIN p |-> SizedCall(p[i])]
  <2>1. lists \in Lists(Felt)
    <3>1. /\ Len(p) \in Nat /\ DOMAIN p = 1 .. Len(p)
          /\ \A i \in 1 .. Len(p) : SizedCall(p[i]) \in Seq(Felt)
      BY CallFacts, SizedCallFacts
    <3> QED BY <3>1 DEF Lists
  <2>2. FmtCallDataCairo2(p) = <<Len(p)>> \o FlattenSeq(lists)
    BY DEF FmtCallDataCairo2, SizedCall
  <2>3. <<Len(p)>> \in Seq(Felt)
    BY NatIsFelt, CallFacts
  <2> HIDE DEF lists
  <2> QED BY <2>1, <2>2, <2>3, FlattenTyped, ConcatProperties
<1> QED BY <1>1, <1>2 DEF FmtCalldata

\* In either Cairo version, different calls never make the same calldata.
THEOREM CalldataSeparates ==
  \A version \in CairoVersions : \A p, q \in Seq(Call) :
    FmtCalldata(version, p) = FmtCalldata(version, q) => p = q
BY Cairo0Separates, Cairo2Separates DEF FmtCalldata
-----------------------------------------------------------------------------
(* Package hash: which entry points and which class a hash is made of.     *)

SierraEntryPoint == [Selector : Int, FunctionIdx : Int]
CasmEntryPoint   == [Selector : Int, Offset : Int, Builtins : Seq(Int)]

\* What goes into the list for an entry point.
SierraWords(e) == <<e.Selector, e.FunctionIdx>>
CasmWords(e)   == <<e.Selector, e.Offset, Poseidon(e.Builtins)>>

Words == Int \cup {Poseidon(b) : b \in Seq(Int)}

\* hashEntryPointByType separates lists of entry points.
LEMMA SierraSeparates ==
  ASSUME NEW p \in SierraEntryPoints, NEW q \in SierraEntryPoints,
         HashEntryPointByType(p) = HashEntryPointByType(q)
  PROVE  p = q
<1> DEFINE lists(eps) == [i \in DOMAIN eps |-> SierraWords(eps[i])]
<1>1. ASSUME NEW eps \in SierraEntryPoints
      PROVE  /\ Len(eps) \in Nat /\ DOMAIN eps = 1 .. Len(eps)
             /\ \A i \in 1 .. Len(eps) : eps[i] \in SierraEntryPoint
  <2>1. eps \in Seq(SierraEntryPoint)
    BY DEF SierraEntryPoints, SierraEntryPoint
  <2> QED BY <2>1, LenProperties, ElementOfSeq
<1>2. ASSUME NEW e \in SierraEntryPoint
      PROVE  SierraWords(e) \in Seq(Words) /\ Len(SierraWords(e)) = 2
  <2>1. e.Selector \in Words /\ e.FunctionIdx \in Words
    BY DEF SierraEntryPoint, Words
  <2> QED BY <2>1 DEF SierraWords
<1>3. ASSUME NEW eps \in SierraEntryPoints
      PROVE  /\ lists(eps) \in Lists(Words) /\ Len(lists(eps)) = Len(eps)
             /\ \A i \in 1 .. Len(eps) : lists(eps)[i] = SierraWords(eps[i])
             /\ \A i \in 1 .. Len(lists(eps)) : Len(lists(eps)[i]) = 2
             /\ HashEntryPointByType(eps) = Poseidon(FlattenSeq(lists(eps)))
  <2>1. \A i \in 1 .. Len(eps) : /\ SierraWords(eps[i]) \in Seq(Words)
                                 /\ Len(SierraWords(eps[i])) = 2
    BY <1>1, <1>2
  <2>2. HashEntryPointByType(eps) = Poseidon(FlattenSeq(lists(eps)))
    BY DEF HashEntryPointByType, SierraWords
  <2>3. /\ lists(eps) \in [1 .. Len(eps) -> Seq(Words)]
        /\ \A i \in 1 .. Len(eps) : lists(eps)[i] = SierraWords(eps[i])
    BY <1>1, <2>1
  <2> HIDE DEF lists
  <2>4. PICK l : l = lists(eps)
    OBVIOUS
  <2>5. l \in Lists(Words) /\ Len(l) = Len(eps)
    BY <1>1, <2>3, <2>4, FunctionIsLists, Zenon
  <2> QED BY <2>1, <2>2, <2>3, <2>4, <2>5, Zenon
<1> HIDE DEF lists
<1>4. PICK s, t : s = lists(p) /\ t = lists(q)
  OBVIOUS
<1>5. s = t
  <2>1. FlattenSeq(s) = FlattenSeq(t)
    <3>1. Poseidon(FlattenSeq(s)) = Poseidon(FlattenSeq(t))
      BY <1>3, <1>4, Zenon
    <3> QED BY <3>1 DEF Poseidon
  <2>2. /\ s \in Lists(Words) /\ t \in Lists(Words)
        /\ \A i \in 1 .. Len(s) : Len(s[i]) = 2
        /\ \A i \in 1 .. Len(t) : Len(t[i]) = 2
    BY <1>3, <1>4, Zenon
  <2> QED BY <2>1, <2>2, WidthSeparates
<1>6. Len(p) = Len(q)
  BY <1>3, <1>4, <1>5, Zenon
<1>7. ASSUME NEW i \in 1 .. Len(p) PROVE p[i] = q[i]
  <2>1. SierraWords(p[i]) = SierraWords(q[i])
    <3>1. lists(p)[i] = SierraWords(p[i])
      BY <1>3
    <3>2. lists(q)[i] = SierraWords(q[i])
      BY <1>3, <1>6
    <3> QED BY <1>4, <1>5, <3>1, <3>2, Zenon
  <2>2. p[i] \in SierraEntryPoint /\ q[i] \in SierraEntryPoint
    BY <1>1, <1>6, Zenon
  <2>3. \A e, f \in SierraEntryPoint : SierraWords(e) = SierraWords(f) => e = f
    BY DEF SierraEntryPoint, SierraWords
  <2> QED BY <2>1, <2>2, <2>3, Zenon
<1>8. p \in Seq(SierraEntryPoint) /\ q \in Seq(SierraEntryPoint)
  BY DEF SierraEntryPoints, SierraEntryPoint
<1> QED BY <1>6, <1>7, <1>8, SeqEqual

\* hashCasmClassEntryPointByType does, too: the builtins are hashed on their own.
LEMMA CasmSeparates ==
  ASSUME NEW p \in CasmEntryPoints, NEW q \in CasmEntryPoints,
         HashCasmEntryPoints(p) = HashCasmEntryPoints(q)
  PROVE  p = q
<1> DEFINE lists(eps) == [i \in DOMAIN eps |-> CasmWords(eps[i])]
<1>1. ASSUME NEW eps \in CasmEntryPoints
      PROVE  /\ Len(eps) \in Nat /\ DOMAIN eps = 1 .. Len(eps)
             /\ \A i \in 1 .. Len(eps) : eps[i] \in CasmEntryPoint
  <2>1. eps \in Seq(CasmEntryPoint)
    BY DEF CasmEntryPoints, CasmEntryPoint
  <2> QED BY <2>1, LenProperties, ElementOfSeq
<1>2. ASSUME NEW e \in CasmEntryPoint
      PROVE  CasmWords(e) \in Seq(Words) /\ Len(CasmWords(e)) = 3
  <2>1. e.Selector \in Words /\ e.Offset \in Words /\ Poseidon(e.Builtins) \in Words
    BY DEF CasmEntryPoint, Words
  <2> QED BY <2>1 DEF CasmWords
<1>3. ASSUME NEW eps \in CasmEntryPoints
      PROVE  /\ lists(eps) \in Lists(Words) /\ Len(lists(eps)) = Len(eps)
             /\ \A i \in 1 .. Len(eps) : lists(eps)[i] = CasmWords(eps[i])
             /\ \A i \in 1 .. Len(lists(eps)) : Len(lists(eps)[i]) = 3
             /\ HashCasmEntryPoints(eps) = Poseidon(FlattenSeq(lists(eps)))
  <2>1. \A i \in 1 .. Len(eps) : CasmWords(eps[i]) \in Seq(Words) /\ Len(CasmWords(eps[i])) = 3
    BY <1>1, <1>2
  <2>2. HashCasmEntryPoints(eps) = Poseidon(FlattenSeq(lists(eps)))
    BY DEF HashCasmEntryPoints, CasmWords
  <2>3. /\ lists(eps) \in [1 .. Len(eps) -> Seq(Words)]
        /\ \A i \in 1 .. Len(eps) : lists(eps)[i] = CasmWords(eps[i])
    BY <1>1, <2>1
  <2> HIDE DEF lists
  <2>4. PICK l : l = lists(eps)
    OBVIOUS
  <2>5. l \in Lists(Words) /\ Len(l) = Len(eps)
    BY <1>1, <2>3, <2>4, FunctionIsLists, Zenon
  <2> QED BY <2>1, <2>2, <2>3, <2>4, <2>5, Zenon
<1> HIDE DEF lists
<1>4. PICK s, t : s = lists(p) /\ t = lists(q)
  OBVIOUS
<1>5. s = t
  <2>1. FlattenSeq(s) = FlattenSeq(t)
    <3>1. Poseidon(FlattenSeq(s)) = Poseidon(FlattenSeq(t))
      BY <1>3, <1>4, Zenon
    <3> QED BY <3>1 DEF Poseidon
  <2>2. /\ s \in Lists(Words) /\ t \in Lists(Words)
        /\ \A i \in 1 .. Len(s) : Len(s[i]) = 3
        /\ \A i \in 1 .. Len(t) : Len(t[i]) = 3
    BY <1>3, <1>4, Zenon
  <2> QED BY <2>1, <2>2, WidthSeparates
<1>6. Len(p) = Len(q)
  BY <1>3, <1>4, <1>5, Zenon
<1>7. ASSUME NEW i \in 1 .. Len(p) PROVE p[i] = q[i]
  <2>1. CasmWords(p[i]) = CasmWords(q[i])
    <3>1. lists(p)[i] = CasmWords(p[i])
      BY <1>3
    <3>2. lists(q)[i] = CasmWords(q[i])
      BY <1>3, <1>6
    <3> QED BY <1>4, <1>5, <3>1, <3>2, Zenon
  <2>2. p[i] \in CasmEntryPoint /\ q[i] \in CasmEntryPoint
    BY <1>1, <1>6, Zenon
  <2>3. \A e, f \in CasmEntryPoint : CasmWords(e) = CasmWords(f) => e = f
    <3>1. \A x, y : Poseidon(x) = Poseidon(y) => x = y
      BY DEF Poseidon
    <3> QED BY <3>1 DEF CasmEntryPoint, CasmWords
  <2> QED BY <2>1, <2>2, <2>3, Zenon
<1>8. p \in Seq(CasmEntryPoint) /\ q \in Seq(CasmEntryPoint)
  BY DEF CasmEntryPoints, CasmEntryPoint
<1> QED BY <1>6, <1>7, <1>8, SeqEqual

\* A Poseidon hash tells its list.
LEMMA PoseidonSeparates == \A x, y : Poseidon(x) = Poseidon(y) => x = y
BY DEF Poseidon

\* An operator with different values for the elements of a finite set has as many values.
LEMMA ManyValues ==
  ASSUME NEW S, IsFiniteSet(S), NEW f, DOMAIN f = S,
         \A c, d \in S : f[c] = f[d] => c = d
  PROVE  Cardinality({f[c] : c \in S}) = Cardinality(S)
<1> DEFINE T == {f[c] : c \in S}
           g == [c \in S |-> f[c]]
<1>1. g \in Surjection(S, T) /\ g \in Injection(S, T)
  BY DEF Surjection, Injection, IsInjective
<1>2. Cardinality(T) = Cardinality(S) <=> g \in Injection(S, T)
  BY <1>1, FS_Surjection
<1> QED BY <1>1, <1>2

\* One class hash means one class, and one compiled class hash one compiled class.
THEOREM ClassHashesSeparate == ClassesAreSeparate
<1>1. ASSUME NEW c \in Classes, NEW d \in Classes, ClassHash(c) = ClassHash(d) PROVE c = d
  <2> DEFINE R == [ContractClassVersion : Int, ABI : Int, SierraProgram : Seq(Int),
                   External : SierraEntryPoints, L1Handler : SierraEntryPoints,
                   Constructor : SierraEntryPoints]
             L(x) == <<x.ContractClassVersion,
                       HashEntryPointByType(x.External), HashEntryPointByType(x.L1Handler),
                       HashEntryPointByType(x.Constructor), x.ABI, Poseidon(x.SierraProgram)>>
  <2>1. c \in R /\ d \in R
    BY SeparationAssumption
  <2>2. L(c) = L(d)
    BY <1>1, PoseidonSeparates DEF ClassHash
  <2>3. /\ c.ContractClassVersion = d.ContractClassVersion /\ c.ABI = d.ABI
        /\ HashEntryPointByType(c.External) = HashEntryPointByType(d.External)
        /\ HashEntryPointByType(c.L1Handler) = HashEntryPointByType(d.L1Handler)
        /\ HashEntryPointByType(c.Constructor) = HashEntryPointByType(d.Constructor)
        /\ Poseidon(c.SierraProgram) = Poseidon(d.SierraProgram)
    BY <2>2
  <2>4. c.External = d.External /\ c.L1Handler = d.L1Handler /\ c.Constructor = d.Constructor
    <3>1. /\ c.External \in SierraEntryPoints /\ d.External \in SierraEntryPoints
          /\ c.L1Handler \in SierraEntryPoints /\ d.L1Handler \in SierraEntryPoints
          /\ c.Constructor \in SierraEntryPoints /\ d.Constructor \in SierraEntryPoints
      BY <2>1
    <3> QED BY <2>3, <3>1, SierraSeparates
  <2>5. c.SierraProgram = d.SierraProgram
    BY <2>3, PoseidonSeparates
  <2> QED BY <2>1, <2>3, <2>4, <2>5
<1>2. ASSUME NEW c \in Casms, NEW d \in Casms, CompiledClassHash(c) = CompiledClassHash(d)
      PROVE  c = d
  <2> DEFINE R == [External : CasmEntryPoints, L1Handler : CasmEntryPoints,
                   Constructor : CasmEntryPoints, ByteCode : Seq(Int)]
             L(x) == <<"COMPILED_CLASS_V1", HashCasmEntryPoints(x.External),
                       HashCasmEntryPoints(x.L1Handler), HashCasmEntryPoints(x.Constructor),
                       Poseidon(x.ByteCode)>>
  <2>1. c \in R /\ d \in R
    BY SeparationAssumption
  <2>2. L(c) = L(d)
    BY <1>2, PoseidonSeparates DEF CompiledClassHash
  <2>3. /\ HashCasmEntryPoints(c.External) = HashCasmEntryPoints(d.External)
        /\ HashCasmEntryPoints(c.L1Handler) = HashCasmEntryPoints(d.L1Handler)
        /\ HashCasmEntryPoints(c.Constructor) = HashCasmEntryPoints(d.Constructor)
        /\ Poseidon(c.ByteCode) = Poseidon(d.ByteCode)
    BY <2>2
  <2>4. c.External = d.External /\ c.L1Handler = d.L1Handler /\ c.Constructor = d.Constructor
    <3>1. /\ c.External \in CasmEntryPoints /\ d.External \in CasmEntryPoints
          /\ c.L1Handler \in CasmEntryPoints /\ d.L1Handler \in CasmEntryPoints
          /\ c.Constructor \in CasmEntryPoints /\ d.Constructor \in CasmEntryPoints
      BY <2>1
    <3> QED BY <2>3, <3>1, CasmSeparates
  <2>5. c.ByteCode = d.ByteCode
    BY <2>3, PoseidonSeparates
  <2> QED BY <2>1, <2>3, <2>4, <2>5
<1>3. Cardinality({ClassHash(c) : c \in Classes}) = Cardinality(Classes)
  <2>1. PICK f : f = [c \in Classes |-> ClassHash(c)]
    OBVIOUS
  <2>2. Cardinality({f[c] : c \in Classes}) = Cardinality(Classes)
    BY <1>1, <2>1, SeparationAssumption, ManyValues
  <2>3. {f[c] : c \in Classes} = {ClassHash(c) : c \in Classes}
    BY <2>1
  <2> QED BY <2>2, <2>3
<1>4. Cardinality({CompiledClassHash(c) : c \in Casms}) = Cardinality(Casms)
  <2>1. PICK f : f = [c \in Casms |-> CompiledClassHash(c)]
    OBVIOUS
  <2>2. Cardinality({f[c] : c \in Casms}) = Cardinality(Casms)
    BY <1>2, <2>1, SeparationAssumption, ManyValues
  <2>3. {f[c] : c \in Casms} = {CompiledClassHash(c) : c \in Casms}
    BY <2>1
  <2> QED BY <2>2, <2>3
<1> QED BY <1>3, <1>4 DEF ClassesAreSeparate
-----------------------------------------------------------------------------
(* The lists of the transaction hashes.                                    *)

\* The hash of version 0, 1 or 2 with so many elements after the common ones.
Common0(p, tx, a, s, c) == CalculateTransactionHashCommon(p, tx, a, s, c, <<>>)
Common1(p, tx, a, s, c, x) == CalculateTransactionHashCommon(p, tx, a, s, c, <<x>>)
Common2(p, tx, a, s, c, x, y) == CalculateTransactionHashCommon(p, tx, a, s, c, <<x, y>>)

\* The hash of version 3 with so many elements at the end.
V3Of(p, tx, a, rest) ==
  Poseidon(<<p, tx.Version, a, TipAndResourcesHash(tx),
             Poseidon(Elements(tx.PayMasterData)), ChainId, tx.Nonce,
             DataAvailabilityMode(tx)>> \o rest)
V3Two(p, tx, a, x, y) == V3Of(p, tx, a, <<x, y>>)
V3Three(p, tx, a, x, y, w) == V3Of(p, tx, a, <<x, y, w>>)

\* How a hash begins and how long its list is.
Shape(h) == <<h.by, h.of[1], Len(h.of)>>

\* The shape of a list that is hashed.
LEMMA Shapes ==
  \A list : /\ Shape(Pedersen(list)) = <<"pedersen", list[1], Len(list)>>
            /\ Shape(Poseidon(list)) = <<"poseidon", list[1], Len(list)>>
BY DEF Shape, Pedersen, Poseidon

\* The shapes of versions 0, 1 and 2.
LEMMA CommonShape ==
  ASSUME NEW p, NEW tx, NEW a, NEW s, NEW c, NEW x, NEW y
  PROVE  /\ Shape(Common0(p, tx, a, s, c)) = <<"pedersen", p, 7>>
         /\ Shape(Common1(p, tx, a, s, c, x)) = <<"pedersen", p, 8>>
         /\ Shape(Common2(p, tx, a, s, c, x, y)) = <<"pedersen", p, 9>>
<1>1. PICK v, d, m : v = tx.Version /\ d = Pedersen(c) /\ m = tx.MaxFee
  OBVIOUS
<1>2. PICK k, l, n : /\ k = <<p, v, a, s, d, m, ChainId>> \o <<>>
                     /\ l = <<p, v, a, s, d, m, ChainId>> \o <<x>>
                     /\ n = <<p, v, a, s, d, m, ChainId>> \o <<x, y>>
  OBVIOUS
<1>3. k[1] = p /\ Len(k) = 7 /\ l[1] = p /\ Len(l) = 8 /\ n[1] = p /\ Len(n) = 9
  BY <1>2
<1>4. /\ Common0(p, tx, a, s, c) = Pedersen(k) /\ Common1(p, tx, a, s, c, x) = Pedersen(l)
      /\ Common2(p, tx, a, s, c, x, y) = Pedersen(n)
  BY <1>1, <1>2, Zenon DEF Common0, Common1, Common2, CalculateTransactionHashCommon
<1> QED BY <1>3, <1>4, Shapes, Zenon

\* The shapes of version 3.
LEMMA V3Shape ==
  ASSUME NEW p, NEW tx, NEW a, NEW x, NEW y, NEW w
  PROVE  /\ Shape(V3Two(p, tx, a, x, y)) = <<"poseidon", p, 10>>
         /\ Shape(V3Three(p, tx, a, x, y, w)) = <<"poseidon", p, 11>>
<1>1. PICK c, d, e, f, g :
        /\ c = tx.Version /\ d = TipAndResourcesHash(tx)
        /\ e = Poseidon(Elements(tx.PayMasterData)) /\ f = tx.Nonce
        /\ g = DataAvailabilityMode(tx)
  OBVIOUS
<1>2. PICK k, n : /\ k = <<p, c, a, d, e, ChainId, f, g>> \o <<x, y>>
                  /\ n = <<p, c, a, d, e, ChainId, f, g>> \o <<x, y, w>>
  OBVIOUS
<1>3. k[1] = p /\ Len(k) = 10 /\ n[1] = p /\ Len(n) = 11
  BY <1>2
<1>4. V3Two(p, tx, a, x, y) = Poseidon(k) /\ V3Three(p, tx, a, x, y, w) = Poseidon(n)
  BY <1>1, <1>2, Zenon DEF V3Two, V3Three, V3Of
<1> QED BY <1>3, <1>4, Shapes, Zenon

\* What two equal hashes have in common.
LEMMA CommonSeparates ==
  ASSUME NEW p, NEW t, NEW a, NEW s, NEW c, NEW x, NEW y,
         NEW q, NEW u, NEW b, NEW r, NEW d, NEW v, NEW w,
         \/ Common0(p, t, a, s, c) = Common0(q, u, b, r, d) /\ x = v /\ y = w
         \/ Common1(p, t, a, s, c, x) = Common1(q, u, b, r, d, v) /\ y = w
         \/ Common2(p, t, a, s, c, x, y) = Common2(q, u, b, r, d, v, w)
  PROVE  /\ t.Version = u.Version /\ a = b /\ s = r /\ c = d /\ t.MaxFee = u.MaxFee
         /\ x = v /\ y = w
<1>1. PICK e, f, g, h, i, j : /\ e = t.Version /\ f = t.MaxFee /\ g = Pedersen(c)
                              /\ h = u.Version /\ i = u.MaxFee /\ j = Pedersen(d)
  OBVIOUS
<1> DEFINE L == <<p, e, a, s, g, f, ChainId>>
           M == <<q, h, b, r, j, i, ChainId>>
<1>2. \A rest : /\ CalculateTransactionHashCommon(p, t, a, s, c, rest) = Pedersen(L \o rest)
                /\ CalculateTransactionHashCommon(q, u, b, r, d, rest) = Pedersen(M \o rest)
  BY <1>1, Zenon DEF CalculateTransactionHashCommon
<1>3. \/ L \o <<>> = M \o <<>> /\ x = v /\ y = w
      \/ L \o <<x>> = M \o <<v>> /\ y = w
      \/ L \o <<x, y>> = M \o <<v, w>>
  <2>1. \A k, l : Pedersen(k) = Pedersen(l) => k = l
    BY DEF Pedersen
  <2> HIDE DEF L, M
  <2>2. CASE Common0(p, t, a, s, c) = Common0(q, u, b, r, d) /\ x = v /\ y = w
    <3>1. Pedersen(L \o <<>>) = Pedersen(M \o <<>>)
      BY <1>2, <2>2, Zenon DEF Common0
    <3> QED BY <2>1, <2>2, <3>1, Zenon
  <2>3. CASE Common1(p, t, a, s, c, x) = Common1(q, u, b, r, d, v) /\ y = w
    <3>1. Pedersen(L \o <<x>>) = Pedersen(M \o <<v>>)
      BY <1>2, <2>3, Zenon DEF Common1
    <3> QED BY <2>1, <2>3, <3>1, Zenon
  <2>4. CASE Common2(p, t, a, s, c, x, y) = Common2(q, u, b, r, d, v, w)
    <3>1. Pedersen(L \o <<x, y>>) = Pedersen(M \o <<v, w>>)
      BY <1>2, <2>4, Zenon DEF Common2
    <3> QED BY <2>1, <3>1, Zenon
  <2> QED BY <2>2, <2>3, <2>4, Zenon
<1>4. e = h /\ a = b /\ s = r /\ g = j /\ f = i /\ x = v /\ y = w
  <2>1. CASE L \o <<>> = M \o <<>> /\ x = v /\ y = w
    BY <2>1
  <2>2. CASE L \o <<x>> = M \o <<v>> /\ y = w
    BY <2>2
  <2>3. CASE L \o <<x, y>> = M \o <<v, w>>
    BY <2>3
  <2> HIDE DEF L, M
  <2> QED BY <1>3, <2>1, <2>2, <2>3
<1>5. c = d
  BY <1>1, <1>4 DEF Pedersen
<1> QED BY <1>1, <1>4, <1>5, Zenon

\* What two equal hashes of version 3 have in common, before their parts are told apart.
LEMMA V3Separates ==
  ASSUME NEW p, NEW t, NEW a, NEW x, NEW y, NEW m,
         NEW q, NEW u, NEW b, NEW v, NEW w, NEW n,
         \/ V3Two(p, t, a, x, y) = V3Two(q, u, b, v, w) /\ m = n
         \/ V3Three(p, t, a, x, y, m) = V3Three(q, u, b, v, w, n)
  PROVE  /\ t.Version = u.Version /\ a = b /\ t.Nonce = u.Nonce
         /\ TipAndResourcesHash(t) = TipAndResourcesHash(u)
         /\ Elements(t.PayMasterData) = Elements(u.PayMasterData)
         /\ DataAvailabilityMode(t) = DataAvailabilityMode(u)
         /\ x = v /\ y = w /\ m = n
<1>1. PICK c, d, e, f, g :
        /\ c = t.Version /\ d = TipAndResourcesHash(t)
        /\ e = Poseidon(Elements(t.PayMasterData)) /\ f = t.Nonce
        /\ g = DataAvailabilityMode(t)
  OBVIOUS
<1>2. PICK h, i, j, k, l :
        /\ h = u.Version /\ i = TipAndResourcesHash(u)
        /\ j = Poseidon(Elements(u.PayMasterData)) /\ k = u.Nonce
        /\ l = DataAvailabilityMode(u)
  OBVIOUS
<1> DEFINE L == <<p, c, a, d, e, ChainId, f, g>>
           M == <<q, h, b, i, j, ChainId, k, l>>
<1>3. \A rest : /\ V3Of(p, t, a, rest) = Poseidon(L \o rest)
                /\ V3Of(q, u, b, rest) = Poseidon(M \o rest)
  BY <1>1, <1>2, Zenon DEF V3Of
<1>4. \/ L \o <<x, y>> = M \o <<v, w>> /\ m = n
      \/ L \o <<x, y, m>> = M \o <<v, w, n>>
  <2> HIDE DEF L, M
  <2>1. CASE V3Two(p, t, a, x, y) = V3Two(q, u, b, v, w) /\ m = n
    <3>1. Poseidon(L \o <<x, y>>) = Poseidon(M \o <<v, w>>)
      BY <1>3, <2>1, Zenon DEF V3Two
    <3> QED BY <2>1, <3>1, PoseidonSeparates, Zenon
  <2>2. CASE V3Three(p, t, a, x, y, m) = V3Three(q, u, b, v, w, n)
    <3>1. Poseidon(L \o <<x, y, m>>) = Poseidon(M \o <<v, w, n>>)
      BY <1>3, <2>2, Zenon DEF V3Three
    <3> QED BY <3>1, PoseidonSeparates, Zenon
  <2> QED BY <2>1, <2>2, Zenon
<1>5. /\ c = h /\ a = b /\ d = i /\ e = j /\ f = k /\ g = l
      /\ x = v /\ y = w /\ m = n
  <2>1. CASE L \o <<x, y>> = M \o <<v, w>> /\ m = n
    BY <2>1
  <2>2. CASE L \o <<x, y, m>> = M \o <<v, w, n>>
    BY <2>2
  <2> HIDE DEF L, M
  <2> QED BY <1>4, <2>1, <2>2
<1>6. Elements(t.PayMasterData) = Elements(u.PayMasterData)
  BY <1>1, <1>2, <1>5, PoseidonSeparates, Zenon
<1> QED BY <1>1, <1>2, <1>5, <1>6, Zenon

\* The checks end with the hash only if everything required is set.
LEMMA CheckedIs ==
  ASSUME NEW tx, NEW h, Checked(tx, h).kind = "hash"
  PROVE  /\ Checked(tx, h) = Hashed(h)
         /\ \A f \in Required(tx.type) : ~IsUnset(tx, f)
<1>1. CASE \E f \in Required(tx.type) : IsUnset(tx, f)
  <2>1. Checked(tx, h) = NotAllParametersSet
    BY <1>1, Zenon DEF Checked
  <2> QED BY <2>1 DEF NotAllParametersSet, Error
<1>2. CASE \A f \in Required(tx.type) : ~IsUnset(tx, f)
  <2>1. Checked(tx, h) = IF tx.Version = NoNumber THEN ConversionError
                         ELSE IF \E f \in Unchecked(tx.type) : tx[f] = Nil
                         THEN NilPanic ELSE Hashed(h)
    BY <1>2, Zenon DEF Checked
  <2> QED BY <1>2, <2>1 DEF NilPanic, ConversionError, Error
<1> QED BY <1>1, <1>2

\* A hash of version 3.
LEMMA HashV3Is ==
  ASSUME NEW tx, NEW prefix, NEW address, NEW rest,
         HashV3(prefix, tx, address, rest).kind = "hash"
  PROVE  /\ HashV3(prefix, tx, address, rest) =
              Hashed(V3Of(prefix, tx, address, rest))
         /\ \A f \in Required(tx.type) : ~IsUnset(tx, f)
         /\ ~ConversionFails(tx)
<1> DEFINE h == V3Of(prefix, tx, address, rest)
<1>1. HashV3(prefix, tx, address, rest) =
        IF (\A f \in Required(tx.type) : ~IsUnset(tx, f)) /\ ConversionFails(tx)
        THEN ConversionError ELSE Checked(tx, h)
  BY DEF HashV3, V3Of
<1>2. ConversionError.kind # "hash"
  BY DEF ConversionError, Error
<1> HIDE DEF h
<1>3. ~((\A f \in Required(tx.type) : ~IsUnset(tx, f)) /\ ConversionFails(tx))
  BY <1>1, <1>2
<1>4. HashV3(prefix, tx, address, rest) = Checked(tx, h)
  BY <1>1, <1>3
<1>5. Checked(tx, h) = Hashed(h) /\ \A f \in Required(tx.type) : ~IsUnset(tx, f)
  BY <1>4, CheckedIs
<1> QED BY <1>3, <1>4, <1>5 DEF h

\* What each type is hashed as.
LEMMA InvokeV0Is ==
  ASSUME NEW tx, NEW z, tx.type = "InvokeTxnV0", HashOf(tx, z).kind = "hash"
  PROVE  HashOf(tx, z).hash =
           Common0("invoke", tx, tx.ContractAddress, tx.EntryPointSelector, tx.Calldata)
<1>1. HashOf(tx, z) = HashInvokeV0(tx)
  BY Zenon DEF HashOf
<1> QED BY <1>1, CheckedIs DEF HashInvokeV0, Common0, Hashed

\* InvokeTxnV1 is hashed with the nonce at the end.
LEMMA InvokeV1Is ==
  ASSUME NEW tx, NEW z, tx.type = "InvokeTxnV1", HashOf(tx, z).kind = "hash"
  PROVE  HashOf(tx, z).hash =
           Common1("invoke", tx, tx.SenderAddress, z, tx.Calldata, tx.Nonce)
<1>1. HashOf(tx, z) = HashInvokeV1(tx, z)
  BY Zenon DEF HashOf
<1> QED BY <1>1, CheckedIs DEF HashInvokeV1, Common1, Hashed

\* DeployAccountTxn is hashed with its class hash and salt before the calldata.
LEMMA DeployIs ==
  ASSUME NEW tx, NEW z, tx.type = "DeployAccountTxn", HashOf(tx, z).kind = "hash"
  PROVE  HashOf(tx, z).hash =
           Common1("deploy_account", tx, tx.ContractAddress, z,
             <<tx.ClassHash, tx.ContractAddressSalt>> \o Elements(tx.ConstructorCalldata),
             tx.Nonce)
<1>1. HashOf(tx, z) = HashDeployAccount(tx, z)
  BY Zenon DEF HashOf
<1>2. ConversionError.kind # "hash" /\ NilPanic.kind # "hash"
  BY DEF ConversionError, Error, NilPanic
<1> QED BY <1>1, <1>2, CheckedIs DEF HashDeployAccount, Common1, Hashed

\* DeclareTxnV1 is hashed with its class hash in place of the calldata.
LEMMA DeclareV1Is ==
  ASSUME NEW tx, NEW z, tx.type = "DeclareTxnV1", HashOf(tx, z).kind = "hash"
  PROVE  HashOf(tx, z).hash =
           Common1("declare", tx, tx.SenderAddress, z, <<tx.ClassHash>>, tx.Nonce)
<1>1. HashOf(tx, z) = HashDeclareV1(tx, z)
  BY Zenon DEF HashOf
<1> QED BY <1>1, CheckedIs DEF HashDeclareV1, Common1, Hashed

\* DeclareTxnV2 is hashed as version 1, with the compiled class hash at the end.
LEMMA DeclareV2Is ==
  ASSUME NEW tx, NEW z, tx.type = "DeclareTxnV2", HashOf(tx, z).kind = "hash"
  PROVE  HashOf(tx, z).hash =
           Common2("declare", tx, tx.SenderAddress, z, <<tx.ClassHash>>, tx.Nonce,
                   tx.CompiledClassHash)
<1>1. HashOf(tx, z) = HashDeclareV2(tx, z)
  BY Zenon DEF HashOf
<1> QED BY <1>1, CheckedIs DEF HashDeclareV2, Common2, Hashed

\* An address is the hash of five elements.
LEMMA AddressIs ==
  ASSUME NEW tx, NEW z, tx.type = "Address", HashOf(tx, z).kind = "hash"
  PROVE  HashOf(tx, z).hash =
           Pedersen(<<"STARKNET_CONTRACT_ADDRESS", z, tx.ContractAddressSalt, tx.ClassHash,
                      Pedersen(Elements(tx.ConstructorCalldata))>>)
<1>1. HashOf(tx, z) = PrecomputeAccountAddress(tx, z)
  BY Zenon DEF HashOf
<1> QED BY <1>1 DEF PrecomputeAccountAddress, Hashed, NilPanic

\* What a hash of version 3 has been made from: bounds that are set, and no field that
\* cannot be converted.
Convertible(tx) == tx.ResourceBounds # Nil /\ ~ConversionFails(tx)

\* InvokeTxnV3 ends with two lists.
LEMMA InvokeV3Is ==
  ASSUME NEW tx, NEW z, tx.type = "InvokeTxnV3", HashOf(tx, z).kind = "hash"
  PROVE  /\ HashOf(tx, z).hash =
              V3Two("invoke", tx, tx.SenderAddress,
                Poseidon(Elements(tx.AccountDeploymentData)),
                Poseidon(Elements(tx.Calldata)))
         /\ Convertible(tx)
<1>1. HashOf(tx, z) = HashInvokeV3(tx)
  BY Zenon DEF HashOf
<1>2. "ResourceBounds" \in Required(tx.type)
  <2>1. Required("InvokeTxnV3") = {"Version", "ResourceBounds", "Calldata", "Nonce",
                                   "SenderAddress", "PayMasterData", "AccountDeploymentData"}
    BY Zenon DEF Required
  <2> QED BY <2>1
<1>3. ~IsUnset(tx, "ResourceBounds") => tx.ResourceBounds # Nil
  BY Zenon DEF IsUnset
<1> QED BY <1>1, <1>2, <1>3, HashV3Is DEF HashInvokeV3, V3Two, Convertible, Hashed

\* DeployAccountTxnV3 ends with a list and two felts.
LEMMA DeployV3Is ==
  ASSUME NEW tx, NEW z, tx.type = "DeployAccountTxnV3", HashOf(tx, z).kind = "hash"
  PROVE  /\ HashOf(tx, z).hash =
              V3Three("deploy_account", tx, tx.ContractAddress,
                Poseidon(Elements(tx.ConstructorCalldata)), tx.ClassHash,
                tx.ContractAddressSalt)
         /\ Convertible(tx)
<1>1. HashOf(tx, z) = HashDeployAccountV3(tx)
  BY Zenon DEF HashOf
<1>2. "ResourceBounds" \in Required(tx.type)
  <2>1. Required("DeployAccountTxnV3") = {"Version", "ResourceBounds", "Nonce",
                                          "PayMasterData"}
    BY Zenon DEF Required
  <2> QED BY <2>1
<1>3. ~IsUnset(tx, "ResourceBounds") => tx.ResourceBounds # Nil
  BY Zenon DEF IsUnset
<1> QED BY <1>1, <1>2, <1>3, HashV3Is DEF HashDeployAccountV3, V3Three, Convertible, Hashed

\* DeclareTxnV3 ends with a list and two felts.
LEMMA DeclareV3Is ==
  ASSUME NEW tx, NEW z, tx.type = "DeclareTxnV3", HashOf(tx, z).kind = "hash"
  PROVE  /\ HashOf(tx, z).hash =
              V3Three("declare", tx, tx.SenderAddress,
                Poseidon(Elements(tx.AccountDeploymentData)), tx.ClassHash,
                tx.CompiledClassHash)
         /\ Convertible(tx)
<1>1. HashOf(tx, z) = HashDeclareV3(tx)
  BY Zenon DEF HashOf
<1>2. "ResourceBounds" \in Required(tx.type)
  <2>1. Required("DeclareTxnV3") = {"Version", "ResourceBounds", "Nonce", "SenderAddress",
                                    "PayMasterData", "AccountDeploymentData", "ClassHash",
                                    "CompiledClassHash"}
    BY Zenon DEF Required
  <2> QED BY <2>1
<1>3. ~IsUnset(tx, "ResourceBounds") => tx.ResourceBounds # Nil
  BY Zenon DEF IsUnset
<1> QED BY <1>1, <1>2, <1>3, HashV3Is DEF HashDeclareV3, V3Three, Convertible, Hashed
-----------------------------------------------------------------------------
(* What equal hashes of one type have in common.                           *)

\* The two modes are told apart by the bits they are shifted to.
LEMMA ModesSeparate ==
  ASSUME NEW t, NEW u, ~ConversionFails(t), ~ConversionFails(u),
         DataAvailabilityMode(t) = DataAvailabilityMode(u)
  PROVE  t.FeeMode = u.FeeMode /\ t.NonceDataMode = u.NonceDataMode
<1>1. /\ t.FeeMode \in {"L1", "L2"} /\ t.NonceDataMode \in {"L1", "L2"}
      /\ u.FeeMode \in {"L1", "L2"} /\ u.NonceDataMode \in {"L1", "L2"}
  BY DEF ConversionFails
<1>2. U32 \in Nat /\ U32 > 1
  BY HashAssumption
<1>3. \A a, b, c, d \in {0, 1} : a + b * U32 = c + d * U32 => a = c /\ b = d
  BY <1>2
<1>4. \A m \in {"L1", "L2"} : UInt64(m) \in {0, 1}
  BY DEF UInt64
<1>5. \A m, n \in {"L1", "L2"} : UInt64(m) = UInt64(n) => m = n
  BY DEF UInt64
<1>6. UInt64(t.FeeMode) = UInt64(u.FeeMode) /\ UInt64(t.NonceDataMode) = UInt64(u.NonceDataMode)
  BY <1>1, <1>3, <1>4 DEF DataAvailabilityMode
<1> QED BY <1>1, <1>5, <1>6

\* Sixteen bytes keep a price that is a U128.
LEMMA BoundsSeparate ==
  ASSUME NEW r \in ResourceBounds, NEW s \in ResourceBounds, NEW name,
         r.MaxAmount # Nil, r.MaxPricePerUnit # Nil,
         s.MaxAmount # Nil, s.MaxPricePerUnit # Nil,
         BoundsBytes(name, r) = BoundsBytes(name, s)
  PROVE  r = s
<1>1. \A x \in 0 .. U128 - 1 : x % U128 = x
  BY HashAssumption
<1>2. r.MaxPricePerUnit \in 0 .. U128 - 1 /\ s.MaxPricePerUnit \in 0 .. U128 - 1
  BY DEF ResourceBounds
<1>3. /\ r.MaxAmount = s.MaxAmount
      /\ r.MaxPricePerUnit % U128 = s.MaxPricePerUnit % U128
  BY DEF BoundsBytes
<1>4. r.MaxPricePerUnit = s.MaxPricePerUnit
  BY <1>1, <1>2, <1>3
<1> QED BY <1>3, <1>4 DEF ResourceBounds

Bounded(tx) == tx.ResourceBounds \in [L1Gas : ResourceBounds, L2Gas : ResourceBounds]

\* The hash of tip and bounds tells both apart.
LEMMA TipAndResourcesSeparate ==
  ASSUME NEW t, NEW u, ~ConversionFails(t), ~ConversionFails(u), Bounded(t), Bounded(u),
         TipAndResourcesHash(t) = TipAndResourcesHash(u)
  PROVE  t.Tip = u.Tip /\ t.ResourceBounds = u.ResourceBounds
<1> DEFINE L(x) == <<x.Tip, BoundsBytes("L1_GAS", x.ResourceBounds.L1Gas),
                     BoundsBytes("L2_GAS", x.ResourceBounds.L2Gas)>>
<1>1. L(t) = L(u)
  BY PoseidonSeparates DEF TipAndResourcesHash
<1>2. /\ t.Tip = u.Tip
      /\ BoundsBytes("L1_GAS", t.ResourceBounds.L1Gas) =
           BoundsBytes("L1_GAS", u.ResourceBounds.L1Gas)
      /\ BoundsBytes("L2_GAS", t.ResourceBounds.L2Gas) =
           BoundsBytes("L2_GAS", u.ResourceBounds.L2Gas)
  BY <1>1
<1>3. /\ t.ResourceBounds.L1Gas \in ResourceBounds /\ t.ResourceBounds.L2Gas \in ResourceBounds
      /\ u.ResourceBounds.L1Gas \in ResourceBounds /\ u.ResourceBounds.L2Gas \in ResourceBounds
  BY DEF Bounded
<1>4. ASSUME NEW x, ~ConversionFails(x)
      PROVE  /\ x.ResourceBounds.L1Gas.MaxAmount # Nil
             /\ x.ResourceBounds.L1Gas.MaxPricePerUnit # Nil
             /\ x.ResourceBounds.L2Gas.MaxAmount # Nil
             /\ x.ResourceBounds.L2Gas.MaxPricePerUnit # Nil
  BY <1>4, Zenon DEF ConversionFails
<1>5. t.ResourceBounds.L1Gas = u.ResourceBounds.L1Gas
  BY <1>2, <1>3, <1>4, BoundsSeparate, Zenon
<1>6. t.ResourceBounds.L2Gas = u.ResourceBounds.L2Gas
  BY <1>2, <1>3, <1>4, BoundsSeparate, Zenon
<1> QED BY <1>2, <1>5, <1>6 DEF Bounded

\* What two equal hashes of version 3 have in common.
LEMMA V3Agree ==
  ASSUME NEW p, NEW t, NEW a, NEW x, NEW y, NEW m,
         NEW q, NEW u, NEW b, NEW v, NEW w, NEW n,
         Convertible(t), Convertible(u), Bounded(t), Bounded(u),
         \/ V3Two(p, t, a, x, y) = V3Two(q, u, b, v, w) /\ m = n
         \/ V3Three(p, t, a, x, y, m) = V3Three(q, u, b, v, w, n)
  PROVE  /\ t.Version = u.Version /\ a = b /\ t.Nonce = u.Nonce /\ t.Tip = u.Tip
         /\ t.ResourceBounds = u.ResourceBounds
         /\ Elements(t.PayMasterData) = Elements(u.PayMasterData)
         /\ t.FeeMode = u.FeeMode /\ t.NonceDataMode = u.NonceDataMode
         /\ x = v /\ y = w /\ m = n
<1>1. /\ t.Version = u.Version /\ a = b /\ t.Nonce = u.Nonce
      /\ TipAndResourcesHash(t) = TipAndResourcesHash(u)
      /\ Elements(t.PayMasterData) = Elements(u.PayMasterData)
      /\ DataAvailabilityMode(t) = DataAvailabilityMode(u)
      /\ x = v /\ y = w /\ m = n
  BY V3Separates
<1>2. t.FeeMode = u.FeeMode /\ t.NonceDataMode = u.NonceDataMode
  BY <1>1, ModesSeparate DEF Convertible
<1>3. t.Tip = u.Tip /\ t.ResourceBounds = u.ResourceBounds
  BY <1>1, TipAndResourcesSeparate DEF Convertible
<1> QED BY <1>1, <1>2, <1>3

\* Transactions of one type whose fields agree have one payload.
Agree(t, u, f) == t[f] = u[f] \/ (f \in Slices /\ Elements(t[f]) = Elements(u[f]))

\* Transactions of one type whose fields agree are one payload.
LEMMA SamePayload ==
  ASSUME NEW t, NEW u, WellFormed(t), WellFormed(u), t.type \in DOMAIN TxFields,
         t.type = u.type, \A f \in TxFields[t.type] \ {"Signature"} : Agree(t, u, f)
  PROVE  Payload(t) = Payload(u)
<1>1. DOMAIN t = TxFields[t.type] /\ DOMAIN u = TxFields[t.type]
  BY DEF WellFormed
<1> DEFINE P(x, f) == IF f \in Slices THEN Elements(x[f]) ELSE x[f]
           D == DOMAIN t \ {"Signature"}
<1>2. \A f \in D : P(t, f) = P(u, f)
  BY <1>1 DEF Agree
<1>3. Payload(t) = [f \in D |-> P(t, f)]
  BY DEF Payload
<1>4. Payload(u) = [f \in D |-> P(u, f)]
  BY <1>1 DEF Payload
<1> HIDE DEF P, D
<1> QED BY <1>2, <1>3, <1>4
-----------------------------------------------------------------------------
(* The type of a transaction is told by its hash.                          *)

\* How the hash of each type begins and how long its list is.
TypeShape ==
  [InvokeTxnV0 |-> <<"pedersen", "invoke", 7>>,
   InvokeTxnV1 |-> <<"pedersen", "invoke", 8>>,
   InvokeTxnV3 |-> <<"poseidon", "invoke", 10>>,
   DeployAccountTxn |-> <<"pedersen", "deploy_account", 8>>,
   DeployAccountTxnV3 |-> <<"poseidon", "deploy_account", 11>>,
   DeclareTxnV1 |-> <<"pedersen", "declare", 8>>,
   DeclareTxnV2 |-> <<"pedersen", "declare", 9>>,
   DeclareTxnV3 |-> <<"poseidon", "declare", 11>>,
   Address |-> <<"pedersen", "STARKNET_CONTRACT_ADDRESS", 5>>]

\* A hash has the shape of its type.
LEMMA HasShape ==
  ASSUME NEW tx, NEW z, HashOf(tx, z).kind = "hash"
  PROVE  tx.type \in DOMAIN TypeShape /\ Shape(HashOf(tx, z).hash) = TypeShape[tx.type]
<1>1. CASE tx.type = "InvokeTxnV0"
  <2>1. Shape(HashOf(tx, z).hash) = <<"pedersen", "invoke", 7>>
    BY <1>1, InvokeV0Is, CommonShape
  <2> QED BY <1>1, <2>1 DEF TypeShape
<1>2. CASE tx.type = "InvokeTxnV1"
  <2>1. Shape(HashOf(tx, z).hash) = <<"pedersen", "invoke", 8>>
    BY <1>2, InvokeV1Is, CommonShape
  <2> QED BY <1>2, <2>1 DEF TypeShape
<1>3. CASE tx.type = "InvokeTxnV3"
  <2>1. Shape(HashOf(tx, z).hash) = <<"poseidon", "invoke", 10>>
    BY <1>3, InvokeV3Is, V3Shape
  <2> QED BY <1>3, <2>1 DEF TypeShape
<1>4. CASE tx.type = "DeployAccountTxn"
  <2>1. Shape(HashOf(tx, z).hash) = <<"pedersen", "deploy_account", 8>>
    <3>1. PICK c : c = <<tx.ClassHash, tx.ContractAddressSalt>> \o Elements(tx.ConstructorCalldata)
      OBVIOUS
    <3>2. HashOf(tx, z).hash = Common1("deploy_account", tx, tx.ContractAddress, z, c, tx.Nonce)
      BY <1>4, <3>1, DeployIs, Zenon
    <3> QED BY <3>2, CommonShape
  <2> QED BY <1>4, <2>1 DEF TypeShape
<1>5. CASE tx.type = "DeployAccountTxnV3"
  <2>1. Shape(HashOf(tx, z).hash) = <<"poseidon", "deploy_account", 11>>
    BY <1>5, DeployV3Is, V3Shape
  <2> QED BY <1>5, <2>1 DEF TypeShape
<1>6. CASE tx.type = "DeclareTxnV1"
  <2>1. Shape(HashOf(tx, z).hash) = <<"pedersen", "declare", 8>>
    <3>1. PICK c : c = <<tx.ClassHash>>
      OBVIOUS
    <3>2. HashOf(tx, z).hash = Common1("declare", tx, tx.SenderAddress, z, c, tx.Nonce)
      BY <1>6, <3>1, DeclareV1Is, Zenon
    <3> QED BY <3>2, CommonShape
  <2> QED BY <1>6, <2>1 DEF TypeShape
<1>7. CASE tx.type = "DeclareTxnV2"
  <2>1. Shape(HashOf(tx, z).hash) = <<"pedersen", "declare", 9>>
    <3>1. PICK c : c = <<tx.ClassHash>>
      OBVIOUS
    <3>2. HashOf(tx, z).hash = Common2("declare", tx, tx.SenderAddress, z, c, tx.Nonce,
                                       tx.CompiledClassHash)
      BY <1>7, <3>1, DeclareV2Is, Zenon
    <3> QED BY <3>2, CommonShape
  <2> QED BY <1>7, <2>1 DEF TypeShape
<1>8. CASE tx.type = "DeclareTxnV3"
  <2>1. Shape(HashOf(tx, z).hash) = <<"poseidon", "declare", 11>>
    BY <1>8, DeclareV3Is, V3Shape
  <2> QED BY <1>8, <2>1 DEF TypeShape
<1>9. CASE tx.type = "Address"
  <2>1. Shape(HashOf(tx, z).hash) = <<"pedersen", "STARKNET_CONTRACT_ADDRESS", 5>>
    BY <1>9, AddressIs, Shapes
  <2> QED BY <1>9, <2>1 DEF TypeShape
<1>10. CASE tx.type = "DeclareTxnV0"
  <2>1. HashOf(tx, z) = Error("ErrTxnVersionUnSupported")
    BY <1>10, Zenon DEF HashOf
  <2> QED BY <2>1 DEF Error
<1>11. CASE tx.type \notin DOMAIN TypeShape /\ tx.type # "DeclareTxnV0"
  <2>1. HashOf(tx, z) = Error("ErrTxnTypeUnSupported")
    <3>1. /\ tx.type # "InvokeTxnV0" /\ tx.type # "InvokeTxnV1" /\ tx.type # "InvokeTxnV3"
          /\ tx.type # "DeployAccountTxn" /\ tx.type # "DeployAccountTxnV3"
          /\ tx.type # "DeclareTxnV0" /\ tx.type # "DeclareTxnV1" /\ tx.type # "DeclareTxnV2"
          /\ tx.type # "DeclareTxnV3" /\ tx.type # "Address"
      BY <1>11 DEF TypeShape
    <3> QED BY <3>1, Zenon DEF HashOf
  <2> QED BY <2>1 DEF Error
<1> QED BY <1>1, <1>2, <1>3, <1>4, <1>5, <1>6, <1>7, <1>8, <1>9, <1>10, <1>11 DEF TypeShape

\* No two types have one shape.
LEMMA ShapesDiffer ==
  ASSUME NEW a \in DOMAIN TypeShape, NEW b \in DOMAIN TypeShape, TypeShape[a] = TypeShape[b]
  PROVE  a = b
BY DEF TypeShape
-----------------------------------------------------------------------------
(* Two transactions of one type and one hash, type by type.                *)

\* Transactions of one type with one hash agree in every field but the signature.
Confused(t, y, u, z) ==
  /\ WellFormed(t) /\ WellFormed(u) /\ t.type = u.type
  /\ HashOf(t, y).kind = "hash" /\ HashOf(u, z).kind = "hash"
  /\ HashOf(t, y).hash = HashOf(u, z).hash

\* Bounds that are set are those of the Go type.
LEMMA BoundedFacts ==
  ASSUME NEW tx, WellFormed(tx), tx.type \in DOMAIN TxFields,
         "ResourceBounds" \in TxFields[tx.type], Convertible(tx)
  PROVE  Bounded(tx)
BY DEF WellFormed, Convertible, Bounded

\* Two InvokeTxnV0 of one hash.
LEMMA InvokeV0Agree ==
  ASSUME NEW t, NEW u, NEW y, NEW z, Confused(t, y, u, z), t.type = "InvokeTxnV0"
  PROVE  Payload(t) = Payload(u)
<1>1. Common0("invoke", t, t.ContractAddress, t.EntryPointSelector, t.Calldata) =
      Common0("invoke", u, u.ContractAddress, u.EntryPointSelector, u.Calldata)
  BY InvokeV0Is DEF Confused
<1>2. /\ t.Version = u.Version /\ t.ContractAddress = u.ContractAddress
      /\ t.EntryPointSelector = u.EntryPointSelector /\ t.Calldata = u.Calldata
      /\ t.MaxFee = u.MaxFee
  BY <1>1, CommonSeparates
<1>3. \A f \in {"Version", "ContractAddress", "EntryPointSelector", "Calldata", "MaxFee",
                "type"} : Agree(t, u, f)
  BY <1>2 DEF Agree, Confused
<1>4. /\ t.type \in DOMAIN TxFields
      /\ TxFields[t.type] \ {"Signature"} \subseteq
           {"Version", "ContractAddress", "EntryPointSelector", "Calldata", "MaxFee", "type"}
  BY DEF TxFields
<1> QED BY <1>3, <1>4, SamePayload DEF Confused

\* Two InvokeTxnV1 of one hash.
LEMMA InvokeV1Agree ==
  ASSUME NEW t, NEW u, NEW y, NEW z, Confused(t, y, u, z), t.type = "InvokeTxnV1"
  PROVE  Payload(t) = Payload(u)
<1>1. Common1("invoke", t, t.SenderAddress, y, t.Calldata, t.Nonce) =
      Common1("invoke", u, u.SenderAddress, z, u.Calldata, u.Nonce)
  BY InvokeV1Is DEF Confused
<1>2. /\ t.Version = u.Version /\ t.SenderAddress = u.SenderAddress /\ t.Calldata = u.Calldata
      /\ t.MaxFee = u.MaxFee /\ t.Nonce = u.Nonce
  BY <1>1, CommonSeparates
<1>3. \A f \in {"Version", "SenderAddress", "Calldata", "MaxFee", "Nonce", "type"} :
        Agree(t, u, f)
  BY <1>2 DEF Agree, Confused
<1>4. /\ t.type \in DOMAIN TxFields
      /\ TxFields[t.type] \ {"Signature"} \subseteq
           {"Version", "SenderAddress", "Calldata", "MaxFee", "Nonce", "type"}
  BY DEF TxFields
<1> QED BY <1>3, <1>4, SamePayload DEF Confused

\* Two DeclareTxnV1 of one hash: the class hash is a list of its own.
LEMMA DeclareV1Agree ==
  ASSUME NEW t, NEW u, NEW y, NEW z, Confused(t, y, u, z), t.type = "DeclareTxnV1"
  PROVE  Payload(t) = Payload(u)
<1>1. PICK c, d : c = <<t.ClassHash>> /\ d = <<u.ClassHash>>
  OBVIOUS
<1>2. /\ HashOf(t, y).hash = Common1("declare", t, t.SenderAddress, y, c, t.Nonce)
      /\ HashOf(u, z).hash = Common1("declare", u, u.SenderAddress, z, d, u.Nonce)
  BY <1>1, DeclareV1Is, Zenon DEF Confused
<1>3. Common1("declare", t, t.SenderAddress, y, c, t.Nonce) =
      Common1("declare", u, u.SenderAddress, z, d, u.Nonce)
  BY <1>2, Zenon DEF Confused
<1>4. /\ t.Version = u.Version /\ t.SenderAddress = u.SenderAddress /\ c = d
      /\ t.MaxFee = u.MaxFee /\ t.Nonce = u.Nonce
  BY <1>3, CommonSeparates
<1>5. t.ClassHash = u.ClassHash
  BY <1>1, <1>4
<1>6. \A f \in {"Version", "SenderAddress", "ClassHash", "MaxFee", "Nonce", "type"} :
        Agree(t, u, f)
  BY <1>4, <1>5 DEF Agree, Confused
<1>7. /\ t.type \in DOMAIN TxFields
      /\ TxFields[t.type] \ {"Signature"} \subseteq
           {"Version", "SenderAddress", "ClassHash", "MaxFee", "Nonce", "type"}
  BY DEF TxFields
<1> QED BY <1>6, <1>7, SamePayload DEF Confused

\* Two DeclareTxnV2 of one hash.
LEMMA DeclareV2Agree ==
  ASSUME NEW t, NEW u, NEW y, NEW z, Confused(t, y, u, z), t.type = "DeclareTxnV2"
  PROVE  Payload(t) = Payload(u)
<1>1. PICK c, d : c = <<t.ClassHash>> /\ d = <<u.ClassHash>>
  OBVIOUS
<1>2. /\ HashOf(t, y).hash =
           Common2("declare", t, t.SenderAddress, y, c, t.Nonce, t.CompiledClassHash)
      /\ HashOf(u, z).hash =
           Common2("declare", u, u.SenderAddress, z, d, u.Nonce, u.CompiledClassHash)
  BY <1>1, DeclareV2Is, Zenon DEF Confused
<1>3. Common2("declare", t, t.SenderAddress, y, c, t.Nonce, t.CompiledClassHash) =
      Common2("declare", u, u.SenderAddress, z, d, u.Nonce, u.CompiledClassHash)
  BY <1>2, Zenon DEF Confused
<1>4. /\ t.Version = u.Version /\ t.SenderAddress = u.SenderAddress /\ c = d
      /\ t.MaxFee = u.MaxFee /\ t.Nonce = u.Nonce
      /\ t.CompiledClassHash = u.CompiledClassHash
  BY <1>3, CommonSeparates
<1>5. t.ClassHash = u.ClassHash
  BY <1>1, <1>4
<1>6. \A f \in {"Version", "SenderAddress", "ClassHash", "CompiledClassHash", "MaxFee",
                "Nonce", "type"} : Agree(t, u, f)
  BY <1>4, <1>5 DEF Agree, Confused
<1>7. /\ t.type \in DOMAIN TxFields
      /\ TxFields[t.type] \ {"Signature"} \subseteq
           {"Version", "SenderAddress", "ClassHash", "CompiledClassHash", "MaxFee", "Nonce",
            "type"}
  BY DEF TxFields
<1> QED BY <1>6, <1>7, SamePayload DEF Confused

PairThen(e, f, g) == <<e, f>> \o g

\* Two elements put before a list are told from the list.
LEMMA PairSeparates ==
  ASSUME NEW e, NEW f, NEW g, NEW h, NEW i, NEW j, g \in Seq(Int), j \in Seq(Int),
         PairThen(e, f, g) = PairThen(h, i, j)
  PROVE  e = h /\ f = i /\ g = j
<1>1. PICK S : S = Int \cup {e, f, h, i}
  OBVIOUS
<1>2. PICK a, b : a = <<e, f>> /\ b = <<h, i>>
  OBVIOUS
<1>3. a \in Seq(S) /\ b \in Seq(S) /\ g \in Seq(S) /\ j \in Seq(S)
  BY <1>1, <1>2
<1>4. Len(a) = Len(b) /\ a \o g = b \o j
  BY <1>2 DEF PairThen
<1>5. a = b /\ g = j
  BY <1>3, <1>4, ConcatSeparates
<1> QED BY <1>2, <1>5

\* Two DeployAccountTxn of one hash: class hash and salt are the head of the calldata.
LEMMA DeployAgree ==
  ASSUME NEW t, NEW u, NEW y, NEW z, Confused(t, y, u, z), t.type = "DeployAccountTxn"
  PROVE  Payload(t) = Payload(u)
<1> DEFINE E(x) == Elements(x.ConstructorCalldata)
           L(x) == <<x.ClassHash, x.ContractAddressSalt>> \o E(x)
<1>1. PICK c, d : c = L(t) /\ d = L(u)
  OBVIOUS
<1>2. /\ HashOf(t, y).hash = Common1("deploy_account", t, t.ContractAddress, y, c, t.Nonce)
      /\ HashOf(u, z).hash = Common1("deploy_account", u, u.ContractAddress, z, d, u.Nonce)
  BY <1>1, DeployIs, Zenon DEF Confused
<1>3. Common1("deploy_account", t, t.ContractAddress, y, c, t.Nonce) =
      Common1("deploy_account", u, u.ContractAddress, z, d, u.Nonce)
  BY <1>2, Zenon DEF Confused
<1>4. /\ t.Version = u.Version /\ t.ContractAddress = u.ContractAddress /\ c = d
      /\ t.MaxFee = u.MaxFee /\ t.Nonce = u.Nonce
  <2> HIDE DEF L, E
  <2> QED BY <1>3, CommonSeparates
<1>5. /\ t.type \in DOMAIN TxFields
      /\ "ConstructorCalldata" \in TxFields[t.type]
      /\ TxFields[t.type] \ {"Signature"} \subseteq
           {"Version", "ContractAddress", "ClassHash", "ContractAddressSalt",
            "ConstructorCalldata", "MaxFee", "Nonce", "type"}
  BY DEF TxFields, DeployNames
<1>6. E(t) \in Seq(Int) /\ E(u) \in Seq(Int)
  <2>1. ASSUME NEW x, WellFormed(x), x.type = "DeployAccountTxn" PROVE E(x) \in Seq(Int)
    <3>1. "ConstructorCalldata" \in Slices /\ "ConstructorCalldata" \in DOMAIN x
          /\ x.type \in DOMAIN TxFields
      BY <1>5, <2>1 DEF WellFormed, Slices, Confused
    <3>2. x["ConstructorCalldata"] = Nil \/ x["ConstructorCalldata"] \in Seq(Int)
      BY <2>1, <3>1, Zenon DEF WellFormed
    <3>3. Elements(x["ConstructorCalldata"]) \in Seq(Int)
      BY <3>2 DEF Elements
    <3> QED BY <3>3, Zenon
  <2> QED BY <2>1 DEF Confused
<1>7. t.ClassHash = u.ClassHash /\ t.ContractAddressSalt = u.ContractAddressSalt /\ E(t) = E(u)
  <2>1. PairThen(t.ClassHash, t.ContractAddressSalt, E(t)) =
        PairThen(u.ClassHash, u.ContractAddressSalt, E(u))
    BY <1>1, <1>4, Zenon DEF PairThen
  <2> HIDE DEF E, L
  <2> QED BY <1>6, <2>1, PairSeparates
<1>8. Agree(t, u, "ConstructorCalldata")
  BY <1>7, Zenon DEF Agree, Slices
<1>9. \A f \in {"Version", "ContractAddress", "ClassHash", "ContractAddressSalt",
                "ConstructorCalldata", "MaxFee", "Nonce", "type"} : Agree(t, u, f)
  <2>1. \A f \in {"Version", "ContractAddress", "ClassHash", "ContractAddressSalt",
                  "MaxFee", "Nonce", "type"} : Agree(t, u, f)
    BY <1>4, <1>7 DEF Agree, Confused
  <2> QED BY <1>8, <2>1
<1> QED BY <1>9, <1>5, SamePayload DEF Confused

\* Two addresses that are one.
LEMMA AddressAgree ==
  ASSUME NEW t, NEW u, NEW y, NEW z, Confused(t, y, u, z), t.type = "Address"
  PROVE  Payload(t) = Payload(u)
<1> DEFINE L(x, w) == <<"STARKNET_CONTRACT_ADDRESS", w, x.ContractAddressSalt, x.ClassHash,
                        Pedersen(Elements(x.ConstructorCalldata))>>
<1>1. L(t, y) = L(u, z)
  <2>1. Pedersen(L(t, y)) = Pedersen(L(u, z))
    BY AddressIs, Zenon DEF Confused
  <2> HIDE DEF L
  <2> QED BY <2>1 DEF Pedersen
<1>2. /\ t.ContractAddressSalt = u.ContractAddressSalt /\ t.ClassHash = u.ClassHash
      /\ Pedersen(Elements(t.ConstructorCalldata)) = Pedersen(Elements(u.ConstructorCalldata))
  BY <1>1
<1>3. Agree(t, u, "ConstructorCalldata")
  <2>1. Elements(t.ConstructorCalldata) = Elements(u.ConstructorCalldata)
    BY <1>2 DEF Pedersen
  <2> QED BY <2>1, Zenon DEF Agree, Slices
<1>4. \A f \in {"ContractAddressSalt", "ClassHash", "ConstructorCalldata", "type"} :
        Agree(t, u, f)
  <2>1. \A f \in {"ContractAddressSalt", "ClassHash", "type"} : Agree(t, u, f)
    BY <1>2 DEF Agree, Confused
  <2> QED BY <1>3, <2>1
<1>5. /\ t.type \in DOMAIN TxFields
      /\ TxFields[t.type] \subseteq
           {"ContractAddressSalt", "ClassHash", "ConstructorCalldata", "type"}
  BY DEF TxFields, DeployNames
<1> QED BY <1>4, <1>5, SamePayload DEF Confused
\* Two InvokeTxnV3 of one hash.
LEMMA InvokeV3Agree ==
  ASSUME NEW t, NEW u, NEW y, NEW z, Confused(t, y, u, z), t.type = "InvokeTxnV3"
  PROVE  Payload(t) = Payload(u)
<1>1. /\ t.type \in DOMAIN TxFields
      /\ "ResourceBounds" \in TxFields[t.type]
      /\ TxFields[t.type] \ {"Signature"} \subseteq
           {"type", "Version", "Nonce", "Tip", "ResourceBounds", "PayMasterData", "FeeMode",
            "NonceDataMode", "SenderAddress", "AccountDeploymentData", "Calldata"}
  BY DEF TxFields, V3Names
<1>2. Convertible(t) /\ Convertible(u) /\ Bounded(t) /\ Bounded(u)
  BY <1>1, InvokeV3Is, BoundedFacts DEF Confused
<1>3. PICK a, b, c, d :
        /\ a = Poseidon(Elements(t.AccountDeploymentData)) /\ b = Poseidon(Elements(t.Calldata))
        /\ c = Poseidon(Elements(u.AccountDeploymentData)) /\ d = Poseidon(Elements(u.Calldata))
  OBVIOUS
<1>4. /\ HashOf(t, y).hash = V3Two("invoke", t, t.SenderAddress, a, b)
      /\ HashOf(u, z).hash = V3Two("invoke", u, u.SenderAddress, c, d)
  BY <1>3, InvokeV3Is, Zenon DEF Confused
<1>5. V3Two("invoke", t, t.SenderAddress, a, b) = V3Two("invoke", u, u.SenderAddress, c, d)
  BY <1>4, Zenon DEF Confused
<1>6. /\ t.Version = u.Version /\ t.SenderAddress = u.SenderAddress /\ t.Nonce = u.Nonce
      /\ t.Tip = u.Tip /\ t.ResourceBounds = u.ResourceBounds
      /\ Elements(t.PayMasterData) = Elements(u.PayMasterData)
      /\ t.FeeMode = u.FeeMode /\ t.NonceDataMode = u.NonceDataMode
      /\ a = c /\ b = d
  BY <1>2, <1>5, V3Agree
<1>7. /\ Elements(t.AccountDeploymentData) = Elements(u.AccountDeploymentData)
      /\ Elements(t.Calldata) = Elements(u.Calldata)
  BY <1>3, <1>6, PoseidonSeparates, Zenon
<1>8. \A f \in {"PayMasterData", "AccountDeploymentData", "Calldata"} : Agree(t, u, f)
  BY <1>6, <1>7 DEF Agree, Slices
<1>9. \A f \in {"type", "Version", "Nonce", "Tip", "ResourceBounds", "FeeMode",
                "NonceDataMode", "SenderAddress"} : Agree(t, u, f)
  BY <1>6 DEF Agree, Confused
<1> QED BY <1>1, <1>8, <1>9, SamePayload DEF Confused

\* Two DeployAccountTxnV3 of one hash.
LEMMA DeployV3Agree ==
  ASSUME NEW t, NEW u, NEW y, NEW z, Confused(t, y, u, z), t.type = "DeployAccountTxnV3"
  PROVE  Payload(t) = Payload(u)
<1>1. /\ t.type \in DOMAIN TxFields
      /\ "ResourceBounds" \in TxFields[t.type]
      /\ TxFields[t.type] \ {"Signature"} \subseteq
           {"type", "Version", "Nonce", "Tip", "ResourceBounds", "PayMasterData", "FeeMode",
            "NonceDataMode", "ClassHash", "ContractAddressSalt", "ConstructorCalldata",
            "ContractAddress"}
  BY DEF TxFields, V3Names, DeployNames
<1>2. Convertible(t) /\ Convertible(u) /\ Bounded(t) /\ Bounded(u)
  BY <1>1, DeployV3Is, BoundedFacts DEF Confused
<1>3. PICK a, b : /\ a = Poseidon(Elements(t.ConstructorCalldata))
                  /\ b = Poseidon(Elements(u.ConstructorCalldata))
  OBVIOUS
<1>4. /\ HashOf(t, y).hash = V3Three("deploy_account", t, t.ContractAddress, a, t.ClassHash,
                                     t.ContractAddressSalt)
      /\ HashOf(u, z).hash = V3Three("deploy_account", u, u.ContractAddress, b, u.ClassHash,
                                     u.ContractAddressSalt)
  BY <1>3, DeployV3Is, Zenon DEF Confused
<1>5. V3Three("deploy_account", t, t.ContractAddress, a, t.ClassHash, t.ContractAddressSalt) =
      V3Three("deploy_account", u, u.ContractAddress, b, u.ClassHash, u.ContractAddressSalt)
  BY <1>4, Zenon DEF Confused
<1>6. /\ t.Version = u.Version /\ t.ContractAddress = u.ContractAddress /\ t.Nonce = u.Nonce
      /\ t.Tip = u.Tip /\ t.ResourceBounds = u.ResourceBounds
      /\ Elements(t.PayMasterData) = Elements(u.PayMasterData)
      /\ t.FeeMode = u.FeeMode /\ t.NonceDataMode = u.NonceDataMode
      /\ a = b /\ t.ClassHash = u.ClassHash /\ t.ContractAddressSalt = u.ContractAddressSalt
  BY <1>2, <1>5, V3Agree
<1>7. Elements(t.ConstructorCalldata) = Elements(u.ConstructorCalldata)
  BY <1>3, <1>6, PoseidonSeparates, Zenon
<1>8. \A f \in {"PayMasterData", "ConstructorCalldata"} : Agree(t, u, f)
  BY <1>6, <1>7 DEF Agree, Slices
<1>9. \A f \in {"type", "Version", "Nonce", "Tip", "ResourceBounds", "FeeMode",
                "NonceDataMode", "ClassHash", "ContractAddressSalt", "ContractAddress"} :
        Agree(t, u, f)
  BY <1>6 DEF Agree, Confused
<1> QED BY <1>1, <1>8, <1>9, SamePayload DEF Confused

\* Two DeclareTxnV3 of one hash.
LEMMA DeclareV3Agree ==
  ASSUME NEW t, NEW u, NEW y, NEW z, Confused(t, y, u, z), t.type = "DeclareTxnV3"
  PROVE  Payload(t) = Payload(u)
<1>1. /\ t.type \in DOMAIN TxFields
      /\ "ResourceBounds" \in TxFields[t.type]
      /\ TxFields[t.type] \ {"Signature"} \subseteq
           {"type", "Version", "Nonce", "Tip", "ResourceBounds", "PayMasterData", "FeeMode",
            "NonceDataMode", "SenderAddress", "ClassHash", "CompiledClassHash",
            "AccountDeploymentData"}
  BY DEF TxFields, V3Names
<1>2. Convertible(t) /\ Convertible(u) /\ Bounded(t) /\ Bounded(u)
  BY <1>1, DeclareV3Is, BoundedFacts DEF Confused
<1>3. PICK a, b : /\ a = Poseidon(Elements(t.AccountDeploymentData))
                  /\ b = Poseidon(Elements(u.AccountDeploymentData))
  OBVIOUS
<1>4. /\ HashOf(t, y).hash = V3Three("declare", t, t.SenderAddress, a, t.ClassHash,
                                     t.CompiledClassHash)
      /\ HashOf(u, z).hash = V3Three("declare", u, u.SenderAddress, b, u.ClassHash,
                                     u.CompiledClassHash)
  BY <1>3, DeclareV3Is, Zenon DEF Confused
<1>5. V3Three("declare", t, t.SenderAddress, a, t.ClassHash, t.CompiledClassHash) =
      V3Three("declare", u, u.SenderAddress, b, u.ClassHash, u.CompiledClassHash)
  BY <1>4, Zenon DEF Confused
<1>6. /\ t.Version = u.Version /\ t.SenderAddress = u.SenderAddress /\ t.Nonce = u.Nonce
      /\ t.Tip = u.Tip /\ t.ResourceBounds = u.ResourceBounds
      /\ Elements(t.PayMasterData) = Elements(u.PayMasterData)
      /\ t.FeeMode = u.FeeMode /\ t.NonceDataMode = u.NonceDataMode
      /\ a = b /\ t.ClassHash = u.ClassHash /\ t.CompiledClassHash = u.CompiledClassHash
  BY <1>2, <1>5, V3Agree
<1>7. Elements(t.AccountDeploymentData) = Elements(u.AccountDeploymentData)
  BY <1>3, <1>6, PoseidonSeparates, Zenon
<1>8. \A f \in {"PayMasterData", "AccountDeploymentData"} : Agree(t, u, f)
  BY <1>6, <1>7 DEF Agree, Slices
<1>9. \A f \in {"type", "Version", "Nonce", "Tip", "ResourceBounds", "FeeMode",
                "NonceDataMode", "SenderAddress", "ClassHash", "CompiledClassHash"} :
        Agree(t, u, f)
  BY <1>6 DEF Agree, Confused
<1> QED BY <1>1, <1>8, <1>9, SamePayload DEF Confused

\* Two transactions of one hash are of one type and of one payload, whatever felt.Zero
\* held when each was hashed.
LEMMA EqualHashesAgree ==
  ASSUME NEW t, NEW u, NEW y, NEW z, WellFormed(t), WellFormed(u),
         HashOf(t, y) = HashOf(u, z), HashOf(t, y).kind = "hash"
  PROVE  t.type = u.type /\ t.type \in DOMAIN TypeShape /\ Payload(t) = Payload(u)
<1>1. /\ t.type \in DOMAIN TypeShape /\ u.type \in DOMAIN TypeShape
      /\ TypeShape[t.type] = TypeShape[u.type]
  BY HasShape
<1>2. t.type = u.type
  BY <1>1, ShapesDiffer, Zenon
<1>3. Confused(t, y, u, z)
  BY <1>2 DEF Confused
<1>4. \/ t.type = "InvokeTxnV0" \/ t.type = "InvokeTxnV1" \/ t.type = "InvokeTxnV3"
      \/ t.type = "DeployAccountTxn" \/ t.type = "DeployAccountTxnV3"
      \/ t.type = "DeclareTxnV1" \/ t.type = "DeclareTxnV2" \/ t.type = "DeclareTxnV3"
      \/ t.type = "Address"
  BY <1>1 DEF TypeShape
<1>5. Payload(t) = Payload(u)
  <2>1. CASE t.type = "InvokeTxnV0"
    BY <1>3, <2>1, InvokeV0Agree, Zenon
  <2>2. CASE t.type = "InvokeTxnV1"
    BY <1>3, <2>2, InvokeV1Agree, Zenon
  <2>3. CASE t.type = "InvokeTxnV3"
    BY <1>3, <2>3, InvokeV3Agree, Zenon
  <2>4. CASE t.type = "DeployAccountTxn"
    BY <1>3, <2>4, DeployAgree, Zenon
  <2>5. CASE t.type = "DeployAccountTxnV3"
    BY <1>3, <2>5, DeployV3Agree, Zenon
  <2>6. CASE t.type = "DeclareTxnV1"
    BY <1>3, <2>6, DeclareV1Agree, Zenon
  <2>7. CASE t.type = "DeclareTxnV2"
    BY <1>3, <2>7, DeclareV2Agree, Zenon
  <2>8. CASE t.type = "DeclareTxnV3"
    BY <1>3, <2>8, DeclareV3Agree, Zenon
  <2>9. CASE t.type = "Address"
    BY <1>3, <2>9, AddressAgree, Zenon
  <2> QED BY <1>4, <2>1, <2>2, <2>3, <2>4, <2>5, <2>6, <2>7, <2>8, <2>9, Zenon
<1> QED BY <1>1, <1>2, <1>5

\* No two of the compared transactions that differ in what the network executes have
\* one hash (TransactionHashInvoke, -DeployAccount, -Declare, PrecomputeAccountAddress).
THEOREM TxsAreSeparate == ConfusedTxs = {}
<1>1. SUFFICES ASSUME NEW p \in ConfusedTxs PROVE FALSE
  OBVIOUS
<1>2. /\ p[1] \in AllHashes /\ p[2] \in AllHashes
      /\ p[1].res = p[2].res /\ p[1].res.kind = "hash"
      /\ Payload(p[1].tx) # Payload(p[2].tx)
  BY DEF ConfusedTxs
<1>3. PICK t \in Variants, y \in Readings : p[1] = [tx |-> t, res |-> HashOf(t, y)]
  BY <1>2 DEF AllHashes
<1>4. PICK u \in Variants, z \in Readings : p[2] = [tx |-> u, res |-> HashOf(u, z)]
  BY <1>2 DEF AllHashes
<1>5. WellFormed(t) /\ WellFormed(u)
  BY SeparationAssumption
<1>6. /\ p[1].tx = t /\ p[1].res = HashOf(t, y)
      /\ p[2].tx = u /\ p[2].res = HashOf(u, z)
  BY <1>3, <1>4
<1>7. HashOf(t, y) = HashOf(u, z) /\ HashOf(t, y).kind = "hash" /\ Payload(t) # Payload(u)
  BY <1>2, <1>6, Zenon
<1> QED BY <1>5, <1>7, EqualHashesAgree, Zenon
-----------------------------------------------------------------------------
(* Invocations and the calls they make.                                    *)

\* An invocation that has a hash has calldata.
LEMMA CalldataIsSet ==
  ASSUME NEW tx, NEW z, tx.type \in {"InvokeTxnV0", "InvokeTxnV1", "InvokeTxnV3"},
         HashOf(tx, z).kind = "hash"
  PROVE  tx.Calldata # Nil
<1>1. "Calldata" \in Required(tx.type)
  <2>1. CASE tx.type = "InvokeTxnV0"
    <3>1. Required("InvokeTxnV0") = {"Version", "Calldata", "MaxFee", "EntryPointSelector"}
      BY Zenon DEF Required
    <3> QED BY <2>1, <3>1
  <2>2. CASE tx.type = "InvokeTxnV1"
    <3>1. Required("InvokeTxnV1") =
            {"Version", "Calldata", "Nonce", "MaxFee", "SenderAddress"}
      BY Zenon DEF Required
    <3> QED BY <2>2, <3>1
  <2>3. CASE tx.type = "InvokeTxnV3"
    <3>1. Required("InvokeTxnV3") =
            {"Version", "ResourceBounds", "Calldata", "Nonce", "SenderAddress",
             "PayMasterData", "AccountDeploymentData"}
      BY Zenon DEF Required
    <3> QED BY <2>3, <3>1
  <2> QED BY <2>1, <2>2, <2>3
<1>2. \A f \in Required(tx.type) : ~IsUnset(tx, f)
  <2>1. CASE tx.type = "InvokeTxnV0"
    <3>1. HashOf(tx, z) = HashInvokeV0(tx)
      BY <2>1, Zenon DEF HashOf
    <3> QED BY <3>1, CheckedIs DEF HashInvokeV0
  <2>2. CASE tx.type = "InvokeTxnV1"
    <3>1. HashOf(tx, z) = HashInvokeV1(tx, z)
      BY <2>2, Zenon DEF HashOf
    <3> QED BY <3>1, CheckedIs DEF HashInvokeV1
  <2>3. CASE tx.type = "InvokeTxnV3"
    <3>1. HashOf(tx, z) = HashInvokeV3(tx)
      BY <2>3, Zenon DEF HashOf
    <3> QED BY <3>1, HashV3Is DEF HashInvokeV3
  <2> QED BY <2>1, <2>2, <2>3
<1>3. ~IsUnset(tx, "Calldata")
  BY <1>1, <1>2
<1> QED BY <1>3, Zenon DEF IsUnset

\* An invocation whose calldata has been replaced.
LEMMA WithCalldata ==
  ASSUME NEW tx, WellFormed(tx), NEW c \in Seq(Int),
         tx.type \in {"InvokeTxnV0", "InvokeTxnV1", "InvokeTxnV3"}
  PROVE  LET t == [tx EXCEPT !.Calldata = c]
         IN  /\ WellFormed(t) /\ t.type = tx.type /\ t.Calldata = c
             /\ Payload(t)["Calldata"] = Elements(c)
<1> DEFINE t == [tx EXCEPT !.Calldata = c]
<1>1. tx.type \in DOMAIN TxFields /\ {"type", "Calldata"} \subseteq TxFields[tx.type]
  BY DEF TxFields, V3Names
<1>2. DOMAIN tx = TxFields[tx.type]
  BY <1>1, Zenon DEF WellFormed
<1>3. /\ DOMAIN t = DOMAIN tx /\ t["Calldata"] = c
      /\ \A f \in DOMAIN tx \ {"Calldata"} : t[f] = tx[f]
  BY <1>1, <1>2
<1>4. t.type = tx.type
  BY <1>1, <1>2, <1>3
<1>5. WellFormed(t)
  <2> HIDE DEF t
  <2>1. DOMAIN t = TxFields[t.type]
    BY <1>2, <1>3, <1>4
  <2>2. \A f \in Slices \cap DOMAIN tx : tx[f] = Nil \/ tx[f] \in Seq(Int)
    BY <1>1, Zenon DEF WellFormed
  <2>3. \A f \in Slices \cap DOMAIN t : t[f] = Nil \/ t[f] \in Seq(Int)
    BY <1>3, <2>2
  <2>4. "ResourceBounds" \in DOMAIN tx =>
          tx.ResourceBounds = Nil
          \/ tx.ResourceBounds \in [L1Gas : ResourceBounds, L2Gas : ResourceBounds]
    BY <1>1, Zenon DEF WellFormed
  <2>5. "ResourceBounds" \in DOMAIN t => t.ResourceBounds = tx.ResourceBounds
    BY <1>3
  <2>6. "ResourceBounds" \in DOMAIN t =>
          t.ResourceBounds = Nil
          \/ t.ResourceBounds \in [L1Gas : ResourceBounds, L2Gas : ResourceBounds]
    BY <1>3, <2>4, <2>5
  <2> QED BY <2>1, <2>3, <2>6, Zenon DEF WellFormed
<1>6. Payload(t)["Calldata"] = Elements(c)
  <2> HIDE DEF t
  <2>1. "Calldata" \in DOMAIN t \ {"Signature"} /\ "Calldata" \in Slices
    BY <1>1, <1>2, <1>3 DEF Slices
  <2>2. Payload(t)["Calldata"] = Elements(t["Calldata"])
    BY <2>1 DEF Payload
  <2> QED BY <1>3, <2>2
<1>7. t.Calldata = c
  BY <1>3
<1> HIDE DEF t
<1> QED BY <1>4, <1>5, <1>6, <1>7 DEF t

\* Invocations that differ only in their calldata differ in their hash.
LEMMA CalldataDecides ==
  ASSUME NEW tx, WellFormed(tx), NEW c \in Seq(Int), NEW d \in Seq(Int),
         tx.type \in {"InvokeTxnV0", "InvokeTxnV1", "InvokeTxnV3"},
         HashOf([tx EXCEPT !.Calldata = c], Zero) = HashOf([tx EXCEPT !.Calldata = d], Zero),
         HashOf([tx EXCEPT !.Calldata = c], Zero).kind = "hash"
  PROVE  c = d
<1>1. PICK t, u : t = [tx EXCEPT !.Calldata = c] /\ u = [tx EXCEPT !.Calldata = d]
  OBVIOUS
<1>2. /\ WellFormed(t) /\ t.type = tx.type /\ t.Calldata = c
      /\ Payload(t)["Calldata"] = Elements(c)
  BY <1>1, WithCalldata, Zenon
<1>3. /\ WellFormed(u) /\ u.type = tx.type /\ u.Calldata = d
      /\ Payload(u)["Calldata"] = Elements(d)
  BY <1>1, WithCalldata, Zenon
<1>4. HashOf(t, Zero) = HashOf(u, Zero) /\ HashOf(t, Zero).kind = "hash"
  BY <1>1, Zenon
<1>5. Elements(c) = Elements(d)
  BY <1>2, <1>3, <1>4, EqualHashesAgree, Zenon
<1>6. c # Nil /\ d # Nil
  <2>1. t.Calldata # Nil
    BY <1>2, <1>4, CalldataIsSet
  <2>2. u.Calldata # Nil
    BY <1>3, <1>4, CalldataIsSet
  <2> QED BY <1>2, <1>3, <2>1, <2>2
<1> QED BY <1>5, <1>6 DEF Elements

\* No two invocations that make different calls have one hash, for accounts of either
\* Cairo version (Account.FmtCalldata, then TransactionHashInvoke).
THEOREM CallsAreSeparate == ConfusedCalls = {}
<1>1. SUFFICES ASSUME NEW p \in ConfusedCalls PROVE FALSE
  OBVIOUS
<1>2. p[1] \in Calls /\ p[2] \in Calls /\ p[1] # p[2]
  BY DEF ConfusedCalls
<1>3. PICK tx \in Invokes, version \in CairoVersions :
        /\ HashOfCalls(tx, version, p[1]).kind = "hash"
        /\ HashOfCalls(tx, version, p[1]) = HashOfCalls(tx, version, p[2])
  BY DEF ConfusedCalls
<1>4. p[1] \in Seq(Call) /\ p[2] \in Seq(Call)
  BY <1>2, SeparationAssumption DEF Call, Felt
<1>5. PICK c, d : c = FmtCalldata(version, p[1]) /\ d = FmtCalldata(version, p[2])
  OBVIOUS
<1>6. c \in Seq(Int) /\ d \in Seq(Int)
  BY <1>4, <1>5, CalldataFacts DEF Felt
<1>7. WellFormed(tx) /\ tx.type \in {"InvokeTxnV0", "InvokeTxnV1", "InvokeTxnV3"}
  BY SeparationAssumption
<1>8. /\ HashOf([tx EXCEPT !.Calldata = c], Zero).kind = "hash"
      /\ HashOf([tx EXCEPT !.Calldata = c], Zero) = HashOf([tx EXCEPT !.Calldata = d], Zero)
  BY <1>3, <1>5, Zenon DEF HashOfCalls
<1>9. c = d
  BY <1>6, <1>7, <1>8, CalldataDecides, Zenon
<1> QED BY <1>2, <1>4, <1>5, <1>9, CalldataSeparates, Zenon

\* Whatever felt.Zero holds, transactions, invocations and classes that differ have
\* different hashes: for every set of transactions, calls and classes of the Go types.
THEOREM SeparationCorrect == Spec => []HashSeparatesTxs
<1>1. TypeOK => HashSeparatesTxs
  <2>1. NothingIsConfused
    BY TxsAreSeparate, CallsAreSeparate, ClassHashesSeparate DEF NothingIsConfused
  <2> QED BY <2>1 DEF TypeOK, Readable, Readings, HashSeparatesTxs
<1> QED BY <1>1, TypeCorrect, PTL
=============================================================================
