-------------------------- MODULE TypedData_proofs --------------------------
(***************************************************************************)
(* Proofs about TypedData: TypedInv is inductive; with it no TypedData     *)
(* that was built panics for lack of an encoding, and data without a type  *)
(* of two custom types has one hash, for all callers, maps and types.      *)
(***************************************************************************)
EXTENDS TypedData, FlattenTheorems, FiniteSetTheorems

\* What a caller may read of a type: of one that is in the map, an encoding.
PossibleOf(m, t) ==
  IF t = "felt" THEN {Nil} ELSE {e \in EncodeType(Types[m], t) : t \in DOMAIN Types[m]}

\* The same for the type at position n of AllReads(d).
Possible(d, n) == PossibleOf(d.map, AllReads(d)[n])

\* Every encoding there can be.
Encodings ==
  {Nil} \cup UNION {UNION {EncodeType(Types[m], k) : k \in DOMAIN Types[m]} : m \in Maps}

\* The state has its shape: TypeOK, and the domains of the functions.
ShapeInv ==
  /\ TypeOK
  /\ DOMAIN encoding = Maps
  /\ \A m \in Maps : DOMAIN encoding[m] = DOMAIN Types[m]
  /\ DOMAIN todo = Callers
  /\ DOMAIN got = Callers

\* A caller that has left "idle" has a primary type, and of the types of its map the
\* encodings are set that its loop has reached.
BuiltInv ==
  \A g \in Callers : pc[g] \in {"building", "built", "hashing"} =>
    /\ data[g].primary \in DOMAIN TypesOf(g)
    /\ pc[g] # "building" => todo[g] = {}
    /\ \A k \in DOMAIN TypesOf(g) \ todo[g] : encoding[data[g].map][k] # Nil

\* What was read is an encoding of the type that it was read for.
GotInv ==
  \A g \in Callers :
    /\ got[g] \in Seq(Encodings)
    /\ \A n \in 1..Len(got[g]) : got[g][n] \in Possible(data[g], n)

\* A hash is that of its data with some such encodings.
HashInv ==
  \A h \in hashes :
    /\ h.data \in Data
    /\ h.data.primary \in DOMAIN Types[h.data.map]
    /\ \E e \in Seq(Encodings) :
         /\ Len(e) = Len(AllReads(h.data))
         /\ \A n \in 1..Len(e) : e[n] \in Possible(h.data, n)
         /\ h.res = GetMessageHash(h.data, e)

TypedInv == ShapeInv /\ BuiltInv /\ GotInv /\ HashInv /\ BuiltDataHashes
-----------------------------------------------------------------------------
(* The types at which GetMessageHash looks.                                *)

LEMMA DefinitionsAreSeq ==
  ASSUME NEW m \in Maps, NEW k
  PROVE  Definitions(Types[m], k) \in Seq([name : STRING, type : STRING])
BY TypedAssumption DEF Definitions

LEMMA ReadsAreSeq ==
  ASSUME NEW m \in Maps, NEW k, NEW S, k \in S,
         \A i \in DOMAIN Definitions(Types[m], k) : Definitions(Types[m], k)[i].type \in S
  PROVE  Reads(Types[m], k) \in Seq(S)
<1> DEFINE defs == Definitions(Types[m], k)
           n == Len(defs)
           types == [i \in DOMAIN defs |-> defs[i].type]
<1>1. n \in Nat /\ DOMAIN defs = 1..n
  BY DefinitionsAreSeq, LenProperties
<1>2. types \in [1..n -> S]
  BY <1>1
<1>3. types \in Seq(S)
  <2> HIDE DEF types, n
  <2> QED BY <1>1, <1>2
<1>4. <<k>> \in Seq(S)
  OBVIOUS
<1>5. <<k>> \o types \in Seq(S)
  <2> HIDE DEF types
  <2> QED BY <1>3, <1>4, ConcatProperties
<1> QED BY <1>5 DEF Reads

\* Everything that can be read is a name.
LEMMA AllReadsAreSeq ==
  ASSUME NEW d \in Data
  PROVE  \E S : AllReads(d) \in Seq(S)
<1> DEFINE S == STRING \cup {Domain, d.primary}
<1>1. d.map \in Maps
  BY TypedAssumption
<1>2. ASSUME NEW k \in S PROVE Reads(Types[d.map], k) \in Seq(S)
  <2>1. \A i \in DOMAIN Definitions(Types[d.map], k) :
          Definitions(Types[d.map], k)[i].type \in STRING
    <3>1. Definitions(Types[d.map], k) \in Seq([name : STRING, type : STRING])
      BY <1>1, DefinitionsAreSeq
    <3>2. \A i \in DOMAIN Definitions(Types[d.map], k) :
            Definitions(Types[d.map], k)[i] \in [name : STRING, type : STRING]
      BY <3>1, LenProperties, ElementOfSeq
    <3> QED BY <3>2
  <2> QED BY <1>1, <2>1, ReadsAreSeq
<1>3. Reads(Types[d.map], Domain) \in Seq(S) /\ Reads(Types[d.map], d.primary) \in Seq(S)
  BY <1>2
<1>4. AllReads(d) \in Seq(S)
  <2> HIDE DEF S
  <2> QED BY <1>3, ConcatProperties DEF AllReads
<1> QED BY <1>4

LEMMA AllReadsLength ==
  ASSUME NEW d \in Data
  PROVE  Len(AllReads(d)) \in Nat /\ DOMAIN AllReads(d) = 1..Len(AllReads(d))
BY AllReadsAreSeq, LenProperties

\* EncodeType has an encoding only of types whose custom types are in the map.
LEMMA EncodedTypesKnown ==
  ASSUME NEW types, NEW k, EncodeType(types, k) # {}
  PROVE  CustomTypes(types, k) \subseteq DOMAIN types
BY DEF EncodeType

\* Where the domain and the primary type have encodings, all types read are known.
LEMMA KnownReads ==
  ASSUME NEW d \in Data,
         Domain \in DOMAIN Types[d.map], d.primary \in DOMAIN Types[d.map],
         EncodeType(Types[d.map], Domain) # {}, EncodeType(Types[d.map], d.primary) # {},
         NEW n \in 1..Len(AllReads(d))
  PROVE  AllReads(d)[n] \in DOMAIN Types[d.map] \cup {"felt"}
<1> DEFINE S == DOMAIN Types[d.map] \cup {"felt"}
<1>1. d.map \in Maps
  BY TypedAssumption
<1>2. ASSUME NEW k \in DOMAIN Types[d.map], EncodeType(Types[d.map], k) # {}
      PROVE  Reads(Types[d.map], k) \in Seq(S)
  <2>1. \A i \in DOMAIN Definitions(Types[d.map], k) :
          Definitions(Types[d.map], k)[i].type \in S
    BY <1>2, EncodedTypesKnown DEF Definitions, CustomTypes
  <2> QED BY <1>1, <2>1, ReadsAreSeq
<1>3. Reads(Types[d.map], Domain) \in Seq(S) /\ Reads(Types[d.map], d.primary) \in Seq(S)
  BY <1>2
<1>4. AllReads(d) \in Seq(S)
  <2> HIDE DEF S
  <2> QED BY <1>3, ConcatProperties DEF AllReads
<1> QED
  <2> HIDE DEF S
  <2>1. AllReads(d)[n] \in S
    BY <1>4, ElementOfSeq
  <2> QED BY <2>1 DEF S

\* A type without two custom types has one encoding at the most.
LEMMA OneEncoding ==
  ASSUME NEW types, NEW k, ~Ambiguous(types, k),
         NEW a \in EncodeType(types, k), NEW b \in EncodeType(types, k)
  PROVE  a = b
<1> DEFINE C == CustomTypes(types, k)
<1>1. \A s, t \in C : s = t
  BY DEF Ambiguous
<1>2. C = {} \/ \E s : C = {s}
  BY <1>1
<1>3. ASSUME NEW p \in SetToSeqs(C), NEW q \in SetToSeqs(C) PROVE p = q
  <2> HIDE DEF C
  <2>1. p \in [1..Cardinality(C) -> C] /\ q \in [1..Cardinality(C) -> C]
    BY DEF SetToSeqs
  <2>2. \A i \in 1..Cardinality(C) : p[i] = q[i]
    BY <2>1, <1>1
  <2>3. p = [i \in 1..Cardinality(C) |-> p[i]] /\ q = [i \in 1..Cardinality(C) |-> q[i]]
    BY <2>1
  <2>4. [i \in 1..Cardinality(C) |-> p[i]] = [i \in 1..Cardinality(C) |-> q[i]]
    BY <2>2, Zenon
  <2> QED BY <2>3, <2>4, Zenon
<1>4. PICK p \in SetToSeqs(C) : a =
        [type |-> <<k, types[k]>>, custom |-> [i \in DOMAIN p |-> <<p[i], types[p[i]]>>]]
  BY DEF EncodeType
<1>5. PICK q \in SetToSeqs(C) : b =
        [type |-> <<k, types[k]>>, custom |-> [i \in DOMAIN q |-> <<q[i], types[q[i]]>>]]
  BY DEF EncodeType
<1> QED BY <1>3, <1>4, <1>5
-----------------------------------------------------------------------------
(* The steps.                                                              *)

LEMMA InitTypedInv == Init => TypedInv
<1> SUFFICES ASSUME Init PROVE TypedInv
  OBVIOUS
<1> USE DEF Init
<1>1. ShapeInv
  BY TypedAssumption, AllReadsLength DEF ShapeInv, TypeOK
<1>2. BuiltInv /\ GotInv /\ HashInv /\ BuiltDataHashes
  BY DEF BuiltInv, GotInv, HashInv, BuiltDataHashes
<1> QED BY <1>1, <1>2 DEF TypedInv

LEMMA NewTypedDataStep ==
  ASSUME TypedInv, NEW g \in Callers, NewTypedData(g)
  PROVE  TypedInv'
<1> USE DEF TypedInv, NewTypedData, TypesOf
<1>1. ShapeInv'
  BY DEF ShapeInv, TypeOK
<1>2. BuiltInv'
  BY DEF ShapeInv, TypeOK, BuiltInv
<1>3. GotInv' /\ HashInv'
  BY DEF GotInv, HashInv
<1>4. BuiltDataHashes'
  BY DEF ShapeInv, TypeOK, BuiltDataHashes
<1> QED BY <1>1, <1>2, <1>3, <1>4

\* An encoding that is set stays set, whichever caller makes it again.
LEMMA EncodeOneStep ==
  ASSUME TypedInv, NEW g \in Callers, EncodeOne(g)
  PROVE  TypedInv'
<1> USE DEF TypedInv, TypesOf
<1>1. PICK k \in todo[g] : \E c \in EncodeType(TypesOf(g), k) :
        /\ encoding' = [encoding EXCEPT ![data[g].map][k] = c]
        /\ todo' = [todo EXCEPT ![g] = @ \ {k}]
        /\ pc' = [pc EXCEPT ![g] = IF todo[g] = {k} THEN "built" ELSE "building"]
        /\ pc[g] = "building"
        /\ UNCHANGED <<data, got, hashes>>
  BY DEF EncodeOne
<1>2. PICK enc \in EncodeType(TypesOf(g), k) :
        /\ encoding' = [encoding EXCEPT ![data[g].map][k] = enc]
        /\ todo' = [todo EXCEPT ![g] = @ \ {k}]
        /\ pc' = [pc EXCEPT ![g] = IF todo[g] = {k} THEN "built" ELSE "building"]
        /\ pc[g] = "building"
        /\ UNCHANGED <<data, got, hashes>>
  BY <1>1
<1>3. data[g].map \in Maps /\ k \in DOMAIN Types[data[g].map] /\ enc # Nil
  BY <1>2, TypedAssumption DEF ShapeInv, TypeOK
<1>4. \A m \in Maps : \A j \in DOMAIN Types[m] :
        encoding'[m][j] = IF m = data[g].map /\ j = k THEN enc ELSE encoding[m][j]
  BY <1>2, <1>3 DEF ShapeInv
<1>5. ShapeInv'
  <2>1. \A m \in Maps : \A j \in DOMAIN Types[m] :
          encoding'[m][j] \in EncodeType(Types[m], j) \cup {Nil}
    BY <1>2, <1>4 DEF ShapeInv, TypeOK
  <2>2. DOMAIN encoding' = Maps /\ \A m \in Maps : DOMAIN (encoding'[m]) = DOMAIN Types[m]
    BY <1>2, <1>3 DEF ShapeInv
  <2> QED BY <1>2, <2>1, <2>2 DEF ShapeInv, TypeOK
<1>6. BuiltInv'
  <2> SUFFICES ASSUME NEW h \in Callers, pc'[h] \in {"building", "built", "hashing"}
               PROVE  /\ data[h].primary \in DOMAIN TypesOf(h)
                      /\ pc'[h] # "building" => todo'[h] = {}
                      /\ \A j \in DOMAIN TypesOf(h) \ todo'[h] :
                           encoding'[data[h].map][j] # Nil
    BY <1>2 DEF BuiltInv
  <2>1. pc[h] \in {"building", "built", "hashing"} /\ data[h].map \in Maps
    BY <1>2, TypedAssumption DEF ShapeInv, TypeOK
  <2>2. data[h].primary \in DOMAIN TypesOf(h)
    BY <2>1 DEF BuiltInv
  <2>3. pc'[h] # "building" => todo'[h] = {}
    BY <1>2, <2>1 DEF BuiltInv, ShapeInv, TypeOK
  <2>4. \A j \in DOMAIN TypesOf(h) \ todo'[h] : encoding'[data[h].map][j] # Nil
    BY <1>2, <1>3, <1>4, <2>1 DEF BuiltInv, ShapeInv
  <2> QED BY <2>2, <2>3, <2>4
<1>7. GotInv' /\ HashInv'
  BY <1>2 DEF GotInv, HashInv
<1>8. BuiltDataHashes'
  BY <1>2 DEF ShapeInv, TypeOK, BuiltDataHashes
<1> QED BY <1>5, <1>6, <1>7, <1>8

LEMMA EncodeFailsStep ==
  ASSUME TypedInv, NEW g \in Callers, EncodeFails(g)
  PROVE  TypedInv'
<1> USE DEF TypedInv, EncodeFails, TypesOf
<1>1. ShapeInv'
  BY DEF ShapeInv, TypeOK
<1>2. BuiltInv'
  BY DEF ShapeInv, TypeOK, BuiltInv
<1>3. GotInv' /\ HashInv'
  BY DEF GotInv, HashInv
<1>4. BuiltDataHashes'
  BY DEF ShapeInv, TypeOK, BuiltDataHashes
<1> QED BY <1>1, <1>2, <1>3, <1>4

LEMMA StartHashStep ==
  ASSUME TypedInv, NEW g \in Callers, StartHash(g)
  PROVE  TypedInv'
<1> USE DEF TypedInv, StartHash, TypesOf
<1>1. ShapeInv'
  BY DEF ShapeInv, TypeOK
<1>2. BuiltInv'
  BY DEF ShapeInv, TypeOK, BuiltInv
<1>3. GotInv' /\ HashInv'
  BY DEF GotInv, HashInv
<1>4. BuiltDataHashes'
  BY DEF ShapeInv, TypeOK, BuiltDataHashes
<1> QED BY <1>1, <1>2, <1>3, <1>4

\* A caller that hashes with a domain in its map finds every encoding it needs.
LEMMA EncodingsAreSet ==
  ASSUME TypedInv, NEW g \in Callers, pc[g] = "hashing", Domain \in DOMAIN TypesOf(g),
         Len(got[g]) < Len(AllReads(data[g])), NextRead(g) # "felt"
  PROVE  IsSet(data[g].map, NextRead(g))
<1> USE DEF TypedInv, TypesOf
<1>1. data[g] \in Data /\ data[g].map \in Maps
  BY TypedAssumption DEF ShapeInv, TypeOK
<1>2. \A k \in DOMAIN Types[data[g].map] :
        encoding[data[g].map][k] # Nil /\ EncodeType(Types[data[g].map], k) # {}
  BY <1>1 DEF BuiltInv, ShapeInv, TypeOK
<1>3. data[g].primary \in DOMAIN Types[data[g].map]
  BY DEF BuiltInv
<1>4. Len(got[g]) + 1 \in 1..Len(AllReads(data[g]))
  BY <1>1, AllReadsLength, LenProperties DEF GotInv
<1>5. NextRead(g) \in DOMAIN Types[data[g].map] \cup {"felt"}
  BY <1>1, <1>2, <1>3, <1>4, KnownReads DEF NextRead
<1> QED BY <1>2, <1>5 DEF IsSet

LEMMA ReadEncodingStep ==
  ASSUME TypedInv, NEW g \in Callers, ReadEncoding(g)
  PROVE  TypedInv'
<1> USE DEF TypedInv, TypesOf
<1>1. data[g] \in Data /\ data[g].map \in Maps
  BY TypedAssumption DEF ShapeInv, TypeOK
<1>2. Len(got[g]) \in Nat /\ Len(got[g]) + 1 \in 1..Len(AllReads(data[g]))
  BY <1>1, AllReadsLength, LenProperties DEF GotInv, ReadEncoding
<1>3. CASE UNCHANGED pc
  <2>1. PICK x \in Possible(data[g], Len(got[g]) + 1) \cap Encodings :
          got' = [got EXCEPT ![g] = Append(@, x)]
    <3>1. CASE NextRead(g) = "felt" /\ got' = [got EXCEPT ![g] = Append(@, Nil)]
      BY <3>1 DEF NextRead, Possible, PossibleOf, Encodings
    <3>2. CASE /\ NextRead(g) # "felt" /\ IsSet(data[g].map, NextRead(g))
               /\ got' = [got EXCEPT ![g] = Append(@, encoding[data[g].map][NextRead(g)])]
      <4>1. encoding[data[g].map][NextRead(g)] \in
              EncodeType(Types[data[g].map], NextRead(g)) \cap Encodings
        BY <1>1, <3>2 DEF IsSet, ShapeInv, TypeOK, Encodings
      <4> QED BY <3>2, <4>1 DEF NextRead, Possible, PossibleOf, IsSet
    <3>3. NextRead(g) = "felt" => ~IsSet(data[g].map, NextRead(g))
      BY <1>1, TypedAssumption DEF IsSet
    <3> QED BY <1>3, <3>1, <3>2, <3>3 DEF ReadEncoding, ShapeInv, TypeOK
  <2>2. /\ got'[g] \in Seq(Encodings) /\ Len(got'[g]) = Len(got[g]) + 1
        /\ \A n \in 1..Len(got[g]) : got'[g][n] = got[g][n]
        /\ got'[g][Len(got[g]) + 1] = x
    BY <2>1, AppendProperties DEF GotInv, ShapeInv
  <2>3. UNCHANGED <<encoding, data, pc, todo, hashes>>
    BY <1>3 DEF ReadEncoding
  <2>4. \A h \in Callers \ {g} : got'[h] = got[h]
    BY <2>1 DEF ShapeInv
  <2>5. ShapeInv'
    BY <1>1, <1>2, <2>1, <2>2, <2>3, <2>4, AllReadsLength DEF ShapeInv, TypeOK
  <2>6. GotInv'
    <3> SUFFICES ASSUME NEW h \in Callers
                 PROVE  /\ got'[h] \in Seq(Encodings)
                        /\ \A n \in 1..Len(got'[h]) : got'[h][n] \in Possible(data[h], n)
      BY <2>3 DEF GotInv
    <3>1. CASE h = g
      BY <3>1, <1>2, <2>1, <2>2 DEF GotInv
    <3>2. CASE h # g
      BY <3>2, <2>4 DEF GotInv
    <3> QED BY <3>1, <3>2
  <2>7. BuiltInv' /\ HashInv' /\ BuiltDataHashes'
    BY <2>3 DEF BuiltInv, HashInv, BuiltDataHashes
  <2> QED BY <2>5, <2>6, <2>7
<1>4. CASE /\ NextRead(g) # "felt" /\ ~IsSet(data[g].map, NextRead(g))
           /\ pc' = [pc EXCEPT ![g] = "panicked"] /\ UNCHANGED got
  <2>1. UNCHANGED <<encoding, data, todo, got, hashes>> /\ pc[g] = "hashing"
    BY <1>4 DEF ReadEncoding
  <2>2. Domain \notin DOMAIN TypesOf(g)
    BY <1>4, <2>1, EncodingsAreSet DEF ReadEncoding
  <2>3. ShapeInv' /\ BuiltInv' /\ GotInv' /\ HashInv'
    BY <1>4, <2>1 DEF ShapeInv, TypeOK, BuiltInv, GotInv, HashInv
  <2>4. BuiltDataHashes'
    BY <1>4, <2>1, <2>2 DEF ShapeInv, TypeOK, BuiltDataHashes
  <2> QED BY <2>3, <2>4
<1> QED BY <1>3, <1>4 DEF ReadEncoding

LEMMA EndHashStep ==
  ASSUME TypedInv, NEW g \in Callers, EndHash(g)
  PROVE  TypedInv'
<1> USE DEF TypedInv, EndHash, TypesOf
<1>1. ShapeInv'
  BY AllReadsLength DEF ShapeInv, TypeOK
<1>2. BuiltInv'
  BY DEF ShapeInv, TypeOK, BuiltInv
<1>3. GotInv'
  BY DEF ShapeInv, GotInv
<1>4. HashInv'
  <2>1. data[g] \in Data /\ data[g].primary \in DOMAIN Types[data[g].map]
    BY DEF ShapeInv, TypeOK, BuiltInv
  <2>2. /\ got[g] \in Seq(Encodings) /\ Len(got[g]) = Len(AllReads(data[g]))
        /\ \A n \in 1..Len(got[g]) : got[g][n] \in Possible(data[g], n)
    BY DEF GotInv
  <2> QED BY <2>1, <2>2 DEF HashInv
<1>5. BuiltDataHashes'
  BY DEF ShapeInv, TypeOK, BuiltDataHashes
<1> QED BY <1>1, <1>2, <1>3, <1>4, <1>5

LEMMA TypedStutter ==
  ASSUME TypedInv, UNCHANGED vars
  PROVE  TypedInv'
BY DEF vars, TypedInv, ShapeInv, TypeOK, BuiltInv, GotInv, HashInv, BuiltDataHashes, TypesOf
-----------------------------------------------------------------------------
(* The theorems.                                                           *)

\* TypedInv holds in every state: the invariant that the others follow from.
THEOREM TypedInvariant == Spec => []TypedInv
<1>1. TypedInv /\ [Next]_vars => TypedInv'
  BY NewTypedDataStep, EncodeOneStep, EncodeFailsStep, StartHashStep, ReadEncodingStep,
     EndHashStep, TypedStutter DEF Next
<1> QED BY InitTypedInv, <1>1, PTL DEF Spec

\* Type correctness: an encoding that is set is one of its own type, as NewTypedData
\* stores it.
THEOREM TypedDataTypes == Spec => []TypeOK
<1>1. TypedInv => TypeOK
  BY DEF TypedInv, ShapeInv
<1> QED BY TypedInvariant, <1>1, PTL

\* However many callers build on one map, GetMessageHash of a TypedData that
\* NewTypedData returned finds every encoding, if its types have a domain.
THEOREM BuiltDataHash == Spec => []BuiltDataHashes
<1>1. TypedInv => BuiltDataHashes
  BY DEF TypedInv
<1> QED BY TypedInvariant, <1>1, PTL

\* GetMessageHash gives the same hash of the same data whenever EncodeType has one
\* encoding of each type that it looks at.
THEOREM HashesAreStable == Spec => []HashIsStable
<1>1. ASSUME HashInv, NEW h \in hashes, NEW i \in hashes, h.data = i.data,
             \A n \in DOMAIN AllReads(h.data) : AllReads(h.data)[n] # "felt" =>
               ~Ambiguous(Types[h.data.map], AllReads(h.data)[n])
      PROVE  h.res = i.res
  <2>1. PICK e \in Seq(Encodings) :
          /\ Len(e) = Len(AllReads(h.data))
          /\ \A n \in 1..Len(e) : e[n] \in Possible(h.data, n)
          /\ h.res = GetMessageHash(h.data, e)
    BY <1>1 DEF HashInv
  <2>2. PICK f \in Seq(Encodings) :
          /\ Len(f) = Len(AllReads(h.data))
          /\ \A n \in 1..Len(f) : f[n] \in Possible(h.data, n)
          /\ i.res = GetMessageHash(h.data, f)
    BY <1>1 DEF HashInv
  <2>3. h.data \in Data
    BY <1>1 DEF HashInv
  <2>4. ASSUME NEW n \in 1..Len(e) PROVE e[n] = f[n]
    <3>1. e[n] \in Possible(h.data, n) /\ f[n] \in Possible(h.data, n)
      BY <2>1, <2>2
    <3>2. n \in DOMAIN AllReads(h.data)
      BY <2>1, <2>3, AllReadsLength
    <3>3. CASE AllReads(h.data)[n] = "felt"
      BY <3>1, <3>3 DEF Possible, PossibleOf
    <3>4. CASE AllReads(h.data)[n] # "felt"
      BY <3>1, <3>2, <3>4, <1>1, OneEncoding DEF Possible, PossibleOf
    <3> QED BY <3>3, <3>4
  <2>5. e = f
    BY <2>1, <2>2, <2>4, SeqEqual
  <2> QED BY <2>1, <2>2, <2>5
<1>2. TypedInv => HashIsStable
  BY <1>1 DEF TypedInv, HashIsStable
<1> QED BY TypedInvariant, <1>2, PTL
-----------------------------------------------------------------------------
(* What a hash says of its data.                                           *)

\* The list that is hashed for a field that is not a felt gives away its type and
\* its numbers.
FieldList(enc, numbers) == <<enc>> \o numbers \o <<1 + Len(numbers)>>

LEMMA FieldSeparates ==
  ASSUME NEW a, NEW b, NEW x \in Seq(Int), NEW y \in Seq(Int),
         FieldList(a, x) = FieldList(b, y)
  PROVE  a = b /\ x = y
<1> DEFINE List(e, z) == FieldList(e, z)
<1>1. ASSUME NEW e, NEW z \in Seq(Int)
      PROVE  /\ Len(z) \in Nat
             /\ Len(List(e, z)) = Len(z) + 2
             /\ List(e, z)[1] = e
             /\ \A i \in 1 .. Len(z) : List(e, z)[1 + i] = z[i]
  <2> DEFINE S == Int \cup {e}
             c == <<e>> \o z
  <2>1. Len(z) \in Nat /\ <<e>> \in Seq(S) /\ z \in Seq(S)
    BY LenProperties
  <2>2. c \in Seq(S)
    <3> HIDE DEF S
    <3> QED BY <2>1, ConcatProperties
  <2>3. /\ Len(c) = 1 + Len(z) /\ c[1] = e
        /\ \A i \in 1 .. Len(z) : c[1 + i] = z[i]
    BY ConsFacts
  <2> HIDE DEF c, S
  <2>4. /\ Len(c \o <<1 + Len(z)>>) = Len(c) + 1
        /\ \A i \in 1 .. Len(c) : (c \o <<1 + Len(z)>>)[i] = c[i]
    BY <2>2, SnocFacts
  <2>5. List(e, z) = c \o <<1 + Len(z)>>
    BY DEF c, FieldList
  <2> HIDE DEF List
  <2>6. Len(List(e, z)) = Len(z) + 2 /\ List(e, z)[1] = e
    BY <2>1, <2>3, <2>4, <2>5
  <2>7. ASSUME NEW i \in 1 .. Len(z) PROVE List(e, z)[1 + i] = z[i]
    <3>1. 1 + i \in 1 .. Len(c)
      BY <2>1, <2>3
    <3> QED BY <2>3, <2>4, <2>5, <3>1
  <2> QED BY <2>1, <2>6, <2>7
<1>2. List(a, x) = List(b, y)
  OBVIOUS
<1> HIDE DEF List
<1>3. Len(x) = Len(y)
  <2>1. Len(List(a, x)) = Len(x) + 2 /\ Len(x) \in Nat
    BY <1>1
  <2>2. Len(List(b, y)) = Len(y) + 2 /\ Len(y) \in Nat
    BY <1>1
  <2> QED BY <1>2, <2>1, <2>2
<1>4. a = b
  <2>1. List(a, x)[1] = a /\ List(b, y)[1] = b
    BY <1>1
  <2> QED BY <1>2, <2>1
<1>5. ASSUME NEW i \in 1 .. Len(x) PROVE x[i] = y[i]
  <2>1. List(a, x)[1 + i] = x[i]
    BY <1>1
  <2>2. List(b, y)[1 + i] = y[i]
    BY <1>1, <1>3
  <2> QED BY <1>2, <2>1, <2>2
<1> QED BY <1>3, <1>4, <1>5, SeqEqual

LEMMA CustomTypesFinite ==
  ASSUME NEW m \in Maps, NEW k \in DOMAIN Types[m]
  PROVE  IsFiniteSet(CustomTypes(Types[m], k))
<1> DEFINE defs == Types[m][k]
           n == Len(defs)
           T == {defs[i].type : i \in DOMAIN defs}
           f == [i \in 1 .. n |-> defs[i].type]
<1>1. n \in Nat /\ DOMAIN defs = 1 .. n
  BY TypedAssumption, LenProperties
<1>2. f \in Surjection(1 .. n, T)
  BY <1>1 DEF Surjection
<1>3. IsFiniteSet(T)
  <2> HIDE DEF f, T, n
  <2> QED BY <1>1, <1>2, FS_NatSurjection DEF ExistsSurjection
<1> QED BY <1>3, FS_Difference DEF CustomTypes

\* The orders of a finite set list all of it.
LEMMA OrderIsOnto ==
  ASSUME NEW C, IsFiniteSet(C), NEW o \in SetToSeqs(C)
  PROVE  {o[i] : i \in DOMAIN o} = C
<1> DEFINE n == Cardinality(C)
<1>1. n \in Nat
  BY FS_CardinalityType
<1>2. o \in [1 .. n -> C] /\ \A i, j \in 1 .. n : i # j => o[i] # o[j]
  BY DEF SetToSeqs
<1> HIDE DEF n
<1>3. o \in Injection(1 .. n, C)
  BY <1>2 DEF Injection, IsInjective
<1>4. Cardinality(1 .. n) = n
  <2>1. Cardinality(1 .. n) = IF 1 > n THEN 0 ELSE n - 1 + 1
    BY <1>1, FS_Interval
  <2> QED BY <1>1, <2>1
<1>5. o \in Surjection(1 .. n, C)
  BY <1>3, <1>4, FS_Injection DEF n
<1> QED BY <1>2, <1>5 DEF Surjection

\* What an encoding tells of a type: its definitions and those of its custom types.
ShapeOf(m, t) == <<Types[m][t], {<<c, Types[m][c]>> : c \in CustomTypes(Types[m], t)}>>

\* An encoding gives away the name of its type, its definitions and those of its
\* custom types.
LEMMA EncodingSeparates ==
  ASSUME NEW m \in Maps, NEW n \in Maps, NEW t \in DOMAIN Types[m], NEW u \in DOMAIN Types[n],
         NEW e \in EncodeType(Types[m], t), e \in EncodeType(Types[n], u)
  PROVE  t = u /\ ShapeOf(m, t) = ShapeOf(n, u)
<1> DEFINE Custom(types, o) == [i \in DOMAIN o |-> <<o[i], types[o[i]]>>]
           Of(types, C) == {<<c, types[c]>> : c \in C}
<1>1. ASSUME NEW types, NEW C, IsFiniteSet(C), NEW o \in SetToSeqs(C)
      PROVE  {Custom(types, o)[i] : i \in DOMAIN Custom(types, o)} = Of(types, C)
  <2>1. {o[i] : i \in DOMAIN o} = C
    BY <1>1, OrderIsOnto
  <2> QED BY <2>1
<1>2. PICK o \in SetToSeqs(CustomTypes(Types[m], t)) :
        e = [type |-> <<t, Types[m][t]>>, custom |-> Custom(Types[m], o)]
  BY DEF EncodeType
<1>3. PICK p \in SetToSeqs(CustomTypes(Types[n], u)) :
        e = [type |-> <<u, Types[n][u]>>, custom |-> Custom(Types[n], p)]
  BY DEF EncodeType
<1>4. <<t, Types[m][t]>> = <<u, Types[n][u]>> /\ Custom(Types[m], o) = Custom(Types[n], p)
  <2> HIDE DEF Custom
  <2> QED BY <1>2, <1>3
<1>5. Of(Types[m], CustomTypes(Types[m], t)) = Of(Types[n], CustomTypes(Types[n], u))
  <2>1. {Custom(Types[m], o)[i] : i \in DOMAIN Custom(Types[m], o)} =
          {Custom(Types[n], p)[i] : i \in DOMAIN Custom(Types[n], p)}
    <3> HIDE DEF Custom
    <3> QED BY <1>4
  <2> HIDE DEF Custom, Of
  <2>2. IsFiniteSet(CustomTypes(Types[m], t)) /\ IsFiniteSet(CustomTypes(Types[n], u))
    BY CustomTypesFinite
  <2> QED BY <1>1, <2>1, <2>2
<1> QED BY <1>4, <1>5 DEF ShapeOf

LEMMA PossibleSeparates ==
  ASSUME NEW m \in Maps, NEW n \in Maps, NEW t, NEW u, t # "felt", u # "felt",
         NEW e \in PossibleOf(m, t), e \in PossibleOf(n, u)
  PROVE  t = u /\ ShapeOf(m, t) = ShapeOf(n, u)
BY EncodingSeparates DEF PossibleOf

\* The fields of a value are numbers, and those of a felt are one.
IsValue(v) == \A f \in DOMAIN v : v[f] \in Seq(Int)

FeltIsOne(def, v) == def.type = "felt" => Len(FmtDefinitionEncoding(v, def.name)) = 1

LEMMA NumbersAreSeq ==
  ASSUME NEW v, IsValue(v), NEW f
  PROVE  FmtDefinitionEncoding(v, f) \in Seq(Int)
BY DEF IsValue, FmtDefinitionEncoding

\* GetMessageHash looks at a type and then at those of its fields.
LooksAt(list, k, defs) ==
  /\ Len(defs) \in Nat /\ DOMAIN defs = 1 .. Len(defs)
  /\ Len(list) = 1 + Len(defs)
  /\ list[1] = k
  /\ \A i \in 1 .. Len(defs) : list[1 + i] = defs[i].type

LEMMA DefinitionReads ==
  ASSUME NEW m \in Maps, NEW k
  PROVE  LooksAt(Reads(Types[m], k), k, Definitions(Types[m], k))
<1> DEFINE defs == Definitions(Types[m], k)
           n == Len(defs)
           types == [i \in DOMAIN defs |-> defs[i].type]
           S == {defs[i].type : i \in 1 .. n}
<1>1. n \in Nat /\ DOMAIN defs = 1 .. n
  BY DefinitionsAreSeq, LenProperties
<1>2. types \in [1 .. n -> S] /\ DOMAIN types = 1 .. n /\ \A i \in 1 .. n : types[i] = defs[i].type
  BY <1>1
<1>3. Reads(Types[m], k) = <<k>> \o types
  BY DEF Reads
<1> HIDE DEF types, S, defs
<1>4. types \in Seq(S) /\ Len(types) = n
  BY <1>1, <1>2
<1> QED BY <1>1, <1>2, <1>3, <1>4, ConsFacts DEF defs, LooksAt

LEMMA ReadsFacts ==
  ASSUME NEW m \in Maps, NEW k \in DOMAIN Types[m]
  PROVE  /\ Len(Types[m][k]) \in Nat /\ DOMAIN Types[m][k] = 1 .. Len(Types[m][k])
         /\ Len(Reads(Types[m], k)) = 1 + Len(Types[m][k])
         /\ Reads(Types[m], k)[1] = k
         /\ \A i \in 1 .. Len(Types[m][k]) : Reads(Types[m], k)[1 + i] = Types[m][k][i].type
<1>1. Definitions(Types[m], k) = Types[m][k]
  BY DEF Definitions
<1>2. LooksAt(Reads(Types[m], k), k, Types[m][k])
  BY <1>1, DefinitionReads
<1> QED BY <1>2 DEF LooksAt

LEMMA OneElement ==
  ASSUME NEW T, NEW x \in Seq(T), Len(x) = 1, NEW S, x[1] \in S
  PROVE  x \in Seq(S)
<1>1. x = <<x[1]>>
  OBVIOUS
<1>2. <<x[1]>> \in Seq(S)
  OBVIOUS
<1> QED BY <1>1, <1>2, Zenon

\* The list that is hashed of a typed value: its encoding and an element for each
\* field.
IsHashList(list, defs, encs, v) ==
  /\ GetTypedMessageHash(defs, encs, v) = Pedersen(list)
  /\ Len(list) = 1 + Len(defs)
  /\ list[1] = encs[1]
  /\ \A i \in 1 .. Len(defs) :
       list[1 + i] =
         FieldElements(defs[i], encs[1 + i], FmtDefinitionEncoding(v, defs[i].name))[1]

LEMMA TypedHashList ==
  ASSUME NEW m \in Maps, NEW k \in DOMAIN Types[m], NEW v, IsValue(v), NEW encs,
         \A i \in DOMAIN Types[m][k] : FeltIsOne(Types[m][k][i], v)
  PROVE  \E list : IsHashList(list, Types[m][k], encs, v)
<1> DEFINE defs == Types[m][k]
           n == Len(defs)
           E(i) == FieldElements(defs[i], encs[1 + i], FmtDefinitionEncoding(v, defs[i].name))
           S == {E(i)[1] : i \in 1 .. n}
           seqs == [i \in DOMAIN defs |-> E(i)]
<1>1. n \in Nat /\ DOMAIN defs = 1 .. n
  BY ReadsFacts
<1>2. ASSUME NEW i \in 1 .. n PROVE E(i) \in Seq(S) /\ Len(E(i)) = 1
  <2> DEFINE numbers == FmtDefinitionEncoding(v, defs[i].name)
             x == Pedersen(<<encs[1 + i]>> \o numbers \o <<1 + Len(numbers)>>)
  <2>0. numbers \in Seq(Int)
    BY NumbersAreSeq
  <2>1. CASE defs[i].type = "felt"
    <3>1. E(i) = numbers /\ Len(numbers) = 1
      BY <1>1, <2>1 DEF FieldElements, FeltIsOne
    <3>2. E(i)[1] \in S
      OBVIOUS
    <3> HIDE DEF S, E, numbers
    <3> QED BY <2>0, <3>1, <3>2, OneElement
  <2>2. CASE defs[i].type # "felt"
    <3>1. E(i) = <<x>>
      BY <2>2 DEF FieldElements
    <3>2. E(i)[1] \in S
      OBVIOUS
    <3> HIDE DEF S, E, x
    <3> QED BY <3>1, <3>2
  <2> QED BY <2>1, <2>2
<1>3. seqs \in Lists(S) /\ Len(seqs) = n /\ \A i \in 1 .. n : seqs[i] = E(i)
  <2> HIDE DEF E, S
  <2>1. seqs \in [1 .. n -> Seq(S)]
    BY <1>1, <1>2
  <2> HIDE DEF n
  <2> QED BY <1>1, <2>1 DEF Lists
<1>4. GetTypedMessageHash(defs, encs, v) = Pedersen(<<encs[1]>> \o FlattenSeq(seqs))
  BY DEF GetTypedMessageHash
<1> HIDE DEF seqs, S, E, defs
<1>5. /\ FlattenSeq(seqs) \in Seq(S) /\ Len(FlattenSeq(seqs)) = n
      /\ \A i \in 1 .. n : FlattenSeq(seqs)[i] = E(i)[1]
  BY <1>2, <1>3, FlattenSingletons
<1> DEFINE list == <<encs[1]>> \o FlattenSeq(seqs)
<1>6. /\ Len(list) = 1 + n /\ list[1] = encs[1]
      /\ \A i \in 1 .. n : list[1 + i] = E(i)[1]
  BY <1>5, ConsFacts
<1> HIDE DEF list
<1>7. GetTypedMessageHash(defs, encs, v) = Pedersen(list)
  BY <1>4 DEF list
<1>8. IsHashList(list, defs, encs, v)
  BY <1>6, <1>7 DEF IsHashList, E
<1> QED BY <1>8 DEF defs

\* A typed value that can be hashed, with the encodings read for it.
CanHash(m, k, v, a) ==
  /\ k \in DOMAIN Types[m] /\ IsValue(v)
  /\ \A i \in 1 .. Len(Reads(Types[m], k)) : a[i] \in PossibleOf(m, Reads(Types[m], k)[i])
  /\ \A i \in DOMAIN Types[m][k] : FeltIsOne(Types[m][k][i], v)

\* Two typed values with one hash show the same.
LEMMA TypedHashSeparates ==
  ASSUME NEW m \in Maps, NEW k \in DOMAIN Types[m], NEW v, IsValue(v), NEW a,
         \A i \in 1 .. Len(Reads(Types[m], k)) : a[i] \in PossibleOf(m, Reads(Types[m], k)[i]),
         \A i \in DOMAIN Types[m][k] : FeltIsOne(Types[m][k][i], v),
         NEW n \in Maps, NEW l \in DOMAIN Types[n], NEW w, IsValue(w), NEW b,
         \A i \in 1 .. Len(Reads(Types[n], l)) : b[i] \in PossibleOf(n, Reads(Types[n], l)[i]),
         \A i \in DOMAIN Types[n][l] : FeltIsOne(Types[n][l][i], w),
         GetTypedMessageHash(Types[m][k], a, v) = GetTypedMessageHash(Types[n][l], b, w)
  PROVE  Shown(Types[m], k, v) = Shown(Types[n], l, w)
<1> DEFINE defs == Types[m][k]
           F(i) == FmtDefinitionEncoding(v, defs[i].name)
           G(i) == FmtDefinitionEncoding(w, defs[i].name)
           shape(r, t) == IF t = "felt" THEN <<>> ELSE ShapeOf(r, t)
<1>1. PICK x : IsHashList(x, defs, a, v)
  BY TypedHashList
<1>2. PICK y : IsHashList(y, Types[n][l], b, w)
  BY TypedHashList
<1>3. x = y
  <2>1. Pedersen(x) = Pedersen(y)
    BY <1>1, <1>2 DEF IsHashList
  <2> QED BY <2>1 DEF Pedersen
<1>4. /\ Len(defs) \in Nat /\ DOMAIN defs = 1 .. Len(defs)
      /\ Len(Reads(Types[m], k)) = 1 + Len(defs)
      /\ Reads(Types[m], k)[1] = k
      /\ \A i \in 1 .. Len(defs) : Reads(Types[m], k)[1 + i] = defs[i].type
  BY ReadsFacts
<1>5. k = l /\ defs = Types[n][l]
  <2>1. a[1] \in PossibleOf(m, k) /\ k # "felt"
    BY <1>4, TypedAssumption
  <2>2. b[1] \in PossibleOf(n, l) /\ l # "felt"
    <3>1. 1 \in 1 .. Len(Reads(Types[n], l)) /\ Reads(Types[n], l)[1] = l
      BY ReadsFacts
    <3> QED BY <3>1, TypedAssumption
  <2>3. a[1] = b[1]
    BY <1>1, <1>2, <1>3 DEF IsHashList
  <2>4. k = l /\ ShapeOf(m, k) = ShapeOf(n, l)
    BY <2>1, <2>2, <2>3, PossibleSeparates
  <2> QED BY <2>4 DEF defs, ShapeOf
<1>6. /\ Len(Reads(Types[n], l)) = 1 + Len(defs)
      /\ \A i \in 1 .. Len(defs) : Reads(Types[n], l)[1 + i] = defs[i].type
  BY <1>5, ReadsFacts
<1>7. ASSUME NEW i \in 1 .. Len(defs)
      PROVE  shape(m, defs[i].type) = shape(n, defs[i].type) /\ F(i) = G(i)
  <2>1. F(i) \in Seq(Int) /\ G(i) \in Seq(Int)
    BY NumbersAreSeq
  <2>2. a[1 + i] \in PossibleOf(m, defs[i].type) /\ b[1 + i] \in PossibleOf(n, defs[i].type)
    <3>1. 1 + i \in 1 .. 1 + Len(defs)
      BY <1>4
    <3> QED BY <1>4, <1>6, <3>1
  <2>3. FieldElements(defs[i], a[1 + i], F(i))[1] = FieldElements(defs[i], b[1 + i], G(i))[1]
    BY <1>1, <1>2, <1>3, <1>5 DEF IsHashList
  <2>4. CASE defs[i].type = "felt"
    <3>1. F(i)[1] = G(i)[1]
      BY <2>3, <2>4 DEF FieldElements
    <3>2. Len(F(i)) = 1 /\ Len(G(i)) = 1
      BY <1>4, <1>5, <2>4 DEF FeltIsOne
    <3>3. F(i) = G(i)
      <4> HIDE DEF F, G
      <4> QED BY <2>1, <3>1, <3>2, SeqEqual
    <3> QED BY <2>4, <3>3
  <2>5. CASE defs[i].type # "felt"
    <3> DEFINE P(e, z) == Pedersen(FieldList(e, z))
    <3>1. P(a[1 + i], F(i)) = P(b[1 + i], G(i))
      <4>1. FieldElements(defs[i], a[1 + i], F(i)) = <<P(a[1 + i], F(i))>>
        BY <2>5 DEF FieldElements, FieldList
      <4>2. FieldElements(defs[i], b[1 + i], G(i)) = <<P(b[1 + i], G(i))>>
        BY <2>5 DEF FieldElements, FieldList
      <4> HIDE DEF P
      <4> QED BY <2>3, <4>1, <4>2
    <3>2. FieldList(a[1 + i], F(i)) = FieldList(b[1 + i], G(i))
      <4> HIDE DEF F, G
      <4> QED BY <3>1 DEF Pedersen
    <3>3. a[1 + i] = b[1 + i] /\ F(i) = G(i)
      <4> HIDE DEF F, G
      <4> QED BY <2>1, <3>2, FieldSeparates
    <3>4. ShapeOf(m, defs[i].type) = ShapeOf(n, defs[i].type)
      BY <2>2, <2>5, <3>3, PossibleSeparates
    <3> QED BY <3>3, <3>4
  <2> QED BY <2>4, <2>5
<1>8. Shown(Types[m], k, v) =
        <<k, defs, [i \in DOMAIN defs |-> <<shape(m, defs[i].type), F(i)>>]>>
  BY DEF Shown, ShapeOf
<1>9. Shown(Types[n], l, w) =
        <<k, defs, [i \in DOMAIN defs |-> <<shape(n, defs[i].type), G(i)>>]>>
  BY <1>5 DEF Shown, ShapeOf
<1>10. [i \in DOMAIN defs |-> <<shape(m, defs[i].type), F(i)>>] =
         [i \in DOMAIN defs |-> <<shape(n, defs[i].type), G(i)>>]
  <2> HIDE DEF shape, F, G, defs
  <2> QED BY <1>4, <1>7
<1> QED BY <1>8, <1>9, <1>10

LEMMA CanHashSeparates ==
  ASSUME NEW m \in Maps, NEW k, NEW v, NEW a, CanHash(m, k, v, a),
         NEW n \in Maps, NEW l, NEW w, NEW b, CanHash(n, l, w, b),
         GetTypedMessageHash(Types[m][k], a, v) = GetTypedMessageHash(Types[n][l], b, w)
  PROVE  Shown(Types[m], k, v) = Shown(Types[n], l, w)
BY TypedHashSeparates DEF CanHash

\* Of what GetMessageHash has read, the first part is for the domain and the rest for
\* the message; a hash is made only of types that have a domain.
DomainPart(d, e) == SubSeq(e, 1, Len(Reads(Types[d.map], Domain)))

MessagePart(d, e) == SubSeq(e, Len(Reads(Types[d.map], Domain)) + 1, Len(e))

ReadFor(m, k, a) ==
  \A i \in 1 .. Len(Reads(Types[m], k)) : a[i] \in PossibleOf(m, Reads(Types[m], k)[i])

LEMMA ReadParts ==
  ASSUME NEW d \in Data, NEW e \in Seq(Encodings), Len(e) = Len(AllReads(d)),
         \A n \in 1 .. Len(e) : e[n] \in Possible(d, n)
  PROVE  /\ Domain \in DOMAIN Types[d.map]
         /\ ReadFor(d.map, Domain, DomainPart(d, e))
         /\ ReadFor(d.map, d.primary, MessagePart(d, e))
<1> DEFINE R == Reads(Types[d.map], Domain)
           Q == Reads(Types[d.map], d.primary)
           r == Len(R)
           q == Len(Q)
<1>1. d.map \in Maps
  BY TypedAssumption
<1>2. PICK S : R \in Seq(S) /\ Q \in Seq(S)
  <2> DEFINE S == {Domain, d.primary} \cup STRING
  <2>1. ASSUME NEW k \in {Domain, d.primary} PROVE Reads(Types[d.map], k) \in Seq(S)
    <3>1. Definitions(Types[d.map], k) \in Seq([name : STRING, type : STRING])
      BY <1>1, DefinitionsAreSeq
    <3>2. \A i \in DOMAIN Definitions(Types[d.map], k) :
            Definitions(Types[d.map], k)[i] \in [name : STRING, type : STRING]
      BY <3>1, LenProperties, ElementOfSeq
    <3>3. \A i \in DOMAIN Definitions(Types[d.map], k) :
            Definitions(Types[d.map], k)[i].type \in S
      BY <3>2
    <3> QED BY <1>1, <3>3, ReadsAreSeq
  <2> QED BY <2>1
<1>3. r \in Nat /\ q \in Nat /\ r >= 1 /\ R[1] = Domain
  <2>1. /\ LooksAt(R, Domain, Definitions(Types[d.map], Domain))
        /\ LooksAt(Q, d.primary, Definitions(Types[d.map], d.primary))
    BY <1>1, DefinitionReads
  <2> HIDE DEF R, Q
  <2> QED BY <2>1 DEF LooksAt
<1> HIDE DEF R, Q
<1>4. /\ Len(e) = r + q
      /\ \A i \in 1 .. r + q : AllReads(d)[i] = IF i <= r THEN R[i] ELSE Q[i - r]
  BY <1>2, ConcatProperties DEF AllReads, R, Q
<1>5. ASSUME NEW i \in 1 .. r PROVE e[i] \in PossibleOf(d.map, R[i])
  <2>1. i \in 1 .. r + q /\ i <= r
    BY <1>3
  <2> QED BY <1>4, <2>1 DEF Possible
<1>6. ASSUME NEW i \in 1 .. q PROVE e[r + i] \in PossibleOf(d.map, Q[i])
  <2>1. r + i \in 1 .. r + q /\ ~(r + i <= r) /\ (r + i) - r = i
    BY <1>3
  <2>2. AllReads(d)[r + i] = Q[i]
    BY <1>4, <2>1
  <2> QED BY <1>4, <2>1, <2>2 DEF Possible
<1>7. Domain \in DOMAIN Types[d.map]
  <2>1. e[1] \in PossibleOf(d.map, Domain)
    BY <1>3, <1>5
  <2> QED BY <2>1 DEF PossibleOf, Domain
<1>8. \A i \in 1 .. r + q : e[i] \in Encodings
  BY <1>4, ElementOfSeq
<1>9. ASSUME NEW i \in 1 .. r PROVE SubSeq(e, 1, r)[i] = e[i]
  <2>1. \A j \in 1 .. r : e[j] \in Encodings
    BY <1>3, <1>8
  <2>2. \A j \in 1 .. r - 1 + 1 : SubSeq(e, 1, r)[j] = e[1 + j - 1]
    BY <1>3, <2>1, SubSeqProperties
  <2>3. i \in 1 .. r - 1 + 1 /\ 1 + i - 1 = i
    BY <1>3
  <2> QED BY <2>2, <2>3
<1>10. ASSUME NEW i \in 1 .. q PROVE SubSeq(e, r + 1, r + q)[i] = e[r + i]
  <2>1. \A j \in r + 1 .. r + q : e[j] \in Encodings
    BY <1>3, <1>8
  <2>2. \A j \in 1 .. (r + q) - (r + 1) + 1 :
          SubSeq(e, r + 1, r + q)[j] = e[(r + 1) + j - 1]
    BY <1>3, <2>1, SubSeqProperties
  <2>3. i \in 1 .. (r + q) - (r + 1) + 1 /\ (r + 1) + i - 1 = r + i
    BY <1>3
  <2> QED BY <2>2, <2>3
<1>11. ReadFor(d.map, Domain, DomainPart(d, e))
  BY <1>5, <1>9 DEF R, ReadFor, DomainPart
<1>12. ReadFor(d.map, d.primary, MessagePart(d, e))
  BY <1>4, <1>6, <1>10 DEF R, Q, ReadFor, MessagePart
<1> QED BY <1>7, <1>11, <1>12

\* A TypedData whose encodings have been read: its hash, if there is one, is the hash
\* of its two typed values and of the account.
HashOf(d, e) ==
  <<"StarkNet Message",
    GetTypedMessageHash(Types[d.map][Domain], DomainPart(d, e), d.domain), d.account,
    GetTypedMessageHash(Types[d.map][d.primary], MessagePart(d, e), d.message)>>

WasHashed(d, e) ==
  /\ d.map \in Maps
  /\ CanHash(d.map, Domain, d.domain, DomainPart(d, e))
  /\ CanHash(d.map, d.primary, d.message, MessagePart(d, e))

LEMMA HashedFacts ==
  ASSUME NEW d \in Data, d.primary \in DOMAIN Types[d.map], FeltsAreOne(d),
         NEW e \in Seq(Encodings), Len(e) = Len(AllReads(d)),
         \A n \in 1 .. Len(e) : e[n] \in Possible(d, n)
  PROVE  /\ WasHashed(d, e)
         /\ GetMessageHash(d, e).kind = "hash" =>
              GetMessageHash(d, e).hash = Pedersen(HashOf(d, e))
<1>1. d.map \in Maps /\ IsValue(d.domain) /\ IsValue(d.message)
  BY TypedAssumption DEF IsValue
<1>2. /\ Domain \in DOMAIN Types[d.map]
      /\ ReadFor(d.map, Domain, DomainPart(d, e))
      /\ ReadFor(d.map, d.primary, MessagePart(d, e))
  BY ReadParts
<1>3. /\ \A n \in DOMAIN Types[d.map][Domain] : FeltIsOne(Types[d.map][Domain][n], d.domain)
      /\ \A n \in DOMAIN Types[d.map][d.primary] :
           FeltIsOne(Types[d.map][d.primary][n], d.message)
  BY DEF FeltsAreOne, FeltIsOne
<1>4. CanHash(d.map, Domain, d.domain, DomainPart(d, e))
  BY <1>1, <1>2, <1>3 DEF CanHash, ReadFor
<1>5. CanHash(d.map, d.primary, d.message, MessagePart(d, e))
  BY <1>1, <1>2, <1>3 DEF CanHash, ReadFor
<1>6. GetMessageHash(d, e).kind = "hash" => GetMessageHash(d, e).hash = Pedersen(HashOf(d, e))
  <2>1. /\ Definitions(Types[d.map], Domain) = Types[d.map][Domain]
        /\ Definitions(Types[d.map], d.primary) = Types[d.map][d.primary]
    BY <1>2 DEF Definitions
  <2> QED BY <2>1 DEF GetMessageHash, HashOf, DomainPart, MessagePart
<1> QED BY <1>1, <1>4, <1>5, <1>6 DEF WasHashed

\* For any types and any two messages, however the calls of NewTypedData and of
\* GetMessageHash interleave: one hash means one account, one domain and one message,
\* of the same types as deep as the encodings go.
THEOREM HashesSeparate == Spec => []HashSeparatesData
<1>1. ASSUME HashInv, NEW h \in hashes, NEW i \in hashes, h.res = i.res,
             h.res.kind = "hash", FeltsAreOne(h.data), FeltsAreOne(i.data)
      PROVE  ShownOf(h.data) = ShownOf(i.data)
  <2> DEFINE d == h.data
             c == i.data
  <2>1. PICK e \in Seq(Encodings) : /\ Len(e) = Len(AllReads(d))
                                    /\ \A n \in 1 .. Len(e) : e[n] \in Possible(d, n)
                                    /\ h.res = GetMessageHash(d, e)
    BY <1>1 DEF HashInv
  <2>2. PICK f \in Seq(Encodings) : /\ Len(f) = Len(AllReads(c))
                                    /\ \A n \in 1 .. Len(f) : f[n] \in Possible(c, n)
                                    /\ i.res = GetMessageHash(c, f)
    BY <1>1 DEF HashInv
  <2>3. /\ d \in Data /\ d.primary \in DOMAIN Types[d.map] /\ FeltsAreOne(d)
        /\ c \in Data /\ c.primary \in DOMAIN Types[c.map] /\ FeltsAreOne(c)
    BY <1>1 DEF HashInv
  <2> HIDE DEF d, c
  <2>4. WasHashed(d, e) /\ h.res.hash = Pedersen(HashOf(d, e))
    BY <1>1, <2>1, <2>3, HashedFacts
  <2>5. WasHashed(c, f) /\ i.res.hash = Pedersen(HashOf(c, f))
    BY <1>1, <2>2, <2>3, HashedFacts
  <2>6. HashOf(d, e) = HashOf(c, f)
    BY <1>1, <2>4, <2>5 DEF Pedersen
  <2>7. d.account = c.account
    BY <2>6 DEF HashOf
  <2>8. Shown(Types[d.map], Domain, d.domain) = Shown(Types[c.map], Domain, c.domain)
    <3>1. GetTypedMessageHash(Types[d.map][Domain], DomainPart(d, e), d.domain)
            = GetTypedMessageHash(Types[c.map][Domain], DomainPart(c, f), c.domain)
      BY <2>6 DEF HashOf
    <3> QED BY <2>4, <2>5, <3>1, CanHashSeparates DEF WasHashed
  <2>9. Shown(Types[d.map], d.primary, d.message) = Shown(Types[c.map], c.primary, c.message)
    <3>1. GetTypedMessageHash(Types[d.map][d.primary], MessagePart(d, e), d.message)
            = GetTypedMessageHash(Types[c.map][c.primary], MessagePart(c, f), c.message)
      BY <2>6 DEF HashOf
    <3> QED BY <2>4, <2>5, <3>1, CanHashSeparates DEF WasHashed
  <2> QED BY <2>7, <2>8, <2>9 DEF ShownOf, d, c
<1>2. TypedInv => HashSeparatesData
  BY <1>1 DEF TypedInv, HashSeparatesData
<1> QED BY TypedInvariant, <1>2, PTL
=============================================================================
