------------------------------ MODULE TypedData ------------------------------
(***************************************************************************)
(* The type encodings of package typed.  NewTypedData takes a map of types *)
(* from its caller and stores the encoding of every type into that map;    *)
(* GetMessageHash reads the encodings from it again, one after the other.  *)
(* A map may serve several TypedData, of one goroutine or of many.         *)
(*                                                                         *)
(* A type is the sequence of its definitions.  An encoding is a record of  *)
(* what EncodeType writes and stands for its Keccak hash as well; Pedersen *)
(* is a free function, as in TxHash.  The strings of a domain are here the *)
(* numbers that they parse to; SharedZero has how they get there.          *)
(***************************************************************************)
EXTENDS Integers, SequencesExt

CONSTANTS
  Callers, \* goroutines, each with a TypedData and a message to hash
  Maps,    \* the maps of types
  Types,   \* Types[m]: by name, the definitions [name, type] of the types in m
  Data,    \* what callers hash: [map, primary, domain, account, message]; a
           \* domain or a message gives the numbers of its fields, by name
  Refused, \* the numbers that PedersenHash refuses
  Nil      \* an encoding that is not set

Domain == "StarkNetDomain"
-----------------------------------------------------------------------------
(* EncodeType.                                                             *)

\* customTypes: the types that the definitions of a type name, other than felt.
CustomTypes(types, k) == {types[k][i].type : i \in DOMAIN types[k]} \ {"felt"}

\* The type, then its custom types in the order that ranging over a map takes.  There
\* is no encoding, and an error, when the type names one that is not in the map.
EncodeType(types, k) ==
  {[type |-> <<k, types[k]>>, custom |-> [i \in DOMAIN order |-> <<order[i], types[order[i]]>>]]
     : order \in IF CustomTypes(types, k) \subseteq DOMAIN types
                 THEN SetToSeqs(CustomTypes(types, k)) ELSE {}}

ASSUME TypedAssumption ==
  /\ \A m \in Maps : \A k \in DOMAIN Types[m] :
       /\ k # "felt"
       /\ Types[m][k] \in Seq([name : STRING, type : STRING])
       /\ Nil \notin EncodeType(Types[m], k)
  /\ \A d \in Data :
       /\ d.map \in Maps
       /\ \A value \in {d.domain, d.message} : \A f \in DOMAIN value : value[f] \in Seq(Int)
-----------------------------------------------------------------------------
(* GetTypedMessageHash.                                                    *)

Pedersen(list) == [by |-> "pedersen", of |-> list]

\* td.Types[inType]: of a type that is not there, the zero TypeDef.
Definitions(types, k) == IF k \in DOMAIN types THEN types[k] ELSE <<>>

\* The numbers of a field; FmtDefinitionEncoding has no case for other names.
FmtDefinitionEncoding(value, name) == IF name \in DOMAIN value THEN value[name] ELSE <<>>

\* Mutant of FieldElements: the type of the field is left out.
UntypedField(def, enc, numbers) ==
  IF def.type = "felt" THEN numbers ELSE <<Pedersen(Append(numbers, Len(numbers)))>>

\* The numbers of a felt as they are; those of another type hashed, with their type
\* before them and their length after them.
FieldElements(def, enc, numbers) ==
  IF def.type = "felt" THEN numbers
  ELSE <<Pedersen(<<enc>> \o numbers \o <<1 + Len(numbers)>>)>>

\* encs are the encodings of the type and of the types of its fields, in order.
GetTypedMessageHash(defs, encs, value) ==
  Pedersen(<<encs[1]>> \o FlattenSeq([i \in DOMAIN defs |->
    FieldElements(defs[i], encs[1 + i], FmtDefinitionEncoding(value, defs[i].name))]))

\* The types at which GetTypedMessageHash looks, in order.
Reads(types, k) ==
  <<k>> \o [i \in DOMAIN Definitions(types, k) |-> Definitions(types, k)[i].type]

\* GetMessageHash hashes the domain and then the message.
AllReads(d) == Reads(Types[d.map], Domain) \o Reads(Types[d.map], d.primary)

\* The numbers of the declared fields.
Numbers(defs, value) ==
  UNION {Range(FmtDefinitionEncoding(value, defs[i].name)) : i \in DOMAIN defs}

\* A number that PedersenHash refuses ends GetMessageHash with an error.
GetMessageHash(d, encs) ==
  LET domDefs == Definitions(Types[d.map], Domain)
      msgDefs == Definitions(Types[d.map], d.primary)
      split   == Len(Reads(Types[d.map], Domain))
  IN  IF Refused \cap ({d.account} \cup Numbers(domDefs, d.domain)
                                   \cup Numbers(msgDefs, d.message)) # {}
      THEN [kind |-> "error", hash |-> Nil]
      ELSE [kind |-> "hash", hash |-> Pedersen(<<"StarkNet Message",
              GetTypedMessageHash(domDefs, SubSeq(encs, 1, split), d.domain),
              d.account,
              GetTypedMessageHash(msgDefs, SubSeq(encs, split + 1, Len(encs)), d.message)>>)]
-----------------------------------------------------------------------------
VARIABLES
  encoding, \* encoding[m][k]: the Encoding of type k in map m
  data,     \* data[g]: what g hashes
  pc,       \* pc[g]: where g is
  todo,     \* todo[g]: the types that the range of NewTypedData has not reached
  got,      \* got[g]: the encodings that GetMessageHash has read
  hashes    \* history: the hashes made, with what they are the hashes of

vars == <<encoding, data, pc, todo, got, hashes>>

TypesOf(g) == Types[data[g].map]

Init ==
  /\ encoding = [m \in Maps |-> [k \in DOMAIN Types[m] |-> Nil]]
  /\ data \in [Callers -> Data]
  /\ pc = [g \in Callers |-> "idle"]
  /\ todo = [g \in Callers |-> {}]
  /\ got = [g \in Callers |-> <<>>]
  /\ hashes = {}

\* Mutant of NewTypedData: it clears the encodings before it makes them.
ClearingNewTypedData(g) ==
  /\ pc[g] \in {"idle", "built"}
  /\ data[g].primary \in DOMAIN TypesOf(g)
  /\ encoding' = [encoding EXCEPT ![data[g].map] = [k \in DOMAIN TypesOf(g) |-> Nil]]
  /\ pc' = [pc EXCEPT ![g] = "building"]
  /\ todo' = [todo EXCEPT ![g] = DOMAIN TypesOf(g)]
  /\ UNCHANGED <<data, got, hashes>>

\* NewTypedData is called; a caller may call it again with the same map.  An unknown
\* primary type is an error before anything is stored.
NewTypedData(g) ==
  /\ pc[g] \in {"idle", "built"}
  /\ data[g].primary \in DOMAIN TypesOf(g)
  /\ pc' = [pc EXCEPT ![g] = "building"]
  /\ todo' = [todo EXCEPT ![g] = DOMAIN TypesOf(g)]
  /\ UNCHANGED <<encoding, data, got, hashes>>

\* Mutant of EncodeOne: the custom types of the type are left out.
EncodeBare(g) ==
  /\ pc[g] = "building"
  /\ \E k \in todo[g] :
       /\ encoding' = [encoding EXCEPT ![data[g].map][k] =
                         [type |-> <<k, TypesOf(g)[k]>>, custom |-> <<>>]]
       /\ todo' = [todo EXCEPT ![g] = @ \ {k}]
       /\ pc' = [pc EXCEPT ![g] = IF todo[g] = {k} THEN "built" ELSE "building"]
  /\ UNCHANGED <<data, got, hashes>>

\* Mutant of EncodeOne: custom types that have an encoding already are left out.
EncodeNew(g) ==
  /\ pc[g] = "building"
  /\ \E k \in todo[g] :
       /\ \E enc \in EncodeType(TypesOf(g), k) :
            encoding' = [encoding EXCEPT ![data[g].map][k] = [enc EXCEPT !.custom =
              SelectSeq(@, LAMBDA pair : encoding[data[g].map][pair[1]] = Nil)]]
       /\ todo' = [todo EXCEPT ![g] = @ \ {k}]
       /\ pc' = [pc EXCEPT ![g] = IF todo[g] = {k} THEN "built" ELSE "building"]
  /\ UNCHANGED <<data, got, hashes>>

\* One round of the loop over td.Types.
EncodeOne(g) ==
  /\ pc[g] = "building"
  /\ \E k \in todo[g] :
       /\ \E enc \in EncodeType(TypesOf(g), k) :
            encoding' = [encoding EXCEPT ![data[g].map][k] = enc]
       /\ todo' = [todo EXCEPT ![g] = @ \ {k}]
       /\ pc' = [pc EXCEPT ![g] = IF todo[g] = {k} THEN "built" ELSE "building"]
  /\ UNCHANGED <<data, got, hashes>>

\* GetTypeHash fails: NewTypedData returns the error, with some encodings stored.
EncodeFails(g) ==
  /\ pc[g] = "building"
  /\ \E k \in todo[g] : EncodeType(TypesOf(g), k) = {}
  /\ pc' = [pc EXCEPT ![g] = "idle"]
  /\ todo' = [todo EXCEPT ![g] = {}]
  /\ UNCHANGED <<encoding, data, got, hashes>>

\* GetMessageHash is called, of a TypedData that NewTypedData has returned.
StartHash(g) ==
  /\ pc[g] = "built"
  /\ pc' = [pc EXCEPT ![g] = "hashing"]
  /\ UNCHANGED <<encoding, data, todo, got, hashes>>

NextRead(g) == AllReads(data[g])[Len(got[g]) + 1]

IsSet(m, k) == k \in DOMAIN Types[m] /\ encoding[m][k] # Nil

\* A felt has no encoding.  One that is not set is a nil big.Int, which PedersenHash
\* dereferences.
ReadEncoding(g) ==
  /\ pc[g] = "hashing"
  /\ Len(got[g]) < Len(AllReads(data[g]))
  /\ \/ /\ NextRead(g) = "felt"
        /\ got' = [got EXCEPT ![g] = Append(@, Nil)]
        /\ UNCHANGED pc
     \/ /\ IsSet(data[g].map, NextRead(g))
        /\ got' = [got EXCEPT ![g] = Append(@, encoding[data[g].map][NextRead(g)])]
        /\ UNCHANGED pc
     \/ /\ NextRead(g) # "felt" /\ ~IsSet(data[g].map, NextRead(g))
        /\ pc' = [pc EXCEPT ![g] = "panicked"]
        /\ UNCHANGED got
  /\ UNCHANGED <<encoding, data, todo, hashes>>

\* What is left of GetMessageHash is a function of what it has read.
EndHash(g) ==
  /\ pc[g] = "hashing"
  /\ Len(got[g]) = Len(AllReads(data[g]))
  /\ hashes' = hashes \cup {[data |-> data[g], res |-> GetMessageHash(data[g], got[g])]}
  /\ pc' = [pc EXCEPT ![g] = "built"]
  /\ got' = [got EXCEPT ![g] = <<>>]
  /\ UNCHANGED <<encoding, data, todo>>

Next ==
  \E g \in Callers :
    \/ NewTypedData(g) \/ EncodeOne(g) \/ EncodeFails(g)
    \/ StartHash(g) \/ ReadEncoding(g) \/ EndHash(g)

Spec == Init /\ [][Next]_vars
-----------------------------------------------------------------------------
(* Properties.                                                             *)

TypeOK ==
  /\ \A m \in Maps : \A k \in DOMAIN Types[m] :
       encoding[m][k] \in EncodeType(Types[m], k) \cup {Nil}
  /\ data \in [Callers -> Data]
  /\ pc \in [Callers -> {"idle", "building", "built", "hashing", "panicked"}]
  /\ \A g \in Callers : todo[g] \subseteq DOMAIN TypesOf(g)
  /\ \A g \in Callers : Len(got[g]) <= Len(AllReads(data[g]))

\* A TypedData that NewTypedData has returned can be hashed at any time, while others
\* build theirs on the same map, unless its types have no domain.
BuiltDataHashes ==
  \A g \in Callers : pc[g] = "panicked" => Domain \notin DOMAIN TypesOf(g)

\* Two orders are possible for the custom types of a type.
Ambiguous(types, k) == \E s, t \in CustomTypes(types, k) : s # t

\* The same data has one hash, however often NewTypedData has encoded the types of
\* the map again, unless the types of the domain or of the message, or of one of
\* their fields, have two custom types.
HashIsStable ==
  \A h, i \in hashes :
    h.data = i.data /\ h.res # i.res =>
      \E n \in DOMAIN AllReads(h.data) :
        AllReads(h.data)[n] # "felt" /\ Ambiguous(Types[h.data.map], AllReads(h.data)[n])

\* What a signer is shown of a value: the definitions of its type, of those of its
\* fields and of their custom types, and the numbers of its fields.
Shown(types, k, value) ==
  LET shape(t) == IF t = "felt" THEN <<>>
                  ELSE <<types[t], {<<c, types[c]>> : c \in CustomTypes(types, t)}>>
  IN  <<k, types[k], [i \in DOMAIN types[k] |->
         <<shape(types[k][i].type), FmtDefinitionEncoding(value, types[k][i].name)>>]>>

ShownOf(d) ==
  <<Shown(Types[d.map], Domain, d.domain), d.account,
    Shown(Types[d.map], d.primary, d.message)>>

\* A felt is one number, which the code leaves to the caller's message.
FeltsAreOne(d) ==
  \A p \in {<<Domain, d.domain>>, <<d.primary, d.message>>} :
    \A i \in DOMAIN Types[d.map][p[1]] :
      LET def == Types[d.map][p[1]][i]
      IN  def.type = "felt" => Len(FmtDefinitionEncoding(p[2], def.name)) = 1

\* Two messages with one hash are the same message for the same account and domain,
\* of the same types as deep as encodings go: two levels below the message.
HashSeparatesData ==
  \A h, i \in hashes :
    h.res = i.res /\ h.res.kind = "hash" /\ FeltsAreOne(h.data) /\ FeltsAreOne(i.data) =>
      ShownOf(h.data) = ShownOf(i.data)
=============================================================================
