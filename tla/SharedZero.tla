----------------------------- MODULE SharedZero -----------------------------
(***************************************************************************)
(* The exported variable felt.Zero, shared by the hash of typed data       *)
(* (package typed, which writes it) and the hashes of transactions         *)
(* (package account, which reads it).                                      *)
(*                                                                         *)
(* Every element of Typers is a goroutine that hashes the domain of a      *)
(* TypedData; any goroutine may hash a transaction meanwhile.  A felt is   *)
(* four words: SetBytes stores them in place, one at a time, and a reader  *)
(* that falls in between sees Torn.                                        *)
(***************************************************************************)
EXTENDS TxHash, FiniteSets

CONSTANTS
  Typers,       \* goroutines, one typed-data hash each
  Texts,        \* the strings a domain may hold
  NoFelt,       \* what a string that is neither a number nor short ASCII parses to
  Parsed,       \* Parsed[s]: the felt of string s, or NoFelt (external: math/big)
  Zero,         \* the felt 0
  Torn,         \* four words that belong to no felt that was stored
  Definitions,  \* Types["StarkNetDomain"].Definitions, a sequence of [name, type]
  Domains,      \* the domains, functions from names to Texts
  Txs,          \* the transactions that are hashed
  MaxHashes     \* bound: transactions hashed

Names == {"name", "version", "chainId"}
Felts == {Parsed[s] : s \in Texts} \ {NoFelt}

ASSUME ZeroAssumption ==
  /\ Definitions \in Seq([name : STRING, type : STRING])
  /\ Domains \subseteq [Names -> Texts]
  /\ NoFelt \notin {Zero, Torn}
  /\ Torn \notin Felts \cup {Zero}
  /\ MaxHashes \in Nat

VARIABLES
  zero,     \* the value of felt.Zero
  pc,       \* pc[g]: where the typed-data hash of g is
  domain,   \* domain[g]: its Domain
  index,    \* index[g]: the definition it is at
  elems,    \* elems[g]: the elements it has collected, by definition
  alone,    \* history: no other typed-data hash has overlapped with that of g
  hashes,   \* the finished transaction hashes, with touched and whether no
            \* typed-data hash was running
  touched   \* history: a SetBytes on felt.Zero has begun

typedVars == <<pc, domain, index, elems, alone>>
vars == <<zero, typedVars, hashes, touched>>

Init ==
  /\ zero = Zero
  /\ pc = [g \in Typers |-> "idle"]
  /\ domain \in [Typers -> Domains]
  /\ index = [g \in Typers |-> 1]
  /\ elems = [g \in Typers |-> <<>>]
  /\ alone = [g \in Typers |-> TRUE]
  /\ hashes = {}
  /\ touched = FALSE

Running == {g \in Typers : pc[g] \notin {"idle", "done"}}

\* GetTypedMessageHash("StarkNetDomain", td.Domain, sc) is called.
StartTyped(g) ==
  /\ pc[g] = "idle"
  /\ pc' = [pc EXCEPT ![g] = "next"]
  /\ alone' = [d \in Typers |-> IF d = g THEN Running = {}
                                ELSE alone[d] /\ d \notin Running]
  /\ UNCHANGED <<zero, domain, index, elems, hashes, touched>>

Current(g) == Definitions[index[g]]

\* The string of a field; FmtDefinitionEncoding has no case for other names.
HasField(g) == Current(g).name \in Names
Field(g)    == domain[g][Current(g).name]

\* GetTypedMessageHash puts the encoding of a felt into the elements, and hashes
\* that of another type on its own, with its type and its length.
Element(def, enc) ==
  [type |-> def.type, of |-> enc, len |-> IF def.type = "felt" THEN 0 ELSE 1 + Len(enc)]

Advance(g, enc) ==
  /\ elems' = [elems EXCEPT ![g] = Append(@, Element(Current(g), enc))]
  /\ index' = [index EXCEPT ![g] = @ + 1]
  /\ pc' = [pc EXCEPT ![g] = "next"]

NoCase(g) ==
  /\ pc[g] = "next"
  /\ index[g] <= Len(Definitions)
  /\ ~HasField(g)
  /\ Advance(g, <<>>)
  /\ UNCHANGED <<zero, domain, alone, hashes, touched>>

Writing == {g \in Typers : pc[g] \in {"writing", "mixing"}}

\* strToFelt: f = &felt.Zero, and f.SetBytes begins when the string parses.
BeginSetBytes(g) ==
  /\ pc[g] = "next"
  /\ index[g] <= Len(Definitions)
  /\ HasField(g)
  /\ Parsed[Field(g)] # NoFelt
  /\ zero' = Torn
  /\ touched' = TRUE
  /\ pc' = IF Writing = {} THEN [pc EXCEPT ![g] = "writing"]
           ELSE [d \in Typers |-> IF d \in Writing \cup {g} THEN "mixing" ELSE pc[d]]
  /\ UNCHANGED <<domain, index, elems, alone, hashes>>

\* Mutant of SkipSetBytes: a string that does not parse stores the failure.
StoreFailure(g) ==
  /\ pc[g] = "next"
  /\ index[g] <= Len(Definitions)
  /\ HasField(g)
  /\ Parsed[Field(g)] = NoFelt
  /\ zero' = NoFelt
  /\ pc' = [pc EXCEPT ![g] = "read"]
  /\ UNCHANGED <<domain, index, elems, alone, hashes, touched>>

\* A string that does not parse stores nothing: f is what felt.Zero holds.
SkipSetBytes(g) ==
  /\ pc[g] = "next"
  /\ index[g] <= Len(Definitions)
  /\ HasField(g)
  /\ Parsed[Field(g)] = NoFelt
  /\ pc' = [pc EXCEPT ![g] = "read"]
  /\ UNCHANGED <<zero, domain, index, elems, alone, hashes, touched>>

\* Stores that overlap may leave a mixture of their words for good.
EndSetBytes(g) ==
  /\ g \in Writing
  /\ zero' \in {Parsed[Field(g)]} \cup (IF pc[g] = "mixing" THEN {Torn} ELSE {})
  /\ pc' = [pc EXCEPT ![g] = "read"]
  /\ UNCHANGED <<domain, index, elems, alone, hashes, touched>>

\* Mutant of ReadField: the pointer is kept and read when the hash is computed.
KeptPointer(g) ==
  /\ pc[g] = "read"
  /\ elems' = [elems EXCEPT ![g] =
       Append([i \in 1..Len(@) |-> [@[i] EXCEPT !.of = [j \in 1..Len(@) |-> zero]]],
              Element(Current(g), <<zero>>))]
  /\ index' = [index EXCEPT ![g] = @ + 1]
  /\ pc' = [pc EXCEPT ![g] = "next"]
  /\ UNCHANGED <<zero, domain, alone, hashes, touched>>

\* utils.FeltToBigInt copies the value of *f into a big.Int of its own.
ReadField(g) ==
  /\ pc[g] = "read"
  /\ Advance(g, <<zero>>)
  /\ UNCHANGED <<zero, domain, alone, hashes, touched>>

\* sc.ComputeHashOnElements: a function of the elements.
EndTyped(g) ==
  /\ pc[g] = "next"
  /\ index[g] > Len(Definitions)
  /\ pc' = [pc EXCEPT ![g] = "done"]
  /\ UNCHANGED <<zero, domain, index, elems, alone, hashes, touched>>

\* A transaction is hashed; felt.Zero is read once.  Bound: MaxHashes.
HashTx ==
  /\ Cardinality(hashes) < MaxHashes
  /\ \E tx \in Txs :
       hashes' = hashes \cup {[tx |-> tx, res |-> HashOf(tx, zero), touched |-> touched,
                               quiet |-> Running = {}]}
  /\ UNCHANGED <<zero, typedVars, touched>>

TyperStep(g) ==
  \/ StartTyped(g) \/ NoCase(g) \/ BeginSetBytes(g) \/ SkipSetBytes(g)
  \/ EndSetBytes(g) \/ ReadField(g) \/ EndTyped(g)

Next == HashTx \/ \E g \in Typers : TyperStep(g)

Spec == Init /\ [][Next]_vars
-----------------------------------------------------------------------------
(* Properties.                                                             *)

Readable == Felts \cup {Zero, Torn}

TypeOK ==
  /\ zero \in Readable
  /\ pc \in [Typers -> {"idle", "next", "writing", "mixing", "read", "done"}]
  /\ domain \in [Typers -> Domains]
  /\ index \in [Typers -> 1..(Len(Definitions) + 1)]
  /\ elems \in [Typers -> Seq([type : STRING, of : Seq(Readable), len : Nat])]
  /\ alone \in [Typers -> BOOLEAN]
  /\ touched \in BOOLEAN
  /\ \A h \in hashes : h.tx \in Txs /\ \E z \in Readable : h.res = HashOf(h.tx, z)

\* A hash that does not read &felt.Zero is that of the protocol at any time, and
\* so is every hash made before the first typed-data hash stores into felt.Zero.
HashIsReference ==
  \A h \in hashes :
    h.res = HashOf(h.tx, Zero) \/ (ReadsZero(h.tx) /\ h.touched)

\* The element that a domain is meant to give for a definition.
Meant(dom, def) ==
  Element(def, IF def.name \in Names THEN <<Parsed[dom[def.name]]>> ELSE <<>>)

Parses(dom) == \A n \in Names : Parsed[dom[n]] # NoFelt

\* A typed-data hash that no other overlaps with hashes its own strings, each in
\* its place, although they all pass through one variable.
SoloHashIsOwn ==
  \A g \in Typers :
    pc[g] = "done" /\ alone[g] /\ Parses(domain[g]) =>
      elems[g] = [i \in 1..Len(Definitions) |-> Meant(domain[g], Definitions[i])]

\* The inductive invariant behind the properties above.  An element is there for
\* every definition passed; typed-data hashes that are alone are the only ones
\* running; felt.Zero is 0 until the first store; and a hash that is alone finds in
\* felt.Zero what it stored and has collected what it was meant to.
RunInv ==
  \A g \in Typers :
    /\ pc[g] \in {"writing", "mixing", "read"} => index[g] <= Len(Definitions) /\ HasField(g)
    /\ pc[g] \in {"writing", "mixing"} => Parsed[Field(g)] # NoFelt /\ touched
    /\ pc[g] = "idle" => index[g] = 1 /\ elems[g] = <<>>
    /\ pc[g] = "done" => index[g] = Len(Definitions) + 1

AloneInv ==
  \A g, d \in Typers : g \in Running /\ d \in Running /\ g # d => ~alone[g]

SoloInv ==
  \A g \in Typers : alone[g] /\ Parses(domain[g]) =>
    /\ elems[g] = [i \in 1..(index[g] - 1) |-> Meant(domain[g], Definitions[i])]
    /\ pc[g] # "mixing"
    /\ pc[g] = "read" => zero = Parsed[Field(g)]

UntouchedInv == ~touched => zero = Zero

ZeroInv == TypeOK /\ RunInv /\ AloneInv /\ SoloInv /\ UntouchedInv /\ HashIsReference

\* hash/hash.go:28: the hash is "a unique identifier of the transaction", so the
\* same transaction has one hash, at least while nothing runs beside it.
\* Violated: it gets another one once a typed-data hash has stored into felt.Zero.
HashIsFunctionOfTx ==
  \A g, h \in hashes : g.tx = h.tx /\ g.quiet /\ h.quiet => g.res = h.res
=============================================================================
