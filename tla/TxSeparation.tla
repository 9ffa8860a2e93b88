---------------------------- MODULE TxSeparation ----------------------------
(***************************************************************************)
(* Account.FmtCalldata, which makes the calldata of an invocation from the *)
(* calls it is to make, and the class hashes of package hash; and the      *)
(* question which transactions, whatever felt.Zero holds when each is      *)
(* hashed (SharedZero), and which classes can have one hash.               *)
(***************************************************************************)
EXTENDS SharedZero, SequencesExt

CONSTANTS
  Variants,  \* the transactions whose hashes are compared
  Invokes,   \* transactions that make calls
  Calls,     \* sequences of [ContractAddress, EntryPointSelector, Calldata]
  Classes,   \* the ContractClasses whose hashes are compared
  Casms      \* the CasmClasses whose hashes are compared

\* The fields of the types whose hashes are made.  ContractAddress is an argument of
\* TransactionHashDeployAccount; Address stands for PrecomputeAccountAddress.
V3Names == {"type", "Version", "Nonce", "Tip", "ResourceBounds", "PayMasterData", "FeeMode",
            "NonceDataMode", "Signature"}
DeployNames == {"ClassHash", "ContractAddressSalt", "ConstructorCalldata"}
TxFields ==
  [InvokeTxnV0 |-> {"type", "Version", "MaxFee", "ContractAddress", "EntryPointSelector",
                    "Calldata", "Signature"},
   InvokeTxnV1 |-> {"type", "Version", "MaxFee", "SenderAddress", "Nonce", "Calldata",
                    "Signature"},
   InvokeTxnV3 |-> V3Names \cup {"SenderAddress", "AccountDeploymentData", "Calldata"},
   DeployAccountTxn |-> DeployNames \cup {"type", "Version", "MaxFee", "Nonce",
                                         "ContractAddress", "Signature"},
   DeployAccountTxnV3 |-> V3Names \cup DeployNames \cup {"ContractAddress"},
   DeclareTxnV1 |-> {"type", "Version", "MaxFee", "SenderAddress", "Nonce", "ClassHash",
                     "Signature"},
   DeclareTxnV2 |-> {"type", "Version", "MaxFee", "SenderAddress", "Nonce", "ClassHash",
                     "CompiledClassHash", "Signature"},
   DeclareTxnV3 |-> V3Names \cup {"SenderAddress", "ClassHash", "CompiledClassHash",
                                 "AccountDeploymentData"},
   Address |-> DeployNames \cup {"type"}]

\* The slices among the fields; a nil one is empty.
Slices == {"Calldata", "ConstructorCalldata", "PayMasterData", "AccountDeploymentData"}

\* The values of a ResourceBounds: a price is a U128, and what is no number is Nil.
ResourceBounds == [MaxAmount : Nat \cup {Nil}, MaxPricePerUnit : (0 .. U128 - 1) \cup {Nil}]

\* What Go's types say of a transaction.  The felts of a slice are numbers; the other
\* felts are only compared.
WellFormed(tx) ==
  tx.type \in DOMAIN TxFields =>
    /\ DOMAIN tx = TxFields[tx.type]
    /\ \A f \in Slices \cap DOMAIN tx : tx[f] = Nil \/ tx[f] \in Seq(Int)
    /\ "ResourceBounds" \in DOMAIN tx =>
         tx.ResourceBounds = Nil
         \/ tx.ResourceBounds \in [L1Gas : ResourceBounds, L2Gas : ResourceBounds]

SierraEntryPoints == Seq([Selector : Int, FunctionIdx : Int])
CasmEntryPoints   == Seq([Selector : Int, Offset : Int, Builtins : Seq(Int)])

ASSUME SeparationAssumption ==
  /\ \A tx \in Variants \cup Invokes : WellFormed(tx)
  /\ \A tx \in Invokes : tx.type \in {"InvokeTxnV0", "InvokeTxnV1", "InvokeTxnV3"}
  /\ Calls \subseteq Seq([ContractAddress : Int, EntryPointSelector : Int,
                         Calldata : Seq(Int)])
  /\ IsFiniteSet(Classes)
  /\ Classes \subseteq [ContractClassVersion : Int, ABI : Int, SierraProgram : Seq(Int),
       External : SierraEntryPoints, L1Handler : SierraEntryPoints,
       Constructor : SierraEntryPoints]
  /\ IsFiniteSet(Casms)
  /\ Casms \subseteq [External : CasmEntryPoints, L1Handler : CasmEntryPoints,
       Constructor : CasmEntryPoints, ByteCode : Seq(Int)]

Data(calls) == FlattenSeq([i \in DOMAIN calls |-> calls[i].Calldata])

\* FmtCallDataCairo0: the calls, each with the place of its data, then all the data.
FmtCallDataCairo0(calls) ==
  LET entry(i) == <<calls[i].ContractAddress, calls[i].EntryPointSelector,
                    Len(Data(SubSeq(calls, 1, i - 1))), Len(calls[i].Calldata)>>
  IN  <<Len(calls)>> \o FlattenSeq([i \in DOMAIN calls |-> entry(i)])
        \o <<Len(Data(calls))>> \o Data(calls)

\* Mutant of FmtCallDataCairo2: the lengths are missing.
UnsizedCairo2(calls) ==
  <<Len(calls)>> \o
  FlattenSeq([i \in DOMAIN calls |->
    <<calls[i].ContractAddress, calls[i].EntryPointSelector>> \o calls[i].Calldata])

\* FmtCallDataCairo2: each call with its data.
FmtCallDataCairo2(calls) ==
  <<Len(calls)>> \o
  FlattenSeq([i \in DOMAIN calls |->
    <<calls[i].ContractAddress, calls[i].EntryPointSelector, Len(calls[i].Calldata)>>
      \o calls[i].Calldata])

\* FmtCalldata, for an account of a Cairo version; any other version is an error.
CairoVersions == {0, 2}
FmtCalldata(version, calls) ==
  IF version = 0 THEN FmtCallDataCairo0(calls) ELSE FmtCallDataCairo2(calls)
-----------------------------------------------------------------------------
(* Package hash.                                                           *)

\* hashEntryPointByType: the selectors and the places of the functions, in one list.
HashEntryPointByType(eps) ==
  Poseidon(FlattenSeq([i \in DOMAIN eps |-> <<eps[i].Selector, eps[i].FunctionIdx>>]))

\* ClassHash; the version and the ABI stand for their felt and their Keccak hash.
ClassHash(class) ==
  Poseidon(<<class.ContractClassVersion,
             HashEntryPointByType(class.External), HashEntryPointByType(class.L1Handler),
             HashEntryPointByType(class.Constructor),
             class.ABI, Poseidon(class.SierraProgram)>>)

\* Mutant of HashCasmEntryPoints: the builtins go into the list themselves.
FlatCasmEntryPoints(eps) ==
  Poseidon(FlattenSeq([i \in DOMAIN eps |->
    <<eps[i].Selector, eps[i].Offset>> \o eps[i].Builtins]))

\* hashCasmClassEntryPointByType.
HashCasmEntryPoints(eps) ==
  Poseidon(FlattenSeq([i \in DOMAIN eps |->
    <<eps[i].Selector, eps[i].Offset, Poseidon(eps[i].Builtins)>>]))

CompiledClassHash(casm) ==
  Poseidon(<<"COMPILED_CLASS_V1",
             HashCasmEntryPoints(casm.External), HashCasmEntryPoints(casm.L1Handler),
             HashCasmEntryPoints(casm.Constructor), Poseidon(casm.ByteCode)>>)
-----------------------------------------------------------------------------
Readings == Felts \cup {Zero, Torn}

AllHashes == {[tx |-> tx, res |-> HashOf(tx, z)] : tx \in Variants, z \in Readings}

\* What the network executes of a transaction: everything but the signature.
Payload(tx) ==
  [f \in DOMAIN tx \ {"Signature"} |-> IF f \in Slices THEN Elements(tx[f]) ELSE tx[f]]

ConfusedTxs ==
  {p \in AllHashes \X AllHashes :
     p[1].res = p[2].res /\ p[1].res.kind = "hash" /\ Payload(p[1].tx) # Payload(p[2].tx)}

HashOfCalls(tx, version, calls) ==
  HashOf([tx EXCEPT !.Calldata = FmtCalldata(version, calls)], Zero)

ConfusedCalls ==
  {p \in Calls \X Calls :
     /\ p[1] # p[2]
     /\ \E tx \in Invokes, version \in CairoVersions :
          /\ HashOfCalls(tx, version, p[1]).kind = "hash"
          /\ HashOfCalls(tx, version, p[1]) = HashOfCalls(tx, version, p[2])}

ClassesAreSeparate ==
  /\ Cardinality({ClassHash(c) : c \in Classes}) = Cardinality(Classes)
  /\ Cardinality({CompiledClassHash(c) : c \in Casms}) = Cardinality(Casms)

NothingIsConfused == ConfusedTxs = {} /\ ConfusedCalls = {} /\ ClassesAreSeparate

\* Transactions that differ in what the network executes never get one hash, and
\* nor do invocations that differ in the calls they make, nor classes that differ in
\* what a Declare declares (the element lists of the TransactionHash methods, the
\* lengths and offsets of FmtCalldata, and the lists of entry points).  The values of
\* felt.Zero for which this is so are all that it ever holds.
HashSeparatesTxs ==
  zero \in Readings /\ NothingIsConfused
=============================================================================
