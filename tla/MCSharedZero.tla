---------------------------- MODULE MCSharedZero ----------------------------
(***************************************************************************)
(* Instances of SharedZero and TxSeparation: one transaction of every      *)
(* type, and variants of each that differ in one field only.               *)
(***************************************************************************)
EXTENDS TxSeparation, TLC

CONSTANTS Mail, One

MCTexts == {"mail", "1", "-1", ""}
MCParsed == ("mail" :> Mail) @@ ("1" :> One) @@ ("-1" :> One) @@ ("" :> NoFelt)

MCDefinitions == <<[name |-> "name", type |-> "felt"],
                   [name |-> "salt", type |-> "felt"],
                   [name |-> "chainId", type |-> "Chain"]>>

MCDomains == {[name |-> n, version |-> "1", chainId |-> c] :
                n \in {"mail", ""}, c \in {"1", "mail"}}

Bounds(amount, price) ==
  [L1Gas |-> [MaxAmount |-> amount, MaxPricePerUnit |-> price],
   L2Gas |-> [MaxAmount |-> 0, MaxPricePerUnit |-> 0]]

InvokeV0 == [type |-> "InvokeTxnV0", Version |-> "0x0", MaxFee |-> "fee",
  ContractAddress |-> "addr", EntryPointSelector |-> "sel", Calldata |-> <<1>>,
  Signature |-> "sig"]
InvokeV1 == [type |-> "InvokeTxnV1", Version |-> "0x1", MaxFee |-> "fee",
  SenderAddress |-> "addr", Nonce |-> "n", Calldata |-> <<1>>, Signature |-> "sig"]
V3Fields == [Version |-> "0x3", Nonce |-> "n", Tip |-> 0, ResourceBounds |-> Bounds(1, 1),
  PayMasterData |-> <<>>, FeeMode |-> "L1", NonceDataMode |-> "L1", Signature |-> "sig"]
InvokeV3 == [type |-> "InvokeTxnV3", SenderAddress |-> "addr",
  AccountDeploymentData |-> <<>>, Calldata |-> <<1>>] @@ V3Fields
Deploy == [type |-> "DeployAccountTxn", Version |-> "0x1", MaxFee |-> "fee", Nonce |-> "n",
  ClassHash |-> "class", ContractAddressSalt |-> "salt", ConstructorCalldata |-> <<1>>,
  ContractAddress |-> "addr", Signature |-> "sig"]
DeployV3 == [type |-> "DeployAccountTxnV3", ClassHash |-> "class",
  ContractAddressSalt |-> "salt", ConstructorCalldata |-> <<1>>,
  ContractAddress |-> "addr"] @@ V3Fields
DeclareV0 == [type |-> "DeclareTxnV0", Version |-> "0x0", Signature |-> "sig"]
DeclareV1 == [type |-> "DeclareTxnV1", Version |-> "0x1", MaxFee |-> "fee",
  SenderAddress |-> "addr", Nonce |-> "n", ClassHash |-> "class", Signature |-> "sig"]
DeclareV2 == [DeclareV1 EXCEPT !.type = "DeclareTxnV2", !.Version = "0x2"]
  @@ [CompiledClassHash |-> "compiled"]
DeclareV3 == [type |-> "DeclareTxnV3", SenderAddress |-> "addr", ClassHash |-> "class",
  CompiledClassHash |-> "compiled", AccountDeploymentData |-> <<>>] @@ V3Fields
Address == [type |-> "Address", ClassHash |-> "class", ContractAddressSalt |-> "salt",
  ConstructorCalldata |-> <<1>>]

\* Other values of each field, the signature included.
Others(f) ==
  CASE f = "Calldata" -> {<<1, 2>>, <<>>, Nil}
    [] f \in {"ConstructorCalldata", "PayMasterData", "AccountDeploymentData"} ->
         {<<2>>, <<1, 2>>, Nil}
    [] f = "Tip" -> {1, Nil}
    [] f \in {"FeeMode", "NonceDataMode"} -> {"L2"}
    [] f = "ResourceBounds" -> {Bounds(1, U128 - 1), Bounds(U128, 1), Nil}
    [] f = "type" -> {}
    [] f = "Version" -> {"0x100000000000000000000000000000001", NoNumber, Nil}
    [] OTHER -> {"other", Nil}

VariantsOf(tx) == {tx} \cup (UNION {{[tx EXCEPT ![f] = v] : v \in Others(f)} : f \in DOMAIN tx})

Bases == {InvokeV0, InvokeV1, InvokeV3, Deploy, DeployV3, DeclareV1, DeclareV2, DeclareV3,
          Address}

\* For the interleavings a few transactions do; for the separation, all variants.
MCTxs == {InvokeV0, InvokeV1, InvokeV3, DeclareV2}
MCVariants == (UNION {VariantsOf(tx) : tx \in Bases})
  \cup {DeclareV0, [type |-> "BroadcastInvokev1Txn"]}

\* Up to two calls.  Lengths, offsets, addresses and data come from the same small
\* numbers, so that one could be taken for the other.
MCCall == {[ContractAddress |-> a, EntryPointSelector |-> e, Calldata |-> d] :
             a \in {0, 1}, e \in {1}, d \in {<<>>, <<0>>, <<1>>, <<0, 1>>, <<1, 1>>}}
MCCalls == UNION {[1 .. n -> MCCall] : n \in 0 .. 2}
MCInvokes == {InvokeV1, InvokeV3}

\* Up to two entry points of one kind and one of each other kind, again of small
\* numbers.
Sierra == [Selector : {0, 1}, FunctionIdx : {0, 1}]
Casm   == [Selector : {0, 1}, Offset : {0}, Builtins : {<<>>, <<0>>, <<0, 0>>}]
EntryLists(points) == {<<>>} \cup {<<e>> : e \in points}
MCClasses ==
  {[ContractClassVersion |-> v, External |-> x, L1Handler |-> l, Constructor |-> c,
    ABI |-> a, SierraProgram |-> p] :
     v \in {0, 1}, a \in {0, 1}, p \in {<<>>, <<0>>, <<0, 1>>},
     x \in EntryLists(Sierra) \cup (Sierra \X Sierra),
     l \in EntryLists(Sierra), c \in EntryLists({[Selector |-> 0, FunctionIdx |-> 1]})}
MCCasms ==
  {[External |-> x, L1Handler |-> l, Constructor |-> c, ByteCode |-> b] :
     b \in {<<>>, <<0>>, <<0, 1>>},
     x \in EntryLists(Casm) \cup (Casm \X Casm),
     l \in EntryLists(Casm), c \in EntryLists({[Selector |-> 0, Offset |-> 1, Builtins |-> <<>>]})}
=============================================================================
