------------------------------- MODULE TxHash -------------------------------
(***************************************************************************)
(* The hashes of package account: TransactionHashInvoke, -DeployAccount,   *)
(* -Declare and PrecomputeAccountAddress, as functions of what they read.  *)
(*                                                                         *)
(* Pedersen and Poseidon are free functions: a hash is a record of what    *)
(* was hashed, so that hashes are equal exactly when their inputs are.  A  *)
(* transaction is a record of its Go type and its fields; Nil stands for a *)
(* nil pointer or slice and for a string that is empty.  What the code     *)
(* reads through the pointer &felt.Zero is the parameter z.                *)
(***************************************************************************)
EXTENDS Integers, Sequences

CONSTANTS
  Nil,       \* a field that is not set
  NoNumber,  \* the text of a version that no felt is read from, but that is set
  ChainId,   \* account.ChainId
  U128,      \* 2^128: the prices that fit the hashed 16 bytes are below it
  U32        \* 2^32, by which the nonce mode is shifted

ASSUME HashAssumption == U128 \in Nat \ {0} /\ U32 \in Nat \ {0, 1}

Pedersen(list) == [by |-> "pedersen", of |-> list]
Poseidon(list) == [by |-> "poseidon", of |-> list]

\* The three ways a hash function ends; a nil pointer is dereferenced only when
\* no check has caught it.
Hashed(h) == [kind |-> "hash", hash |-> h]
Error(e)  == [kind |-> "error", hash |-> e]
NilPanic  == [kind |-> "panic", hash |-> Nil]

NotAllParametersSet == Error("ErrNotAllParametersSet")
ConversionError     == Error("conversion")

\* hash.ComputeHashOnElementsFelt takes the values of its pointers; the slice of
\* calldata may be nil, which is the empty one.
Elements(slice) == IF slice = Nil THEN <<>> ELSE slice

\* The parameters each type checks before it hashes.  DeployAccountTxn checks
\* none.
Required(type) ==
  CASE type = "InvokeTxnV0" -> {"Version", "Calldata", "MaxFee", "EntryPointSelector"}
    [] type = "InvokeTxnV1" -> {"Version", "Calldata", "Nonce", "MaxFee", "SenderAddress"}
    [] type = "InvokeTxnV3" -> {"Version", "ResourceBounds", "Calldata", "Nonce",
                                "SenderAddress", "PayMasterData", "AccountDeploymentData"}
    [] type = "DeployAccountTxn" -> {}
    [] type = "DeployAccountTxnV3" -> {"Version", "ResourceBounds", "Nonce", "PayMasterData"}
    [] type = "DeclareTxnV1" -> {"SenderAddress", "Version", "ClassHash", "MaxFee", "Nonce"}
    [] type = "DeclareTxnV2" -> {"CompiledClassHash", "SenderAddress", "Version",
                                 "ClassHash", "MaxFee", "Nonce"}
    [] type = "DeclareTxnV3" -> {"Version", "ResourceBounds", "Nonce", "SenderAddress",
                                 "PayMasterData", "AccountDeploymentData", "ClassHash",
                                 "CompiledClassHash"}

\* len(txn.Calldata) == 0 refuses an empty slice as well as a nil one.
IsUnset(tx, f) == tx[f] = Nil \/ (f = "Calldata" /\ tx[f] = <<>>)

\* The pointers a type reads without having checked them.
Unchecked(type) ==
  CASE type = "InvokeTxnV0" -> {"ContractAddress"}
    [] type = "DeployAccountTxn" -> {"ContractAddress", "ClassHash", "ContractAddressSalt",
                                     "MaxFee", "Nonce"}
    [] type = "DeployAccountTxnV3" -> {"ContractAddress", "ClassHash", "ContractAddressSalt"}
    [] OTHER -> {}

\* The checks in the order of the code: what has to be set, then the version, which
\* SetString reads, then the pointers that the hash is made of.
Checked(tx, h) ==
  IF \E f \in Required(tx.type) : IsUnset(tx, f) THEN NotAllParametersSet
  ELSE IF tx.Version = NoNumber THEN ConversionError
  ELSE IF \E f \in Unchecked(tx.type) : tx[f] = Nil THEN NilPanic
  ELSE Hashed(h)
-----------------------------------------------------------------------------
(* Versions 0, 1 and 2: hash.CalculateTransactionHashCommon.               *)

CalculateTransactionHashCommon(prefix, tx, address, selector, calldata, additional) ==
  Pedersen(<<prefix, tx.Version, address, selector, Pedersen(calldata), tx.MaxFee,
             ChainId>> \o additional)

HashInvokeV0(tx) ==
  Checked(tx, CalculateTransactionHashCommon("invoke", tx, tx.ContractAddress,
                tx.EntryPointSelector, tx.Calldata, <<>>))

HashInvokeV1(tx, z) ==
  Checked(tx, CalculateTransactionHashCommon("invoke", tx, tx.SenderAddress, z,
                tx.Calldata, <<tx.Nonce>>))

\* The calldata, with the class hash and the salt, is hashed before the version is
\* read, which may be the empty text.
HashDeployAccount(tx, z) ==
  IF tx.ClassHash = Nil \/ tx.ContractAddressSalt = Nil THEN NilPanic
  ELSE IF tx.Version = Nil THEN ConversionError
  ELSE Checked(tx, CalculateTransactionHashCommon("deploy_account", tx,
                 tx.ContractAddress, z,
                 <<tx.ClassHash, tx.ContractAddressSalt>> \o Elements(tx.ConstructorCalldata),
                 <<tx.Nonce>>))

HashDeclareV1(tx, z) ==
  Checked(tx, CalculateTransactionHashCommon("declare", tx, tx.SenderAddress, z,
                <<tx.ClassHash>>, <<tx.Nonce>>))

\* Mutant of HashDeclareV2: the compiled class is forgotten, as in version 1.
ShortDeclareV2(tx, z) == HashDeclareV1(tx, z)

HashDeclareV2(tx, z) ==
  Checked(tx, CalculateTransactionHashCommon("declare", tx, tx.SenderAddress, z,
                <<tx.ClassHash>>, <<tx.Nonce, tx.CompiledClassHash>>))
-----------------------------------------------------------------------------
(* Version 3: Poseidon over the tip, the resource bounds and the data      *)
(* availability modes.                                                     *)

\* ResourceBounds.Bytes: the name, eight bytes of amount and the low sixteen
\* bytes of the price, which is parsed as a felt.
BoundsBytes(resource, rb) ==
  [resource |-> resource, amount |-> rb.MaxAmount, price |-> rb.MaxPricePerUnit % U128]

TipAndResourcesHash(tx) ==
  Poseidon(<<tx.Tip, BoundsBytes("L1_GAS", tx.ResourceBounds.L1Gas),
             BoundsBytes("L2_GAS", tx.ResourceBounds.L2Gas)>>)

\* fee64 + nonce64<<32, for the modes L1 and L2.
UInt64(mode) == IF mode = "L1" THEN 0 ELSE 1
DataAvailabilityMode(tx) == UInt64(tx.FeeMode) + UInt64(tx.NonceDataMode) * U32

ConversionFails(tx) ==
  \/ tx.Tip = Nil
  \/ {tx.FeeMode, tx.NonceDataMode} \ {"L1", "L2"} # {}
  \/ \E r \in {"L1Gas", "L2Gas"} :
       \/ tx.ResourceBounds[r].MaxAmount = Nil
       \/ tx.ResourceBounds[r].MaxPricePerUnit = Nil

HashV3(prefix, tx, address, rest) ==
  IF (\A f \in Required(tx.type) : ~IsUnset(tx, f)) /\ ConversionFails(tx)
  THEN ConversionError
  ELSE Checked(tx, Poseidon(<<prefix, tx.Version, address, TipAndResourcesHash(tx),
         Poseidon(Elements(tx.PayMasterData)), ChainId, tx.Nonce,
         DataAvailabilityMode(tx)>> \o rest))

HashInvokeV3(tx) ==
  HashV3("invoke", tx, tx.SenderAddress,
    <<Poseidon(Elements(tx.AccountDeploymentData)), Poseidon(Elements(tx.Calldata))>>)

HashDeployAccountV3(tx) ==
  HashV3("deploy_account", tx, tx.ContractAddress,
    <<Poseidon(Elements(tx.ConstructorCalldata)), tx.ClassHash, tx.ContractAddressSalt>>)

HashDeclareV3(tx) ==
  HashV3("declare", tx, tx.SenderAddress,
    <<Poseidon(Elements(tx.AccountDeploymentData)), tx.ClassHash, tx.CompiledClassHash>>)

\* PrecomputeAccountAddress: the deployer's address is &felt.Zero.
PrecomputeAccountAddress(tx, z) ==
  IF tx.ContractAddressSalt = Nil \/ tx.ClassHash = Nil
  THEN NilPanic
  ELSE Hashed(Pedersen(<<"STARKNET_CONTRACT_ADDRESS", z, tx.ContractAddressSalt,
                         tx.ClassHash, Pedersen(Elements(tx.ConstructorCalldata))>>))
-----------------------------------------------------------------------------
\* Mutant of HashOf: version 0 reads &felt.Zero in place of the selector.
ZeroSelectorHashOf(tx, z) ==
  CASE tx.type = "InvokeTxnV0"  -> HashInvokeV0([tx EXCEPT !.EntryPointSelector = z])
    [] tx.type = "InvokeTxnV1"  -> HashInvokeV1(tx, z)
    [] tx.type = "InvokeTxnV3"  -> HashInvokeV3(tx)
    [] tx.type = "DeclareTxnV2" -> HashDeclareV2(tx, z)
    [] OTHER                    -> Error("ErrTxnTypeUnSupported")

\* The type switches of the three TransactionHash methods, and the address.
HashOf(tx, z) ==
  CASE tx.type = "InvokeTxnV0"        -> HashInvokeV0(tx)
    [] tx.type = "InvokeTxnV1"        -> HashInvokeV1(tx, z)
    [] tx.type = "InvokeTxnV3"        -> HashInvokeV3(tx)
    [] tx.type = "DeployAccountTxn"   -> HashDeployAccount(tx, z)
    [] tx.type = "DeployAccountTxnV3" -> HashDeployAccountV3(tx)
    [] tx.type = "DeclareTxnV0"       -> Error("ErrTxnVersionUnSupported")
    [] tx.type = "DeclareTxnV1"       -> HashDeclareV1(tx, z)
    [] tx.type = "DeclareTxnV2"       -> HashDeclareV2(tx, z)
    [] tx.type = "DeclareTxnV3"       -> HashDeclareV3(tx)
    [] tx.type = "Address"            -> PrecomputeAccountAddress(tx, z)
    [] OTHER                          -> Error("ErrTxnTypeUnSupported")

\* The types whose hash reads &felt.Zero.
ReadsZero(tx) ==
  tx.type \in {"InvokeTxnV1", "DeployAccountTxn", "DeclareTxnV1", "DeclareTxnV2", "Address"}
=============================================================================
