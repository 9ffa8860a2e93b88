----------------------------- MODULE RpcObjects -----------------------------
(***************************************************************************)
(* The objects of package rpc: what a node sends about a transaction, its  *)
(* block and its class, and what the decoders of the package make of it.   *)
(*                                                                         *)
(* An object is a set of parts.  The name and the version of a part say of *)
(* which type it is, in the node's terms or, once decoded, in Go's; says   *)
(* has its enumerations; fields has the JSON names of its fields, those of *)
(* inner objects that matter among them.  encoding/json fills those fields *)
(* of a Go type that were sent, and drops the others without an error.     *)
(* transaction_hash, by which parts are asked for, is left out.            *)
(***************************************************************************)
EXTENDS RpcErrors

Part(what, name, version, says, fields) ==
  [what |-> what, name |-> name, version |-> version, says |-> says, fields |-> fields]

\* json.Unmarshal of p into a Go type with the given fields.
As(p, name, version, fields) ==
  Part(p.what, name, version, p.says, p.fields \cap fields)

\* The enumerations whose UnmarshalJSON refuses other texts.
TxnExecutionStatus == {"SUCCEEDED", "REVERTED"}
TxnFinalityStatus  == {"ACCEPTED_ON_L2", "ACCEPTED_ON_L1"}
BlockStatus        == {"PENDING", "ACCEPTED_ON_L2", "ACCEPTED_ON_L1", "REJECTED"}
TransactionType    == {"DECLARE", "DEPLOY_ACCOUNT", "DEPLOY", "INVOKE", "L1_HANDLER"}
L1DAMode           == {"BLOB", "CALLDATA"}
-----------------------------------------------------------------------------
(* Transactions.                                                           *)

FunctionCall == {"contract_address", "entry_point_selector", "calldata"}
Deployment   == {"class_hash", "contract_address_salt", "constructor_calldata"}
V3Fees       == {"resource_bounds", "tip", "paymaster_data", "nonce_data_availability_mode",
                 "fee_data_availability_mode"}

\* The fields with which a sender pays for a transaction of version v.
Sender(v) ==
  {"signature"} \cup (IF v = 0 THEN {} ELSE {"nonce"}) \cup (IF v < 3 THEN {"max_fee"} ELSE V3Fees)

Deploying(v) == IF v < 3 THEN {} ELSE {"account_deployment_data"}

\* The fields of InvokeTxnV0 to DeployAccountTxnV3.
TxnFields(name, v) ==
  {"type", "version"} \cup
  CASE name = "INVOKE" ->
         Sender(v) \cup Deploying(v) \cup
         (IF v = 0 THEN FunctionCall ELSE {"sender_address", "calldata"})
    [] name = "DECLARE" ->
         Sender(v) \cup Deploying(v) \cup {"sender_address", "class_hash"} \cup
         (IF v < 2 THEN {} ELSE {"compiled_class_hash"})
    [] name = "DEPLOY_ACCOUNT" -> Sender(v) \cup Deployment
    [] name = "DEPLOY"         -> Deployment
    [] name = "L1_HANDLER"     -> {"nonce"} \cup FunctionCall

SentTxn(t) == Part("tx", t.type, t.version, <<"">>, TxnFields(t.type, t.version))

\* TXN, which TransactionByHash decodes every transaction into first.
TXN ==
  {"type", "version", "nonce", "max_fee", "class_hash", "sender_address", "signature",
   "compiled_class_hash"} \cup
  FunctionCall \cup Deployment \cup V3Fees \cup {"account_deployment_data"}

\* The version of the Go type of a transaction: there is one type each for Deploy,
\* DeployAccount and L1Handler, and DeployAccountTxn has the fields of version 1.
GoVersion(p) ==
  CASE p.name \in {"INVOKE", "DECLARE"} -> p.version
    [] p.name = "DEPLOY_ACCOUNT"        -> 1
    [] OTHER                            -> 0

Typed(p, version) == {As(p, p.name, version, TxnFields(p.name, version))}

\* adaptTransaction: there is no case for version 3 of Declare, for InternalError.
\* It writes TXN as JSON and reads that as the type of the case, whose fields have
\* the types of those of TXN: this never fails, so that no raw error is handed on.
AdaptTransaction(p) ==
  IF p.name = "DECLARE" /\ p.version \notin 0 .. 2 THEN {}
  ELSE Typed(As(p, p.name, p.version, TXN), GoVersion(p))

\* Mutant of UnmarshalBlockTxn: every Invoke that is not of version 0 is of version 1.
OldUnmarshal(p) ==
  IF p.name = "INVOKE" /\ p.version # 0 THEN Typed(p, 1) ELSE Typed(p, GoVersion(p))

\* unmarshalBlockTxn: an Invoke that is neither of version 0 nor 1 is of version 3.
UnmarshalBlockTxn(p) ==
  IF p.name = "INVOKE" /\ p.version \notin {0, 1} THEN Typed(p, 3) ELSE Typed(p, GoVersion(p))

\* unmarshalTxn: an error for other versions of Declare and Invoke.
UnmarshalTxn(p) ==
  IF \/ p.name = "DECLARE" /\ p.version \notin 0 .. 3
     \/ p.name = "INVOKE" /\ p.version \notin {0, 1, 3}
  THEN {} ELSE Typed(p, GoVersion(p))
-----------------------------------------------------------------------------
(* Receipts and statuses.                                                  *)

\* CommonTransactionReceipt and the types that extend it.
ReceiptFields(name) ==
  {"actual_fee", "execution_status", "finality_status", "type", "messages_sent",
   "revert_reason", "events", "execution_resources"} \cup
  CASE name \in {"DEPLOY", "DEPLOY_ACCOUNT"} -> {"contract_address"}
    [] name = "L1_HANDLER"                   -> {"message_hash"}
    [] OTHER                                 -> {}

\* stage is "received", "rejected", "pending", "ACCEPTED_ON_L2" or "ACCEPTED_ON_L1".
\* A node tells of a transaction of the pending block that it is accepted.
Finality(stage) ==
  CASE stage = "received" -> "RECEIVED"
    [] stage = "rejected" -> "REJECTED"
    [] stage = "pending"  -> "ACCEPTED_ON_L2"
    [] OTHER              -> stage

\* The receipt alone; InfoReceipt names the block too, unless it is pending.
SentReceipt(t, exec, stage) ==
  Part("receipt", t.type, 0, <<exec, Finality(stage)>>,
       ReceiptFields(t.type) \ (IF exec = "REVERTED" THEN {} ELSE {"revert_reason"}))

BlockInfo == {"block_hash", "block_number"}
InfoReceipt(t, exec, stage) ==
  [SentReceipt(t, exec, stage) EXCEPT !.fields = @ \cup (IF stage = "pending" THEN {} ELSE BlockInfo)]

\* unmarshalTransactionReceipt, into the receipts of BlockWithReceipts.
UnmarshalTransactionReceipt(p) ==
  IF /\ p.name \in TransactionType
     /\ p.says[1] \in TxnExecutionStatus
     /\ p.says[2] \in TxnFinalityStatus
  THEN {As(p, p.name, 0, ReceiptFields(p.name))} ELSE {}

\* TransactionReceiptWithBlockInfo: the text "" for a block hash is an error.
ReceiptWithBlockInfo(p) ==
  IF "block_hash" \notin p.fields THEN {}
  ELSE {[q EXCEPT !.fields = @ \cup (p.fields \cap BlockInfo)] : q \in UnmarshalTransactionReceipt(p)}

SentStatus(exec, stage) ==
  Part("status", "TxnStatus", 0, <<IF stage \in {"received", "rejected"} THEN "" ELSE exec,
                                   Finality(stage)>>,
       {"finality_status"} \cup
       (IF stage \in {"received", "rejected"} THEN {} ELSE {"execution_status"}))

\* TxnStatusResp: the finality status is any text, the execution status may be missing.
TxnStatusResp(p) ==
  IF "execution_status" \in p.fields => p.says[1] \in TxnExecutionStatus THEN {p} ELSE {}
-----------------------------------------------------------------------------
(* Blocks.                                                                 *)

PendingBlockHeader ==
  {"parent_hash", "timestamp", "sequencer_address", "l1_gas_price", "starknet_version",
   "l1_data_gas_price", "l1_da_mode"}
BlockHeader == PendingBlockHeader \cup {"block_hash", "block_number", "new_root"}

SentBlock(stage, mode) ==
  IF stage = "pending"
  THEN Part("block", "Pending", 0, <<"", mode>>, PendingBlockHeader \cup {"transactions"})
  ELSE Part("block", "Block", 0, <<stage, mode>>,
            BlockHeader \cup {"status", "transactions"})

BlockDecodes(p) ==
  /\ "status" \in p.fields => p.says[1] \in BlockStatus
  /\ "l1_da_mode" \in p.fields => p.says[2] \in L1DAMode

\* Mutant of TellPending: the block hash is not looked at.
AnyBlock(p) == {As(p, "Block", 0, BlockHeader \cup {"status", "transactions"})}

\* BlockWithTxHashes and BlockWithTxs: a block without a block hash is pending, and
\* three fields of its header are handed on; the mode is then the first of its type.
TellPending(p) ==
  IF ~BlockDecodes(p) THEN {}
  ELSE IF "block_hash" \in p.fields
  THEN {As(p, "Block", 0, BlockHeader \cup {"status", "transactions"})}
  ELSE {Part(p.what, "Pending", 0, <<"", "BLOB">>,
             p.fields \cap {"parent_hash", "timestamp", "sequencer_address", "transactions"})}

\* BlockWithReceipts: a block without a status is pending.
TellStatus(p) ==
  IF ~BlockDecodes(p) THEN {}
  ELSE IF "status" \in p.fields
  THEN {As(p, "Block", 0, BlockHeader \cup {"status", "transactions"})}
  ELSE {As(p, "Pending", 0, PendingBlockHeader \cup {"transactions"})}
-----------------------------------------------------------------------------
(* Traces.  ExecInvocation looks for the call of a trace in                *)
(* function_invocation, OrderedEvent for an event in Event, and OrderedMsg *)
(* for a message to L1 in MsgToL1; a node has the fields of a call, of an  *)
(* event or of a message next to the others.                               *)

TraceFields(name) ==
  {"type", "state_diff"} \cup
  CASE name = "INVOKE" ->
         {"validate_invocation", "execute_invocation", "fee_transfer_invocation",
          "execution_resources"}
    [] name = "DECLARE" ->
         {"validate_invocation", "fee_transfer_invocation", "execution_resources"}
    [] name = "DEPLOY_ACCOUNT" ->
         {"validate_invocation", "constructor_invocation", "fee_transfer_invocation",
          "execution_resources"}
    [] OTHER -> {"function_invocation"}

ExecInvocation == {"function_invocation", "revert_reason"}
OrderedEvent   == {"order", "Event"}
OrderedMsg     == {"order", "MsgToL1"}

\* What a node sends of an event and of a message, next to its order.
EventContent == {"keys", "data"}
MsgToL1      == {"from_address", "to_address", "payload"}

SentTrace(t, exec) ==
  Part("trace", t.type, 0, <<"">>,
       TraceFields(t.type) \cup {"order"} \cup EventContent \cup MsgToL1 \cup
       (IF t.type # "INVOKE" THEN {}
        ELSE IF exec = "REVERTED" THEN {"revert_reason"} ELSE FunctionCall))

\* Mutant of TraceOf: without the case for L1 handlers.
NoL1Trace(p) ==
  IF p.name \in {"INVOKE", "DECLARE", "DEPLOY_ACCOUNT"}
  THEN {As(p, p.name, 0, TraceFields(p.name) \cup OrderedEvent \cup OrderedMsg \cup
             (IF p.name = "INVOKE" THEN ExecInvocation ELSE {}))}
  ELSE {}

\* TraceTransaction: the switch over the type of the trace.
TraceOf(p) ==
  IF p.name \in {"INVOKE", "DECLARE", "DEPLOY_ACCOUNT", "L1_HANDLER"}
  THEN {As(p, p.name, 0, TraceFields(p.name) \cup OrderedEvent \cup OrderedMsg \cup
             (IF p.name = "INVOKE" THEN ExecInvocation ELSE {}))}
  ELSE {}
-----------------------------------------------------------------------------
(* Classes, and the status of a node that is syncing.                      *)

ContractClass == {"sierra_program", "contract_class_version", "entry_points_by_type", "abi"}
DeprecatedContractClass == {"program", "entry_points_by_type", "abi"}

\* The kinds of the entries of a deprecated class's ABI; a class may have no ABI.
ABIType == {"constructor", "function", "l1_handler", "event", "struct"}

SentClasses ==
  {Part("class", "ContractClass", 0, <<"">>, ContractClass)} \cup
  {Part("class", "DeprecatedContractClass", 0, <<kind>>, DeprecatedContractClass) : kind \in ABIType}
  \cup {Part("class", "DeprecatedContractClass", 0, <<"">>, DeprecatedContractClass \ {"abi"})}

\* DeprecatedContractClass.UnmarshalJSON.
UnmarshalDeprecatedClass(p) ==
  IF /\ {"program", "entry_points_by_type"} \subseteq p.fields
     /\ "abi" \in p.fields => p.says[1] \in ABIType
  THEN {As(p, "DeprecatedContractClass", 0, DeprecatedContractClass)} ELSE {}

\* typecastClassOutput: contract_class_version tells the two kinds apart.
TypecastClassOutput(p) ==
  IF "contract_class_version" \in p.fields THEN {As(p, "ContractClass", 0, ContractClass)}
  ELSE UnmarshalDeprecatedClass(p)

SentSyncing == {Part("sync", s, 0, <<"">>, {}) : s \in {"false", "SyncStatus"}}

\* Syncing: json decodes an object into a map, never into a SyncStatus.
SyncingOf(p) == IF p.name = "false" THEN {p} ELSE {}
=============================================================================
