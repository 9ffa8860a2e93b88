---------------------------- MODULE ProviderCalls ----------------------------
(***************************************************************************)
(* The methods of rpc.Provider, and the methods of Account that hand a     *)
(* call on to them: one request, the node's answer, and what the caller    *)
(* makes of it.  A reader calls one method after the other while its       *)
(* transaction goes from the mempool into a block, and the block from      *)
(* pending to accepted on L1.  ChainID is in ChainIdCache; the wait for a  *)
(* receipt is in ReceiptWait; the objects are those of RpcObjects.         *)
(*                                                                         *)
(* The message of an error is "defined" if it is word for word the one of  *)
(* the RPCError with the same code in rpc/errors.go.                       *)
(***************************************************************************)
EXTENDS RpcObjects, Sequences

CONSTANTS
  Txs,      \* the transactions that the reader may be after: [type, version]
  NodeCodes \* the codes of the errors that the node may answer with

\* What is on the chain: no Declare but of versions 0 to 3, and so on.
OnChain ==
  {[type |-> "INVOKE", version |-> v] : v \in {0, 1, 3}} \cup
  {[type |-> "DECLARE", version |-> v] : v \in 0 .. 3} \cup
  {[type |-> "DEPLOY_ACCOUNT", version |-> v] : v \in {1, 3}} \cup
  {[type |-> t, version |-> 0] : t \in {"DEPLOY", "L1_HANDLER"}}

ASSUME CallAssumption ==
  /\ Txs \subseteq OnChain
  /\ NodeCodes \subseteq Int
-----------------------------------------------------------------------------
(* The methods, and the errors each hands on.                              *)

\* The arguments of tryUnwrapToRPCErr, by code, file by file.
BlockErrors ==
  [BlockHashAndNumber |-> {32}, BlockWithTxHashes |-> {24}, StateUpdate |-> {24},
   BlockWithTxs |-> {24}, BlockWithReceipts |-> {24}]
ContractErrors ==
  [Class |-> {28, 24}, ClassAt |-> {20, 24}, ClassHashAt |-> {20, 24},
   StorageAt |-> {20, 24}, Nonce |-> {20, 24}, EstimateFee |-> {41, 24},
   EstimateMessageFee |-> {20, 24}]
TransactionErrors ==
  [TransactionByHash |-> {29}, TransactionByBlockIdAndIndex |-> {27, 24},
   TransactionReceipt |-> {29}, GetTransactionStatus |-> {29}]
TraceErrors ==
  [TraceTransaction |-> {29, 10}, TraceBlockTransactions |-> {24},
   SimulateTransactions |-> {41, 24}]
WriteErrors ==
  [AddInvokeTransaction |-> {52, 53, 54, 55, 58, 59, 61, 63},
   AddDeclareTransaction |-> 51 .. 62,
   AddDeployAccountTransaction |-> {28, 52, 53, 54, 55, 58, 59, 61}]
EventErrors == [Events |-> {31, 33, 24, 34}]
CallErrors  == [Call |-> {20, 24}]

ErrorTables ==
  {BlockErrors, ContractErrors, TransactionErrors, TraceErrors, WriteErrors, EventErrors,
   CallErrors}

Unwrapping == UNION {DOMAIN t : t \in ErrorTables}      \* do, then tryUnwrapToRPCErr
Listed == [m \in Unwrapping |-> UNION {t[m] : t \in {u \in ErrorTables : m \in DOMAIN u}}]

Plain      == {"SpecVersion", "BlockTransactionCount"} \* do, then Err(InternalError, err)
Direct     == {"BlockNumber", "Syncing"}               \* CallContext itself
Methods    == Unwrapping \cup Plain \cup Direct

WithBlock == {"BlockWithTxHashes", "BlockWithTxs", "BlockWithReceipts"}
WithTx    == {"TransactionByHash", "TransactionByBlockIdAndIndex"}
WithClass == {"Class", "ClassAt"}
AboutTx   == WithBlock \cup WithTx \cup {"TransactionReceipt", "TraceTransaction"}

Defined(c) == RPCError(c, "defined", "none")
-----------------------------------------------------------------------------
(* The node and go-ethereum's client, both external: what comes back.      *)

\* error: a JSON-RPC error object.  lost: no answer, or one without a result.
\* null: a result that is null.  malformed: one of another form than the method's.
Reply(kind, err, object) == [kind |-> kind, err |-> err, object |-> object]
NoReply == Reply("none", LocalError, {})

Faults ==
  {Reply(k, LocalError, {}) : k \in {"lost", "null", "malformed"}} \cup
  {Reply("error", NodeError(c, w), {}) : c \in NodeCodes, w \in {"defined", "other"}}

Stages  == {"received", "rejected", "pending", "ACCEPTED_ON_L2", "ACCEPTED_ON_L1"}
InBlock == Stages \ {"received", "rejected"}

\* What a node that follows the specification answers, as sets of parts.  A
\* transaction that is in no block has a status only.
Objects(m, t, e, s) ==
  IF m \in AboutTx /\ s \notin InBlock THEN {}
  ELSE
  CASE m = "GetTransactionStatus" -> {{SentStatus(e, s)}}
    [] m \in WithTx               -> {{SentTxn(t)}}
    [] m = "TransactionReceipt"   -> {{InfoReceipt(t, e, s)}}
    [] m = "TraceTransaction"     -> {{SentTrace(t, e)}}
    [] m \in WithBlock ->
         {{SentBlock(s, mode)} \cup
          (IF m = "BlockWithTxHashes" THEN {} ELSE {SentTxn(t)}) \cup
          (IF m = "BlockWithReceipts" THEN {SentReceipt(t, e, s)} ELSE {})
            : mode \in L1DAMode}
    [] m \in WithClass -> {{c} : c \in SentClasses}
    [] m = "Syncing"   -> {{p} : p \in SentSyncing}
    [] OTHER           -> {{}}

errNotFound == [LocalError EXCEPT !.type = "errNotFound"]
-----------------------------------------------------------------------------
(* Decoding.  A result is an error, or parts of Go values.                 *)

Value(kind, parts) == [kind |-> kind, err |-> LocalError, parts |-> parts]
Fails(err)         == [kind |-> "error", err |-> err, parts |-> {}]
NoResult           == Value("none", {})

\* What the method makes of one part: nothing, if that is an error.
DecodePart(m, p) ==
  CASE p.what = "tx" -> IF m \in WithTx THEN AdaptTransaction(p)
                        ELSE IF m = "BlockWithTxs" THEN UnmarshalBlockTxn(p)
                        ELSE UnmarshalTxn(p)
    [] p.what = "receipt" -> IF m = "TransactionReceipt" THEN ReceiptWithBlockInfo(p)
                             ELSE UnmarshalTransactionReceipt(p)
    [] p.what = "block"   -> IF m = "BlockWithReceipts" THEN TellStatus(p) ELSE TellPending(p)
    [] p.what = "trace"   -> TraceOf(p)
    [] p.what = "class"   -> TypecastClassOutput(p)
    [] p.what = "status"  -> TxnStatusResp(p)
    [] p.what = "sync"    -> SyncingOf(p)

Unreadable(m) == Fails(Err(InternalError, IF m \in WithClass THEN "error" ELSE "text"))

Decode(m, object) ==
  IF \E p \in object : DecodePart(m, p) = {} THEN Unreadable(m)
  ELSE Value("value", UNION {DecodePart(m, p) : p \in object})

\* A variable that nothing was decoded into, through the same code: the decoders of
\* classes, blocks with receipts, transactions and traces miss something in it.
DecodeNothing(m) ==
  CASE m \in {"BlockWithTxHashes", "BlockWithTxs"} ->
         Value("zero", TellPending(Part("block", "none", 0, <<"", "BLOB">>, {})))
    [] m \in WithClass \cup WithTx \cup {"BlockWithReceipts", "TraceTransaction", "Syncing"} ->
         Unreadable(m)
    [] OTHER -> Value("zero", {})
-----------------------------------------------------------------------------
(* Errors.                                                                 *)

\* Mutant of HandOn: an error that is not of this method is taken for its first.
FirstListed(m, err) ==
  IF m \in Unwrapping /\ err.type = "jsonError"
  THEN RPCError(CHOOSE c \in Listed[m] : TRUE, err.message, err.data)
  ELSE Err(InternalError, "error")

\* Mutant of HandOn: the error goes on as it came.
RawError(m, err) == err

\* What each method does with an error of do or CallContext.
HandOn(m, err) ==
  CASE m \in Unwrapping -> TryUnwrapToRPCErr(err, {Defined(c) : c \in Listed[m]})
    [] m = "BlockTransactionCount" /\ err.type = "errNotFound" -> Defined(24)
    [] m = "BlockNumber" /\ err.type = "errNotFound" -> Defined(32)
    [] OTHER -> Err(InternalError, "error")

\* CallContext and, except for the Direct methods, do.  An answer that is null
\* leaves the raw result empty, for errNotFound, or holds the word null, which
\* decodes into nothing: that depends on the version of go-ethereum.
Outcomes(m, r) ==
  CASE r.kind = "error"  -> {Fails(HandOn(m, r.err))}
    [] r.kind = "object" -> {Decode(m, r.object)}
    [] r.kind = "null"   -> {DecodeNothing(m)} \cup
                              (IF m \in Direct THEN {} ELSE {Fails(HandOn(m, errNotFound))})
    [] OTHER             -> {Fails(HandOn(m, LocalError))}
-----------------------------------------------------------------------------
VARIABLES
  tx,      \* the transaction
  exec,    \* how its execution ends, once it is in a block
  stage,   \* where it is
  pc,
  method,  \* the method that is called
  reply,   \* the node's answer
  result,  \* the values returned
  seen     \* history: what the reader has been told of tx

chain == <<tx, exec, stage>>
vars == <<chain, pc, method, reply, result, seen>>

Init ==
  /\ tx \in Txs
  /\ exec \in TxnExecutionStatus
  /\ stage = "received"
  /\ pc = "idle"
  /\ method = "none"
  /\ reply = NoReply
  /\ result = NoResult
  /\ seen = {}

\* A method of Account calls the method of its provider with the same arguments.
Call ==
  /\ pc = "idle"
  /\ \E m \in Methods : method' = m
  /\ pc' = "called"
  /\ UNCHANGED <<chain, reply, result, seen>>

Answer ==
  /\ pc = "called"
  /\ \E r \in Faults \cup
              {Reply("object", LocalError, o) : o \in Objects(method, tx, exec, stage)} :
       reply' = r
  /\ pc' = "answered"
  /\ UNCHANGED <<chain, method, result, seen>>

\* What a part tells of the transaction for good: its finality moves on.
Told(p) == Part(p.what, p.name, p.version, SubSeq(p.says, 1, 1), p.fields \ BlockInfo)

\* The method returns, and so does the one of Account, with the same values.
Return ==
  /\ pc = "answered"
  /\ \E o \in Outcomes(method, reply) :
       /\ result' = o
       /\ seen' = seen \cup {Told(p) : p \in {q \in o.parts : q.what \in {"tx", "receipt", "status"}}}
  /\ pc' = "returned"
  /\ UNCHANGED <<chain, method, reply>>

\* The reader goes on to its next call.
GoOn ==
  /\ pc = "returned"
  /\ pc' = "idle"
  /\ method' = "none"
  /\ reply' = NoReply
  /\ result' = NoResult
  /\ UNCHANGED <<chain, seen>>

\* At the node: the next stage of the transaction.
MoveOn ==
  /\ stage' \in CASE stage = "received"       -> {"rejected", "pending"}
                  [] stage = "pending"        -> {"ACCEPTED_ON_L2"}
                  [] stage = "ACCEPTED_ON_L2" -> {"ACCEPTED_ON_L1"}
                  [] OTHER                    -> {}
  /\ UNCHANGED <<tx, exec, pc, method, reply, result, seen>>

Next == Call \/ Answer \/ Return \/ GoOn \/ MoveOn

Spec == Init /\ [][Next]_vars
-----------------------------------------------------------------------------
(* Properties.                                                             *)

TypeOK ==
  /\ tx \in Txs
  /\ exec \in TxnExecutionStatus
  /\ stage \in Stages
  /\ pc \in {"idle", "called", "answered", "returned"}
  /\ method \in Methods \cup {"none"}
  /\ pc = "idle" <=> method = "none"
  /\ reply.kind \in {"none", "error", "lost", "null", "malformed", "object"}
  /\ reply.kind = "none" <=> pc \in {"idle", "called"}
  /\ result = NoResult <=> pc # "returned"
  /\ result.kind = "error" => result.err.type = "RPCError"

\* The node's refusal reaches the caller as an error of the same meaning or as an
\* InternalError, never as a result or as another listed error; a defined error that
\* two methods list is the same for the callers of both, with the node's data.
RefusalsKeepTheirMeaning ==
  pc = "returned" /\ reply.kind = "error" =>
    /\ result.kind = "error"
    /\ result.err.code \in {reply.err.code, InternalError}
    /\ result.err.code # InternalError => result.err.data = "node"
    /\ reply.err.message = "defined" /\ method \in Unwrapping /\ reply.err.code \in Listed[method]
         => result.err.code = reply.err.code

\* Whichever methods the reader calls, and wherever the transaction is meanwhile, it is
\* told of one transaction, of one type with the same fields, and of one receipt of it,
\* with one outcome of the execution.
ReadingsAgree ==
  \A p, q \in seen :
    /\ p.what = q.what /\ p.what # "status" => p = q
    /\ "" \in {p.says[1], q.says[1]} \/ p.says = q.says

\* The fields of a part that its Go type has no place for, or that the code does not
\* hand on: the fees of a DeployAccount of version 3, four fields of a pending block
\* read without receipts, the call in the trace of an Invoke, and what the events and
\* the messages to L1 in traces say.
KnownLosses(m, p) ==
  CASE p.what = "tx" /\ p.name = "DEPLOY_ACCOUNT" /\ p.version = 3 -> V3Fees
    [] p.what = "block" /\ p.name = "Pending" /\ m # "BlockWithReceipts" ->
         {"l1_gas_price", "starknet_version", "l1_data_gas_price", "l1_da_mode"}
    [] p.what = "trace"   -> FunctionCall \cup EventContent \cup MsgToL1
    [] OTHER -> {}

\* The answers of a node that follows the specification that end in an error: a
\* Declare of version 3 by itself, the receipt of a transaction of the pending block
\* by itself, the trace of a Deploy, and the status of a node that is syncing.
KnownUnreadable ==
  \/ method \in WithTx /\ tx = [type |-> "DECLARE", version |-> 3]
  \/ method = "TransactionReceipt" /\ \A p \in reply.object : "block_hash" \notin p.fields
  \/ method = "TraceTransaction" /\ tx.type = "DEPLOY"
  \/ method = "Syncing" /\ \E p \in reply.object : p.name = "SyncStatus"

\* A correct answer is an error for those four only.  Every other one is read part by
\* part as what it is: a pending block as pending, a deprecated class as deprecated,
\* every transaction, receipt and trace as one of its type, with the statuses that were
\* sent and, but for the known losses, every field.
ReadsWhatWasSent ==
  pc = "returned" /\ reply.kind = "object" =>
    IF result.kind = "error" THEN KnownUnreadable
    ELSE \A p \in reply.object : \E q \in result.parts :
           /\ q.what = p.what /\ q.name = p.name
           /\ p.what = "tx" => q.version = p.version \/ V3Fees \subseteq KnownLosses(method, p)
           /\ q.says = p.says \/ "l1_da_mode" \in KnownLosses(method, p)
           /\ p.fields \ q.fields \subseteq KnownLosses(method, p)

\* Syncing "retrieves the synchronization status of the provider" and returns
\* "*SyncStatus: The synchronization status" (rpc/chain.go:29): a correct answer is
\* returned without an error.  Violated: the answer of a node that is syncing is an
\* object, for which the switch over the result has no case.
SyncingIsReported ==
  pc = "returned" /\ method = "Syncing" /\ reply.kind = "object" => result.kind # "error"
=============================================================================
