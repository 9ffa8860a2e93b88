--------------------------- MODULE Provider_proofs ---------------------------
(***************************************************************************)
(* Proofs about the Provider of package rpc, in two parts.                 *)
(*                                                                         *)
(* ProviderCalls, for every set of transactions that may be on the chain   *)
(* and every set of codes the node may answer with: every error that a     *)
(* method returns is an RPCError, and a refusal of the node keeps its      *)
(* meaning or becomes an InternalError; what is read of an object is what  *)
(* was sent, but for four kinds of answers that cannot be read; and        *)
(* whatever is read of one transaction agrees.                             *)
(*                                                                         *)
(* ChainIdCache: CacheInv is inductive; with it a call that begins on a    *)
(* settled cache returns what is cached, and one that begins after an      *)
(* account was made neither asks the node nor fails, for every number of   *)
(* goroutines, chain ids and restarts.                                     *)
(***************************************************************************)
EXTENDS ProviderCalls, ChainIdCache, SequenceTheorems, TLAPS

ReplyKinds == {"none", "error", "lost", "null", "malformed", "object"}

-----------------------------------------------------------------------------
(* The errors.                                                             *)

\* Whatever a method is given, it hands on an RPCError.
LEMMA HandedOnIsRPCError ==
  ASSUME NEW m, NEW err
  PROVE  HandOn(m, err).type = "RPCError"
<1>1. \A c, message, data : RPCError(c, message, data).type = "RPCError"
  BY DEF RPCError
<1>2. \A c, data : Err(c, data).type = "RPCError"
  BY <1>1 DEF Err
<1>3. \A errs : TryUnwrapToRPCErr(err, errs).type = "RPCError"
  BY <1>1, <1>2 DEF TryUnwrapToRPCErr
<1>4. \A c : Defined(c).type = "RPCError"
  BY <1>1 DEF Defined
<1>5. CASE m \in Unwrapping
  <2>1. HandOn(m, err) = TryUnwrapToRPCErr(err, {Defined(c) : c \in Listed[m]})
    <3>1. m # "BlockTransactionCount" /\ m # "BlockNumber"
      BY <1>5 DEF Unwrapping, ErrorTables, BlockErrors, ContractErrors, TransactionErrors,
                  TraceErrors, WriteErrors, EventErrors, CallErrors
    <3> QED BY <1>5, <3>1, Zenon DEF HandOn
  <2> QED BY <1>3, <2>1
<1>6. CASE m \notin Unwrapping
  <2>1. \/ \E c : HandOn(m, err) = Defined(c)
        \/ HandOn(m, err) = Err(InternalError, "error")
    <3>1. CASE m = "BlockTransactionCount" /\ err.type = "errNotFound"
      <4>1. HandOn(m, err) = Defined(24)
        BY <1>6, <3>1, Zenon DEF HandOn
      <4> QED BY <4>1
    <3>2. CASE m = "BlockNumber" /\ err.type = "errNotFound"
      <4>1. HandOn(m, err) = Defined(32)
        BY <1>6, <3>2, Zenon DEF HandOn
      <4> QED BY <4>1
    <3>3. CASE err.type # "errNotFound" \/ m \notin {"BlockTransactionCount", "BlockNumber"}
      <4>1. HandOn(m, err) = Err(InternalError, "error")
        BY <1>6, <3>3, Zenon DEF HandOn
      <4> QED BY <4>1
    <3> QED BY <3>1, <3>2, <3>3
  <2> QED BY <1>2, <1>4, <2>1
<1> QED BY <1>5, <1>6

\* An outcome is a value or an error, and not the empty result.
LEMMA OutcomesAreResults ==
  ASSUME NEW m, NEW r, NEW o \in Outcomes(m, r)
  PROVE  /\ o # NoResult
         /\ o.kind = "error" => o.err.type = "RPCError"
<1> DEFINE IsResult(x) == x.kind # "none" /\ (x.kind = "error" => x.err.type = "RPCError")
<1>1. \A err : IsResult(Fails(HandOn(m, err)))
  BY HandedOnIsRPCError DEF Fails
<1>2. IsResult(Unreadable(m))
  BY DEF Unreadable, Fails, Err, RPCError
<1>3. \A parts : IsResult(Value("value", parts)) /\ IsResult(Value("zero", parts))
  BY DEF Value
<1>4. IsResult(Decode(m, r.object))
  BY <1>2, <1>3 DEF Decode
<1>5. IsResult(DecodeNothing(m))
  <2>1. CASE m \in {"BlockWithTxHashes", "BlockWithTxs"}
    <3> DEFINE parts == TellPending(Part("block", "none", 0, <<"", "BLOB">>, {}))
    <3>1. m \notin WithClass \cup WithTx \cup
                  {"BlockWithReceipts", "TraceTransaction", "Syncing"}
      BY <2>1 DEF WithClass, WithTx
    <3>2. DecodeNothing(m) = Value("zero", parts)
      BY <2>1, <3>1, Zenon DEF DecodeNothing
    <3> HIDE DEF parts, IsResult
    <3> QED BY <1>3, <3>2
  <2>2. CASE m \notin {"BlockWithTxHashes", "BlockWithTxs"}
    <3> DEFINE S == WithClass \cup WithTx
                      \cup {"BlockWithReceipts", "TraceTransaction", "Syncing"}
    <3>1. DecodeNothing(m) = Value("zero", {}) \/ DecodeNothing(m) = Unreadable(m)
      <4>1. CASE m \in S
        BY <2>2, <4>1, Zenon DEF DecodeNothing
      <4>2. CASE m \notin S
        BY <2>2, <4>2, Zenon DEF DecodeNothing
      <4> QED BY <4>1, <4>2
    <3> HIDE DEF IsResult
    <3> QED BY <1>2, <1>3, <3>1
  <2> QED BY <2>1, <2>2
<1>6. IsResult(o)
  <2> HIDE DEF IsResult
  <2> QED BY <1>1, <1>4, <1>5 DEF Outcomes
<1> QED BY <1>6 DEF NoResult, Value

\* A refusal is handed on with its code and its data, or as an InternalError; as it
\* came, if the method lists it.
LEMMA RefusalHandedOn ==
  ASSUME NEW m \in Methods, NEW c, NEW w
  PROVE  LET e == HandOn(m, NodeError(c, w))
         IN  /\ e.code \in {c, InternalError}
             /\ e.code # InternalError => e.data = "node"
             /\ w = "defined" /\ m \in Unwrapping /\ c \in Listed[m] => e.code = c
<1> DEFINE err == NodeError(c, w)
           errs == {Defined(d) : d \in Listed[m]}
<1>1. err.type = "jsonError" /\ err.code = c /\ err.message = w /\ err.data = "node"
  BY DEF NodeError
<1>2. \A data : Err(InternalError, data).code = InternalError
  BY DEF Err, RPCError, InternalError, InvalidJSON, InvalidRequest, MethodNotFound, InvalidParams
<1>3. CASE m \in Unwrapping
  <2>1. HandOn(m, err) = TryUnwrapToRPCErr(err, errs)
    BY <1>1, <1>3 DEF HandOn
  <2>2. \/ TryUnwrapToRPCErr(err, errs).code = InternalError
        \/ /\ TryUnwrapToRPCErr(err, errs).code = c
           /\ TryUnwrapToRPCErr(err, errs).data = "node"
    <3> HIDE DEF err, errs
    <3> QED BY <1>1, <1>2 DEF TryUnwrapToRPCErr, RPCError
  <2>3. ASSUME w = "defined", c \in Listed[m]
        PROVE  TryUnwrapToRPCErr(err, errs).code = c
    <3>1. Defined(c) \in errs /\ Defined(c).code = c /\ Defined(c).message = "defined"
      BY <2>3 DEF Defined, RPCError
    <3> HIDE DEF err, errs
    <3> QED BY <1>1, <2>3, <3>1 DEF TryUnwrapToRPCErr, RPCError
  <2> QED BY <2>1, <2>2, <2>3
<1>4. CASE m \notin Unwrapping
  <2>1. HandOn(m, err) = Err(InternalError, "error")
    <3> HIDE DEF errs
    <3> QED BY <1>1, <1>4 DEF HandOn
  <2> QED BY <1>2, <1>4, <2>1
<1> QED BY <1>3, <1>4
-----------------------------------------------------------------------------
(* What a node sends, part by part.                                        *)

\* The parts of what a node answers to a method.
SentPart(m, t, e, s, p) ==
  \/ m = "GetTransactionStatus" /\ p = SentStatus(e, s)
  \/ m \in WithTx \cup {"BlockWithTxs", "BlockWithReceipts"} /\ p = SentTxn(t)
  \/ m = "TransactionReceipt" /\ s \in InBlock /\ p = InfoReceipt(t, e, s)
  \/ m = "BlockWithReceipts" /\ s \in InBlock /\ p = SentReceipt(t, e, s)
  \/ m = "TraceTransaction" /\ p = SentTrace(t, e)
  \/ m \in WithBlock /\ s \in InBlock /\ \E mode \in L1DAMode : p = SentBlock(s, mode)
  \/ m \in WithClass /\ p \in SentClasses
  \/ m = "Syncing" /\ p \in SentSyncing

\* The parts of what was sent, object by object.
LEMMA SentParts ==
  ASSUME NEW m, NEW t, NEW e, NEW s, NEW o \in Objects(m, t, e, s), NEW p \in o
  PROVE  SentPart(m, t, e, s, p)
<1> DEFINE block(mode) ==
             {SentBlock(s, mode)} \cup
             (IF m = "BlockWithTxHashes" THEN {} ELSE {SentTxn(t)}) \cup
             (IF m = "BlockWithReceipts" THEN {SentReceipt(t, e, s)} ELSE {})
           blocks == {block(mode) : mode \in L1DAMode}
<1>1. ~(m \in AboutTx /\ s \notin InBlock)
  BY DEF Objects
<1>2. o \in CASE m = "GetTransactionStatus" -> {{SentStatus(e, s)}}
             [] m \in WithTx               -> {{SentTxn(t)}}
             [] m = "TransactionReceipt"   -> {{InfoReceipt(t, e, s)}}
             [] m = "TraceTransaction"     -> {{SentTrace(t, e)}}
             [] m \in WithBlock            -> blocks
             [] m \in WithClass            -> {{c} : c \in SentClasses}
             [] m = "Syncing"              -> {{r} : r \in SentSyncing}
             [] OTHER                      -> {{}}
  BY <1>1, Zenon DEF Objects
<1> HIDE DEF blocks
<1>3. CASE m = "GetTransactionStatus"
  <2>1. m \notin WithTx /\ m \notin WithBlock /\ m \notin WithClass
    BY <1>3 DEF WithTx, WithBlock, WithClass
  <2>2. o \in {{SentStatus(e, s)}}
    BY <1>2, <1>3, <2>1, Zenon
  <2> QED BY <1>3, <2>2 DEF SentPart
<1>4. CASE m \in WithTx
  <2>1. m # "GetTransactionStatus" /\ m # "TransactionReceipt" /\ m # "TraceTransaction"
        /\ m \notin WithBlock /\ m \notin WithClass /\ m # "Syncing"
    BY <1>4 DEF WithTx, WithBlock, WithClass
  <2>2. o \in {{SentTxn(t)}}
    BY <1>2, <1>4, <2>1, Zenon
  <2> QED BY <1>4, <2>2 DEF SentPart
<1>5. CASE m = "TransactionReceipt"
  <2>1. m \notin WithTx /\ m \notin WithBlock /\ m \notin WithClass /\ m # "Syncing"
        /\ m # "GetTransactionStatus" /\ m # "TraceTransaction"
    BY <1>5 DEF WithTx, WithBlock, WithClass
  <2>2. o \in {{InfoReceipt(t, e, s)}}
    BY <1>2, <1>5, <2>1, Zenon
  <2> QED BY <1>1, <1>5, <2>2 DEF SentPart, AboutTx
<1>6. CASE m = "TraceTransaction"
  <2>1. m \notin WithTx /\ m \notin WithBlock /\ m \notin WithClass /\ m # "Syncing"
        /\ m # "GetTransactionStatus" /\ m # "TransactionReceipt"
    BY <1>6 DEF WithTx, WithBlock, WithClass
  <2>2. o \in {{SentTrace(t, e)}}
    BY <1>2, <1>6, <2>1, Zenon
  <2> QED BY <1>6, <2>2 DEF SentPart
<1>7. CASE m \in WithBlock
  <2>1. m # "GetTransactionStatus" /\ m # "TransactionReceipt" /\ m # "TraceTransaction"
        /\ m \notin WithTx /\ m \notin WithClass /\ m # "Syncing"
    BY <1>7 DEF WithTx, WithBlock, WithClass
  <2>2. o \in blocks
    BY <1>2, <1>7, <2>1, Zenon
  <2>3. PICK mode \in L1DAMode : o = block(mode)
    BY <2>2 DEF blocks
  <2>4. \/ p = SentBlock(s, mode)
        \/ m # "BlockWithTxHashes" /\ p = SentTxn(t)
        \/ m = "BlockWithReceipts" /\ p = SentReceipt(t, e, s)
    BY <2>3
  <2>5. s \in InBlock
    BY <1>1, <1>7 DEF AboutTx
  <2> QED BY <1>7, <2>4, <2>5 DEF SentPart, WithBlock
<1>8. CASE m \in WithClass
  <2>1. m # "GetTransactionStatus" /\ m # "TransactionReceipt" /\ m # "TraceTransaction"
        /\ m \notin WithTx /\ m \notin WithBlock /\ m # "Syncing"
    BY <1>8 DEF WithTx, WithBlock, WithClass
  <2>2. o \in {{c} : c \in SentClasses}
    BY <1>2, <1>8, <2>1, Zenon
  <2> HIDE DEF blocks
  <2> QED BY <1>8, <2>2 DEF SentPart
<1>9. CASE m = "Syncing"
  <2>1. m \notin WithTx /\ m \notin WithBlock /\ m \notin WithClass
        /\ m # "GetTransactionStatus" /\ m # "TransactionReceipt" /\ m # "TraceTransaction"
    BY <1>9 DEF WithTx, WithBlock, WithClass
  <2>2. o \in {{r} : r \in SentSyncing}
    BY <1>2, <1>9, <2>1, Zenon
  <2> QED BY <1>9, <2>2 DEF SentPart
<1>10. CASE /\ m \notin WithTx \cup WithBlock \cup WithClass
            /\ m \notin {"GetTransactionStatus", "TransactionReceipt", "TraceTransaction",
                         "Syncing"}
  <2>1. o \in {{}}
    BY <1>2, <1>10, Zenon
  <2> QED BY <2>1
<1> QED BY <1>3, <1>4, <1>5, <1>6, <1>7, <1>8, <1>9, <1>10

-----------------------------------------------------------------------------
(* The case distinctions of the model, arm by arm.                         *)

\* The fields of each Go type of transaction.
LEMMA TxnFieldsAre ==
  ASSUME NEW v
  PROVE  /\ TxnFields("INVOKE", v) = {"type", "version"} \cup
              (Sender(v) \cup Deploying(v) \cup
               (IF v = 0 THEN FunctionCall ELSE {"sender_address", "calldata"}))
         /\ TxnFields("DECLARE", v) = {"type", "version"} \cup
              (Sender(v) \cup Deploying(v) \cup {"sender_address", "class_hash"} \cup
               (IF v < 2 THEN {} ELSE {"compiled_class_hash"}))
         /\ TxnFields("DEPLOY_ACCOUNT", v) = {"type", "version"} \cup (Sender(v) \cup Deployment)
         /\ TxnFields("DEPLOY", v) = {"type", "version"} \cup Deployment
         /\ TxnFields("L1_HANDLER", v) = {"type", "version"} \cup ({"nonce"} \cup FunctionCall)
BY Zenon DEF TxnFields

\* The Go type that each version is read into.
LEMMA GoVersionIs ==
  ASSUME NEW p
  PROVE  /\ p.name \in {"INVOKE", "DECLARE"} => GoVersion(p) = p.version
         /\ p.name = "DEPLOY_ACCOUNT" => GoVersion(p) = 1
         /\ p.name \in {"DEPLOY", "L1_HANDLER"} => GoVersion(p) = 0
<1>1. ASSUME p.name \in {"INVOKE", "DECLARE"} PROVE GoVersion(p) = p.version
  <2>1. p.name # "DEPLOY_ACCOUNT"
    BY <1>1
  <2> QED BY <1>1, <2>1, Zenon DEF GoVersion
<1>2. ASSUME p.name = "DEPLOY_ACCOUNT" PROVE GoVersion(p) = 1
  <2>1. p.name \notin {"INVOKE", "DECLARE"}
    BY <1>2
  <2> QED BY <1>2, <2>1, Zenon DEF GoVersion
<1>3. ASSUME p.name \in {"DEPLOY", "L1_HANDLER"} PROVE GoVersion(p) = 0
  <2>1. p.name \notin {"INVOKE", "DECLARE"} /\ p.name # "DEPLOY_ACCOUNT"
    BY <1>3
  <2> QED BY <2>1, Zenon DEF GoVersion
<1> QED BY <1>1, <1>2, <1>3

\* How each part is decoded.
LEMMA DecodePartIs ==
  ASSUME NEW m, NEW p
  PROVE  /\ p.what = "tx" => DecodePart(m, p) =
              IF m \in WithTx THEN AdaptTransaction(p)
              ELSE IF m = "BlockWithTxs" THEN UnmarshalBlockTxn(p) ELSE UnmarshalTxn(p)
         /\ p.what = "receipt" => DecodePart(m, p) =
              IF m = "TransactionReceipt" THEN ReceiptWithBlockInfo(p)
              ELSE UnmarshalTransactionReceipt(p)
         /\ p.what = "block" => DecodePart(m, p) =
              IF m = "BlockWithReceipts" THEN TellStatus(p) ELSE TellPending(p)
         /\ p.what = "trace" => DecodePart(m, p) = TraceOf(p)
         /\ p.what = "class" => DecodePart(m, p) = TypecastClassOutput(p)
         /\ p.what = "status" => DecodePart(m, p) = TxnStatusResp(p)
         /\ p.what = "sync" => DecodePart(m, p) = SyncingOf(p)
<1> DEFINE txn == IF m \in WithTx THEN AdaptTransaction(p)
                  ELSE IF m = "BlockWithTxs" THEN UnmarshalBlockTxn(p) ELSE UnmarshalTxn(p)
           receipt == IF m = "TransactionReceipt" THEN ReceiptWithBlockInfo(p)
                      ELSE UnmarshalTransactionReceipt(p)
           block == IF m = "BlockWithReceipts" THEN TellStatus(p) ELSE TellPending(p)
<1>0. DecodePart(m, p) =
  CASE p.what = "tx" -> txn [] p.what = "receipt" -> receipt [] p.what = "block" -> block
    [] p.what = "trace"   -> TraceOf(p)
    [] p.what = "class"   -> TypecastClassOutput(p)
    [] p.what = "status"  -> TxnStatusResp(p)
    [] p.what = "sync"    -> SyncingOf(p)
  BY Zenon DEF DecodePart
<1> HIDE DEF txn, receipt, block
<1>1. p.what = "tx" => DecodePart(m, p) = txn
  BY <1>0, Zenon
<1>2. p.what = "receipt" => DecodePart(m, p) = receipt
  BY <1>0, Zenon
<1>3. p.what = "block" => DecodePart(m, p) = block
  BY <1>0, Zenon
<1>4. p.what = "trace" => DecodePart(m, p) = TraceOf(p)
  BY <1>0, Zenon
<1>5. p.what = "class" => DecodePart(m, p) = TypecastClassOutput(p)
  BY <1>0, Zenon
<1>6. p.what = "status" => DecodePart(m, p) = TxnStatusResp(p)
  BY <1>0, Zenon
<1>7. p.what = "sync" => DecodePart(m, p) = SyncingOf(p)
  BY <1>0, Zenon
<1> QED BY <1>1, <1>2, <1>3, <1>4, <1>5, <1>6, <1>7 DEF txn, receipt, block

\* The losses, object by object.
LEMMA KnownLossesAre ==
  ASSUME NEW m, NEW p
  PROVE  /\ p.what = "tx" /\ p.name = "DEPLOY_ACCOUNT" /\ p.version = 3 =>
              KnownLosses(m, p) = V3Fees
         /\ p.what = "block" /\ p.name = "Pending" /\ m # "BlockWithReceipts" =>
              KnownLosses(m, p) =
                {"l1_gas_price", "starknet_version", "l1_data_gas_price", "l1_da_mode"}
         /\ p.what = "trace" => KnownLosses(m, p) = FunctionCall \cup EventContent \cup MsgToL1
<1> DEFINE L == {"l1_gas_price", "starknet_version", "l1_data_gas_price", "l1_da_mode"}
           A == p.what = "tx" /\ p.name = "DEPLOY_ACCOUNT" /\ p.version = 3
           B == p.what = "block" /\ p.name = "Pending" /\ m # "BlockWithReceipts"
           T == FunctionCall \cup EventContent \cup MsgToL1
<1>0. KnownLosses(m, p) =
        CASE A -> V3Fees [] B -> L [] p.what = "trace" -> T [] OTHER -> {}
  BY Zenon DEF KnownLosses
<1>1. A => p.what = "tx"
  OBVIOUS
<1>2. B => p.what = "block"
  OBVIOUS
<1>3. ~(A /\ B) /\ ~(A /\ p.what = "trace") /\ ~(B /\ p.what = "trace")
  OBVIOUS
<1> HIDE DEF A, B, L, T
<1>4. A => KnownLosses(m, p) = V3Fees
  BY <1>0, <1>3, Zenon
<1>5. B => KnownLosses(m, p) = L
  BY <1>0, <1>3, Zenon
<1>6. p.what = "trace" => KnownLosses(m, p) = T
  BY <1>0, <1>3, Zenon
<1> QED BY <1>4, <1>5, <1>6 DEF A, B, L, T

\* The transaction, as every decoder reads it that reads it at all.
GoTxn(t) ==
  LET version == GoVersion(SentTxn(t))
  IN  As(SentTxn(t), t.type, version, TxnFields(t.type, version))

\* A transaction is decoded to its Go type, or not at all.
LEMMA TxDecoded ==
  ASSUME NEW m, NEW t \in OnChain
  PROVE  \/ DecodePart(m, SentTxn(t)) = {GoTxn(t)}
         \/ /\ DecodePart(m, SentTxn(t)) = {}
            /\ m \in WithTx /\ t = [type |-> "DECLARE", version |-> 3]
<1> DEFINE p == SentTxn(t)
           F == TxnFields(t.type, t.version)
           G == TxnFields(t.type, GoVersion(p))
<1>1. /\ t.type \in {"INVOKE", "DECLARE", "DEPLOY_ACCOUNT", "DEPLOY", "L1_HANDLER"}
      /\ t.version \in 0 .. 3
      /\ t.type = "INVOKE" => t.version \in {0, 1, 3}
      /\ t = [type |-> t.type, version |-> t.version]
  BY DEF OnChain
<1>2. p = [what |-> "tx", name |-> t.type, version |-> t.version, says |-> <<"">>, fields |-> F]
  BY DEF SentTxn, Part
<1>7. p.what = "tx" /\ p.name = t.type /\ p.version = t.version /\ p.fields = F
  <2> HIDE DEF p, F
  <2> QED BY <1>2
<1>3. F \subseteq TXN
  <2>1. Sender(t.version) \cup Deploying(t.version) \subseteq TXN
    BY DEF Sender, Deploying, TXN
  <2>2. Deployment \cup FunctionCall \subseteq TXN
    BY DEF TXN
  <2>3. {"type", "version", "nonce", "calldata", "sender_address", "class_hash",
         "compiled_class_hash"} \subseteq TXN
    BY DEF TXN, FunctionCall
  <2> HIDE DEF F
  <2>4. CASE t.type = "INVOKE"
    <3>1. F \subseteq {"type", "version"} \cup Sender(t.version) \cup Deploying(t.version)
            \cup FunctionCall \cup {"sender_address", "calldata"}
      BY <2>4, TxnFieldsAre DEF F
    <3> QED BY <2>1, <2>2, <2>3, <3>1
  <2>5. CASE t.type = "DECLARE"
    <3>1. F \subseteq {"type", "version"} \cup Sender(t.version) \cup Deploying(t.version)
            \cup {"sender_address", "class_hash", "compiled_class_hash"}
      BY <2>5, TxnFieldsAre DEF F
    <3> QED BY <2>1, <2>2, <2>3, <3>1
  <2>6. CASE t.type = "DEPLOY_ACCOUNT"
    BY <2>1, <2>2, <2>3, <2>6, TxnFieldsAre DEF F
  <2>7. CASE t.type = "DEPLOY"
    BY <2>1, <2>2, <2>3, <2>7, TxnFieldsAre DEF F
  <2>8. CASE t.type = "L1_HANDLER"
    BY <2>1, <2>2, <2>3, <2>8, TxnFieldsAre DEF F
  <2> QED BY <1>1, <2>4, <2>5, <2>6, <2>7, <2>8
<1>4. Typed(p, GoVersion(p)) = {GoTxn(t)}
  BY <1>7 DEF Typed, As, GoTxn
<1>5. Typed(As(p, p.name, p.version, TXN), GoVersion(p)) = {GoTxn(t)}
  <2>1. F \cap TXN = F
    BY <1>3
  <2>2. As(p, p.name, p.version, TXN) = p
    <3> HIDE DEF p, F
    <3> QED BY <1>2, <2>1 DEF As, Part
  <2> QED BY <1>4, <2>2
<1>6. DecodePart(m, p) = IF m \in WithTx THEN AdaptTransaction(p)
              ELSE IF m = "BlockWithTxs" THEN UnmarshalBlockTxn(p) ELSE UnmarshalTxn(p)
  BY <1>7, DecodePartIs
<1>8. p.name = "INVOKE" => GoVersion(p) = p.version
  BY GoVersionIs
<1> HIDE DEF p, F, G
<1>9. AdaptTransaction(p) = {GoTxn(t)} \/
        (AdaptTransaction(p) = {} /\ t = [type |-> "DECLARE", version |-> 3])
  BY <1>1, <1>5, <1>7 DEF AdaptTransaction
<1>10. UnmarshalBlockTxn(p) = {GoTxn(t)}
  BY <1>1, <1>4, <1>7, <1>8 DEF UnmarshalBlockTxn
<1>11. UnmarshalTxn(p) = {GoTxn(t)}
  BY <1>1, <1>4, <1>7 DEF UnmarshalTxn
<1>12. \/ DecodePart(m, p) = {GoTxn(t)}
       \/ /\ DecodePart(m, p) = {}
          /\ m \in WithTx /\ t = [type |-> "DECLARE", version |-> 3]
  BY <1>6, <1>9, <1>10, <1>11
<1> QED BY <1>12 DEF p

-----------------------------------------------------------------------------
(* What becomes of each part.                                              *)

\* What ReadsWhatWasSent says of a part and of what became of it.
IsReadOf(m, p, q) ==
  /\ q.what = p.what /\ q.name = p.name
  /\ p.what = "tx" => q.version = p.version \/ V3Fees \subseteq KnownLosses(m, p)
  /\ q.says = p.says \/ "l1_da_mode" \in KnownLosses(m, p)
  /\ p.fields \ q.fields \subseteq KnownLosses(m, p)

\* What a part of transaction t may tell.
Tells(t, e, p) ==
  \/ p = Told(GoTxn(t))
  \/ p = Part("receipt", t.type, 0, <<e>>, SentReceipt(t, e, "pending").fields \ BlockInfo)
  \/ p.what = "status" /\ p.says \in {<<"">>, <<e>>}

ReadWell(m, t, e, p, q) ==
  /\ IsReadOf(m, p, q)
  /\ q.what \in {"tx", "receipt", "status"} => Tells(t, e, Told(q))

\* The four.
CannotRead(m, t, p) ==
  \/ m \in WithTx /\ t = [type |-> "DECLARE", version |-> 3]
  \/ m = "TransactionReceipt" /\ "block_hash" \notin p.fields
  \/ m = "TraceTransaction" /\ t.type = "DEPLOY"
  \/ m = "Syncing" /\ p.name = "SyncStatus"

ReadOrNot(m, t, e, p) ==
  \/ DecodePart(m, p) = {} /\ CannotRead(m, t, p)
  \/ \E q : DecodePart(m, p) = {q} /\ ReadWell(m, t, e, p, q)

\* A transaction is read as it was sent.
LEMMA TxRead ==
  ASSUME NEW m, NEW t \in OnChain, NEW e
  PROVE  ReadOrNot(m, t, e, SentTxn(t))
<1> DEFINE p == SentTxn(t)
           q == GoTxn(t)
           v == GoVersion(p)
<1>1. /\ p.what = "tx" /\ p.name = t.type /\ p.version = t.version /\ p.says = <<"">>
      /\ p.fields = TxnFields(t.type, t.version)
  BY DEF SentTxn, Part
<1>2. /\ q.what = "tx" /\ q.name = t.type /\ q.version = v /\ q.says = <<"">>
      /\ q.fields = TxnFields(t.type, t.version) \cap TxnFields(t.type, v)
  BY <1>1 DEF GoTxn, As, Part
<1>3. \/ v = t.version
      \/ t.type = "DEPLOY_ACCOUNT" /\ t.version = 3 /\ v = 1
  <2>1. \/ t.type \in {"INVOKE", "DECLARE"}
        \/ t.type = "DEPLOY_ACCOUNT" /\ t.version \in {1, 3}
        \/ t.type \in {"DEPLOY", "L1_HANDLER"} /\ t.version = 0
    BY DEF OnChain
  <2> HIDE DEF p
  <2> QED BY <1>1, <2>1, GoVersionIs
<1> HIDE DEF p, v
<1>4. IsReadOf(m, p, q)
  <2>1. CASE v = t.version
    <3> HIDE DEF q
    <3> QED BY <1>1, <1>2, <2>1 DEF IsReadOf
  <2>2. CASE t.type = "DEPLOY_ACCOUNT" /\ t.version = 3 /\ v = 1
    <3>1. KnownLosses(m, p) = V3Fees
      BY <1>1, <2>2, KnownLossesAre
    <3>2. p.fields \ q.fields \subseteq TxnFields("DEPLOY_ACCOUNT", 3) \ TxnFields("DEPLOY_ACCOUNT", 1)
      <4> HIDE DEF q
      <4> QED BY <1>1, <1>2, <2>2
    <3>3. TxnFields("DEPLOY_ACCOUNT", 3) \ TxnFields("DEPLOY_ACCOUNT", 1) \subseteq V3Fees
      <4>1. Sender(3) \subseteq Sender(1) \cup V3Fees
        BY DEF Sender
      <4> QED BY <4>1, TxnFieldsAre
    <3> HIDE DEF q
    <3> QED BY <1>1, <1>2, <3>1, <3>2, <3>3 DEF IsReadOf
  <2> QED BY <1>3, <2>1, <2>2
<1>5. ReadWell(m, t, e, p, q)
  <2>1. Tells(t, e, Told(q))
    BY DEF Tells
  <2> HIDE DEF q
  <2> QED BY <1>4, <2>1 DEF ReadWell
<1>6. ReadOrNot(m, t, e, p)
  <2>1. \/ DecodePart(m, p) = {q}
        \/ DecodePart(m, p) = {} /\ m \in WithTx /\ t = [type |-> "DECLARE", version |-> 3]
    BY TxDecoded DEF p
  <2> HIDE DEF q
  <2> QED BY <1>5, <2>1 DEF ReadOrNot, CannotRead
<1> QED BY <1>6 DEF p

\* The first element of a sequence, as a sequence of its own.
LEMMA FirstOnly ==
  ASSUME NEW x
  PROVE  SubSeq(x, 1, 1) = <<x[1]>>
<1>1. \A i \in 1 .. 1 : x[i] \in {x[1]}
  OBVIOUS
<1> DEFINE y == SubSeq(x, 1, 1)
           z == <<x[1]>>
<1>2. y \in Seq({x[1]}) /\ Len(y) = 1 /\ \A i \in 1 .. 1 : y[i] = x[1 + i - 1]
  BY <1>1, SubSeqProperties
<1>3. z \in Seq({x[1]}) /\ Len(z) = 1 /\ z[1] = x[1]
  OBVIOUS
<1>4. y[1] = x[1]
  <2>1. 1 \in 1 .. 1 /\ 1 + 1 - 1 = 1
    OBVIOUS
  <2> HIDE DEF y
  <2> QED BY <1>2, <2>1
<1> HIDE DEF y, z
<1>5. \A i \in 1 .. Len(y) : y[i] = z[i]
  BY <1>2, <1>3, <1>4
<1>6. y = z
  BY <1>2, <1>3, <1>5, SeqEqual
<1> QED BY <1>6 DEF y, z

\* The finality statuses.
LEMMA FinalityIs ==
  ASSUME NEW s \in InBlock
  PROVE  Finality(s) \in TxnFinalityStatus
<1>1. CASE s = "pending"
  <2>1. Finality(s) = "ACCEPTED_ON_L2"
    BY <1>1, Zenon DEF Finality
  <2> QED BY <2>1 DEF TxnFinalityStatus
<1>2. CASE s \in {"ACCEPTED_ON_L2", "ACCEPTED_ON_L1"}
  <2>1. s # "received" /\ s # "rejected" /\ s # "pending"
    BY <1>2
  <2>2. Finality(s) = s
    BY <2>1, Zenon DEF Finality
  <2> QED BY <1>2, <2>2 DEF TxnFinalityStatus
<1> QED BY <1>1, <1>2 DEF InBlock, Stages

\* A receipt in a block, by itself or with the block named.
LEMMA ReceiptRead ==
  ASSUME NEW m, NEW t \in OnChain, NEW e \in TxnExecutionStatus, NEW s \in InBlock, NEW p,
         \/ p = SentReceipt(t, e, s) /\ m # "TransactionReceipt"
         \/ p = InfoReceipt(t, e, s) /\ m = "TransactionReceipt"
  PROVE  ReadOrNot(m, t, e, p)
<1> DEFINE A == SentReceipt(t, e, s).fields
           R == ReceiptFields(t.type)
           f == Finality(s)
           F == IF m = "TransactionReceipt" /\ s # "pending" THEN A \cup BlockInfo ELSE A
           q == Part("receipt", t.type, 0, <<e, f>>, F)
<1>1. A \subseteq R /\ A = SentReceipt(t, e, "pending").fields
  BY DEF SentReceipt, Part
<1>2. p = q
  <2>1. CASE m # "TransactionReceipt"
    BY <2>1 DEF SentReceipt, Part
  <2>2. CASE m = "TransactionReceipt"
    BY <2>2 DEF InfoReceipt, SentReceipt, Part
  <2> QED BY <2>1, <2>2
<1>3. t.type \in TransactionType
  BY DEF OnChain, TransactionType
<1>4. f \in TxnFinalityStatus
  BY FinalityIs
<1> HIDE DEF A, f, R
<1>5. F \cap R \subseteq F /\ F \subseteq (F \cap R) \cup (F \cap BlockInfo)
  BY <1>1
<1>6. /\ q.what = "receipt" /\ q.name = t.type /\ q.says = <<e, f>> /\ q.fields = F
  BY DEF Part
<1>7. ReadWell(m, t, e, p, q)
  <2>1. IsReadOf(m, p, q)
    BY <1>2, <1>6 DEF IsReadOf
  <2>2. Told(q) = Part("receipt", t.type, 0, <<e>>, A \ BlockInfo)
    <3>1. SubSeq(<<e, f>>, 1, 1) = <<e>>
      BY FirstOnly
    <3>2. F \ BlockInfo = A \ BlockInfo
      OBVIOUS
    <3> HIDE DEF F
    <3> QED BY <3>1, <3>2 DEF Told, Part
  <2> HIDE DEF q
  <2> QED BY <1>1, <2>1, <2>2 DEF ReadWell, Tells
<1>8. UnmarshalTransactionReceipt(q) = {Part("receipt", t.type, 0, <<e, f>>, F \cap R)}
  <2>1. q.name \in TransactionType /\ q.says[1] \in TxnExecutionStatus
        /\ q.says[2] \in TxnFinalityStatus
    <3> HIDE DEF q
    <3> QED BY <1>3, <1>4, <1>6
  <2> HIDE DEF F, q
  <2> QED BY <1>6, <2>1 DEF UnmarshalTransactionReceipt, As, R
<1>9. CASE m # "TransactionReceipt"
  <2>1. F \cap R = F
    BY <1>1, <1>9
  <2>2. UnmarshalTransactionReceipt(q) = {q}
    BY <1>8, <2>1
  <2>3. DecodePart(m, q) = {q}
    <3> HIDE DEF q
    <3> QED BY <1>6, <1>9, <2>2, DecodePartIs
  <2> HIDE DEF q
  <2> QED BY <1>2, <1>7, <2>3 DEF ReadOrNot
<1>10. CASE m = "TransactionReceipt"
  <2>1. DecodePart(m, q) = ReceiptWithBlockInfo(q)
    <3> HIDE DEF q
    <3> QED BY <1>6, <1>10, DecodePartIs
  <2>2. CASE "block_hash" \notin F
    <3>1. ReceiptWithBlockInfo(q) = {}
      BY <1>6, <2>2 DEF ReceiptWithBlockInfo
    <3> HIDE DEF q, F
    <3> QED BY <1>2, <1>6, <1>10, <2>1, <2>2, <3>1 DEF ReadOrNot, CannotRead
  <2>3. CASE "block_hash" \in F
    <3> DEFINE u == Part("receipt", t.type, 0, <<e, f>>, F \cap R)
    <3>1. ReceiptWithBlockInfo(q) = {[u EXCEPT !.fields = @ \cup (F \cap BlockInfo)]}
      <4> HIDE DEF F, u
      <4> HIDE DEF q
      <4>1. UnmarshalTransactionReceipt(q) = {u}
        BY <1>8 DEF u
      <4> QED BY <1>6, <2>3, <4>1 DEF ReceiptWithBlockInfo
    <3>2. [u EXCEPT !.fields = @ \cup (F \cap BlockInfo)] = q
      <4>1. (F \cap R) \cup (F \cap BlockInfo) = F
        BY <1>5
      <4> HIDE DEF F
      <4> QED BY <4>1 DEF Part
    <3>3. DecodePart(m, q) = {q}
      <4> HIDE DEF q
      <4> QED BY <2>1, <3>1, <3>2
    <3> HIDE DEF q
    <3> QED BY <1>2, <1>7, <3>3 DEF ReadOrNot
  <2> QED BY <2>2, <2>3
<1> QED BY <1>9, <1>10

\* A status is read as it was sent.
LEMMA StatusRead ==
  ASSUME NEW m, NEW t, NEW e \in TxnExecutionStatus, NEW s
  PROVE  ReadOrNot(m, t, e, SentStatus(e, s))
<1> DEFINE p == SentStatus(e, s)
<1>1. /\ p.what = "status" /\ p.says[1] \in {"", e}
      /\ "execution_status" \in p.fields => p.says[1] = e
  BY DEF SentStatus, Part
<1> HIDE DEF p
<1>2. DecodePart(m, p) = {p}
  BY <1>1, DecodePartIs DEF TxnStatusResp
<1>3. Tells(t, e, Told(p))
  <2>1. Told(p).what = "status" /\ Told(p).says = <<p.says[1]>>
    BY <1>1, FirstOnly DEF Told, Part
  <2> QED BY <1>1, <2>1 DEF Tells
<1>4. IsReadOf(m, p, p)
  BY DEF IsReadOf
<1>5. ReadOrNot(m, t, e, p)
  BY <1>2, <1>3, <1>4 DEF ReadOrNot, ReadWell
<1> QED BY <1>5 DEF p

\* A block is read as it was sent.
LEMMA BlockRead ==
  ASSUME NEW m, NEW t, NEW e, NEW s \in InBlock, NEW mode \in L1DAMode
  PROVE  ReadOrNot(m, t, e, SentBlock(s, mode))
<1> DEFINE p == SentBlock(s, mode)
           B == BlockHeader \cup {"status", "transactions"}
           P == PendingBlockHeader \cup {"transactions"}
           Q == {"parent_hash", "timestamp", "sequencer_address", "transactions"}
           L == {"l1_gas_price", "starknet_version", "l1_data_gas_price", "l1_da_mode"}
<1>1. ASSUME NEW q, DecodePart(m, p) = {q}, IsReadOf(m, p, q), q.what = "block"
      PROVE  ReadOrNot(m, t, e, p)
  <2> HIDE DEF p
  <2> QED BY <1>1 DEF ReadOrNot, ReadWell
<1>2. CASE s = "pending"
  <2>1. p = Part("block", "Pending", 0, <<"", mode>>, P)
    BY <1>2 DEF SentBlock
  <2>2. "block_hash" \notin P /\ "status" \notin P
    BY DEF PendingBlockHeader
  <2>3. /\ p.what = "block" /\ p.name = "Pending" /\ p.says = <<"", mode>> /\ p.fields = P
        /\ p.version = 0
    <3> HIDE DEF p, P
    <3> QED BY <2>1 DEF Part
  <2> HIDE DEF P, p
  <2>4. BlockDecodes(p)
    <3>1. p.says[1] = "" /\ p.says[2] = mode
      <4> DEFINE x == <<"", mode>>
      <4>1. x[1] = "" /\ x[2] = mode
        OBVIOUS
      <4> HIDE DEF x
      <4>2. p.says = x
        BY <2>3 DEF x
      <4> QED BY <4>1, <4>2
    <3> QED BY <2>2, <2>3, <3>1 DEF BlockDecodes
  <2>5. CASE m = "BlockWithReceipts"
    <3>1. DecodePart(m, p) = {As(p, "Pending", 0, P)}
      BY <2>2, <2>3, <2>4, <2>5, DecodePartIs DEF TellStatus, P
    <3>2. As(p, "Pending", 0, P) = p
      BY <2>1 DEF As, Part
    <3>3. IsReadOf(m, p, p)
      BY DEF IsReadOf
    <3>4. ReadOrNot(m, t, e, p)
      BY <1>1, <2>3, <3>1, <3>2, <3>3
    <3> QED BY <3>4 DEF p
  <2>6. CASE m # "BlockWithReceipts"
    <3> DEFINE q == Part("block", "Pending", 0, <<"", "BLOB">>, P \cap Q)
    <3>1. TellPending(p) = {Part(p.what, "Pending", 0, <<"", "BLOB">>, p.fields \cap Q)}
      BY <2>2, <2>3, <2>4 DEF TellPending
    <3>2. Part(p.what, "Pending", 0, <<"", "BLOB">>, p.fields \cap Q) = q
      <4> HIDE DEF Q
      <4> QED BY <2>3
    <3>3. DecodePart(m, p) = {q}
      <4> HIDE DEF q
      <4> QED BY <2>3, <2>6, <3>1, <3>2, DecodePartIs
    <3>4. KnownLosses(m, p) = L
      BY <2>3, <2>6, KnownLossesAre
    <3>5. P \ (P \cap Q) \subseteq L
      BY DEF P, PendingBlockHeader
    <3>6. q.what = "block" /\ q.name = "Pending" /\ q.fields = P \cap Q
      <4>1. q = Part("block", "Pending", 0, <<"", "BLOB">>, P \cap Q)
        OBVIOUS
      <4> HIDE DEF q, Q
      <4> QED BY <4>1 DEF Part
    <3>7. "l1_da_mode" \in L
      OBVIOUS
    <3> HIDE DEF q, L, Q
    <3>8. IsReadOf(m, p, q)
      BY <2>3, <3>4, <3>5, <3>6, <3>7 DEF IsReadOf
    <3>9. ReadOrNot(m, t, e, p)
      BY <1>1, <3>3, <3>6, <3>8
    <3> QED BY <3>9 DEF p
  <2> QED BY <2>5, <2>6
<1>3. CASE s # "pending"
  <2>1. p = Part("block", "Block", 0, <<s, mode>>, B)
    BY <1>3 DEF SentBlock
  <2>2. "block_hash" \in B /\ "status" \in B
    BY DEF BlockHeader
  <2>3. /\ p.what = "block" /\ p.name = "Block" /\ p.says = <<s, mode>> /\ p.fields = B
        /\ p.version = 0
    <3> HIDE DEF p, B
    <3> QED BY <2>1 DEF Part
  <2>4. s \in BlockStatus
    BY <1>3 DEF InBlock, Stages, BlockStatus
  <2> HIDE DEF B, p
  <2>5. BlockDecodes(p)
    <3>1. p.says[1] = s /\ p.says[2] = mode
      <4> DEFINE x == <<s, mode>>
      <4>1. x[1] = s /\ x[2] = mode
        OBVIOUS
      <4> HIDE DEF x
      <4>2. p.says = x
        BY <2>3 DEF x
      <4> QED BY <4>1, <4>2
    <3> QED BY <2>4, <3>1 DEF BlockDecodes
  <2>6. TellStatus(p) = {As(p, "Block", 0, B)} /\ TellPending(p) = {As(p, "Block", 0, B)}
    BY <2>2, <2>3, <2>5 DEF TellStatus, TellPending, B
  <2>7. As(p, "Block", 0, B) = p
    BY <2>1 DEF As, Part
  <2>8. DecodePart(m, p) = {p}
    BY <2>3, <2>6, <2>7, DecodePartIs
  <2>9. IsReadOf(m, p, p)
    BY DEF IsReadOf
  <2>10. ReadOrNot(m, t, e, p)
    BY <1>1, <2>3, <2>8, <2>9
  <2> QED BY <2>10 DEF p
<1> QED BY <1>2, <1>3

\* A trace is read as it was sent.
LEMMA TraceRead ==
  ASSUME NEW t \in OnChain, NEW e
  PROVE  ReadOrNot("TraceTransaction", t, e, SentTrace(t, e))
<1> DEFINE m == "TraceTransaction"
           p == SentTrace(t, e)
           F == TraceFields(t.type)
           q == As(p, t.type, 0, F \cup OrderedEvent \cup OrderedMsg
                     \cup (IF t.type = "INVOKE" THEN ExecInvocation ELSE {}))
           X == IF t.type # "INVOKE" THEN {}
                ELSE IF e = "REVERTED" THEN {"revert_reason"} ELSE FunctionCall
<1>1. /\ p.what = "trace" /\ p.name = t.type /\ p.says = <<"">> /\ p.version = 0
      /\ p.fields = F \cup {"order"} \cup EventContent \cup MsgToL1 \cup X
  <2> HIDE DEF F, X
  <2>1. p = Part("trace", t.type, 0, <<"">>, F \cup {"order"} \cup EventContent \cup MsgToL1 \cup X)
    BY DEF SentTrace, F, X
  <2> HIDE DEF p
  <2> QED BY <2>1 DEF Part
<1>2. DecodePart(m, p) = TraceOf(p)
  <2> HIDE DEF p
  <2> QED BY <1>1, DecodePartIs
<1>3. KnownLosses(m, p) = FunctionCall \cup EventContent \cup MsgToL1
  <2> HIDE DEF p
  <2> QED BY <1>1, KnownLossesAre
<1>4. CASE t.type = "DEPLOY"
  <2>1. TraceOf(p) = {}
    <3> HIDE DEF p
    <3> QED BY <1>1, <1>4 DEF TraceOf
  <2> HIDE DEF p
  <2>2. ReadOrNot(m, t, e, p)
    BY <1>2, <1>4, <2>1 DEF ReadOrNot, CannotRead
  <2> QED BY <2>2 DEF p
<1>5. CASE t.type # "DEPLOY"
  <2>1. t.type \in {"INVOKE", "DECLARE", "DEPLOY_ACCOUNT", "L1_HANDLER"}
    BY <1>5 DEF OnChain
  <2> HIDE DEF p
  <2>2. TraceOf(p) = {q}
    BY <1>1, <2>1 DEF TraceOf
  <2>3. /\ q.what = "trace" /\ q.name = t.type /\ q.says = <<"">>
        /\ q.fields = p.fields \cap (F \cup OrderedEvent \cup OrderedMsg
             \cup (IF t.type = "INVOKE" THEN ExecInvocation ELSE {}))
    <3> DEFINE S == F \cup OrderedEvent \cup OrderedMsg
                      \cup (IF t.type = "INVOKE" THEN ExecInvocation ELSE {})
    <3>1. q = Part("trace", t.type, 0, <<"">>, p.fields \cap S)
      <4> HIDE DEF S, F
      <4> QED BY <1>1 DEF As, S
    <3> HIDE DEF S, q
    <3>2. q.what = "trace" /\ q.name = t.type /\ q.says = <<"">> /\ q.fields = p.fields \cap S
      BY <3>1 DEF Part
    <3> QED BY <3>2 DEF S
  <2> HIDE DEF F, q
  <2>4. p.fields \ q.fields \subseteq FunctionCall \cup EventContent \cup MsgToL1
    <3>1. X \subseteq FunctionCall \cup (IF t.type = "INVOKE" THEN ExecInvocation ELSE {})
      BY DEF ExecInvocation
    <3>2. "order" \in OrderedEvent
      BY DEF OrderedEvent
    <3> HIDE DEF X
    <3> QED BY <1>1, <2>3, <3>1, <3>2
  <2>5. IsReadOf(m, p, q)
    <3> HIDE DEF X
    <3> QED BY <1>1, <1>3, <2>3, <2>4 DEF IsReadOf
  <2>6. ReadOrNot(m, t, e, p)
    BY <1>2, <2>2, <2>3, <2>5 DEF ReadOrNot, ReadWell
  <2> QED BY <2>6 DEF p
<1> QED BY <1>4, <1>5

\* A class is read as it was sent.
LEMMA ClassRead ==
  ASSUME NEW m, NEW t, NEW e, NEW p \in SentClasses
  PROVE  ReadOrNot(m, t, e, p)
<1> DEFINE D == DeprecatedContractClass
           C == ContractClass
<1>1. /\ "contract_class_version" \in C /\ "contract_class_version" \notin D
      /\ {"program", "entry_points_by_type"} \subseteq D \ {"abi"}
  BY DEF ContractClass, DeprecatedContractClass
<1>2. \/ p = Part("class", "ContractClass", 0, <<"">>, C)
      \/ \E kind \in ABIType : p = Part("class", "DeprecatedContractClass", 0, <<kind>>, D)
      \/ p = Part("class", "DeprecatedContractClass", 0, <<"">>, D \ {"abi"})
  BY DEF SentClasses
<1>3. TypecastClassOutput(p) = {p}
  <2> HIDE DEF C, D
  <2>1. CASE p = Part("class", "ContractClass", 0, <<"">>, C)
    <3>1. As(p, "ContractClass", 0, C) = p
      BY <2>1 DEF As, Part
    <3>2. "contract_class_version" \in p.fields
      BY <1>1, <2>1 DEF Part
    <3> QED BY <3>1, <3>2 DEF TypecastClassOutput, C
  <2>2. CASE \E kind \in ABIType : p = Part("class", "DeprecatedContractClass", 0, <<kind>>, D)
    <3>1. PICK kind \in ABIType : p = Part("class", "DeprecatedContractClass", 0, <<kind>>, D)
      BY <2>2
    <3>2. p.fields = D /\ p.says[1] \in ABIType
      BY <3>1 DEF Part
    <3>3. As(p, "DeprecatedContractClass", 0, D) = p
      BY <3>1 DEF As, Part
    <3>4. UnmarshalDeprecatedClass(p) = {p}
      BY <1>1, <3>2, <3>3 DEF UnmarshalDeprecatedClass, D
    <3> QED BY <1>1, <3>2, <3>4 DEF TypecastClassOutput
  <2>3. CASE p = Part("class", "DeprecatedContractClass", 0, <<"">>, D \ {"abi"})
    <3>1. p.fields = D \ {"abi"}
      BY <2>3 DEF Part
    <3>2. As(p, "DeprecatedContractClass", 0, D) = p
      <4>1. (D \ {"abi"}) \cap D = D \ {"abi"}
        OBVIOUS
      <4> QED BY <2>3, <4>1 DEF As, Part
    <3>3. UnmarshalDeprecatedClass(p) = {p}
      BY <1>1, <3>1, <3>2 DEF UnmarshalDeprecatedClass, D
    <3> QED BY <1>1, <3>1, <3>3 DEF TypecastClassOutput
  <2> QED BY <1>2, <2>1, <2>2, <2>3
<1>4. p.what = "class"
  <2> HIDE DEF C, D
  <2>1. \A name, says, fields : Part("class", name, 0, says, fields).what = "class"
    BY DEF Part
  <2> QED BY <1>2, <2>1
<1>5. DecodePart(m, p) = {p}
  BY <1>3, <1>4, DecodePartIs
<1>6. IsReadOf(m, p, p)
  BY DEF IsReadOf
<1> QED BY <1>4, <1>5, <1>6 DEF ReadOrNot, ReadWell

\* A sync status, or false, is read as it was sent.
LEMMA SyncRead ==
  ASSUME NEW t, NEW e, NEW p \in SentSyncing
  PROVE  ReadOrNot("Syncing", t, e, p)
<1>1. p.what = "sync" /\ p.name \in {"false", "SyncStatus"}
  <2>1. PICK name \in {"false", "SyncStatus"} : p = Part("sync", name, 0, <<"">>, {})
    BY DEF SentSyncing
  <2> QED BY <2>1 DEF Part
<1>2. DecodePart("Syncing", p) = SyncingOf(p)
  BY <1>1, DecodePartIs
<1>3. IsReadOf("Syncing", p, p)
  BY DEF IsReadOf
<1>4. CASE p.name = "false"
  BY <1>1, <1>2, <1>3, <1>4 DEF ReadOrNot, ReadWell, SyncingOf
<1>5. CASE p.name = "SyncStatus"
  BY <1>2, <1>5 DEF ReadOrNot, CannotRead, SyncingOf
<1> QED BY <1>1, <1>4, <1>5

\* Every part of what a node sends is read well or is one of the four.
LEMMA PartsRead ==
  ASSUME NEW m, NEW t \in OnChain, NEW e \in TxnExecutionStatus, NEW s,
         NEW p, SentPart(m, t, e, s, p)
  PROVE  ReadOrNot(m, t, e, p)
<1>1. CASE m = "GetTransactionStatus" /\ p = SentStatus(e, s)
  BY <1>1, StatusRead
<1>2. CASE m \in WithTx \cup {"BlockWithTxs", "BlockWithReceipts"} /\ p = SentTxn(t)
  BY <1>2, TxRead
<1>3. CASE m = "TransactionReceipt" /\ s \in InBlock /\ p = InfoReceipt(t, e, s)
  BY <1>3, ReceiptRead
<1>4. CASE m = "BlockWithReceipts" /\ s \in InBlock /\ p = SentReceipt(t, e, s)
  <2>1. m # "TransactionReceipt"
    BY <1>4
  <2> QED BY <1>4, <2>1, ReceiptRead
<1>5. CASE m = "TraceTransaction" /\ p = SentTrace(t, e)
  BY <1>5, TraceRead
<1>6. CASE m \in WithBlock /\ s \in InBlock /\ \E mode \in L1DAMode : p = SentBlock(s, mode)
  BY <1>6, BlockRead
<1>7. CASE m \in WithClass /\ p \in SentClasses
  BY <1>7, ClassRead
<1>8. CASE m = "Syncing" /\ p \in SentSyncing
  BY <1>8, SyncRead
<1> QED BY <1>1, <1>2, <1>3, <1>4, <1>5, <1>6, <1>7, <1>8 DEF SentPart

-----------------------------------------------------------------------------
(* The invariant.                                                          *)

\* An answer is one of Faults, or an object that was sent at some stage; a result is an
\* outcome of the answer.
AnswerInv ==
  /\ pc \in {"answered", "returned"} =>
       /\ reply.kind \in ReplyKinds \ {"none"}
       /\ reply.kind = "error" =>
            \E c \in NodeCodes, w \in {"defined", "other"} : reply.err = NodeError(c, w)
       /\ reply.kind = "object" => \E s \in Stages : reply.object \in Objects(method, tx, exec, s)
  /\ pc = "returned" => result \in Outcomes(method, reply)

\* What the reader has been told of the transaction follows from the transaction and
\* from how its execution ends.
SeenInv == \A p \in seen : Tells(tx, exec, p)

ProviderInv == TypeOK /\ AnswerInv /\ SeenInv

\* The transaction on the chain is one of OnChain.
LEMMA TxIsOnChain == TypeOK => tx \in OnChain /\ exec \in TxnExecutionStatus
BY CallAssumption DEF TypeOK

\* Nothing that a null decodes into tells of a transaction.
LEMMA NothingTells ==
  ASSUME NEW m, NEW q \in DecodeNothing(m).parts
  PROVE  q.what \notin {"tx", "receipt", "status"}
<1> DEFINE zero == Part("block", "none", 0, <<"", "BLOB">>, {})
           A == {"BlockWithTxHashes", "BlockWithTxs"}
           S == WithClass \cup WithTx
                  \cup {"BlockWithReceipts", "TraceTransaction", "Syncing"}
<1>1. /\ Unreadable(m).parts = {} /\ Value("zero", {}).parts = {}
      /\ Value("zero", TellPending(zero)).parts = TellPending(zero)
  <2> HIDE DEF zero
  <2> QED BY DEF Unreadable, Fails, Value
<1>2. CASE m \in A
  <2>1. m \notin S
    BY <1>2 DEF WithClass, WithTx
  <2>2. DecodeNothing(m) = Value("zero", TellPending(zero))
    BY <1>2, <2>1, Zenon DEF DecodeNothing
  <2> HIDE DEF zero
  <2>3. q \in TellPending(zero)
    BY <1>1, <2>2
  <2>4. zero.what = "block"
    BY DEF zero, Part
  <2>5. q.what = zero.what
    <3> DEFINE B == BlockHeader \cup {"status", "transactions"}
               b == Part(zero.what, "Block", 0, zero.says, zero.fields \cap B)
               says == <<"", "BLOB">>
               F == {"parent_hash", "timestamp", "sequencer_address", "transactions"}
               c == Part(zero.what, "Pending", 0, says, zero.fields \cap F)
    <3>1. TellPending(zero) \subseteq {b, c}
      BY DEF TellPending, As
    <3> HIDE DEF says, F, B
    <3>2. b.what = zero.what /\ c.what = zero.what
      BY DEF Part
    <3> HIDE DEF b, c
    <3> QED BY <2>3, <3>1, <3>2
  <2> QED BY <2>4, <2>5
<1>3. CASE m \notin A
  <2>1. DecodeNothing(m) = Value("zero", {}) \/ DecodeNothing(m) = Unreadable(m)
    <3>1. CASE m \in S
      BY <1>3, <3>1, Zenon DEF DecodeNothing
    <3>2. CASE m \notin S
      BY <1>3, <3>2, Zenon DEF DecodeNothing
    <3> QED BY <3>1, <3>2
  <2> QED BY <1>1, <2>1
<1> QED BY <1>2, <1>3

\* Whatever a method makes of an answer, it tells of the transaction as it is.
LEMMA OutcomesTell ==
  ASSUME NEW m, NEW t \in OnChain, NEW e \in TxnExecutionStatus, NEW r,
         r.kind = "object" => \E s \in Stages : r.object \in Objects(m, t, e, s),
         NEW o \in Outcomes(m, r), NEW q \in o.parts, q.what \in {"tx", "receipt", "status"}
  PROVE  Tells(t, e, Told(q))
<1>1. \A err : Fails(err).parts = {}
  BY DEF Fails
<1>2. \/ r.kind = "object" /\ o = Decode(m, r.object)
      \/ o = DecodeNothing(m)
      \/ \E err : o = Fails(err)
  <2>1. CASE r.kind = "object"
    <3>1. Outcomes(m, r) = {Decode(m, r.object)}
      BY <2>1, Zenon DEF Outcomes
    <3> QED BY <2>1, <3>1
  <2>2. CASE r.kind = "error"
    <3>1. Outcomes(m, r) = {Fails(HandOn(m, r.err))}
      BY <2>2, Zenon DEF Outcomes
    <3> QED BY <3>1
  <2>3. CASE r.kind = "null"
    <3>1. Outcomes(m, r) = {DecodeNothing(m)} \cup
                             (IF m \in Direct THEN {} ELSE {Fails(HandOn(m, errNotFound))})
      BY <2>3, Zenon DEF Outcomes
    <3> QED BY <3>1
  <2>4. CASE r.kind \notin {"object", "error", "null"}
    <3>1. r.kind # "object" /\ r.kind # "error" /\ r.kind # "null"
      BY <2>4
    <3>2. Outcomes(m, r) = {Fails(HandOn(m, LocalError))}
      BY <3>1, Zenon DEF Outcomes
    <3> QED BY <3>2
  <2> QED BY <2>1, <2>2, <2>3, <2>4
<1>3. CASE r.kind = "object" /\ o = Decode(m, r.object)
  <2>1. PICK s \in Stages : r.object \in Objects(m, t, e, s)
    BY <1>3
  <2>2. Unreadable(m).parts = {}
    BY DEF Unreadable, Fails
  <2>3. PICK p \in r.object : q \in DecodePart(m, p)
    <3>1. \A parts : Value("value", parts).parts = parts
      BY DEF Value
    <3> QED BY <1>3, <2>2, <3>1 DEF Decode
  <2>4. ReadOrNot(m, t, e, p)
    BY <2>1, SentParts, PartsRead
  <2>5. ReadWell(m, t, e, p, q)
    BY <2>3, <2>4 DEF ReadOrNot
  <2> QED BY <2>5 DEF ReadWell
<1>4. CASE o = DecodeNothing(m)
  BY <1>4, NothingTells
<1> QED BY <1>1, <1>2, <1>3, <1>4

-----------------------------------------------------------------------------
(* The steps.                                                              *)

\* ProviderInv holds before the first call.
LEMMA InitProviderInv == Init => ProviderInv
<1> SUFFICES ASSUME Init PROVE ProviderInv
  OBVIOUS
<1>1. NoReply.kind = "none" /\ NoResult.kind = "none"
  BY DEF NoReply, Reply, NoResult, Value
<1>2. TypeOK
  BY <1>1 DEF Init, TypeOK, Stages
<1>3. AnswerInv /\ SeenInv
  BY DEF Init, AnswerInv, SeenInv
<1> QED BY <1>2, <1>3 DEF ProviderInv

\* A call keeps ProviderInv.
LEMMA CallStep ==
  ASSUME ProviderInv, Call
  PROVE  ProviderInv'
<1> USE DEF ProviderInv, Call, chain
<1>1. "none" \notin Methods
  BY DEF Methods, Unwrapping, Plain, Direct, ErrorTables, BlockErrors, ContractErrors,
         TransactionErrors, TraceErrors, WriteErrors, EventErrors, CallErrors
<1>2. TypeOK'
  BY <1>1 DEF TypeOK
<1>3. AnswerInv'
  BY DEF AnswerInv
<1>4. SeenInv'
  BY DEF SeenInv
<1> QED BY <1>2, <1>3, <1>4

\* An answer keeps ProviderInv.
LEMMA AnswerStep ==
  ASSUME ProviderInv, Answer
  PROVE  ProviderInv'
<1> USE DEF ProviderInv
<1>1. PICK r \in Faults \cup
                 {Reply("object", LocalError, o) : o \in Objects(method, tx, exec, stage)} :
        reply' = r
  BY DEF Answer
<1>2. /\ reply'.kind \in ReplyKinds \ {"none"}
      /\ reply'.kind = "error" =>
           \E c \in NodeCodes, w \in {"defined", "other"} : reply'.err = NodeError(c, w)
  BY <1>1 DEF Faults, Reply, ReplyKinds
<1>6. reply'.kind = "object" => reply'.object \in Objects(method, tx, exec, stage)
  BY <1>1 DEF Faults, Reply
<1>3. UNCHANGED <<chain, method, result, seen>> /\ pc = "called" /\ pc' = "answered"
  BY DEF Answer
<1>4. TypeOK'
  BY <1>2, <1>3 DEF TypeOK, ReplyKinds, chain
<1>5. AnswerInv'
  BY <1>2, <1>3, <1>6 DEF AnswerInv, TypeOK, chain
<1>7. SeenInv'
  BY <1>3 DEF SeenInv, chain
<1> QED BY <1>4, <1>5, <1>7

\* A return keeps ProviderInv.
LEMMA ReturnStep ==
  ASSUME ProviderInv, Return
  PROVE  ProviderInv'
<1> USE DEF ProviderInv
<1>1. PICK o \in Outcomes(method, reply) :
        /\ result' = o
        /\ seen' = seen \cup {Told(p) : p \in {q \in o.parts : q.what \in {"tx", "receipt", "status"}}}
  BY DEF Return
<1>2. UNCHANGED <<chain, method, reply>> /\ pc = "answered" /\ pc' = "returned"
  BY DEF Return
<1>3. result' # NoResult /\ (result'.kind = "error" => result'.err.type = "RPCError")
  BY <1>1, OutcomesAreResults
<1>4. TypeOK'
  BY <1>2, <1>3 DEF TypeOK, chain, NoResult
<1>5. AnswerInv'
  BY <1>1, <1>2 DEF AnswerInv, chain
<1>6. SeenInv'
  <2>1. ASSUME NEW q \in o.parts, q.what \in {"tx", "receipt", "status"}
        PROVE  Tells(tx, exec, Told(q))
    BY <1>2, <2>1, OutcomesTell, TxIsOnChain DEF AnswerInv
  <2> QED BY <1>1, <1>2, <2>1 DEF SeenInv, chain
<1> QED BY <1>4, <1>5, <1>6

\* The next call of the caller keeps ProviderInv.
LEMMA GoOnStep ==
  ASSUME ProviderInv, GoOn
  PROVE  ProviderInv'
BY DEF ProviderInv, TypeOK, AnswerInv, SeenInv, GoOn, chain, NoReply, Reply, NoResult, Value

\* A move of the chain keeps ProviderInv.
LEMMA MoveOnStep ==
  ASSUME ProviderInv, MoveOn
  PROVE  ProviderInv'
BY DEF ProviderInv, TypeOK, AnswerInv, SeenInv, MoveOn, Stages

\* A step that changes nothing keeps ProviderInv.
LEMMA ProviderStutter ==
  ASSUME ProviderInv, UNCHANGED vars
  PROVE  ProviderInv'
BY DEF ProviderInv, TypeOK, AnswerInv, SeenInv, vars, chain
-----------------------------------------------------------------------------
(* The theorems.                                                           *)

\* ProviderInv holds in every state: the invariant that the others follow from.
THEOREM ProviderInvariant == Spec => []ProviderInv
<1>1. ProviderInv /\ [Next]_vars => ProviderInv'
  BY CallStep, AnswerStep, ReturnStep, GoOnStep, MoveOnStep, ProviderStutter DEF Next
<1> QED BY InitProviderInv, <1>1, PTL DEF Spec

\* Type correctness: in particular the callers' assertions of an error to *RPCError hold.
THEOREM ProviderTypes == Spec => []TypeOK
<1>1. ProviderInv => TypeOK
  BY DEF ProviderInv
<1> QED BY ProviderInvariant, <1>1, PTL

\* tryUnwrapToRPCErr with the lists of each method: no refusal of the node turns into
\* a result or into another refusal, and none that is listed is lost.
THEOREM RefusalsKept == Spec => []RefusalsKeepTheirMeaning
<1>1. ProviderInv => RefusalsKeepTheirMeaning
  <2> SUFFICES ASSUME ProviderInv, pc = "returned", reply.kind = "error"
               PROVE  RefusalsKeepTheirMeaning
    BY DEF RefusalsKeepTheirMeaning
  <2>1. PICK c \in NodeCodes, w \in {"defined", "other"} : reply.err = NodeError(c, w)
    BY DEF ProviderInv, AnswerInv
  <2>2. method \in Methods
    BY DEF ProviderInv, TypeOK
  <2>3. result = Fails(HandOn(method, NodeError(c, w)))
    BY <2>1 DEF ProviderInv, AnswerInv, Outcomes
  <2>4. result.kind = "error" /\ result.err = HandOn(method, NodeError(c, w))
    BY <2>3 DEF Fails
  <2>5. reply.err.code = c /\ reply.err.message = w
    BY <2>1 DEF NodeError
  <2> QED BY <2>2, <2>4, <2>5, RefusalHandedOn DEF RefusalsKeepTheirMeaning
<1> QED BY ProviderInvariant, <1>1, PTL

\* Every method that tells of the transaction, at whatever stages it is called: the
\* readers of one transaction are never told different things of it.
THEOREM AllReadingsAgree == Spec => []ReadingsAgree
<1>1. ASSUME SeenInv, NEW p \in seen, NEW q \in seen
      PROVE  /\ p.what = q.what /\ p.what # "status" => p = q
             /\ "" \in {p.says[1], q.says[1]} \/ p.says = q.says
  <2> DEFINE r == Part("receipt", tx.type, 0, <<exec>>,
                       SentReceipt(tx, exec, "pending").fields \ BlockInfo)
             g == Told(GoTxn(tx))
  <2>1. g.what = "tx" /\ g.says = <<"">>
    <3>1. SentTxn(tx).what = "tx" /\ SentTxn(tx).says = <<"">>
      BY DEF SentTxn, Part
    <3>2. GoTxn(tx).what = "tx" /\ GoTxn(tx).says = <<"">>
      BY <3>1 DEF GoTxn, As, Part
    <3>3. g.what = "tx" /\ g.says = SubSeq(GoTxn(tx).says, 1, 1)
      BY <3>2 DEF Told, Part
    <3>4. SubSeq(GoTxn(tx).says, 1, 1) = <<GoTxn(tx).says[1]>>
      BY FirstOnly
    <3>5. <<GoTxn(tx).says[1]>> = <<"">>
      <4> DEFINE x == <<"">>
      <4>1. x[1] = ""
        OBVIOUS
      <4> HIDE DEF x
      <4>2. GoTxn(tx).says[1] = ""
        BY <3>2, <4>1 DEF x
      <4> QED BY <4>2
    <3> QED BY <3>3, <3>4, <3>5
  <2>2. r.what = "receipt" /\ r.says = <<exec>>
    BY DEF Part
  <2>3. ASSUME NEW x \in {p, q}
        PROVE  \/ x = g
               \/ x = r
               \/ x.what = "status" /\ x.says \in {<<"">>, <<exec>>}
    <3>1. Tells(tx, exec, x)
      BY <1>1 DEF SeenInv
    <3> QED BY <3>1 DEF Tells
  <2> HIDE DEF g, r
  <2>4. ASSUME NEW x \in {p, q} PROVE x.says = <<"">> \/ x.says = <<exec>>
    BY <2>1, <2>2, <2>3
  <2>5. p.what = q.what /\ p.what # "status" => p = q
    <3>1. /\ p.what = "status" \/ p = g \/ p = r
          /\ q.what = "status" \/ q = g \/ q = r
      BY <2>3
    <3>2. g.what # r.what
      BY <2>1, <2>2
    <3> QED BY <3>1, <3>2
  <2>6. <<"">>[1] = ""
    OBVIOUS
  <2> QED BY <2>4, <2>5, <2>6
<1>2. ProviderInv => ReadingsAgree
  BY <1>1 DEF ProviderInv, ReadingsAgree
<1> QED BY ProviderInvariant, <1>2, PTL

\* A result that was decoded from an object, and the parts it came from.
LEMMA ObjectsAreRead ==
  ASSUME ProviderInv, pc = "returned", reply.kind = "object"
  PROVE  /\ result = Decode(method, reply.object)
         /\ \E s \in Stages : \A p \in reply.object :
              SentPart(method, tx, exec, s, p) /\ ReadOrNot(method, tx, exec, p)
<1>1. result \in Outcomes(method, reply)
  BY DEF ProviderInv, AnswerInv
<1>2. Outcomes(method, reply) = {Decode(method, reply.object)}
  BY Zenon DEF Outcomes
<1>3. PICK s \in Stages : reply.object \in Objects(method, tx, exec, s)
  BY DEF ProviderInv, AnswerInv
<1>4. \A p \in reply.object : SentPart(method, tx, exec, s, p)
  BY <1>3, SentParts
<1>5. \A p \in reply.object : ReadOrNot(method, tx, exec, p)
  BY <1>4, PartsRead, TxIsOnChain DEF ProviderInv
<1> QED BY <1>1, <1>2, <1>4, <1>5

\* A correct answer ends in an error only if it is one of the four that cannot be
\* read; otherwise what is returned is what the node sent, part by part, but for the
\* fields that the Go types have no place for.
THEOREM ReadAsSent == Spec => []ReadsWhatWasSent
<1>1. ASSUME ProviderInv, pc = "returned", reply.kind = "object", result.kind # "error",
             NEW p \in reply.object
      PROVE  \E q \in result.parts : IsReadOf(method, p, q)
  <2>1. result = Decode(method, reply.object) /\ ReadOrNot(method, tx, exec, p)
    BY <1>1, ObjectsAreRead
  <2>2. Unreadable(method).kind = "error" /\ \A parts : Value("value", parts).parts = parts
    BY DEF Unreadable, Fails, Value
  <2>3. /\ DecodePart(method, p) # {}
        /\ result.parts = UNION {DecodePart(method, r) : r \in reply.object}
    BY <1>1, <2>1, <2>2 DEF Decode
  <2>4. PICK q : DecodePart(method, p) = {q} /\ ReadWell(method, tx, exec, p, q)
    BY <2>1, <2>3 DEF ReadOrNot
  <2>5. q \in result.parts
    BY <2>3, <2>4
  <2> QED BY <2>4, <2>5 DEF ReadWell
<1>2. ASSUME ProviderInv, pc = "returned", reply.kind = "object", result.kind = "error"
      PROVE  KnownUnreadable
  <2>1. PICK s \in Stages : \A p \in reply.object :
          SentPart(method, tx, exec, s, p) /\ ReadOrNot(method, tx, exec, p)
    BY <1>2, ObjectsAreRead
  <2>2. PICK p \in reply.object : DecodePart(method, p) = {}
    <3>1. \A parts : Value("value", parts).kind # "error"
      BY DEF Value
    <3>2. result = Decode(method, reply.object)
      BY <1>2, ObjectsAreRead
    <3> QED BY <1>2, <3>1, <3>2 DEF Decode
  <2>3. CannotRead(method, tx, p)
    BY <2>1, <2>2 DEF ReadOrNot
  <2>4. CASE method = "TransactionReceipt" /\ "block_hash" \notin p.fields
    <3>1. \A r \in reply.object : r = InfoReceipt(tx, exec, s)
      BY <2>1, <2>4 DEF SentPart, WithTx, WithBlock, WithClass
    <3>2. \A r \in reply.object : "block_hash" \notin r.fields
      BY <2>4, <3>1
    <3> QED BY <2>4, <3>2 DEF KnownUnreadable
  <2>5. CASE ~(method = "TransactionReceipt" /\ "block_hash" \notin p.fields)
    BY <2>3, <2>5 DEF CannotRead, KnownUnreadable
  <2> QED BY <2>4, <2>5
<1>3. ProviderInv => ReadsWhatWasSent
  BY <1>1, <1>2 DEF ReadsWhatWasSent, IsReadOf
<1> QED BY ProviderInvariant, <1>3, PTL
-----------------------------------------------------------------------------
(* The chain id cache.                                                     *)

\* Where a call is that reads the cache or has read it.
Reading == {"load", "bytes", "account", "crashed"}

\* Nothing has been asked before "request"; what is stored or read last is complete;
\* a word that a call has stored is not empty.
CallInv ==
  \A c \in Callers :
    /\ callPc[c] \in {"start", "request"} => raw[c] = NoId
    /\ callPc[c] = "start" => settled[c] = NoId /\ ~late[c]
    /\ callPc[c] \in {"bytes", "account", "crashed"} => todo[c] = {}
    /\ callPc[c] = "store" =>
         raw[c] # NoId /\ \A w \in Words \ todo[c] : chainID[w] # NoId
    /\ callPc[c] \in Reading /\ raw[c] # NoId => \A w \in Words : chainID[w] # NoId

\* A call that reads the cache has seen a length, and what it has read is there still.
ReadInv ==
  \A c \in Callers : callPc[c] \in Reading =>
    /\ chainID["len"] # NoId
    /\ "len" \notin todo[c] => got[c]["len"] # NoId
    /\ \A w \in Words \ todo[c] : got[c][w] # NoId => chainID[w] # NoId
    /\ callPc[c] = "account" => got[c]["ptr"] # NoId

\* Until the node is restarted there is one id.
OneIdInv ==
  restarts = 0 =>
    /\ \A w \in Words : chainID[w] \in {NoId, nodeId}
    /\ \A c \in Callers : raw[c] \in {NoId, nodeId}

\* A late call reads a cache in which both words are set.
LateInv ==
  \A c \in Callers : late[c] =>
    /\ callPc[c] \in Reading /\ raw[c] = NoId
    /\ \A w \in Words : chainID[w] # NoId
    /\ restarts = 0 => \A w \in Words \ todo[c] : got[c][w] = nodeId

\* A call that begins on a settled cache reads the id that is settled.
SettledInv ==
  \A c \in Callers : settled[c] # NoId =>
    /\ callPc[c] \in Reading /\ raw[c] = NoId
    /\ Filling = {}
    /\ \A w \in Words : chainID[w] = settled[c]
    /\ \A w \in Words \ todo[c] : got[c][w] = settled[c]

CacheInv == CacheTypeOK /\ CallInv /\ ReadInv /\ OneIdInv /\ LateInv /\ SettledInv

LEMMA InitCacheInv == CacheInit => CacheInv
BY CacheAssumption DEF CacheInit, CacheInv, CacheTypeOK, CallInv, ReadInv, OneIdInv, LateInv,
   SettledInv, Strings, EmptyString, Words, Reading
-----------------------------------------------------------------------------
(* One lemma for each action, one step in it for each part of CacheInv.    *)

\* A finished call has read both words: the length is never empty, and the bytes of
\* an account are not copied from the nil pointer.
LEMMA AccountFillsCache ==
  ASSUME CacheInv, NEW d \in Callers, callPc[d] = "account"
  PROVE  \A w \in Words : chainID[w] # NoId
BY DEF CacheInv, CallInv, ReadInv, Reading, Words

LEMMA CheckStep ==
  ASSUME CacheInv, NEW c \in Callers, Check(c)
  PROVE  CacheInv'
<1> USE DEF CacheInv, Check
<1>1. CacheTypeOK'
  <2>1. callPc' \in [Callers -> {"start", "request", "store", "load", "bytes", "account",
                                 "crashed", "error", "panicked"}]
    BY DEF CacheTypeOK
  <2>2. settled' \in [Callers -> ChainIds \cup {NoId}]
    BY DEF CacheTypeOK, Strings, Words
  <2>3. late' \in [Callers -> BOOLEAN] /\ todo' \in [Callers -> SUBSET Words]
    BY DEF CacheTypeOK
  <2> QED BY <2>1, <2>2, <2>3 DEF CacheTypeOK
<1>2. CallInv'
  BY CacheAssumption DEF CacheTypeOK, CallInv, Reading
<1>3. ReadInv'
  BY CacheAssumption DEF CacheTypeOK, Strings, CallInv, ReadInv, Reading, Words
<1>4. OneIdInv'
  BY DEF OneIdInv
<1>5. LateInv'
  <2>1. ASSUME late'[c]
        PROVE  \A w \in Words : chainID[w] # NoId
    BY <2>1, AccountFillsCache DEF CacheTypeOK
  <2>2. late'[c] => callPc'[c] = "load" /\ todo'[c] = Words /\ raw[c] = NoId
    BY <2>1 DEF CacheTypeOK, CallInv, Words
  <2>3. ASSUME NEW d \in Callers \ {c}
        PROVE  late'[d] = late[d] /\ callPc'[d] = callPc[d] /\ todo'[d] = todo[d]
    BY DEF CacheTypeOK
  <2> QED BY <2>1, <2>2, <2>3 DEF LateInv, Reading
<1>6. SettledInv'
  <2>1. ASSUME settled'[c] # NoId
        PROVE  /\ Filling = {} /\ callPc'[c] = "load" /\ todo'[c] = Words /\ raw[c] = NoId
               /\ \A w \in Words : chainID[w] = settled'[c]
    BY <2>1 DEF CacheTypeOK, CallInv, Whole, Words
  <2>2. ASSUME NEW d \in Callers, settled'[d] # NoId
        PROVE  chainID["len"] # NoId /\ Filling = {}
    <3>1. CASE d = c
      BY <2>1, <2>2, <3>1 DEF Words
    <3>2. CASE d # c
      BY <2>2, <3>2 DEF CacheTypeOK, SettledInv, Words
    <3> QED BY <3>1, <3>2
  <2>3. ASSUME NEW d \in Callers, settled'[d] # NoId PROVE Filling' = {}
    BY <2>2, <2>3 DEF CacheTypeOK, Filling
  <2>4. ASSUME NEW d \in Callers \ {c}
        PROVE  settled'[d] = settled[d] /\ callPc'[d] = callPc[d] /\ todo'[d] = todo[d]
    BY DEF CacheTypeOK
  <2> QED BY <2>1, <2>3, <2>4 DEF SettledInv, Reading
<1> QED BY <1>1, <1>2, <1>3, <1>4, <1>5, <1>6

LEMMA ChainIdAnswerStep ==
  ASSUME CacheInv, NEW c \in Callers, ChainIdAnswer(c)
  PROVE  CacheInv'
<1> USE DEF CacheInv, ChainIdAnswer
<1>1. CacheTypeOK'
  BY DEF CacheTypeOK
<1>2. CallInv'
  BY CacheAssumption DEF CacheTypeOK, CallInv, Reading
<1>3. ReadInv'
  BY DEF CacheTypeOK, ReadInv, Reading
<1>4. OneIdInv'
  BY DEF CacheTypeOK, OneIdInv
<1>5. LateInv'
  BY DEF CacheTypeOK, LateInv, Reading
<1>6. SettledInv'
  BY DEF CacheTypeOK, SettledInv, Reading, Filling
<1> QED BY <1>1, <1>2, <1>3, <1>4, <1>5, <1>6

LEMMA RequestFailsStep ==
  ASSUME CacheInv, NEW c \in Callers, RequestFails(c)
  PROVE  CacheInv'
<1> USE DEF CacheInv, RequestFails
<1>1. CacheTypeOK'
  BY DEF CacheTypeOK
<1>2. CallInv' /\ ReadInv' /\ OneIdInv' /\ LateInv'
  BY DEF CacheTypeOK, CallInv, ReadInv, OneIdInv, LateInv, Reading
<1>3. SettledInv'
  BY DEF CacheTypeOK, SettledInv, Reading, Filling
<1> QED BY <1>1, <1>2, <1>3

LEMMA NoHexAnswerStep ==
  ASSUME CacheInv, NEW c \in Callers, NoHexAnswer(c)
  PROVE  CacheInv'
<1> USE DEF CacheInv, NoHexAnswer
<1>1. CacheTypeOK'
  BY DEF CacheTypeOK
<1>2. CallInv' /\ ReadInv' /\ OneIdInv' /\ LateInv'
  BY DEF CacheTypeOK, CallInv, ReadInv, OneIdInv, LateInv, Reading
<1>3. SettledInv'
  BY DEF CacheTypeOK, SettledInv, Reading, Filling
<1> QED BY <1>1, <1>2, <1>3

\* A store sets a word, and empties none; nobody stores into a settled cache.
LEMMA StoreStep ==
  ASSUME CacheInv, NEW c \in Callers, Store(c)
  PROVE  CacheInv'
<1> USE DEF CacheInv
<1>1. PICK w \in todo[c] :
        /\ chainID' = [chainID EXCEPT ![w] = raw[c]]
        /\ IF todo[c] = {w}
           THEN /\ callPc' = [callPc EXCEPT ![c] = "load"]
                /\ todo' = [todo EXCEPT ![c] = Words]
           ELSE /\ todo' = [todo EXCEPT ![c] = @ \ {w}]
                /\ UNCHANGED callPc
  BY DEF Store
<1>2. callPc[c] = "store" /\ UNCHANGED <<nodeId, restarts, raw, got, late, settled>>
  BY DEF Store
<1>3. w \in Words /\ raw[c] # NoId /\ raw[c] \in ChainIds
  BY <1>1, <1>2 DEF CacheTypeOK, CallInv
<1>4. \A v \in Words : chainID'[v] = IF v = w THEN raw[c] ELSE chainID[v]
  BY <1>1, <1>3 DEF CacheTypeOK, Strings
<1>5. CacheTypeOK'
  <2>1. chainID' \in Strings
    BY <1>1, <1>3 DEF CacheTypeOK, Strings
  <2> QED BY <1>1, <1>2, <2>1 DEF CacheTypeOK
<1>6. CallInv'
  <2> SUFFICES ASSUME NEW d \in Callers
               PROVE  /\ callPc'[d] \in {"start", "request"} => raw[d] = NoId
                      /\ callPc'[d] = "start" => settled[d] = NoId /\ ~late[d]
                      /\ callPc'[d] \in {"bytes", "account", "crashed"} => todo'[d] = {}
                      /\ callPc'[d] = "store" =>
                           raw[d] # NoId /\ \A v \in Words \ todo'[d] : chainID'[v] # NoId
                      /\ callPc'[d] \in Reading /\ raw[d] # NoId =>
                           \A v \in Words : chainID'[v] # NoId
    BY <1>2 DEF CallInv
  <2>1. CASE d # c
    BY <1>1, <1>3, <1>4, <2>1 DEF CacheTypeOK, CallInv
  <2>2. CASE d = c
    BY <1>1, <1>2, <1>3, <1>4, <2>2 DEF CacheTypeOK, CallInv, Words
  <2> QED BY <2>1, <2>2
<1>7. ReadInv'
  <2> SUFFICES ASSUME NEW d \in Callers, callPc'[d] \in Reading
               PROVE  /\ chainID'["len"] # NoId
                      /\ "len" \notin todo'[d] => got[d]["len"] # NoId
                      /\ \A v \in Words \ todo'[d] : got[d][v] # NoId => chainID'[v] # NoId
                      /\ callPc'[d] = "account" => got[d]["ptr"] # NoId
    BY <1>2 DEF ReadInv
  <2>1. CASE d # c
    BY <1>1, <1>3, <1>4, <2>1 DEF CacheTypeOK, ReadInv, Words
  <2>2. CASE d = c
    <3>1. callPc'[c] = "load" /\ todo'[c] = Words /\ todo[c] = {w}
      BY <1>1, <1>2, <2>2 DEF CacheTypeOK, Reading
    <3> QED BY <1>2, <1>3, <1>4, <2>2, <3>1 DEF CallInv, Words
  <2> QED BY <2>1, <2>2
<1>8. OneIdInv'
  BY <1>2, <1>3, <1>4 DEF OneIdInv
<1>9. LateInv'
  BY <1>1, <1>2, <1>3, <1>4 DEF CacheTypeOK, LateInv, Reading
<1>10. SettledInv'
  BY <1>2 DEF CacheTypeOK, SettledInv, Filling
<1> QED BY <1>5, <1>6, <1>7, <1>8, <1>9, <1>10

LEMMA LoadStep ==
  ASSUME CacheInv, NEW c \in Callers, Load(c)
  PROVE  CacheInv'
<1> USE DEF CacheInv
<1>1. PICK w \in todo[c] : \E v \in Readable(c, w) :
        /\ got' = [got EXCEPT ![c][w] = v]
        /\ todo' = [todo EXCEPT ![c] = @ \ {w}]
        /\ callPc' = [callPc EXCEPT ![c] = IF todo[c] = {w} THEN "bytes" ELSE "load"]
  BY DEF Load
<1>2. PICK v \in Readable(c, w) :
        /\ got' = [got EXCEPT ![c][w] = v]
        /\ todo' = [todo EXCEPT ![c] = @ \ {w}]
        /\ callPc' = [callPc EXCEPT ![c] = IF todo[c] = {w} THEN "bytes" ELSE "load"]
  BY <1>1
<1>3. /\ callPc[c] = "load"
      /\ UNCHANGED <<nodeId, restarts, chainID, raw, late, settled>>
  BY DEF Load
<1>4. w \in Words /\ v \in ChainIds \cup {NoId}
  BY <1>2 DEF CacheTypeOK, Strings, Readable
<1>5. \A x \in Words : got'[c][x] = IF x = w THEN v ELSE got[c][x]
  BY <1>2, <1>4 DEF CacheTypeOK, Strings
<1>6. /\ v # NoId => chainID[w] # NoId
      /\ w = "len" => v # NoId
      /\ raw[c] = NoId => v = chainID[w]
  BY <1>3, <1>4 DEF CallInv, ReadInv, Reading, Readable
<1>7. CacheTypeOK'
  <2>1. got' \in [Callers -> Strings]
    BY <1>2, <1>4 DEF CacheTypeOK, Strings
  <2> QED BY <1>2, <1>3, <2>1 DEF CacheTypeOK
<1>8. CallInv'
  BY <1>2, <1>3 DEF CacheTypeOK, CallInv, Reading
<1>9. ReadInv'
  <2> SUFFICES ASSUME NEW d \in Callers, callPc'[d] \in Reading
               PROVE  /\ chainID["len"] # NoId
                      /\ "len" \notin todo'[d] => got'[d]["len"] # NoId
                      /\ \A x \in Words \ todo'[d] : got'[d][x] # NoId => chainID[x] # NoId
                      /\ callPc'[d] = "account" => got'[d]["ptr"] # NoId
    BY <1>3 DEF ReadInv
  <2>1. CASE d # c
    BY <1>2, <2>1 DEF CacheTypeOK, ReadInv
  <2>2. CASE d = c
    BY <1>2, <1>3, <1>5, <1>6, <2>2 DEF CacheTypeOK, ReadInv, Reading, Words
  <2> QED BY <2>1, <2>2
<1>10. OneIdInv'
  BY <1>3 DEF OneIdInv
<1>11. LateInv'
  <2>1. ASSUME NEW d \in Callers \ {c}
        PROVE  got'[d] = got[d] /\ callPc'[d] = callPc[d] /\ todo'[d] = todo[d]
    BY <1>2 DEF CacheTypeOK
  <2>2. ASSUME late[c], restarts = 0
        PROVE  \A x \in Words \ todo'[c] : got'[c][x] = nodeId
    BY <1>2, <1>4, <1>5, <1>6, <2>2 DEF CacheTypeOK, LateInv, OneIdInv
  <2>3. callPc'[c] \in Reading
    BY <1>2 DEF CacheTypeOK, Reading
  <2> QED BY <1>3, <2>1, <2>2, <2>3 DEF LateInv
<1>12. SettledInv'
  <2>1. ASSUME NEW d \in Callers \ {c}
        PROVE  got'[d] = got[d] /\ callPc'[d] = callPc[d] /\ todo'[d] = todo[d]
    BY <1>2 DEF CacheTypeOK
  <2>2. ASSUME settled[c] # NoId
        PROVE  \A x \in Words \ todo'[c] : got'[c][x] = settled[c]
    BY <1>2, <1>4, <1>5, <1>6, <2>2 DEF CacheTypeOK, SettledInv
  <2>3. callPc'[c] \in {"load", "bytes"} /\ (Filling = {} => Filling' = {})
    BY <1>2, <1>3 DEF CacheTypeOK, Filling
  <2> QED BY <1>3, <2>1, <2>2, <2>3 DEF SettledInv, Reading
<1> QED BY <1>7, <1>8, <1>9, <1>10, <1>11, <1>12

LEMMA MakeAccountStep ==
  ASSUME CacheInv, NEW c \in Callers, MakeAccount(c)
  PROVE  CacheInv'
<1> USE DEF CacheInv, MakeAccount
<1>1. CacheTypeOK'
  BY DEF CacheTypeOK
<1>2. CallInv' /\ OneIdInv' /\ LateInv'
  BY DEF CacheTypeOK, CallInv, OneIdInv, LateInv, Reading
<1>3. ReadInv'
  BY DEF CacheTypeOK, CallInv, ReadInv, Reading
<1>4. SettledInv'
  BY DEF CacheTypeOK, SettledInv, Reading, Filling
<1> QED BY <1>1, <1>2, <1>3, <1>4

LEMMA RestartStep ==
  ASSUME CacheInv, Restart
  PROVE  CacheInv'
<1> USE DEF CacheInv, Restart
<1>1. CacheTypeOK' /\ restarts' # 0
  BY CacheAssumption DEF CacheTypeOK
<1>2. CallInv' /\ ReadInv' /\ SettledInv'
  BY DEF CallInv, ReadInv, SettledInv, Filling
<1>3. OneIdInv' /\ LateInv'
  BY <1>1 DEF OneIdInv, LateInv
<1> QED BY <1>1, <1>2, <1>3

LEMMA CacheStutter ==
  ASSUME CacheInv, UNCHANGED cacheVars
  PROVE  CacheInv'
BY DEF cacheVars, CacheInv, CacheTypeOK, CallInv, ReadInv, OneIdInv, LateInv, SettledInv, Filling
-----------------------------------------------------------------------------
(* The theorems.                                                           *)

\* CacheInv holds in every state: the invariant that the others follow from.
THEOREM CacheInvariant == CacheSpec => []CacheInv
<1>1. CacheInv /\ [CacheNext]_cacheVars => CacheInv'
  BY CheckStep, ChainIdAnswerStep, RequestFailsStep, NoHexAnswerStep, StoreStep, LoadStep,
     MakeAccountStep, RestartStep, CacheStutter DEF CacheNext, CallerStep
<1> QED BY InitCacheInv, <1>1, PTL DEF CacheSpec

\* Type correctness: the two words of the cached string are ids, or empty.
THEOREM CacheTypes == CacheSpec => []CacheTypeOK
<1>1. CacheInv => CacheTypeOK
  BY DEF CacheInv
<1> QED BY CacheInvariant, <1>1, PTL

\* Accounts made after the cache has settled have the settled ChainId, whatever the
\* node has become.
THEOREM SettledCacheStable == CacheSpec => []SettledCacheIsStable
<1>1. CacheInv => SettledCacheIsStable
  <2> SUFFICES ASSUME CacheInv, NEW c \in Callers, settled[c] # NoId, callPc[c] = "account"
               PROVE  got[c] = [w \in Words |-> settled[c]]
    BY DEF SettledCacheIsStable
  <2>1. todo[c] = {} /\ \A w \in Words : got[c][w] = settled[c]
    BY DEF CacheInv, CallInv, SettledInv
  <2>2. got[c] = [w \in Words |-> got[c][w]]
    BY DEF CacheInv, CacheTypeOK, Strings
  <2> QED BY <2>1, <2>2
<1> QED BY CacheInvariant, <1>1, PTL

\* A call that begins after an account was made takes what is cached, and on one
\* chain that is the whole id.
THEOREM LateIdWhole == CacheSpec => []LateIdIsWhole
<1>1. CacheInv => LateIdIsWhole
  <2> SUFFICES ASSUME CacheInv, NEW c \in Callers, late[c]
               PROVE  /\ callPc[c] \notin {"request", "store", "error", "panicked"}
                      /\ restarts = 0 /\ callPc[c] \in {"bytes", "account", "crashed"} =>
                           got[c] = [w \in Words |-> nodeId]
    BY DEF LateIdIsWhole
  <2>1. callPc[c] \notin {"request", "store", "error", "panicked"}
    BY DEF CacheInv, LateInv, Reading
  <2>2. ASSUME restarts = 0, callPc[c] \in {"bytes", "account", "crashed"}
        PROVE  \A w \in Words : got[c][w] = nodeId
    BY <2>2 DEF CacheInv, CallInv, LateInv
  <2>3. got[c] = [w \in Words |-> got[c][w]]
    BY DEF CacheInv, CacheTypeOK, Strings
  <2> QED BY <2>1, <2>2, <2>3
<1> QED BY CacheInvariant, <1>1, PTL
=============================================================================
