------------------------- MODULE ReceiptWait_proofs -------------------------
(***************************************************************************)
(* Proofs about ReceiptWait, for any number of waits and transactions and  *)
(* any bound MaxBlock: type correctness, that a returned receipt was true  *)
(* during the wait, that the unchecked type assertion never fails, that    *)
(* "not found" never ends a wait, and that every step is a step of         *)
(* ReceiptPromise.                                                         *)
(***************************************************************************)
EXTENDS ReceiptWait, TLAPS

(***************************************************************************)
(* The fields of the records.                                              *)
(***************************************************************************)
LEMMA LocalErrorFields == LocalError.code = 0 /\ LocalError.type = "local"
  BY DEF LocalError

LEMMA NodeErrorFields ==
  ASSUME NEW c, NEW m
  PROVE  NodeError(c, m).code = c /\ NodeError(c, m).message = m
  BY DEF NodeError

LEMMA RPCErrorFields ==
  ASSUME NEW c, NEW m, NEW d
  PROVE  /\ RPCError(c, m, d).code = c
         /\ RPCError(c, m, d).message = m
         /\ RPCError(c, m, d).type = "RPCError"
  BY DEF RPCError

LEMMA HashNotFoundFields ==
  /\ ErrHashNotFound.code = 29
  /\ ErrHashNotFound.message = "TransactionHashNotFound"
  BY RPCErrorFields DEF ErrHashNotFound

LEMMA ReplyFields ==
  /\ \A e : Answered(e).kind = "error" /\ Answered(e).err = e
  /\ \A b : /\ Receipt(b).kind = "receipt"
            /\ Receipt(b).block = b
            /\ Receipt(b).err = LocalError
  /\ NoReply.kind = "none" /\ NoReply.err = LocalError
  /\ CtxError.kind = "ctx" /\ CtxError.err = LocalError
  /\ Lost.kind = "lost" /\ Lost.err = LocalError
  /\ Null.kind = "null" /\ Null.err = LocalError
  /\ Malformed.kind = "malformed" /\ Malformed.err = LocalError
  BY DEF Answered, Receipt, NoReply, CtxError, Lost, Null, Malformed

LEMMA ErrInternal ==
  ASSUME NEW d
  PROVE  Err(InternalError, d) = RPCError(InternalError, "InternalError", d)
  BY DEF Err, InternalError, InvalidJSON, InvalidRequest, MethodNotFound, InvalidParams

\* InternalError is an RPCError that the loop does not take for ErrHashNotFound.
LEMMA InternalErrorIsFinal ==
  ASSUME NEW d
  PROVE  /\ Err(InternalError, d).type = "RPCError"
         /\ ~IsHashNotFound(Err(InternalError, d))
<1>1. /\ Err(InternalError, d).type = "RPCError"
      /\ Err(InternalError, d).code = InternalError
  BY ErrInternal, RPCErrorFields
<1>2. QED
  BY <1>1, HashNotFoundFields DEF InternalError, IsHashNotFound
-----------------------------------------------------------------------------
(***************************************************************************)
(* What TransactionReceipt makes of a reply.                               *)
(***************************************************************************)
LEMMA DoErrors ==
  ASSUME NEW r \in Replies
  PROVE  IF r = NotFound
         THEN DoError(r).code = 29 /\ DoError(r).message = "TransactionHashNotFound"
         ELSE DoError(r).code # 29 \/ DoError(r).message # "TransactionHashNotFound"
<1>1. CASE r = NotFound
  BY <1>1, ReplyFields, NodeErrorFields, HashNotFoundFields DEF NotFound, DoError
<1>2. CASE r \in {NoReply, CtxError, Lost, Null, Malformed}
  BY <1>2, ReplyFields, LocalErrorFields DEF NotFound, DoError
<1>3. CASE r = Answered(NodeError(InternalError, "internalError"))
  <2>1. DoError(r).code = InternalError
    BY <1>3, ReplyFields, NodeErrorFields DEF DoError
  <2>2. QED
    BY <1>1, <2>1 DEF InternalError
<1>4. CASE r = Answered(NodeError(ErrHashNotFound.code, "TransactionNotFound"))
  <2>1. DoError(r).message = "TransactionNotFound"
    BY <1>4, ReplyFields, NodeErrorFields DEF DoError
  <2>2. QED
    BY <1>1, <2>1
<1>5. CASE \E b \in 0..MaxBlock : r = Receipt(b)
  BY <1>5, ReplyFields, LocalErrorFields DEF NotFound, DoError
<1>6. QED
  BY <1>1, <1>2, <1>3, <1>4, <1>5 DEF Replies, Faults

\* The result null and a receipt of an accepted transaction decode, nothing else.
LEMMA DecodedReply ==
  ASSUME NEW r \in Replies, Decodes(r)
  PROVE  \/ r = Null /\ r.kind # "receipt"
         \/ r # Null /\ r.kind = "receipt" /\ r.block \in 1..MaxBlock
<1>1. r.kind = "null" \/ (r.kind = "receipt" /\ r.block # 0)
  BY DEF Decodes
<1>2. r = Null \/ \E b \in 0..MaxBlock : r = Receipt(b)
  <2>1. r \notin {NoReply, NotFound, CtxError} \cup (Faults \ {Null})
    BY <1>1, ReplyFields DEF NotFound, Faults
  <2>2. QED
    BY <2>1 DEF Replies
<1>3. QED
  BY <1>1, <1>2, ReplyFields, WaitAssumption

\* A receipt with a block or an empty one, ErrHashNotFound for the node's "not
\* found", InternalError for everything else.
LEMMA UnwrapCases ==
  ASSUME NEW r \in Replies
  PROVE  /\ TransactionReceipt(r).failed <=> ~Decodes(r)
         /\ Decodes(r) =>
              /\ TransactionReceipt(r).block = r.block
              /\ TransactionReceipt(r).filled <=> r # Null
         /\ r = NotFound =>
              /\ ~Decodes(r)
              /\ TransactionReceipt(r).err.type = "RPCError"
              /\ IsHashNotFound(TransactionReceipt(r).err)
         /\ ~Decodes(r) /\ r # NotFound =>
              TransactionReceipt(r).err = Err(InternalError, "text")
<1>1. CASE Decodes(r)
  <2>1. r # NotFound
    BY <1>1, ReplyFields DEF NotFound, Decodes
  <2>2. /\ TransactionReceipt(r).block = r.block
        /\ TransactionReceipt(r).filled <=> r.kind = "receipt"
        /\ ~TransactionReceipt(r).failed
    BY <1>1 DEF TransactionReceipt
  <2>3. QED
    BY <1>1, <2>1, <2>2, DecodedReply
<1>2. CASE ~Decodes(r)
  <2>1. /\ TransactionReceipt(r).failed
        /\ TransactionReceipt(r).err = TryUnwrapToRPCErr(DoError(r), {ErrHashNotFound})
    BY <1>2 DEF TransactionReceipt
  <2>2. CASE r = NotFound
    <3>1. TransactionReceipt(r).err
            = RPCError(29, "TransactionHashNotFound", DoError(r).data)
      BY <2>1, <2>2, DoErrors, HashNotFoundFields DEF TryUnwrapToRPCErr
    <3>2. QED
      BY <1>2, <2>1, <2>2, <3>1, RPCErrorFields, HashNotFoundFields DEF IsHashNotFound
  <2>3. CASE r # NotFound
    <3>1. TransactionReceipt(r).err = Err(InternalError, "text")
      BY <2>1, <2>3, DoErrors, HashNotFoundFields DEF TryUnwrapToRPCErr
    <3>2. QED
      BY <1>2, <2>1, <2>3, <3>1
  <2>4. QED
    BY <2>2, <2>3
<1>3. QED
  BY <1>1, <1>2

\* What the loop makes of a reply: the result of CallReturns.
LEMMA CallOutcome ==
  ASSUME NEW w \in Waiters, TypeOK, CallReturns(w)
  PROVE  \/ /\ Decodes(reply[w])
            /\ reply[w] # Null
            /\ pc' = [pc EXCEPT ![w] = "returned"]
            /\ result' = [result EXCEPT ![w] = Delivered(reply[w].block)]
         \/ /\ reply[w] = Null
            /\ pc' = [pc EXCEPT ![w] = "returned"]
            /\ result' = [result EXCEPT ![w] = Empty]
         \/ /\ reply[w] = NotFound
            /\ pc' = [pc EXCEPT ![w] = "select"]
            /\ result' = [result EXCEPT ![w] = NoResult]
         \/ /\ ~Decodes(reply[w])
            /\ reply[w] # NotFound
            /\ pc' = [pc EXCEPT ![w] = "returned"]
            /\ result' = [result EXCEPT ![w] = Failed(Err(InternalError, "text"))]
<1>. DEFINE r == TransactionReceipt(reply[w])
            again == r.failed /\ r.err.type = "RPCError" /\ IsHashNotFound(r.err)
<1>1. reply[w] \in Replies
  BY DEF TypeOK
<1>2. /\ r.failed <=> ~Decodes(reply[w])
      /\ Decodes(reply[w]) =>
           /\ r.block = reply[w].block
           /\ r.filled <=> reply[w] # Null
      /\ reply[w] = NotFound =>
           /\ ~Decodes(reply[w])
           /\ r.err.type = "RPCError"
           /\ IsHashNotFound(r.err)
      /\ ~Decodes(reply[w]) /\ reply[w] # NotFound =>
           r.err = Err(InternalError, "text")
  BY <1>1, UnwrapCases
<1>3. /\ pc' = [pc EXCEPT ![w] = IF again THEN "select" ELSE "returned"]
      /\ result' = [result EXCEPT ![w] =
              CASE again                                 -> NoResult
                [] ~r.failed /\ r.filled                 -> Delivered(r.block)
                [] ~r.failed /\ ~r.filled                -> Empty
                [] r.failed /\ r.err.type # "RPCError"   -> Panic
                [] OTHER                                 -> Failed(r.err)]
  BY DEF CallReturns
<1>. HIDE DEF r
<1>4. CASE Decodes(reply[w])
  <2>1. /\ ~r.failed /\ ~again /\ r.block = reply[w].block
        /\ r.filled <=> reply[w] # Null
    BY <1>2, <1>4
  <2>. HIDE DEF again
  <2>2. QED
    BY <1>3, <1>4, <2>1
<1>5. CASE reply[w] = NotFound
  BY <1>2, <1>3, <1>5
<1>6. CASE ~Decodes(reply[w]) /\ reply[w] # NotFound
  <2>1. r.err.type = "RPCError" /\ ~IsHashNotFound(r.err)
    BY <1>2, <1>6, InternalErrorIsFinal
  <2>2. r.failed /\ ~again /\ r.err = Err(InternalError, "text")
    BY <1>2, <1>6, <2>1
  <2>. HIDE DEF again
  <2>3. QED
    BY <1>3, <1>6, <2>1, <2>2
<1>7. QED
  BY <1>4, <1>5, <1>6
-----------------------------------------------------------------------------
(***************************************************************************)
(* Type correctness.                                                       *)
(***************************************************************************)
LEMMA ReplyTypes ==
  /\ NoReply \in Replies /\ NotFound \in Replies /\ CtxError \in Replies
  /\ Faults \subseteq Replies
  /\ \A b \in 0..MaxBlock : Receipt(b) \in Replies
  BY DEF Replies

LEMMA ResultTypes ==
  /\ NoResult \in Results
  /\ \A b \in 1..MaxBlock : Delivered(b) \in Results
  /\ Empty \in Results
  /\ Failed(Err(InternalError, "ctx")) \in Results
  /\ Failed(Err(InternalError, "text")) \in Results
  BY DEF Results

LEMMA TypeStep == TypeOK /\ ChainInv /\ CallInv /\ [Next]_vars => TypeOK'
<1>. SUFFICES ASSUME TypeOK, ChainInv, CallInv, [Next]_vars PROVE TypeOK'
  OBVIOUS
<1>. USE WaitAssumption
<1>1. ASSUME NEW t \in Txs, NodeStep(t) PROVE TypeOK'
  <2>1. CASE Receive(t)
    BY <2>1 DEF TypeOK, Receive, MoveTx, TxStates, clientVars
  <2>2. CASE Reject(t)
    BY <2>2 DEF TypeOK, Reject, MoveTx, TxStates, clientVars
  <2>3. CASE Pend(t)
    BY <2>3 DEF TypeOK, Pend, MoveTx, TxStates, clientVars
  <2>4. CASE Accept(t)
    <3>1. lastBlock[t] + 1 \in 1..MaxBlock
      BY <2>4 DEF TypeOK, Accept
    <3>2. held' \in [Waiters -> SUBSET (1..MaxBlock)]
      BY <2>4, <3>1 DEF TypeOK, Accept
    <3>3. lastBlock' \in [Txs -> 0..MaxBlock]
      BY <2>4, <3>1 DEF TypeOK, Accept
    <3>4. QED
      BY <2>4, <3>2, <3>3 DEF TypeOK, Accept, MoveTx, TxStates, clientVars
  <2>5. CASE Revert(t)
    BY <2>5 DEF TypeOK, Revert, MoveTx, TxStates, clientVars
  <2>6. QED
    BY <1>1, <2>1, <2>2, <2>3, <2>4, <2>5 DEF NodeStep
<1>2. ASSUME NEW w \in Waiters, ClientStep(w) PROVE TypeOK'
  <2>1. CASE Call(w)
    <3>1. PICK t \in Txs :
            /\ hash' = [hash EXCEPT ![w] = t]
            /\ held' = [held EXCEPT ![w] =
                          IF txState[t] = "accepted" THEN {lastBlock[t]} ELSE {}]
      BY <2>1 DEF Call
    <3>2. held' \in [Waiters -> SUBSET (1..MaxBlock)]
      BY <3>1 DEF TypeOK, ChainInv
    <3>3. QED
      BY <2>1, <3>1, <3>2 DEF TypeOK, Call, nodeVars
  <2>2. CASE SelectDone(w)
    BY <2>2, ResultTypes DEF TypeOK, SelectDone, nodeVars
  <2>3. CASE SelectTick(w)
    BY <2>3, ReplyTypes DEF TypeOK, SelectTick, nodeVars
  <2>4. CASE CallReturns(w)
    <3>1. /\ result' \in [Waiters -> Results]
          /\ pc' \in [Waiters -> {"idle", "select", "calling", "returned"}]
      BY <2>4, CallOutcome, DecodedReply, ResultTypes DEF TypeOK
    <3>2. QED
      BY <2>4, <3>1 DEF TypeOK, CallReturns, nodeVars
  <2>5. QED
    BY <1>2, <2>1, <2>2, <2>3, <2>4 DEF ClientStep
<1>3. ASSUME NEW w \in Waiters, EnvStep(w) PROVE TypeOK'
  <2>1. CASE Tick(w)
    BY <2>1 DEF TypeOK, Tick, nodeVars
  <2>2. CASE NodeAnswers(w)
    <3>1. hash[w] \in Txs
      BY <2>2 DEF TypeOK, CallInv, NodeAnswers, InFlight
    <3>2. NodeAnswer(hash[w]) \in Replies
      BY <3>1, ReplyTypes DEF TypeOK, NodeAnswer
    <3>3. QED
      BY <2>2, <3>2 DEF TypeOK, NodeAnswers, nodeVars
  <2>3. CASE CallFaults(w)
    BY <2>3, ReplyTypes DEF TypeOK, CallFaults, nodeVars
  <2>4. CASE CtxAborts(w)
    BY <2>4, ReplyTypes DEF TypeOK, CtxAborts, nodeVars
  <2>5. CASE CtxEnds(w)
    BY <2>5 DEF TypeOK, CtxEnds, nodeVars, clientVars
  <2>6. QED
    BY <1>3, <2>1, <2>2, <2>3, <2>4, <2>5 DEF EnvStep
<1>4. CASE UNCHANGED vars
  BY <1>4 DEF TypeOK, vars, nodeVars, clientVars
<1>5. QED
  BY <1>1, <1>2, <1>3, <1>4 DEF Next

LEMMA TypeInit == Init => TypeOK
  BY WaitAssumption, ReplyTypes, ResultTypes DEF Init, TypeOK, TxStates
-----------------------------------------------------------------------------
(***************************************************************************)
(* The other parts of WaitInv, each with the parts it needs.               *)
(***************************************************************************)
LEMMA ChainStep == TypeOK /\ ChainInv /\ [Next]_vars => ChainInv'
<1>. SUFFICES ASSUME TypeOK, ChainInv, [Next]_vars PROVE ChainInv'
  OBVIOUS
<1>. USE WaitAssumption DEF TypeOK, ChainInv
<1>1. ASSUME NEW t \in Txs, NodeStep(t) PROVE ChainInv'
  BY <1>1 DEF NodeStep, Receive, Reject, Pend, Accept, Revert, MoveTx
<1>2. ASSUME NEW w \in Waiters, ClientStep(w) PROVE ChainInv'
  BY <1>2 DEF ClientStep, Call, SelectDone, SelectTick, CallReturns, nodeVars
<1>3. ASSUME NEW w \in Waiters, EnvStep(w) PROVE ChainInv'
  BY <1>3 DEF EnvStep, Tick, NodeAnswers, CallFaults, CtxAborts, CtxEnds, nodeVars
<1>4. CASE UNCHANGED vars
  BY <1>4 DEF vars, nodeVars
<1>5. QED
  BY <1>1, <1>2, <1>3, <1>4 DEF Next

\* The replies are told apart by their kind, and so are the results.
LEMMA DistinctReplies ==
  /\ NotFound # NoReply /\ CtxError # NoReply /\ CtxError # NotFound
  /\ \A b : Receipt(b) \notin {NoReply, NotFound, CtxError}
  /\ \A f \in Faults : f \notin {NoReply, NotFound, CtxError}
  /\ ~Decodes(NoReply) /\ ~Decodes(NotFound) /\ ~Decodes(CtxError)
  /\ Null \notin {NoReply, NotFound, CtxError} /\ \A b : Receipt(b) # Null
  /\ \A f \in Faults : f # Null => ~Decodes(f)
<1>1. \A e : Answered(e) \notin {NoReply, CtxError, Lost, Null, Malformed}
  BY ReplyFields
<1>2. Answered(NodeError(InternalError, "internalError")) # NotFound
  <2>1. NodeError(InternalError, "internalError").code # 29
    BY NodeErrorFields DEF InternalError
  <2>2. QED
    BY <2>1, ReplyFields, NodeErrorFields, HashNotFoundFields DEF NotFound
<1>3. Answered(NodeError(ErrHashNotFound.code, "TransactionNotFound")) # NotFound
  <2>1. NodeError(ErrHashNotFound.code, "TransactionNotFound").message
          # "TransactionHashNotFound"
    BY NodeErrorFields
  <2>2. QED
    BY <2>1, ReplyFields, NodeErrorFields, HashNotFoundFields DEF NotFound
<1>4. QED
  BY <1>1, <1>2, <1>3, ReplyFields DEF NotFound, Faults, Decodes

LEMMA ResultFields ==
  /\ NoResult.kind = "none" /\ Panic.kind = "panic"
  /\ \A b : Delivered(b).kind = "receipt" /\ Delivered(b).block = b
  /\ Empty.kind = "empty"
  /\ \A e : Failed(e).kind = "error" /\ Failed(e).err = e
  BY DEF NoResult, Panic, Delivered, Empty, Failed

LEMMA CallStep == TypeOK /\ CallInv /\ [Next]_vars => CallInv'
<1>. SUFFICES ASSUME TypeOK, CallInv, [Next]_vars PROVE CallInv'
  OBVIOUS
<1>. USE WaitAssumption DEF TypeOK, CallInv
<1>1. ASSUME NEW t \in Txs, NodeStep(t) PROVE CallInv'
  BY <1>1 DEF NodeStep, Receive, Reject, Pend, Accept, Revert, MoveTx, clientVars
<1>2. ASSUME NEW w \in Waiters, ClientStep(w) PROVE CallInv'
  <2>1. CASE Call(w)
    BY <2>1 DEF Call
  <2>2. CASE SelectDone(w)
    BY <2>2, ResultFields DEF SelectDone
  <2>3. CASE SelectTick(w)
    BY <2>3, DistinctReplies DEF SelectTick
  <2>4. CASE CallReturns(w)
    <3>1. /\ UNCHANGED <<ctxDone, hash, reply>>
          /\ pc[w] = "calling"
      BY <2>4 DEF CallReturns
    <3>2. QED
      BY <2>4, <3>1, CallOutcome, ResultFields
  <2>5. QED
    BY <1>2, <2>1, <2>2, <2>3, <2>4 DEF ClientStep
<1>3. ASSUME NEW w \in Waiters, EnvStep(w) PROVE CallInv'
  <2>1. CASE Tick(w)
    BY <2>1 DEF Tick
  <2>2. CASE NodeAnswers(w)
    <3>1. NodeAnswer(hash[w]) # CtxError
      BY DistinctReplies DEF NodeAnswer
    <3>2. QED
      BY <2>2, <3>1 DEF NodeAnswers, InFlight
  <2>3. CASE CallFaults(w)
    BY <2>3, DistinctReplies DEF CallFaults, InFlight
  <2>4. CASE CtxAborts(w)
    BY <2>4 DEF CtxAborts, InFlight
  <2>5. CASE CtxEnds(w)
    BY <2>5 DEF CtxEnds, clientVars
  <2>6. QED
    BY <1>3, <2>1, <2>2, <2>3, <2>4, <2>5 DEF EnvStep
<1>4. CASE UNCHANGED vars
  BY <1>4 DEF vars, clientVars
<1>5. QED
  BY <1>1, <1>2, <1>3, <1>4 DEF Next

LEMMA HistoryStep == TypeOK /\ CallInv /\ HistoryInv /\ [Next]_vars => HistoryInv'
<1>. SUFFICES ASSUME TypeOK, CallInv, HistoryInv, [Next]_vars PROVE HistoryInv'
  OBVIOUS
<1>. USE WaitAssumption DEF TypeOK, CallInv, HistoryInv
<1>1. ASSUME NEW t \in Txs, NodeStep(t) PROVE HistoryInv'
  <2>1. CASE Accept(t)
    <3>1. /\ UNCHANGED <<pc, hash, reply, result>>
          /\ txState' = [txState EXCEPT ![t] = "accepted"]
          /\ lastBlock' = [lastBlock EXCEPT ![t] = lastBlock[t] + 1]
          /\ held' = [w \in Waiters |->
                        IF hash[w] = t /\ pc[w] # "returned"
                        THEN held[w] \cup {lastBlock[t] + 1} ELSE held[w]]
      BY <2>1 DEF Accept, MoveTx, clientVars
    <3>2. \A w \in Waiters : held[w] \subseteq held'[w]
      BY <3>1
    <3>3. ASSUME NEW w \in Waiters, pc[w] \in {"select", "calling"},
                 txState'[hash[w]] = "accepted"
          PROVE  lastBlock'[hash[w]] \in held'[w]
      <4>1. CASE hash[w] = t
        BY <3>1, <3>3, <4>1
      <4>2. CASE hash[w] # t
        BY <3>1, <3>2, <3>3, <4>2
      <4>3. QED
        BY <4>1, <4>2
    <3>4. QED
      BY <3>1, <3>2, <3>3 DEF Decodes
  <2>2. CASE Receive(t) \/ Reject(t) \/ Pend(t) \/ Revert(t)
    <3>1. /\ UNCHANGED <<pc, hash, reply, result, lastBlock, held>>
          /\ \E to \in TxStates \ {"accepted"} : txState' = [txState EXCEPT ![t] = to]
      BY <2>2 DEF Receive, Reject, Pend, Revert, MoveTx, clientVars, TxStates
    <3>2. QED
      BY <3>1 DEF Decodes
  <2>3. QED
    BY <1>1, <2>1, <2>2 DEF NodeStep
<1>2. ASSUME NEW w \in Waiters, ClientStep(w) PROVE HistoryInv'
  <2>1. CASE Call(w)
    <3>1. PICK t \in Txs :
            /\ hash' = [hash EXCEPT ![w] = t]
            /\ held' = [held EXCEPT ![w] =
                          IF txState[t] = "accepted" THEN {lastBlock[t]} ELSE {}]
      BY <2>1 DEF Call
    <3>2. /\ pc[w] = "idle"
          /\ pc' = [pc EXCEPT ![w] = "select"]
          /\ UNCHANGED <<txState, lastBlock, reply, result>>
      BY <2>1 DEF Call, nodeVars
    <3>3. reply[w] = NoReply /\ result[w] = NoResult
      BY <3>2
    <3>4. QED
      BY <3>1, <3>2, <3>3, DistinctReplies, ResultFields DEF Decodes
  <2>2. CASE SelectDone(w)
    BY <2>2, ResultFields DEF SelectDone, nodeVars, Decodes
  <2>3. CASE SelectTick(w)
    <3>1. /\ pc[w] = "select"
          /\ pc' = [pc EXCEPT ![w] = "calling"]
          /\ reply' = [reply EXCEPT ![w] = IF ctxDone[w] THEN CtxError ELSE NoReply]
          /\ UNCHANGED <<txState, lastBlock, hash, result, held>>
      BY <2>3 DEF SelectTick, nodeVars
    <3>2. ~Decodes(reply'[w])
      BY <3>1, DistinctReplies
    <3>3. result[w] = NoResult
      BY <3>1
    <3>4. QED
      BY <3>1, <3>2, <3>3, ResultFields
  <2>4. CASE CallReturns(w)
    <3>1. /\ UNCHANGED <<txState, lastBlock, hash, reply, held>>
          /\ pc[w] = "calling"
      BY <2>4 DEF CallReturns, nodeVars
    <3>2. QED
      BY <2>4, <3>1, CallOutcome, ResultFields
  <2>5. QED
    BY <1>2, <2>1, <2>2, <2>3, <2>4 DEF ClientStep
<1>3. ASSUME NEW w \in Waiters, EnvStep(w) PROVE HistoryInv'
  <2>1. CASE Tick(w)
    BY <2>1 DEF Tick, nodeVars, Decodes
  <2>2. CASE NodeAnswers(w)
    <3>1. /\ UNCHANGED <<txState, lastBlock, pc, hash, result, held>>
          /\ reply' = [reply EXCEPT ![w] = NodeAnswer(hash[w])]
          /\ pc[w] = "calling"
      BY <2>2 DEF NodeAnswers, InFlight, nodeVars
    <3>2. Decodes(NodeAnswer(hash[w])) => NodeAnswer(hash[w]).block \in held[w]
      BY <3>1, ReplyFields, DistinctReplies DEF NodeAnswer, Decodes
    <3>3. QED
      BY <3>1, <3>2, ResultFields
  <2>3. CASE CallFaults(w)
    BY <2>3, DistinctReplies, ResultFields DEF CallFaults, InFlight, nodeVars
  <2>4. CASE CtxAborts(w)
    BY <2>4, DistinctReplies, ResultFields DEF CtxAborts, InFlight, nodeVars
  <2>5. CASE CtxEnds(w)
    BY <2>5 DEF CtxEnds, clientVars, nodeVars
  <2>6. QED
    BY <1>3, <2>1, <2>2, <2>3, <2>4, <2>5 DEF EnvStep
<1>4. CASE UNCHANGED vars
  BY <1>4 DEF vars, clientVars, nodeVars
<1>5. QED
  BY <1>1, <1>2, <1>3, <1>4 DEF Next

LEMMA FailureStep == TypeOK /\ CallInv /\ FailureInv /\ [Next]_vars => FailureInv'
<1>. SUFFICES ASSUME TypeOK, CallInv, FailureInv, [Next]_vars PROVE FailureInv'
  OBVIOUS
<1>. USE WaitAssumption DEF TypeOK, CallInv, FailureInv
<1>1. ASSUME NEW t \in Txs, NodeStep(t) PROVE FailureInv'
  BY <1>1 DEF NodeStep, Receive, Reject, Pend, Accept, Revert, MoveTx, clientVars
<1>2. ASSUME NEW w \in Waiters, ClientStep(w) PROVE FailureInv'
  <2>1. CASE Call(w)
    BY <2>1 DEF Call
  <2>2. CASE SelectDone(w)
    BY <2>2, ResultFields, InternalErrorIsFinal DEF SelectDone
  <2>3. CASE SelectTick(w)
    <3>1. result[w] = NoResult
      BY <2>3 DEF SelectTick
    <3>2. QED
      BY <2>3, <3>1, ResultFields DEF SelectTick
  <2>4. CASE CallReturns(w)
    <3>1. UNCHANGED <<ctxDone, reply>> /\ reply[w] # NoReply
      BY <2>4 DEF CallReturns
    <3>2. QED
      BY <2>4, <3>1, CallOutcome, ResultFields, InternalErrorIsFinal
  <2>5. QED
    BY <1>2, <2>1, <2>2, <2>3, <2>4 DEF ClientStep
<1>3. ASSUME NEW w \in Waiters, EnvStep(w) PROVE FailureInv'
  <2>1. CASE Tick(w)
    BY <2>1 DEF Tick
  <2>2. CASE NodeAnswers(w) \/ CallFaults(w) \/ CtxAborts(w)
    <3>1. /\ UNCHANGED <<pc, result, ctxDone>>
          /\ \E r : reply' = [reply EXCEPT ![w] = r]
          /\ result[w] = NoResult
      BY <2>2 DEF NodeAnswers, CallFaults, CtxAborts, InFlight
    <3>2. QED
      BY <3>1, ResultFields
  <2>3. CASE CtxEnds(w)
    BY <2>3 DEF CtxEnds, clientVars
  <2>4. QED
    BY <1>3, <2>1, <2>2, <2>3 DEF EnvStep
<1>4. CASE UNCHANGED vars
  BY <1>4 DEF vars, clientVars
<1>5. QED
  BY <1>1, <1>2, <1>3, <1>4 DEF Next

LEMMA InvInit == Init => WaitInv
<1>1. Init => ChainInv /\ CallInv
  BY WaitAssumption, DistinctReplies, ResultFields DEF Init, ChainInv, CallInv
<1>2. Init => HistoryInv /\ FailureInv
  BY DistinctReplies, ResultFields DEF Init, HistoryInv, FailureInv
<1>3. QED
  BY <1>1, <1>2, TypeInit DEF WaitInv

LEMMA InvStep == WaitInv /\ [Next]_vars => WaitInv'
  BY TypeStep, ChainStep, CallStep, HistoryStep, FailureStep DEF WaitInv
-----------------------------------------------------------------------------
(***************************************************************************)
(* The theorems.                                                           *)
(***************************************************************************)
\* WaitInv holds for any number of waits and transactions and any MaxBlock
\* (WaitForTransactionReceipt with the node and the contexts around it).
THEOREM InvCorrect == Spec => []WaitInv
  BY InvInit, InvStep, PTL DEF Spec

\* The variables keep their types.
THEOREM TypeCorrect == Spec => []TypeOK
  BY InvCorrect, PTL DEF WaitInv

\* A returned receipt names a block that held the transaction during the wait, or
\* names none and answers null.
THEOREM ReceiptCorrect == Spec => []ReceiptWasTrueDuringWait
<1>1. WaitInv => ReceiptWasTrueDuringWait
  BY DEF WaitInv, HistoryInv, ReceiptWasTrueDuringWait
<1>2. QED
  BY <1>1, InvCorrect, PTL

\* The unchecked assertion err.(*rpc.RPCError) never fails.
THEOREM PanicFree == Spec => []NoPanic
<1>1. WaitInv => NoPanic
  BY DEF WaitInv, FailureInv, NoPanic
<1>2. QED
  BY <1>1, InvCorrect, PTL

\* "Not found" never ends a wait.
THEOREM NotFoundCorrect == Spec => []NotFoundIsNotTheEnd
<1>1. WaitInv => NotFoundIsNotTheEnd
  BY DEF WaitInv, FailureInv, NotFoundIsNotTheEnd
<1>2. QED
  BY <1>1, InvCorrect, PTL

\* A poll that starts with a done context is the last one.
THEOREM LatePollCorrect == Spec => LatePollIsLast
<1>. DEFINE Late == \A w \in Waiters :
              pc[w] = "calling" /\ reply[w] = CtxError => pc'[w] # "select"
<1>1. WaitInv /\ [Next]_vars => [Late]_vars
  <2>. SUFFICES ASSUME WaitInv, Next, NEW w \in Waiters,
                       pc[w] = "calling", reply[w] = CtxError
                PROVE  pc'[w] # "select"
    OBVIOUS
  <2>. USE DEF WaitInv, TypeOK
  <2>1. CASE \E t \in Txs : NodeStep(t)
    BY <2>1 DEF NodeStep, Receive, Reject, Pend, Accept, Revert, MoveTx, clientVars
  <2>2. CASE \E v \in Waiters : ClientStep(v)
    <3>1. PICK v \in Waiters : ClientStep(v)
      BY <2>2
    <3>2. CASE CallReturns(v)
      BY <3>2, CallOutcome, DistinctReplies
    <3>3. CASE Call(v) \/ SelectDone(v) \/ SelectTick(v)
      BY <3>3 DEF Call, SelectDone, SelectTick
    <3>4. QED
      BY <3>1, <3>2, <3>3 DEF ClientStep
  <2>3. CASE \E v \in Waiters : EnvStep(v)
    BY <2>3 DEF EnvStep, Tick, NodeAnswers, CallFaults, CtxAborts, CtxEnds, clientVars
  <2>4. QED
    BY <2>1, <2>2, <2>3 DEF Next
<1>2. QED
  BY <1>1, InvCorrect, PTL DEF Spec, LatePollIsLast
-----------------------------------------------------------------------------
(***************************************************************************)
(* Refinement: every step of ReceiptWait is a step of ReceiptPromise.      *)
(***************************************************************************)
LEMMA ToldCases ==
  ASSUME NEW w \in Waiters
  PROVE  /\ result[w] = NoResult => ToldTo(w) = Promise!Nothing
         /\ \A b : result[w] = Delivered(b) => ToldTo(w) = Promise!Receipt(b)
         /\ result[w] = Empty => ToldTo(w) = Promise!Empty
         /\ \A e : result[w] = Failed(e) => ToldTo(w) = Promise!Failure
  BY ResultFields DEF ToldTo, Promise!Nothing, Promise!Receipt, Promise!Empty,
                      Promise!Failure

LEMMA ToldDistinct ==
  /\ Promise!Nothing # Promise!Failure /\ Promise!Nothing # Promise!Empty
  /\ \A b : Promise!Receipt(b) # Promise!Nothing
  BY DEF Promise!Nothing, Promise!Receipt, Promise!Empty, Promise!Failure

\* A wait has been told nothing exactly until it returns.
LEMMA ToldNothing ==
  ASSUME WaitInv, NEW w \in Waiters
  PROVE  ToldTo(w) = Promise!Nothing <=> pc[w] # "returned"
<1>1. result[w] \in Results
  BY DEF WaitInv, TypeOK
<1>2. result[w] = NoResult <=> pc[w] # "returned"
  BY DEF WaitInv, CallInv
<1>3. result[w] # Panic
  BY ResultFields DEF WaitInv, FailureInv
<1>4. QED
  BY <1>1, <1>2, <1>3, ToldCases, ToldDistinct DEF Results

LEMMA SpoiltCases ==
  ASSUME NEW w \in Waiters
  PROVE  /\ reply[w] \in {NoReply, NotFound, CtxError} => Spoilt(w) = "none"
         /\ reply[w] = Null => Spoilt(w) = "empty"
         /\ reply[w] \notin {NoReply, NotFound, CtxError} /\ ~Decodes(reply[w])
              => Spoilt(w) = "unusable"
         /\ Spoilt(w) \in {"none", "unusable", "empty"}
  BY DistinctReplies, ReplyFields DEF Spoilt, Usable, Decodes

LEMMA PromiseInit == Init => Promise!Init
<1>. SUFFICES ASSUME Init PROVE Promise!Init
  OBVIOUS
<1>1. [t \in Txs |-> BlockOf(t)] = [t \in Txs |-> 0]
  BY DEF Init, BlockOf
<1>2. [w \in Waiters |-> Spoilt(w)] = [w \in Waiters |-> "none"]
  BY SpoiltCases DEF Init
<1>3. [w \in Waiters |-> ToldTo(w)] = [w \in Waiters |-> Promise!Nothing]
  BY ToldCases DEF Init
<1>4. QED
  BY <1>1, <1>2, <1>3 DEF Init, Promise!Init

LEMMA PromiseNodeStep ==
  ASSUME WaitInv, NEW t \in Txs, NodeStep(t)
  PROVE  [Promise!Next]_(Promise!vars)
<1>. USE WaitAssumption DEF WaitInv, TypeOK
<1>1. /\ UNCHANGED <<ctxDone, pc, hash, tick, reply, result>>
      /\ \E s \in TxStates : txState' = [txState EXCEPT ![t] = s]
  BY DEF NodeStep, Receive, Reject, Pend, Accept, Revert, MoveTx, clientVars, TxStates
<1>2. /\ [w \in Waiters |-> Spoilt(w)]' = [w \in Waiters |-> Spoilt(w)]
      /\ [w \in Waiters |-> ToldTo(w)]' = [w \in Waiters |-> ToldTo(w)]
  BY <1>1 DEF Spoilt, Usable, ToldTo, Decodes
<1>3. ASSUME ~Accept(t)
      PROVE  /\ UNCHANGED <<lastBlock, held>>
             /\ txState'[t] # "accepted"
  BY <1>3 DEF NodeStep, Receive, Reject, Pend, Revert, MoveTx
<1>4. CASE ~Accept(t) /\ txState[t] # "accepted"
  <2>1. [u \in Txs |-> BlockOf(u)]' = [u \in Txs |-> BlockOf(u)]
    BY <1>1, <1>3, <1>4 DEF BlockOf
  <2>2. QED
    BY <1>1, <1>2, <1>3, <1>4, <2>1 DEF Promise!vars
<1>5. CASE ~Accept(t) /\ txState[t] = "accepted"
  <2>1. [u \in Txs |-> BlockOf(u)]' = [[u \in Txs |-> BlockOf(u)] EXCEPT ![t] = 0]
    BY <1>1, <1>3, <1>5 DEF BlockOf
  <2>2. held' = [w \in Waiters |->
                   IF hash[w] = t /\ [v \in Waiters |-> ToldTo(v)][w] = Promise!Nothing
                      /\ 0 # 0
                   THEN held[w] \cup {0} ELSE held[w]]
    BY <1>3, <1>5
  <2>3. Promise!Move(t)
    BY <1>1, <1>2, <2>1, <2>2 DEF Promise!Move
  <2>4. QED
    BY <2>3 DEF Promise!Next
<1>6. CASE Accept(t)
  <2>1. /\ lastBlock[t] + 1 \in 1..MaxBlock
        /\ lastBlock' = [lastBlock EXCEPT ![t] = lastBlock[t] + 1]
        /\ txState' = [txState EXCEPT ![t] = "accepted"]
        /\ held' = [w \in Waiters |->
                      IF hash[w] = t /\ pc[w] # "returned"
                      THEN held[w] \cup {lastBlock[t] + 1} ELSE held[w]]
    BY <1>6 DEF Accept, MoveTx
  <2>2. [u \in Txs |-> BlockOf(u)]'
          = [[u \in Txs |-> BlockOf(u)] EXCEPT ![t] = lastBlock[t] + 1]
    BY <2>1 DEF BlockOf
  <2>3. held' = [w \in Waiters |->
                   IF hash[w] = t /\ [v \in Waiters |-> ToldTo(v)][w] = Promise!Nothing
                      /\ lastBlock[t] + 1 # 0
                   THEN held[w] \cup {lastBlock[t] + 1} ELSE held[w]]
    BY <2>1, ToldNothing
  <2>4. Promise!Move(t)
    BY <1>1, <1>2, <2>1, <2>2, <2>3 DEF Promise!Move
  <2>5. QED
    BY <2>4 DEF Promise!Next
<1>7. QED
  BY <1>4, <1>5, <1>6

LEMMA PromiseClientStep ==
  ASSUME WaitInv, NEW w \in Waiters, ClientStep(w)
  PROVE  [Promise!Next]_(Promise!vars)
<1>. USE WaitAssumption DEF WaitInv, TypeOK
<1>1. /\ UNCHANGED <<txState, lastBlock, ctxDone>>
      /\ [t \in Txs |-> BlockOf(t)]' = [t \in Txs |-> BlockOf(t)]
  BY DEF ClientStep, Call, SelectDone, SelectTick, CallReturns, nodeVars, BlockOf
<1>2. CASE Call(w)
  <2>1. PICK t \in Txs :
          /\ hash' = [hash EXCEPT ![w] = t]
          /\ held' = [held EXCEPT ![w] =
                        IF txState[t] = "accepted" THEN {lastBlock[t]} ELSE {}]
    BY <1>2 DEF Call
  <2>2. pc[w] = "idle" /\ UNCHANGED <<reply, result>>
    BY <1>2 DEF Call
  <2>3. hash[w] = NoTx
    BY <2>2 DEF CallInv
  <2>4. held' = [held EXCEPT ![w] =
                   IF [u \in Txs |-> BlockOf(u)][t] = 0
                   THEN {} ELSE {[u \in Txs |-> BlockOf(u)][t]}]
    BY <2>1 DEF BlockOf, ChainInv
  <2>5. /\ [v \in Waiters |-> Spoilt(v)]' = [v \in Waiters |-> Spoilt(v)]
        /\ [v \in Waiters |-> ToldTo(v)]' = [v \in Waiters |-> ToldTo(v)]
    BY <2>2 DEF Spoilt, Usable, ToldTo, Decodes
  <2>6. Promise!Ask(w)
    BY <1>1, <2>1, <2>3, <2>4, <2>5 DEF Promise!Ask
  <2>7. QED
    BY <2>6 DEF Promise!Next
<1>3. CASE SelectTick(w)
  <2>1. /\ UNCHANGED <<hash, result, held>>
        /\ reply' = [reply EXCEPT ![w] = IF ctxDone[w] THEN CtxError ELSE NoReply]
        /\ reply[w] \in {NoReply, NotFound}
    BY <1>3 DEF SelectTick, CallInv
  <2>2. [v \in Waiters |-> Spoilt(v)]' = [v \in Waiters |-> Spoilt(v)]
    <3>1. \A v \in Waiters \ {w} : Spoilt(v)' = Spoilt(v)
      BY <2>1 DEF Spoilt, Usable, Decodes
    <3>2. Spoilt(w)' = "none" /\ Spoilt(w) = "none"
      BY <2>1, DistinctReplies DEF Spoilt, Usable
    <3>3. QED
      BY <3>1, <3>2
  <2>3. [v \in Waiters |-> ToldTo(v)]' = [v \in Waiters |-> ToldTo(v)]
    BY <2>1 DEF ToldTo
  <2>4. QED
    BY <1>1, <2>1, <2>2, <2>3 DEF Promise!vars
<1>4. CASE SelectDone(w) \/ CallReturns(w)
  <2>1. UNCHANGED <<hash, held, reply>>
    BY <1>4 DEF SelectDone, CallReturns
  <2>2. [v \in Waiters |-> Spoilt(v)]' = [v \in Waiters |-> Spoilt(v)]
    BY <2>1 DEF Spoilt, Usable, Decodes
  <2>3. pc[w] \in {"select", "calling"}
    BY <1>4 DEF SelectDone, CallReturns
  <2>4. Promise!Waiting(w)
    BY <2>3, ToldNothing DEF Promise!Waiting, CallInv
  <2>5. \A r : result' = [result EXCEPT ![w] = r] =>
          \A v \in Waiters \ {w} : ToldTo(v)' = ToldTo(v)
    BY DEF ToldTo
  <2>6. ASSUME NEW e, result' = [result EXCEPT ![w] = Failed(e)],
               ctxDone[w] \/ Spoilt(w) = "unusable"
        PROVE  Promise!Fail(w)
    <3>1. ToldTo(w)' = Promise!Failure
      BY <2>6, ResultFields DEF ToldTo, Promise!Failure
    <3>2. [v \in Waiters |-> ToldTo(v)]'
            = [[v \in Waiters |-> ToldTo(v)] EXCEPT ![w] = Promise!Failure]
      BY <2>5, <2>6, <3>1
    <3>3. QED
      BY <1>1, <2>1, <2>2, <2>4, <2>6, <3>2 DEF Promise!Fail
  <2>7. CASE SelectDone(w)
    BY <2>6, <2>7 DEF SelectDone, Promise!Next
  <2>8. CASE CallReturns(w)
    <3>1. CASE /\ Decodes(reply[w])
               /\ reply[w] # Null
               /\ result' = [result EXCEPT ![w] = Delivered(reply[w].block)]
      <4>1. ToldTo(w)' = Promise!Receipt(reply[w].block)
        BY <3>1, ResultFields DEF ToldTo, Promise!Receipt
      <4>2. [v \in Waiters |-> ToldTo(v)]'
              = [[v \in Waiters |-> ToldTo(v)] EXCEPT ![w] = Promise!Receipt(reply[w].block)]
        BY <2>5, <3>1, <4>1
      <4>3. reply[w].block \in held[w]
        BY <3>1 DEF HistoryInv
      <4>4. Promise!Deliver(w)
        BY <1>1, <2>1, <2>2, <2>4, <4>2, <4>3 DEF Promise!Deliver
      <4>5. QED
        BY <4>4 DEF Promise!Next
    <3>2. CASE result' = [result EXCEPT ![w] = NoResult]
      <4>1. result[w] = NoResult
        BY <2>3 DEF CallInv
      <4>2. [v \in Waiters |-> ToldTo(v)]' = [v \in Waiters |-> ToldTo(v)]
        BY <3>2, <4>1 DEF ToldTo
      <4>3. QED
        BY <1>1, <2>1, <2>2, <4>2 DEF Promise!vars
    <3>3. CASE /\ ~Decodes(reply[w])
               /\ reply[w] # NotFound
               /\ result' = [result EXCEPT ![w] = Failed(Err(InternalError, "text"))]
      <4>1. reply[w] # NoReply
        BY <2>8 DEF CallReturns
      <4>2. ctxDone[w] \/ Spoilt(w) = "unusable"
        BY <3>3, <4>1, SpoiltCases DEF CallInv
      <4>3. QED
        BY <2>6, <3>3, <4>2 DEF Promise!Next
    <3>4. CASE /\ reply[w] = Null
               /\ result' = [result EXCEPT ![w] = Empty]
      <4>1. ToldTo(w)' = Promise!Empty
        BY <3>4, ResultFields DEF ToldTo, Promise!Empty
      <4>2. [v \in Waiters |-> ToldTo(v)]'
              = [[v \in Waiters |-> ToldTo(v)] EXCEPT ![w] = Promise!Empty]
        BY <2>5, <3>4, <4>1
      <4>3. Promise!DeliverEmpty(w)
        BY <1>1, <2>1, <2>2, <2>4, <3>4, <4>2, SpoiltCases DEF Promise!DeliverEmpty
      <4>4. QED
        BY <4>3 DEF Promise!Next
    <3>5. QED
      BY <2>8, <3>1, <3>2, <3>3, <3>4, CallOutcome
  <2>9. QED
    BY <1>4, <2>7, <2>8
<1>5. QED
  BY <1>2, <1>3, <1>4 DEF ClientStep

LEMMA PromiseEnvStep ==
  ASSUME WaitInv, NEW w \in Waiters, EnvStep(w)
  PROVE  [Promise!Next]_(Promise!vars)
<1>. USE DEF WaitInv, TypeOK
<1>1. /\ UNCHANGED <<txState, lastBlock, hash, result, held, pc>>
      /\ [t \in Txs |-> BlockOf(t)]' = [t \in Txs |-> BlockOf(t)]
      /\ [v \in Waiters |-> ToldTo(v)]' = [v \in Waiters |-> ToldTo(v)]
  BY DEF EnvStep, Tick, NodeAnswers, CallFaults, CtxAborts, CtxEnds, nodeVars,
         clientVars, BlockOf, ToldTo
<1>2. CASE Tick(w)
  <2>1. UNCHANGED <<ctxDone, reply>>
    BY <1>2 DEF Tick
  <2>2. [v \in Waiters |-> Spoilt(v)]' = [v \in Waiters |-> Spoilt(v)]
    BY <2>1 DEF Spoilt, Usable, Decodes
  <2>3. QED
    BY <1>1, <2>1, <2>2 DEF Promise!vars
<1>3. CASE NodeAnswers(w) \/ CallFaults(w) \/ CtxAborts(w)
  <2>1. PICK r : reply' = [reply EXCEPT ![w] = r]
    BY <1>3 DEF NodeAnswers, CallFaults, CtxAborts
  <2>2. /\ UNCHANGED ctxDone
        /\ pc[w] = "calling"
        /\ reply[w] = NoReply
    BY <1>3 DEF NodeAnswers, CallFaults, CtxAborts, InFlight
  <2>3. Spoilt(w) = "none" /\ Promise!Waiting(w)
    BY <2>2, SpoiltCases, ToldNothing DEF Promise!Waiting, CallInv
  <2>4. \A v \in Waiters \ {w} : Spoilt(v)' = Spoilt(v)
    BY <2>1 DEF Spoilt, Usable, Decodes
  <2>5. CASE Spoilt(w)' # "none"
    <3>1. Spoilt(w)' \in {"unusable", "empty"}
      BY <2>5 DEF Spoilt
    <3>2. [v \in Waiters |-> Spoilt(v)]'
            = [[v \in Waiters |-> Spoilt(v)] EXCEPT ![w] = Spoilt(w)']
      BY <2>4
    <3>3. Promise!Disturb(w)
      BY <1>1, <2>2, <2>3, <3>1, <3>2 DEF Promise!Disturb
    <3>4. QED
      BY <3>3 DEF Promise!Next
  <2>6. CASE Spoilt(w)' = "none"
    <3>1. Spoilt(w)' = Spoilt(w)
      BY <2>3, <2>6
    <3>2. [v \in Waiters |-> Spoilt(v)]' = [v \in Waiters |-> Spoilt(v)]
      BY <2>4, <3>1
    <3>3. QED
      BY <1>1, <2>2, <3>2 DEF Promise!vars
  <2>7. QED
    BY <2>5, <2>6
<1>4. CASE CtxEnds(w)
  <2>1. ~ctxDone[w] /\ ctxDone' = [ctxDone EXCEPT ![w] = TRUE] /\ UNCHANGED reply
    BY <1>4 DEF CtxEnds, clientVars
  <2>2. [v \in Waiters |-> Spoilt(v)]' = [v \in Waiters |-> Spoilt(v)]
    BY <2>1 DEF Spoilt, Usable, Decodes
  <2>3. Promise!End(w)
    BY <1>1, <2>1, <2>2 DEF Promise!End
  <2>4. QED
    BY <2>3 DEF Promise!Next
<1>5. QED
  BY <1>2, <1>3, <1>4 DEF EnvStep

\* ReceiptWait implements ReceiptPromise, the fairness apart: a caller is told
\* once, a receipt that was true during the wait, a failure with a reason, or an
\* empty receipt for the answer null.
THEOREM PromiseCorrect == Spec => Promise!Spec
<1>1. WaitInv /\ [Next]_vars => [Promise!Next]_(Promise!vars)
  <2>. SUFFICES ASSUME WaitInv, [Next]_vars PROVE [Promise!Next]_(Promise!vars)
    OBVIOUS
  <2>1. CASE UNCHANGED vars
    BY <2>1 DEF vars, nodeVars, clientVars, Promise!vars, BlockOf, Spoilt, Usable, ToldTo, Decodes
  <2>2. QED
    BY <2>1, PromiseNodeStep, PromiseClientStep, PromiseEnvStep DEF Next
<1>2. QED
  BY <1>1, PromiseInit, InvCorrect, PTL DEF Spec, Promise!Spec
=============================================================================
