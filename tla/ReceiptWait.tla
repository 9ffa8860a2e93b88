----------------------------- MODULE ReceiptWait -----------------------------
(***************************************************************************)
(* Account.WaitForTransactionReceipt over Provider.TransactionReceipt.     *)
(*                                                                         *)
(* Every element of Waiters is one call, in a goroutine of its own: a      *)
(* select over the done channel of its context and the channel of a        *)
(* ticker, and one request at a time to the node.  The node is external:   *)
(* it moves a transaction between the mempool, the pending block and       *)
(* accepted blocks, and answers a request from what it holds when the      *)
(* request arrives.                                                        *)
(***************************************************************************)
EXTENDS Naturals, RpcErrors

CONSTANTS
  Waiters,    \* the calls to WaitForTransactionReceipt
  Txs,        \* the transactions that can be asked for
  NoTx,       \* no transaction: the call has not started
  MaxBlock    \* bound: how often the node can put a transaction in a block

ASSUME WaitAssumption ==
  /\ NoTx \notin Txs
  /\ MaxBlock \in Nat

VARIABLES
  txState,    \* txState[t]: where the node holds t
  lastBlock,  \* lastBlock[t]: the last accepted block that held t, 0 at first
  ctxDone,    \* ctxDone[w]: the context of w is cancelled or past its deadline
  pc,         \* pc[w]: where the call is
  hash,       \* hash[w]: the argument transactionHash
  tick,       \* tick[w]: the channel t.C holds a tick (its capacity is one)
  reply,      \* reply[w]: what became of the last request
  result,     \* result[w]: the values returned
  held        \* history: the blocks that held hash[w] during the wait of w

clientVars == <<pc, hash, tick, reply, result>>
nodeVars == <<txState, lastBlock>>
vars == <<nodeVars, ctxDone, clientVars, held>>

TxStates == {"unknown", "received", "rejected", "pending", "accepted"}
-----------------------------------------------------------------------------
(* What comes back for a request.                                          *)

Answered(err) == [kind |-> "error", err |-> err, block |-> 0]
Receipt(b)    == [kind |-> "receipt", err |-> LocalError, block |-> b]

NoReply   == [kind |-> "none", err |-> LocalError, block |-> 0]
NotFound  == Answered(NodeError(ErrHashNotFound.code, ErrHashNotFound.message))
CtxError  == [kind |-> "ctx", err |-> LocalError, block |-> 0]

\* Answers that have nothing to do with the state of the transaction: a lost
\* connection, an HTTP error or no result at all, the result null, one that is
\* no receipt, an internal error of the node, and the code of ErrHashNotFound with
\* another wording.
Lost      == [kind |-> "lost", err |-> LocalError, block |-> 0]
Null      == [kind |-> "null", err |-> LocalError, block |-> 0]
Malformed == [kind |-> "malformed", err |-> LocalError, block |-> 0]
Faults    == {Lost, Null, Malformed,
              Answered(NodeError(InternalError, "internalError")),
              Answered(NodeError(ErrHashNotFound.code, "TransactionNotFound"))}

\* starknet_getTransactionReceipt: a receipt exists from the pending block on,
\* and has no block_hash (here block 0) until its block is accepted.
NodeAnswer(t) ==
  CASE txState[t] = "accepted" -> Receipt(lastBlock[t])
    [] txState[t] = "pending"  -> Receipt(0)
    [] OTHER                   -> NotFound

Replies == {NoReply, NotFound, CtxError} \cup Faults
             \cup {Receipt(b) : b \in 0..MaxBlock}
-----------------------------------------------------------------------------
(* Provider.TransactionReceipt: do, the decoding and tryUnwrapToRPCErr.    *)

\* Mutant of Decodes: an absent block_hash is taken for a receipt.
AnyReceiptDecodes(r) == r.kind \in {"receipt", "null"}

\* The result null is not empty and decodes without an error, into nothing: only
\* the interface that do decodes into becomes nil.  A receipt goes through
\* TransactionReceiptWithBlockInfo.UnmarshalJSON, which reads block_hash into a
\* string and parses it as a felt; the empty string of an absent block_hash does
\* not parse.
Decodes(r) == r.kind = "null" \/ (r.kind = "receipt" /\ r.block # 0)

\* The error of do when there is no receipt: what CallContext returned, or the
\* error of the decoding.
DoError(r) == IF r.kind = "receipt" THEN LocalError ELSE r.err

\* Mutants of TransactionReceipt: the raw error is handed on; no error is listed.
RawTransactionReceipt(r) ==
  [block |-> r.block, filled |-> r.kind = "receipt", failed |-> ~Decodes(r),
   err |-> r.err]
UnlistedTransactionReceipt(r) ==
  [block |-> r.block, filled |-> r.kind = "receipt", failed |-> ~Decodes(r),
   err |-> TryUnwrapToRPCErr(r.err, {})]

\* The pair (receipt, error) of Provider.TransactionReceipt.  Block 0: the receipt
\* is nil, or, if it is not filled, the zero receipt that the method began with.
TransactionReceipt(r) ==
  IF Decodes(r)
  THEN [block |-> r.block, filled |-> r.kind = "receipt", failed |-> FALSE,
        err |-> LocalError]
  ELSE [block |-> 0, filled |-> FALSE, failed |-> TRUE,
        err |-> TryUnwrapToRPCErr(DoError(r), {ErrHashNotFound})]

\* Mutant of IsHashNotFound: every error is taken for "not yet".
AnyErrorIsRetried(err) == TRUE

IsHashNotFound(err) ==
  err.code = ErrHashNotFound.code /\ err.message = ErrHashNotFound.message
-----------------------------------------------------------------------------
(* The pair returned by WaitForTransactionReceipt.                         *)

NoResult       == [kind |-> "none", block |-> 0, err |-> LocalError]
Delivered(b)   == [kind |-> "receipt", block |-> b, err |-> LocalError]
Empty          == [kind |-> "empty", block |-> 0, err |-> LocalError]
Failed(err)    == [kind |-> "error", block |-> 0, err |-> err]
Panic          == [kind |-> "panic", block |-> 0, err |-> LocalError]

Init ==
  /\ txState = [t \in Txs |-> "unknown"]
  /\ lastBlock = [t \in Txs |-> 0]
  /\ ctxDone = [w \in Waiters |-> FALSE]
  /\ pc = [w \in Waiters |-> "idle"]
  /\ hash = [w \in Waiters |-> NoTx]
  /\ tick = [w \in Waiters |-> FALSE]
  /\ reply = [w \in Waiters |-> NoReply]
  /\ result = [w \in Waiters |-> NoResult]
  /\ held = [w \in Waiters |-> {}]

\* The call: NewTicker, then the loop.  The context may already be done.
Call(w) ==
  /\ pc[w] = "idle"
  /\ \E t \in Txs :
       /\ hash' = [hash EXCEPT ![w] = t]
       /\ held' = [held EXCEPT ![w] =
                     IF txState[t] = "accepted" THEN {lastBlock[t]} ELSE {}]
  /\ pc' = [pc EXCEPT ![w] = "select"]
  /\ UNCHANGED <<nodeVars, ctxDone, tick, reply, result>>

\* Mutant of Tick: a timer, which fires once, in place of the ticker.
TimerTick(w) ==
  /\ pc[w] # "idle"
  /\ ~tick[w]
  /\ reply[w] = NoReply
  /\ tick' = [tick EXCEPT ![w] = TRUE]
  /\ UNCHANGED <<nodeVars, ctxDone, pc, hash, reply, result, held>>

\* The runtime delivers a tick, or drops it when one is waiting.  Nothing stops
\* the ticker: it goes on after the call has returned.
Tick(w) ==
  /\ pc[w] # "idle"
  /\ ~tick[w]
  /\ tick' = [tick EXCEPT ![w] = TRUE]
  /\ UNCHANGED <<nodeVars, ctxDone, pc, hash, reply, result, held>>

\* case <-ctx.Done()
SelectDone(w) ==
  /\ pc[w] = "select"
  /\ ctxDone[w]
  /\ result' = [result EXCEPT ![w] = Failed(Err(InternalError, "ctx"))]
  /\ pc' = [pc EXCEPT ![w] = "returned"]
  /\ UNCHANGED <<nodeVars, ctxDone, hash, tick, reply, held>>

\* case <-t.C: select takes either ready case, so also when the context is
\* done.  The HTTP transport refuses a request whose context is done.
SelectTick(w) ==
  /\ pc[w] = "select"
  /\ tick[w]
  /\ tick' = [tick EXCEPT ![w] = FALSE]
  /\ pc' = [pc EXCEPT ![w] = "calling"]
  /\ reply' = [reply EXCEPT ![w] = IF ctxDone[w] THEN CtxError ELSE NoReply]
  /\ UNCHANGED <<nodeVars, ctxDone, hash, result, held>>

InFlight(w) == pc[w] = "calling" /\ reply[w] = NoReply

\* The node answers, the answer is lost or useless, or the context ends first.
NodeAnswers(w) ==
  /\ InFlight(w)
  /\ reply' = [reply EXCEPT ![w] = NodeAnswer(hash[w])]
  /\ UNCHANGED <<nodeVars, ctxDone, pc, hash, tick, result, held>>

CallFaults(w) ==
  /\ InFlight(w)
  /\ \E f \in Faults : reply' = [reply EXCEPT ![w] = f]
  /\ UNCHANGED <<nodeVars, ctxDone, pc, hash, tick, result, held>>

CtxAborts(w) ==
  /\ InFlight(w)
  /\ ctxDone[w]
  /\ reply' = [reply EXCEPT ![w] = CtxError]
  /\ UNCHANGED <<nodeVars, ctxDone, pc, hash, tick, result, held>>

\* TransactionReceipt returns and the loop looks at its error: the unchecked
\* assertion err.(*rpc.RPCError), then ErrHashNotFound against the rest.  Without
\* an error the receipt is handed on as it is, be it empty.
CallReturns(w) ==
  /\ pc[w] = "calling"
  /\ reply[w] # NoReply
  /\ LET r == TransactionReceipt(reply[w])
         again == r.failed /\ r.err.type = "RPCError" /\ IsHashNotFound(r.err)
     IN  /\ pc' = [pc EXCEPT ![w] = IF again THEN "select" ELSE "returned"]
         /\ result' = [result EXCEPT ![w] =
              CASE again                                 -> NoResult
                [] ~r.failed /\ r.filled                 -> Delivered(r.block)
                [] ~r.failed /\ ~r.filled                -> Empty
                [] r.failed /\ r.err.type # "RPCError"   -> Panic
                [] OTHER                                 -> Failed(r.err)]
  /\ UNCHANGED <<nodeVars, ctxDone, hash, tick, reply, held>>

CtxEnds(w) ==
  /\ ~ctxDone[w]
  /\ ctxDone' = [ctxDone EXCEPT ![w] = TRUE]
  /\ UNCHANGED <<nodeVars, clientVars, held>>
-----------------------------------------------------------------------------
(* The node.  Bound: a transaction is accepted in at most MaxBlock blocks. *)

MoveTx(t, from, to) ==
  /\ txState[t] \in from
  /\ txState' = [txState EXCEPT ![t] = to]
  /\ UNCHANGED <<ctxDone, clientVars>>

Receive(t) == MoveTx(t, {"unknown"}, "received") /\ UNCHANGED <<lastBlock, held>>
Reject(t)  == MoveTx(t, {"received"}, "rejected") /\ UNCHANGED <<lastBlock, held>>
Pend(t)    == MoveTx(t, {"received"}, "pending") /\ UNCHANGED <<lastBlock, held>>

Accept(t) ==
  /\ MoveTx(t, {"pending"}, "accepted")
  /\ lastBlock[t] < MaxBlock
  /\ lastBlock' = [lastBlock EXCEPT ![t] = @ + 1]
  /\ held' = [w \in Waiters |->
                IF hash[w] = t /\ pc[w] # "returned"
                THEN held[w] \cup {lastBlock[t] + 1} ELSE held[w]]

\* A reorganisation, or a pending block given up: back to the mempool, or gone.
Revert(t) ==
  /\ lastBlock[t] < MaxBlock
  /\ \E to \in {"received", "unknown"} : MoveTx(t, {"pending", "accepted"}, to)
  /\ UNCHANGED <<lastBlock, held>>

NodeStep(t) == Receive(t) \/ Reject(t) \/ Pend(t) \/ Accept(t) \/ Revert(t)
ClientStep(w) == Call(w) \/ SelectDone(w) \/ SelectTick(w) \/ CallReturns(w)
EnvStep(w) == Tick(w) \/ NodeAnswers(w) \/ CallFaults(w) \/ CtxAborts(w) \/ CtxEnds(w)

Next ==
  \/ \E t \in Txs : NodeStep(t)
  \/ \E w \in Waiters : ClientStep(w) \/ EnvStep(w)

\* A goroutine that can run does run, the timer fires, and a request whose
\* context is done is given up.
ClientFairness ==
  \A w \in Waiters :
    /\ WF_vars(SelectDone(w) \/ SelectTick(w))
    /\ WF_vars(CallReturns(w))
    /\ WF_vars(Tick(w))
    /\ WF_vars(CtxAborts(w))

\* The node answers a request, or the connection fails.
NodeFairness == \A w \in Waiters : WF_vars(NodeAnswers(w) \/ CallFaults(w))

Spec == Init /\ [][Next]_vars
FairSpec == Spec /\ ClientFairness
-----------------------------------------------------------------------------
(* Properties.                                                             *)

Results == {NoResult, Panic, Empty} \cup {Delivered(b) : b \in 1..MaxBlock}
             \cup {Failed(Err(InternalError, d)) : d \in {"ctx", "text"}}

TypeOK ==
  /\ txState \in [Txs -> TxStates]
  /\ lastBlock \in [Txs -> 0..MaxBlock]
  /\ ctxDone \in [Waiters -> BOOLEAN]
  /\ pc \in [Waiters -> {"idle", "select", "calling", "returned"}]
  /\ hash \in [Waiters -> Txs \cup {NoTx}]
  /\ tick \in [Waiters -> BOOLEAN]
  /\ reply \in [Waiters -> Replies]
  /\ result \in [Waiters -> Results]
  /\ held \in [Waiters -> SUBSET (1..MaxBlock)]

\* The inductive invariant.  The chain: an accepted transaction is in a block.
ChainInv == \A t \in Txs : txState[t] = "accepted" => lastBlock[t] # 0

\* The calls: a transaction is known from the call on, a request is answered in
\* state "calling", and only "not found" leads back to select.
CallInv ==
  \A w \in Waiters :
    /\ pc[w] = "idle" <=> hash[w] = NoTx
    /\ pc[w] = "idle" => reply[w] = NoReply
    /\ pc[w] = "select" => reply[w] \in {NoReply, NotFound}
    /\ reply[w] = CtxError => ctxDone[w]
    /\ pc[w] # "returned" <=> result[w] = NoResult

\* The history: the block of a reply, of a result and of an accepted transaction
\* that is waited for have all been recorded, and so has the answer null.
HistoryInv ==
  \A w \in Waiters :
    /\ pc[w] \in {"select", "calling"} /\ txState[hash[w]] = "accepted"
         => lastBlock[hash[w]] \in held[w]
    /\ Decodes(reply[w]) /\ reply[w] # Null => reply[w].block \in held[w]
    /\ result[w].kind = "receipt" => result[w].block \in held[w]
    /\ result[w].kind = "empty" => reply[w] = Null

\* The failures: never a panic, and never for the answer "not found".
FailureInv ==
  \A w \in Waiters :
    /\ result[w].kind # "panic"
    /\ result[w].kind = "error" =>
         /\ ~IsHashNotFound(result[w].err)
         /\ ctxDone[w] \/ reply[w] \notin {NoReply, NotFound}

\* All parts together: an invariant that every step preserves, from which the
\* safety properties follow (WaitForTransactionReceipt as a whole).
WaitInv == TypeOK /\ ChainInv /\ CallInv /\ HistoryInv /\ FailureInv

\* A receipt that is returned and names a block was true at some moment of the
\* wait: that block held the transaction between the call and the return.  One
\* that names none, the zero receipt, comes back without an error as well, but
\* only for the answer null, and never for a receipt or for "not found"
\* (WaitForTransactionReceipt: the node answers while the chain moves on).
ReceiptWasTrueDuringWait ==
  \A w \in Waiters :
    /\ result[w].kind = "receipt" => result[w].block \in held[w]
    /\ result[w].kind = "empty" => reply[w] = Null

\* The unchecked assertion err.(*rpc.RPCError) never fails on what the real
\* provider returns: whatever happens to the request, TransactionReceipt has
\* turned it into an RPCError.
NoPanic == \A w \in Waiters : result[w].kind # "panic"

\* "Not found yet" is never the end of a wait: no returned error is
\* ErrHashNotFound, and an error without a done context has a request behind it
\* that did not say "not found".
NotFoundIsNotTheEnd ==
  \A w \in Waiters :
    result[w].kind = "error" =>
      /\ ~IsHashNotFound(result[w].err)
      /\ ctxDone[w] \/ reply[w] \notin {NoReply, NotFound}

\* A poll that starts when the context is done is the last one: the loop does not
\* go round again after it, however often select prefers the tick.
LatePollIsLast ==
  [][\A w \in Waiters :
       pc[w] = "calling" /\ reply[w] = CtxError => pc'[w] # "select"]_vars

\* A cancelled or expired wait returns, whatever the node does.
CancelledWaitReturns ==
  \A w \in Waiters : (ctxDone[w] /\ pc[w] # "idle") ~> (pc[w] = "returned")

\* If the node keeps answering and the transaction stays accepted, the wait
\* returns, even when its context never ends.
AcceptedTxIsReported ==
  NodeFairness =>
    \A w \in Waiters, t \in Txs :
      (<>[](hash[w] = t /\ txState[t] = "accepted")) => <>(pc[w] = "returned")

\* WaitForTransactionReceipt "waits for the transaction receipt of the given
\* transaction hash to succeed or fail" (account/account.go:506): a wait whose
\* context lives and whose requests are all answered correctly ends with a
\* receipt.  Violated: the receipt of a transaction in the pending block does
\* not decode, and the wait fails.
HealthyWaitEndsWithReceipt ==
  \A w \in Waiters :
    result[w].kind = "error" => ctxDone[w] \/ reply[w] \in Faults

\* The refinement mapping: told[w] is what the call returned, spoilt[w] what the
\* last answer of the node was worth if it was no use.
BlockOf(t) == IF txState[t] = "accepted" THEN lastBlock[t] ELSE 0
Usable(r)  == r \in {NoReply, NotFound, CtxError} \/ Decodes(r)
Spoilt(w)  == IF reply[w] = Null THEN "empty"
              ELSE IF Usable(reply[w]) THEN "none" ELSE "unusable"
ToldTo(w)  == CASE result[w].kind = "none"    -> [kind |-> "nothing", block |-> 0]
                [] result[w].kind = "receipt" -> [kind |-> "receipt",
                                                  block |-> result[w].block]
                [] result[w].kind = "empty"   -> [kind |-> "empty", block |-> 0]
                [] OTHER                      -> [kind |-> "failure", block |-> 0]

Promise == INSTANCE ReceiptPromise WITH
  Blocks <- 1..MaxBlock,
  block  <- [t \in Txs |-> BlockOf(t)],
  asked  <- hash,
  held   <- held,
  ended  <- ctxDone,
  spoilt <- [w \in Waiters |-> Spoilt(w)],
  told   <- [w \in Waiters |-> ToldTo(w)]

\* Every wait keeps the promise of ReceiptPromise, its fairness included.
KeepsPromise == Promise!FairSpec
=============================================================================
