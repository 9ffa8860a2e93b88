--------------------------- MODULE ReceiptPromise ---------------------------
(***************************************************************************)
(* What WaitForTransactionReceipt promises, without polling, tickers or    *)
(* requests.  A caller asks for a transaction and is told once: a block    *)
(* that held the transaction at some moment of the wait, or a failure,     *)
(* which needs a reason: the context ended, or the node gave an answer the *)
(* client cannot use.  One answer spoils the promise: after null the       *)
(* caller is told of a receipt, without an error, that says nothing.       *)
(***************************************************************************)
EXTENDS Naturals

CONSTANTS Waiters, Txs, NoTx, Blocks

VARIABLES
  block,    \* block[t]: the block that holds t now, 0 when none does
  asked,    \* asked[w]: the transaction w waits for, NoTx before the call
  held,     \* held[w]: the blocks that held asked[w] at some moment of the wait
  ended,    \* ended[w]: the context of w is done
  spoilt,   \* spoilt[w]: the node gave w an answer it cannot use, or an empty one
  told      \* told[w]: nothing yet, a failure, an empty receipt, or its block

vars == <<block, asked, held, ended, spoilt, told>>

Nothing    == [kind |-> "nothing", block |-> 0]
Failure    == [kind |-> "failure", block |-> 0]
Empty      == [kind |-> "empty", block |-> 0]
Receipt(b) == [kind |-> "receipt", block |-> b]

Init ==
  /\ block = [t \in Txs |-> 0]
  /\ asked = [w \in Waiters |-> NoTx]
  /\ held = [w \in Waiters |-> {}]
  /\ ended = [w \in Waiters |-> FALSE]
  /\ spoilt = [w \in Waiters |-> "none"]
  /\ told = [w \in Waiters |-> Nothing]

Waiting(w) == asked[w] # NoTx /\ told[w] = Nothing

Ask(w) ==
  /\ asked[w] = NoTx
  /\ \E t \in Txs :
       /\ asked' = [asked EXCEPT ![w] = t]
       /\ held' = [held EXCEPT ![w] = IF block[t] = 0 THEN {} ELSE {block[t]}]
  /\ UNCHANGED <<block, ended, spoilt, told>>

\* The chain moves: t enters a block or leaves it.
Move(t) ==
  \E b \in Blocks \cup {0} :
    /\ block' = [block EXCEPT ![t] = b]
    /\ held' = [w \in Waiters |->
                  IF asked[w] = t /\ told[w] = Nothing /\ b # 0
                  THEN held[w] \cup {b} ELSE held[w]]
    /\ UNCHANGED <<asked, ended, spoilt, told>>

End(w) ==
  /\ ~ended[w]
  /\ ended' = [ended EXCEPT ![w] = TRUE]
  /\ UNCHANGED <<block, asked, held, spoilt, told>>

Disturb(w) ==
  /\ Waiting(w)
  /\ spoilt[w] = "none"
  /\ \E how \in {"unusable", "empty"} : spoilt' = [spoilt EXCEPT ![w] = how]
  /\ UNCHANGED <<block, asked, held, ended, told>>

Deliver(w) ==
  /\ Waiting(w)
  /\ \E b \in held[w] : told' = [told EXCEPT ![w] = Receipt(b)]
  /\ UNCHANGED <<block, asked, held, ended, spoilt>>

DeliverEmpty(w) ==
  /\ Waiting(w)
  /\ spoilt[w] = "empty"
  /\ told' = [told EXCEPT ![w] = Empty]
  /\ UNCHANGED <<block, asked, held, ended, spoilt>>

Fail(w) ==
  /\ Waiting(w)
  /\ ended[w] \/ spoilt[w] = "unusable"
  /\ told' = [told EXCEPT ![w] = Failure]
  /\ UNCHANGED <<block, asked, held, ended, spoilt>>

Next ==
  \/ \E t \in Txs : Move(t)
  \/ \E w \in Waiters :
       Ask(w) \/ End(w) \/ Disturb(w) \/ Deliver(w) \/ DeliverEmpty(w) \/ Fail(w)

\* A caller whose context ended is told something.
Answer(w) == Deliver(w) \/ DeliverEmpty(w) \/ Fail(w)

Spec == Init /\ [][Next]_vars
FairSpec == Spec /\ \A w \in Waiters : WF_vars(ended[w] /\ Answer(w))
=============================================================================
