# A verification of starknet.go in TLA+

This directory holds TLA+ modules that model `src/`, a Go client for Starknet: an
RPC provider over JSON-RPC, accounts that hash, sign and send transactions, and the
cryptography they need. TLC checks the models on small instances, and TLAPS proves
every safety property of the passing runs for every value of the constants.

    tlc -workers 2 -config ReceiptWait.cfg ReceiptWait.tla     # any run of the table below
    tlapm ReceiptWait_proofs.tla                               # any *_proofs.tla, FlattenTheorems.tla

`PROJECT.json` lists the components, the runs, the hazards of the code line by line,
for each property a mutation of the code that it catches, and for each definition
the lines of `src/` it stands for.

## 1. The system

The library is a stack with no threads of its own: the goroutines are the caller's,
and what they share is what can go wrong between them. Each box calls the ones
below it.

    account.Account ── WaitForTransactionReceipt, Sign..., TransactionHash..., RPC methods
       │        │            │               │
       │        │            keystore        hash, contracts, typed ──> felt.Zero (shared)
       │        └─ ChainId (once, in NewAccount)             │
    rpc.Provider ── one method per JSON-RPC method          curve, merkle
       │        └─ chainID (cache, shared)
    go-ethereum rpc.Client, net/http, the node (external)

| Component | State | Operations | What is hard | What makes it correct |
|---|---|---|---|---|
| wait for a receipt (`account.go` 515) | a ticker, the reply, the context | `WaitForTransactionReceipt` | select between a tick and a done context; the chain moves, or reverts, while the answer is on its way; lost, useless and null answers; an unchecked type assertion | a returned receipt that names a block was true during the wait, and an empty one answers null; "not found" never ends it; it never panics; it ends when the context does |
| errors (`rpc/errors.go`) | none | `Err`, `tryUnwrapToRPCErr` | an error is known by code and exact message, after JSON | a refusal keeps its meaning, or becomes an InternalError |
| chain id cache (`rpc/chain.go`) | `Provider.chainID`, a string without a lock | `ChainID`, `NewAccount` | two-word stores and loads by several goroutines; a node that restarts on another chain | late callers get the cached id, whole, and never ask again |
| provider methods (`rpc/*.go`) | none | the 29 methods of `RpcProvider` | three decoders of transactions, four of blocks; null results; a transaction that moves from the mempool to a block, and the block to L1, between the calls | whatever is read in whichever way agrees; it is what was sent, but for losses that are named; of what a node may answer, all but four things can be read, one of them against the documentation |
| transaction hashes (`account`, `hash`, `contracts`) | `felt.Zero`, read | `TransactionHash...`, `PrecomputeAccountAddress`, `ClassHash`, `CompiledClassHash` | ten hand-written element lists, unequal checks; a "constant" that is a variable | different transactions, and classes, have different hashes; the same transaction has one |
| calldata (`account.go` 889) | none | `FmtCalldata` | offsets and lengths counted by hand | lists of calls that differ give different calldata, and hashes |
| typed data (`typed`) | the caller's map of types, in which encodings are cached; `felt.Zero`, written | `NewTypedData`, `EncodeType`, `GetMessageHash`, `strToFelt` | several typed data share one map; an order taken from a Go map; every string goes through one shared variable, in four words | data that was built can be hashed, to one hash, that no other data has; a hash is that of its own strings |
| keystore (`account/keystore.go`) | a map and a mutex | `Put`, `Get`, `Sign`, `Sign...Transaction` | lookup under the mutex, signature outside it; contexts | each call is one step on the map; no race on it; no call is stuck |
| Merkle tree (`merkle`) | leaves, branches, root | `build`, `Proof`, `ProofMerklePath` | odd levels, duplicates, 0 as padding, refused hashes | own proofs are accepted, exactly for leaves; what is accepted is in the tree |
| curve (`curve`) | parameters | `Add`, `Double`, `EcMult`, `MimicEcMultAir`, `Sign`, `Verify`, keys | limits `Max` and `N` that differ; no point at infinity; a public key known by its x only | `Sign` gives what ECDSA gives, and `Verify` accepts exactly that |
| JSON forms (`rpc/types*.go`) | none | decoders | `encoding/json` drops what a Go type has no field for, without an error; enumerations refuse texts | as for the provider methods |
| devnet, examples, mocks | none | test helpers, linear programs, generated code | - | not modelled |

## 2. The modules

| Module | Stands for | State and actions |
|---|---|---|
| `RpcErrors` | `rpc/errors.go` | operators; a Go error is a record of its dynamic type, code, message and data |
| `ReceiptWait` | `WaitForTransactionReceipt` with `Provider.TransactionReceipt` | `pc`, `tick`, `reply`, `result` for each call; one action for each case of the select, for the return of the request, and for each thing the node, the network and the context may do |
| `ReceiptPromise` | what a wait promises, without polling | abstract; `ReceiptWait` refines it |
| `ChainIdCache` | `Provider.ChainID`, `NewAccount` | the cached string as two words; compare, request, store and load, word by word |
| `TxHash` | the transaction hashes, as functions of the transaction and of what `felt.Zero` holds | operators; Pedersen and Poseidon are free |
| `SharedZero` | `felt.Zero` between typed-data hashes and transaction hashes | `zero`, and for each goroutine the definition it is at and its elements; a store has a beginning and an end |
| `TxSeparation` | `FmtCalldata`, the class hashes, and which hashes can coincide | operators on top of `SharedZero` |
| `TypedData` | `NewTypedData`, `EncodeType`, `GetMessageHash` on shared maps | the encodings in each map, and for each goroutine where it is; a step for each encoding that is stored or read |
| `MemKeystore` | `MemKeystore` and the signing methods of `Account` | `mu`, `keys`, and for each goroutine its call; hash, lock, map, unlock, select, curve |
| `AtomicKeystore` | a keystore whose calls are one step | abstract; `MemKeystore` refines it |
| `MerkleTree` | `FixedSizeMerkleTree` | the tree, and one call; a step for each recursive call |
| `RpcObjects` | the decoders of transactions, receipts, blocks, traces, classes and statuses | operators: what a node sends, and what each decoder makes of it |
| `ProviderCalls` | the provider's methods and those of `Account` that forward to them | the transaction, its execution and its stage; the call, the answer, the result, and what the reader has been told |
| `StarkCurve` | `curve.go` without hashes | the key, the signature and the verdict of one signer; the arithmetic as operators and recursive functions |
| `MCProvider` | `rpc.Provider`: `ProviderCalls` and `ChainIdCache`, which share no variable | each part takes its steps while the other stays in an initial state |
| other `MC...` | the values of constants | |
| `..._proofs` | the theorems; `Provider_proofs` is about `ProviderCalls` and `ChainIdCache`, both of the Provider | |
| `FlattenTheorems` | concatenations of lists | theorems that two of the above rest on |

`PROJECT.json` maps each definition to its lines. Conventions: an operator marked
"Mutant of" is a plausible bug and no part of any specification; a variable marked
"history" is in no code and only records what a property speaks of.

Abstractions, by module.

- `ReceiptWait`: a transaction is a model value and a block a number; of a receipt
  only the block is kept, with 0 for the absent hash of a pending block. A `null`
  result is decoded without an error, into nothing, and gives the receipt `Empty`.
  Requests carry no identity, since a wait has one at a time. Ticks carry no time.
- `ChainIdCache`: a data race on a string is a store and a load of its two words in
  any order, and a load may give the value the goroutine has just stored. Go
  promises no more for values larger than a word. An answer is an id, a failure, or
  a text that is not hexadecimal, on which `HexToShortStr` panics.
- `SharedZero`: a felt has four words, but what a reader gets from a mixture is
  `Torn`, whatever the mixture is. `math/big` is the table `Parsed`.
- `TxHash`: a hash is a record of its inputs, so that hashes are equal exactly when
  inputs are; the real functions are assumed to be collision free. A nil field is
  `Nil`, and what the code does with it (an error or a panic) is kept, as is a version
  that is no number (`NoNumber`). Prices are below 2^128, as their type says.
- `TxSeparation`: what Go's types say of a transaction is `WellFormed`: its fields, slices
  of numbers or `Nil`, bounds of `U64` and `U128`. The other felts are only compared.
- `MemKeystore`: the map is in use between `Lock` and `Store` or `Load`. Signatures
  are records, and the curve is modelled by which hashes it refuses.
- `MerkleTree`: a node is the set of its two children, as `MerkleHash` sorts them;
  what it refuses is `Unhashable`. The goroutine's stack is the bound `MaxDepth`.
- `TypedData`: a type is the sequence of its definitions. An encoding is a record of
  what `EncodeType` writes, in its order, and stands for its Keccak hash too; strings
  are the numbers they parse to. One entry of the map is read or stored at a time:
  that the Go runtime may end the program when it notices such a race is left out.
- `RpcObjects`: of an object of the node, its type and version, its enumerations and
  the names of its fields, not their values. Decoding intersects the fields with
  those of the Go type, as `encoding/json` does.
- `ProviderCalls`: which errors the code compares by message is kept; a message is
  either word for word the defined one or another. A refusal carries a code and data;
  the reader's transaction never leaves its block.
- `StarkCurve`: the same formulas over a small field, with `Max < N < P` as in the
  original. The nonce of RFC 6979 is any nonce, since it comes from HMACs.

## 3. The runs

| Run | Instance | Shows |
|---|---|---|
| `ReceiptWait` | 1 wait, 1 transaction, up to 3 inclusions | the wait is correct and refines `ReceiptPromise`, its liveness included |
| `ReceiptPending` | the same, 1 inclusion | *violated:* a transaction seen in the pending block ends the wait with an error |
| `ChainIdTorn` | 2 callers, 1 id | *violated:* two first callers, and one gets a torn string or a fault |
| `SharedZero` | 2 typed-data hashes with one field of each kind, 1 transaction hash; 2 or 3 values for each field of 9 transactions; lists of 0 to 2 calls; classes of up to 2 entry points of a kind | hashes that do not read `felt.Zero` are safe, solo typed hashes are right, and hashes separate transactions, calls and classes |
| `SharedZeroStale` | 1 typed-data hash, 2 transaction hashes | *violated:* the same transaction gets two hashes |
| `MemKeystore` | 3 goroutines, 1 sender, 2 keys, a message of each outcome | calls are atomic, race free and return |
| `MerkleTree` | all patterns of 0 to 5 leaves, with 0 and an unhashable leaf; forged paths up to 3 | own proofs, foreign proofs and termination |
| `MerkleOdd` | up to 3 leaves | *violated:* the last value of an odd branch makes `Proof` panic |
| `TypedData` | 2 callers, 15 typed data over 9 maps of types | built data can be hashed while others build on its map; when its hash is one; hashes separate data |
| `Provider` | all types and versions of transactions, 18 codes, all methods, every stage; 3 callers of `NewAccount`, 2 chain ids, 1 restart | errors and objects reach the caller as what they are, with all fields but those named, and readings agree; what the unsynchronised cache does guarantee, failed requests included |
| `SyncingStatus` | the same methods, 1 code | *violated:* the status of a node that is syncing is an InternalError |
| `StarkCurve` | 37 points, every key, every nonce, 8 messages, 2 nonces tried; every `r` and `s` against 3 public keys | `Sign` and `Verify` against ECDSA in the group |

Why the bounds are enough.

- Waits share nothing but the node, which they do not change, so that one wait stands
  for any number (two, with two inclusions, were checked as well). Three inclusions
  let a transaction move between the request, the answer and the return.
- For the cache, two goroutines race and the third comes late; a second restart
  would only bring back the first id.
- Two overlapping stores give every kind of mixture. A domain has three strings, and
  one that does not parse is among them.
- Every action of the keystore is about one sender. Three goroutines are a Put, a
  Sign and a third that the mutex must also serve.
- Five leaves make three levels with odd ones among them, and every equality pattern
  that a search by value can trip over. A tree is immutable once built, so that one
  call stands for all sequences of calls.
- The two parts of `Provider` share no variable and every property is about one of
  them, so that what a part can do does not depend on the other: each goes through all
  its states, from all its initial ones, while the other rests. Their interleavings
  would only pair up states that no property relates.
- The reader of `ProviderCalls` makes any number of calls while its transaction goes
  through all its stages. The transactions are all there are; the codes are those
  that methods list differently, and one that none lists.
- The typed data of `TypedData` differ from one base in one thing each: a number, an
  account, a domain, one type, a type two or three levels down (where encodings end),
  no domain type, a missing type, two custom types. Any two are hashed together, so
  that every pair is compared. The callers are symmetric.
- The curve has a prime order above and a `Max` below it, as the original, so that
  each of the rejections of `Sign` and `Verify` happens. `Clashes` leaves out inputs
  for which an addition meets two points with one x. On 37 points that is frequent;
  on the original it has negligible probability.

A bound is a constant that only a guard mentions: `MaxBlock`, `MaxRestarts`,
`MaxHashes`, `MaxDepth`, `MaxForgedPath`, `MaxSeed`. Most runs set
`CHECK_DEADLOCK FALSE` because every goroutine ends after its call and nothing is
left to do. In `Provider` that is true of the callers; its reader goes on for ever.

Fairness. A goroutine that can run does run (Go preempts), so each of its steps is
weakly fair, the cases of a select together, as select may prefer either. Tickers
tick, and net/http gives up a request whose context is done. `sync.Mutex` hands
itself to a waiter that has starved for a millisecond, hence strong fairness for
`Lock`. That a node answers at all is no assumption of `FairSpec`:
`AcceptedTxIsReported` has it as a hypothesis of its own. The other modules state
safety only, and no fairness.

## 4. The proofs

For each of the eight components an inductive invariant is shown step by step, one
lemma for each action, and the properties are taken from it. The hypotheses are the
named ASSUMEs of the modules, which TLC also evaluates; two theorems about `MerkleTree`
have one of their own, named below. `FlattenTheorems` is about `FlattenSeq`, the
concatenation of a list of lists, which two of the modules need.

- `ReceiptWait_proofs`: `WaitInv`. That a receipt was true during the wait is not
  inductive: it needs to know that the block in a *reply* was recorded in `held`
  (`HistoryInv`; `DecodedReply` for the answers that name a block), which needs that an accepted transaction is in a block that was
  recorded since the call (`ChainInv`, `HistoryInv`). That no wait panics comes from
  `CallOutcome`, a case distinction over everything `tryUnwrapToRPCErr` can return.
  Theorems: type correctness, the four safety properties, and that every step is
  one of `ReceiptPromise` or a stutter.
- `SharedZero_proofs`: `ZeroInv`. A typed-data hash that is alone finds what it
  stored in `felt.Zero` because no two are alone and running together (`AloneInv`),
  and has collected the right elements so far (`SoloInv`); before the first store
  `felt.Zero` is 0 (`UntouchedInv`).
  `HashSeparatesTxs` is about the hash functions and the same in every state. A hash
  that exists has the *shape* of its type: hash function, prefix and length of the list
  (`HasShape`), and no two types share one (`ShapesDiffer`). This is why the prefix
  "invoke" can serve three types. Hashes of one type are then compared element by
  element (`...Agree`): the modes come back from `fee + nonce * 2^32`
  (`ModesSeparate`), and a price from its low sixteen bytes (`BoundsSeparate`), which
  needs that it is a `U128`. The type says so ("hex string of length at most 32",
  `types_contract.go` 33), the code does not check it, and `SeparationAssumption` has
  it, with the other Go types of what is hashed. A nil slice counts as an empty one.
  For calldata, a call of Cairo 2 is told by its head of three felts, the third being
  its length; in the list of Cairo 0 the places have four felts each, so that the data
  that follow begin where they must, and the lengths in the places cut them
  (`CalldataSeparates`). `CallsAreSeparate` joins both halves.
- `MemKeystore_proofs`: `KeyInv`. The holder of the mutex is the one call in the map
  (`MutexInv`), and what a call has found was there during the call (`KnownInv`).
  `KeepsPromise` follows as a whole, since `AtomicKeystore` states no fairness.
- `MerkleTree_proofs`: `MerkleInv`, for trees of any size. Each branch is the parents
  of the one before (`BuildInv`), a level that is not empty gets shorter (`DepthInv`),
  and the nodes that `Proof` passes are those that the check computes (`NodesInv`,
  `CheckInv`). On top of it `ProofInv`: what was built has no value that is refused,
  so that a proof fails only for a value that is no leaf. `TypeInv` and `KnownInv`
  give `TypeOK` and `VerifiedIsKnown`: a check that succeeds has come up through nodes
  of the tree, since a node has one pair of children. The first needs that `Nil` is no
  hash (`NilIsNoHash`), the second that no leaf and not 0 is one (`LeavesAreNoHashes`).
  Neither is true of every set of values, so both are hypotheses of their theorem
  alone. The second is a real limit of the code: it hashes leaves and nodes alike, so
  that a leaf that is a hash is taken for the node.
- `Provider_proofs`, on `ChainIdCache`: `CacheInv`. A late call begins after an account was made, when
  both words of the string are set for good; on one chain every id that was ever
  answered, stored or loaded is that chain's. A settled cache needs more: that no
  store is still under way.
- `TypedData_proofs`: `TypedInv`. An encoding that is set stays set, so that a caller
  whose `todo` has become empty finds all of its map encoded, whoever stores there
  again; and what a hash has read are encodings of the right types in the right order,
  which are unique for a type of at most one custom type. `HashesSeparate` goes the other
  way: a list begins with the encoding of its type, which tells the definitions and so
  the width of every field that is a felt (`FeltsAreOne`) or a hash; the fields are
  then read off one by one.
- `Provider_proofs`, on `ProviderCalls`: `ProviderInv`. A result is an outcome of the answer that led to
  it. Types and refusals then come down to a case distinction over the ways a method can
  hand an error on (`HandedOnIsRPCError`, `RefusalHandedOn`).
  What a method returns was sent at one of the stages (`AnswerInv`), and each decoder
  reads each part as sent or not at all (`TxRead`, `BlockRead`, ...), the latter
  in the four cases of `KnownUnreadable`, which gives `ReadAsSent`. `ReadingsAgree`
  needs that everything in `seen`
  is of the one transaction and its one execution (`SeenInv`), however far the
  transaction has moved since. The proof found two case distinctions of the model
  whose arms overlapped, where TLC had taken the first; they are disjoint now.
- `StarkCurve_proofs`: `CurveInvariant`. It adds to the two properties what the steps
  before have made sure of: the key is in range and the point is its multiple
  (`KeyMade`), the hash is in range (`HashFits`), and a signature that was returned comes
  from an inverse in range, with which the equation of `Verify` leads back to the point
  of the nonce (`Signed`). That says more than ECDSA, which would also accept the
  signature for the negative point alone: `SignatureVerifies` excludes the clashes of one
  of the two points, so that it has to be this one for which the equation holds.
  Below it lies the arithmetic. Remainders are taken one at a time (`ModAdd`, `ModMul`,
  `ModInner`); modulo a prime there are inverses (`PrimeInverse`, from the least
  remainder), so that `DivMod` divides and its quotient is the only one; where the
  denominator is not 0, `Add` and `Double` are `Plus` (`AddIsPlus`, `DoubleIsPlus`).
  Every point is a multiple of the generator, so that a computation is followed by the
  number it multiplies by: `Mult(k)`, for every integer k, with `MultPlus`. The order
  is odd and a prime, so that no doubling divides by 0, and `EcMult` never adds two
  points with one x (`EcMultIsMult`): no key and no nonce needs a hypothesis.
  `MimicEcMultAir`, which starts from the shift point, may: without a clash it is bit by
  bit the shift and a multiple (`RoundsAreMult`, `MimicIsMult`), from which `EquationIs`
  and `VerifyOnCurve` follow. `Verify` writes the negative of y without reducing it,
  which the arithmetic does not see (`SameResidue`).
  Assumed are `CurveAssumption` (P and N are primes, Max < N < P, every point is a
  multiple of the generator: a curve of prime order is cyclic) and `GroupLaw` (the
  generator has the order N, and adding it is associative: the group law of elliptic
  curves, an identity between rational functions in six unknowns). TLC evaluates both on
  the curve of the run.
- `FlattenTheorems`: `FlattenSeq` is a fold, a recursive function that is chosen by
  `CHOOSE`, and the library's induction theorems take an operator that no installed
  prover can supply. Induction is therefore stated for sets of numbers
  (`NatSetInduction`, from well-foundedness), which suffices to show that the chosen
  function exists, is unique and concatenates (`FlatteningExists`, `FlatteningUnique`,
  `FlattenSeqIs`), and that a list can be cut in one way only (`FlattenSeparates`).

Only model-checked: liveness (`CancelledWaitReturns`, `AcceptedTxIsReported`,
`EveryCallReturns`, the fairness of `KeepsPromise` in `ReceiptWait`), which is beyond the
prover; that the actions of a model fire; and that the documented promises of the five
*violated* runs fail.

Proved only as far as the models go: hash functions are free (no two lists collide), and
the arithmetic below them is not modelled; the group law is assumed; of a signature
nothing is said for inputs on which an addition of `Verify` clashes.

## 5. Where code and text disagree

1. `WaitForTransactionReceipt` fails as soon as it sees its transaction in the
   pending block: the absent `block_hash` is parsed (`types_transaction_receipt.go`
   382). Run `ReceiptPending`.
2. Goroutines that share a fresh provider race on `chainID` (`chain.go` 25). Run
   `ChainIdTorn`.
3. `strToFelt` writes to `felt.Zero` (`typed.go` 73), and from then on transaction
   hashes of versions 1 and 2 (Invoke of version 0 does not read it, DeployAccount of
   version 1 does), and contract addresses, are others. Run `SharedZeroStale`.
4. `Proof` indexes past the end of an odd branch (`merkle.go` 123). Run `MerkleOdd`.
5. `Syncing` "retrieves the synchronization status of the provider" (`chain.go` 29) and
   has a case for a `SyncStatus` (45), which no answer reaches: decoded into an
   interface, the object of a node that is syncing is a map, and the caller gets an
   InternalError. `TestSyncing` (`provider_test.go` 196) fails on any error, but its mock
   stores a Go `SyncStatus` (`mock_test.go` 174). Run `SyncingStatus`.

What no text denies, but a caller should know; the properties that hold say so:

- Beside the status above and the receipt in the pending block, two answers of a correct
  node cannot be read (`KnownUnreadable`): a Declare of version 3 by hash or index
  (`transaction.go` 46) and the trace of a Deploy.
- A `null` result is no error: `do` (`client.go` 31) finds its four bytes and decodes
  them into nothing, so that `WaitForTransactionReceipt` returns a receipt without a
  transaction or a block, and no error (`account.go` 531,
  `ReceiptWasTrueDuringWait`).
- Five kinds of fields get lost (`KnownLosses`): the fees and modes of a DeployAccount
  of version 3, which is decoded into the type of version 1 (`transaction.go` 66,
  `types_transaction.go` 317); of a pending block, all of the header but the parent, the
  time and the sequencer, unless it is read with receipts (`block.go` 96, 159); the call
  in the trace of an Invoke (`types_trace.go` 129); and, in traces, what events (`types_event.go` 5) and
  messages to L1 (`types_transaction_receipt.go` 238) say, next to their order.
- A type with two or more custom types has several encodings, and a message of it
  several hashes, as `EncodeType` ranges over a map (`typed.go` 241, `HashIsStable`).
- A TypedData without a domain type is built and then panics when hashed
  (`BuiltDataHashes`).

## 6. Not modelled

- Keccak, number parsing (`utils`) and reading class files: pure, or I/O.
- `PedersenHash`, `PoseidonArray` and the HMACs of `GenerateSecret` as arithmetic:
  the models use them as free functions or arbitrary values.
- The values of the fields of JSON objects, state updates, fee estimates, event filters,
  block ids, and the Marshal methods. `SyncStatus.UnmarshalJSON` (`types.go` 147), which
  calls itself, is reached from nowhere in the repository.
- Additions of two points with one x: `MimicEcMultAir` tests for them by comparing
  pointers (`curve.go` 301). The runs leave out the inputs that lead to one.
- Arguments that are changed for the caller: the seed of `Sign` (`curve.go` 472) and the
  spare room of the slice of `ComputeHashOnElements` (`curve.go` 559).
- Answers whose type or version is not a string, on which the decoders of transactions
  panic (`types_transaction.go` 289), or that lack a version, for which `adaptTransaction`
  takes the felt of a nil pointer (`transaction.go` 33): the node of `RpcObjects` is a
  correct one.
- A private key out of range, which `Sign` does not check: the signer of `StarkCurve` has
  a key that was checked when it was made. Nor an x that is on no point, for which
  `GetYCoordinate` returns nil (`curve.go` 267).
- Devnet (three requests without state), the examples (programs from top to bottom) and
  the mocks (generated).

## 7. Plan

Done, in this order: `ReceiptWait` and its promise, `ChainIdCache`, `TxHash` with
`SharedZero`, `MemKeystore` with `AtomicKeystore`, `MerkleTree`, `ProviderCalls`,
`TxSeparation`, `StarkCurve`, `RpcObjects`, `TypedData`; and the proofs about each.

Next, the model:

1. `SendFlow`: the examples' sequence nonce, estimate, sign again, send, over
   `ProviderCalls` and `MemKeystore`, with another sender's nonce in between.
2. The comparison of pointers in `MimicEcMultAir` (`curve.go` 301) as a run of its
   own.
3. The decoders of `U64`, `U128` and block ids, with their widths.

Next, the proofs:

1. For `StarkCurve`, that few inputs clash: how many of the hashes and signatures in
   range `Clashes` leaves out, as a share of N.
2. The decoders and the flow above, as they are modelled.
