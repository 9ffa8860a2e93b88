----------------------------- MODULE MerkleTree -----------------------------
(***************************************************************************)
(* merkle.FixedSizeMerkleTree: build, Proof and ProofMerklePath, one step  *)
(* for each of their recursive calls.  A tree is not changed by the calls  *)
(* on it, so one Proof, with the check of what it returns, or one check of *)
(* a path from elsewhere stands for every sequence of them.                *)
(***************************************************************************)
EXTENDS Integers, Sequences

CONSTANTS
  Trees,         \* the leaves that NewFixedSizeMerkleTree is called with: sequences
  Strangers,     \* values that are looked for, whether or not they are leaves
  Unhashable,    \* the values not below the prime of the curve, which PedersenHash refuses
  Zero,          \* big.NewInt(0)
  Nil,
  MaxDepth,      \* bound: the calls of build that the goroutine's stack holds
  MaxForgedPath  \* bound: the length of a path that Proof did not return

Elements(s) == {s[i] : i \in DOMAIN s}
IsSeq(s)    == s \in Seq(Elements(s))

ASSUME TreeAssumption ==
  /\ \A t \in Trees : IsSeq(t)
  /\ Zero \notin Unhashable
  /\ \A t \in Trees : Nil \notin Elements(t)
  /\ MaxDepth \in Nat
  /\ \A t \in Trees : Len(t) <= MaxDepth
  /\ MaxForgedPath \in Nat

\* Mutant of MerkleHash: the values are hashed as they come.
UnsortedHash(x, y) == <<x, y>>

\* Pedersen, with the smaller value first: what it gives depends on which two
\* values there are, and on no order.
MerkleHash(x, y) == {x, y}

Hashes(x, y) == {x, y} \cap Unhashable = {}

VARIABLES
  leaves,    \* mt.Leaves
  branches,  \* mt.Branches
  root,      \* mt.Root
  level,     \* the argument of the current call of build
  pc,
  leaf,      \* the argument of Proof or ProofMerklePath
  nodes,     \* the leaf arguments of the calls of recursiveProof so far
  path,      \* hashPath
  forged,    \* the path that is checked is not one that Proof returned
  node,      \* the leaf argument of the current call of ProofMerklePath
  step,      \* how much of the path is behind it
  verdict    \* what ProofMerklePath returned

tree == <<leaves, branches, root, level>>
proof == <<nodes, path>>
check == <<forged, node, step, verdict>>
vars == <<tree, pc, leaf, proof, check>>

Init ==
  /\ leaves \in Trees
  /\ branches = <<>>
  /\ root = Nil
  /\ level = leaves
  /\ pc = "build"
  /\ leaf = Nil
  /\ nodes = <<>>
  /\ path = <<>>
  /\ forged = FALSE
  /\ node = Nil
  /\ step = 0
  /\ verdict = FALSE
-----------------------------------------------------------------------------
(* build.                                                                  *)

\* A missing right-hand value is 0.
Right(b, j) == IF 2 * j > Len(b) THEN Zero ELSE b[2 * j]

\* Mutant of Parents: the loop goes on by one value, not by two.
OverlappingPairs(b) ==
  [j \in 1 .. Len(b) |-> MerkleHash(b[j], IF j = Len(b) THEN Zero ELSE b[j + 1])]

\* newLeaves
Parents(b) ==
  [j \in 1 .. ((Len(b) + 1) \div 2) |-> MerkleHash(b[2 * j - 1], Right(b, j))]

\* Mutant of BuildRoot: mt.Root is not set.
RootlessTree ==
  /\ pc = "build"
  /\ Len(level) = 1
  /\ pc' = "built"
  /\ UNCHANGED <<tree, leaf, proof, check>>

BuildRoot ==
  /\ pc = "build"
  /\ Len(level) = 1
  /\ root' = level[1]
  /\ pc' = "built"
  /\ UNCHANGED <<leaves, branches, level, leaf, proof, check>>

\* Mutant of BuildLevel: the error of MerkleHash is dropped.
UncheckedLevel ==
  /\ pc = "build"
  /\ Len(level) # 1
  /\ Len(branches) < MaxDepth
  /\ branches' = Append(branches, level)
  /\ level' = Parents(level)
  /\ UNCHANGED <<leaves, root, pc, leaf, proof, check>>

\* One level is appended to mt.Branches and hashed in pairs.
BuildLevel ==
  /\ pc = "build"
  /\ Len(level) # 1
  /\ Len(branches) < MaxDepth
  /\ branches' = Append(branches, level)
  /\ IF Elements(level) \cap Unhashable = {}
     THEN level' = Parents(level) /\ UNCHANGED pc
     ELSE pc' = "buildError" /\ UNCHANGED level
  /\ UNCHANGED <<leaves, root, leaf, proof, check>>

\* No room for one more call: a fatal error of the Go runtime.
BuildOverflow ==
  /\ pc = "build"
  /\ Len(level) # 1
  /\ Len(branches) = MaxDepth
  /\ pc' = "overflow"
  /\ UNCHANGED <<tree, leaf, proof, check>>
-----------------------------------------------------------------------------
(* Proof and recursiveProof.                                               *)

Known == (UNION {Elements(branches[i]) : i \in DOMAIN branches}) \cup {root, Zero}
Values == Known \cup Strangers

Proof ==
  /\ pc = "built"
  /\ \E l \in Values :
       /\ leaf' = l
       /\ nodes' = <<l>>
  /\ pc' = "prove"
  /\ UNCHANGED <<tree, path, check>>

IsFirst(b, v, k) == b[k] = v /\ \A j \in 1 .. k - 1 : b[j] # v

Last(s) == s[Len(s)]
Branch  == branches[Len(path) + 1]

\* The value is looked up in the branch; its neighbour is the next of the path.
\* In the code index counts from 0, here k counts from 1.
RecursiveProof ==
  /\ pc = "prove"
  /\ Len(path) < Len(branches)
  /\ \/ /\ Last(nodes) \notin Elements(Branch)
        /\ pc' = "notFound"
        /\ UNCHANGED proof
     \/ \E k \in DOMAIN Branch :
          /\ IsFirst(Branch, Last(nodes), k)
          /\ \/ k % 2 = 1 /\ k = Len(Branch) /\ pc' = "panicked" /\ UNCHANGED proof
             \/ \E d \in {1, -1} :
                  /\ d = 1 => k % 2 = 1 /\ k < Len(Branch)
                  /\ d = -1 => k % 2 = 0
                  /\ IF Hashes(Last(nodes), Branch[k + d])
                     THEN /\ path' = Append(path, Branch[k + d])
                          /\ nodes' = Append(nodes, MerkleHash(Last(nodes), Branch[k + d]))
                          /\ UNCHANGED pc
                     ELSE pc' = "nextproofError" /\ UNCHANGED proof
  /\ UNCHANGED <<tree, leaf, check>>

ProofReturns ==
  /\ pc = "prove"
  /\ Len(path) = Len(branches)
  /\ pc' = "proved"
  /\ UNCHANGED <<tree, leaf, proof, check>>
-----------------------------------------------------------------------------
(* ProofMerklePath.                                                        *)

\* With a leaf and the path that Proof returned for it.
Check ==
  /\ pc = "proved"
  /\ node' = leaf
  /\ pc' = "verify"
  /\ UNCHANGED <<tree, leaf, proof, forged, step, verdict>>

\* With any leaf and any path, whose values are chosen as they are read.
CheckForged ==
  /\ pc = "built"
  /\ \E l \in Values :
       /\ leaf' = l
       /\ node' = l
  /\ forged' = TRUE
  /\ pc' = "verify"
  /\ UNCHANGED <<tree, proof, step, verdict>>

\* path[0]
NextOnPath ==
  IF forged THEN {v \in Values : step < MaxForgedPath}
  ELSE {path[i] : i \in {j \in DOMAIN path : j = step + 1}}

\* Mutant of VerifyStep: an error of MerkleHash counts as success.
ErrorIsTrue ==
  /\ pc = "verify"
  /\ \E s \in NextOnPath :
       IF Hashes(node, s)
       THEN /\ node' = MerkleHash(node, s)
            /\ step' = step + 1
            /\ UNCHANGED <<pc, verdict>>
       ELSE /\ verdict' = TRUE
            /\ pc' = "verdict"
            /\ UNCHANGED <<node, step>>
  /\ UNCHANGED <<tree, leaf, proof, forged>>

VerifyStep ==
  /\ pc = "verify"
  /\ \E s \in NextOnPath :
       IF Hashes(node, s)
       THEN /\ node' = MerkleHash(node, s)
            /\ step' = step + 1
            /\ UNCHANGED <<pc, verdict>>
       ELSE /\ verdict' = FALSE
            /\ pc' = "verdict"
            /\ UNCHANGED <<node, step>>
  /\ UNCHANGED <<tree, leaf, proof, forged>>

\* len(path) == 0
VerifyEnd ==
  /\ pc = "verify"
  /\ forged \/ step = Len(path)
  /\ verdict' = (node = root)
  /\ pc' = "verdict"
  /\ UNCHANGED <<tree, leaf, proof, forged, node, step>>

Build  == BuildRoot \/ BuildLevel \/ BuildOverflow
Prove  == Proof \/ RecursiveProof \/ ProofReturns
Verify == Check \/ CheckForged \/ VerifyStep \/ VerifyEnd

Next == Build \/ Prove \/ Verify

Spec == Init /\ [][Next]_vars
-----------------------------------------------------------------------------
(* Properties.                                                             *)

Building == pc \in {"build", "buildError", "overflow"}
Proving  == pc \in {"prove", "notFound", "nextproofError", "panicked", "proved"}

\* Once it is built, the tree has a root and every branch more than one value; a
\* path never outgrows the branches.
TypeOK ==
  /\ pc \in {"build", "buildError", "overflow", "built", "prove", "notFound",
             "nextproofError", "panicked", "proved", "verify", "verdict"}
  /\ root = Nil <=> Building
  /\ leaves # <<>> => \A i \in DOMAIN branches : Len(branches[i]) >= 2
  /\ Len(path) <= Len(branches)
  /\ Proving => Len(nodes) = Len(path) + 1
  /\ forged \in BOOLEAN /\ verdict \in BOOLEAN
  /\ step \in Nat
  /\ forged \/ step <= Len(path)

\* What Proof returns for a leaf, duplicates included, ProofMerklePath accepts; what
\* it returns for another value (the empty path, in a tree of one leaf) it does not.
OwnProofVerdict ==
  pc = "verdict" /\ ~forged => (verdict <=> leaf \in Elements(leaves))

\* A value that some path, wherever it is from, leads to the root is in the tree: a
\* leaf, a hash on the way to the root or the padding of an odd level.
VerifiedIsKnown ==
  pc = "verdict" /\ verdict => leaf \in Known

\* Proof gives no error for a leaf, and in a tree of more than one leaf no path for
\* another value, the hashes inside the tree included; MerkleHash never fails in it.
OnlyLeavesHaveProofs ==
  /\ pc = "notFound" => leaf \notin Elements(leaves)
  /\ pc = "proved" => leaf \in Elements(leaves) \/ Len(leaves) = 1
  /\ pc # "nextproofError"

\* build ends within as many calls as there are leaves, but for no leaves at all.
OnlyEmptyOverflows ==
  pc = "overflow" => leaves = <<>>

\* The inductive invariant.  Each branch holds the parents of the one before, and
\* the root is the parent of the last.
ShapeInv ==
  /\ leaves \in Trees
  /\ IsSeq(level) /\ IsSeq(branches) /\ IsSeq(path) /\ IsSeq(nodes)
  /\ \A i \in DOMAIN branches : IsSeq(branches[i])
  /\ step \in Nat

Top == IF branches = <<>> THEN leaves ELSE Parents(Last(branches))

BuildInv ==
  /\ \A i \in DOMAIN branches :
       branches[i] = IF i = 1 THEN leaves ELSE Parents(branches[i - 1])
  /\ pc = "build" => level = Top
  /\ ~Building => Top = <<root>>

\* A level that is not empty is hashed into a shorter one that is not empty.
DepthInv ==
  pc = "build" /\ leaves # <<>> =>
    Len(level) >= 1 /\ Len(level) + Len(branches) <= Len(leaves)

\* The calls of recursiveProof climb the branches, and those of ProofMerklePath that
\* check their path compute the same nodes.
OwnPath == Proving \/ (pc \in {"verify", "verdict"} /\ ~forged)

NodesInv ==
  OwnPath =>
    /\ Len(nodes) = Len(path) + 1
    /\ Len(path) <= Len(branches)
    /\ nodes[1] = leaf
    /\ \A i \in DOMAIN path :
         /\ nodes[i] \in Elements(branches[i])
         /\ Hashes(nodes[i], path[i])
         /\ nodes[i + 1] = MerkleHash(nodes[i], path[i])
         /\ nodes[i + 1] \in Elements(Parents(branches[i]))

CheckInv ==
  /\ pc \in {"proved", "verify", "verdict"} /\ ~forged => Len(path) = Len(branches)
  /\ pc \notin {"verify", "verdict"} => step = 0 /\ ~forged
  /\ pc \in {"build", "built"} => path = <<>>
  /\ pc = "verify" /\ ~forged => step <= Len(path) /\ node = nodes[step + 1]

MerkleInv ==
  /\ ShapeInv /\ BuildInv /\ DepthInv /\ NodesInv /\ CheckInv
  /\ OwnProofVerdict /\ OnlyEmptyOverflows

\* A call of Proof returns, with a path or an error.
ProofReturnsOrFails ==
  pc # "panicked"
=============================================================================
