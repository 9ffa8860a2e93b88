-------------------------- MODULE MerkleTree_proofs --------------------------
(***************************************************************************)
(* Proofs about MerkleTree: MerkleInv is inductive, so that for every tree *)
(* ProofMerklePath accepts what Proof returns for a leaf, and build ends   *)
(* for every tree that is not empty.                                       *)
(***************************************************************************)
EXTENDS MerkleTree, SequenceTheorems, TLAPS

\* What IsSeq says of a sequence.
LEMMA SeqFacts ==
  ASSUME NEW s, IsSeq(s)
  PROVE  /\ Len(s) \in Nat
         /\ DOMAIN s = 1 .. Len(s)
         /\ s = <<>> <=> Len(s) = 0
BY DEF IsSeq

LEMMA EmptyIsSeq == IsSeq(<<>>) /\ Len(<<>>) = 0
BY DEF IsSeq

\* Appending a value of any kind.
LEMMA AppendFacts ==
  ASSUME NEW s, IsSeq(s), NEW e
  PROVE  /\ IsSeq(Append(s, e))
         /\ Len(Append(s, e)) = Len(s) + 1
         /\ \A i \in 1 .. Len(s) : Append(s, e)[i] = s[i]
         /\ Append(s, e)[Len(s) + 1] = e
<1> DEFINE S == Elements(s) \cup {e}
           t == Append(s, e)
<1>1. s \in Seq(S)
  BY DEF IsSeq
<1>2. /\ t \in Seq(S)
      /\ Len(t) = Len(s) + 1
      /\ \A i \in 1 .. Len(s) : t[i] = s[i]
      /\ t[Len(s) + 1] = e
  BY <1>1, AppendProperties
<1>3. t \in Seq(Elements(t))
  <2> HIDE DEF t
  <2> QED BY <1>2 DEF Elements
<1> QED BY <1>2, <1>3 DEF IsSeq

LEMMA SingletonFacts ==
  ASSUME NEW e
  PROVE  IsSeq(<<e>>) /\ Len(<<e>>) = 1 /\ <<e>>[1] = e
<1>1. <<e>> \in Seq({e})
  OBVIOUS
<1> QED BY <1>1 DEF IsSeq, Elements

LEMMA LengthOne ==
  ASSUME NEW s, IsSeq(s), Len(s) = 1
  PROVE  s = <<s[1]>>
BY DEF IsSeq

\* Hashing a level of two or more values makes it shorter.
LEMMA ParentsFacts ==
  ASSUME NEW b, IsSeq(b)
  PROVE  /\ IsSeq(Parents(b))
         /\ Len(Parents(b)) = (Len(b) + 1) \div 2
         /\ Len(b) >= 2 => Len(Parents(b)) >= 1 /\ Len(Parents(b)) <= Len(b) - 1
<1> DEFINE n == (Len(b) + 1) \div 2
           f(j) == MerkleHash(b[2 * j - 1], Right(b, j))
<1>1. Len(b) \in Nat
  BY SeqFacts
<1>2. n \in Nat /\ (Len(b) >= 2 => n >= 1 /\ n <= Len(b) - 1)
  BY <1>1
<1>3. Parents(b) = [j \in 1 .. n |-> f(j)]
  BY DEF Parents
<1> HIDE DEF n, f
<1>4. Parents(b) \in Seq(Elements(Parents(b))) /\ Len(Parents(b)) = n
  BY <1>2, <1>3 DEF Elements
<1> QED BY <1>2, <1>4 DEF IsSeq, n

\* A value and its neighbour are the two of one pair of the level.
LEMMA NeighboursHaveParent ==
  ASSUME NEW b, IsSeq(b), NEW k \in DOMAIN b, NEW d \in {1, -1},
         d = 1 => k % 2 = 1 /\ k < Len(b),
         d = -1 => k % 2 = 0
  PROVE  /\ k + d \in DOMAIN b
         /\ MerkleHash(b[k], b[k + d]) \in Elements(Parents(b))
<1>1. Len(b) \in Nat /\ k \in 1 .. Len(b) /\ DOMAIN b = 1 .. Len(b)
  BY SeqFacts
<1>2. DOMAIN Parents(b) = 1 .. ((Len(b) + 1) \div 2)
  BY DEF Parents
<1>3. CASE d = 1
  <2> DEFINE j == (k + 1) \div 2
  <2>1. j \in 1 .. ((Len(b) + 1) \div 2) /\ 2 * j - 1 = k /\ 2 * j = k + 1
    BY <1>1, <1>3
  <2> HIDE DEF j
  <2>2. Parents(b)[j] = {b[k], b[k + 1]}
    BY <1>1, <1>3, <2>1 DEF Parents, MerkleHash, Right
  <2> QED BY <1>1, <1>2, <1>3, <2>1, <2>2 DEF Elements, MerkleHash
<1>4. CASE d = -1
  <2> DEFINE j == k \div 2
  <2>1. j \in 1 .. ((Len(b) + 1) \div 2) /\ 2 * j - 1 = k - 1 /\ 2 * j = k
    BY <1>1, <1>4
  <2> HIDE DEF j
  <2>2. Parents(b)[j] = {b[k - 1], b[k]}
    BY <1>1, <1>4, <2>1 DEF Parents, MerkleHash, Right
  <2> QED BY <1>1, <1>2, <1>4, <2>1, <2>2 DEF Elements, MerkleHash
<1> QED BY <1>3, <1>4

LEMMA InitMerkleInv == Init => MerkleInv
<1> SUFFICES ASSUME Init PROVE MerkleInv
  OBVIOUS
<1>1. ShapeInv
  BY TreeAssumption, EmptyIsSeq DEF Init, ShapeInv
<1>2. DepthInv
  BY TreeAssumption, SeqFacts, EmptyIsSeq DEF Init, DepthInv
<1> QED BY <1>1, <1>2 DEF Init, MerkleInv, BuildInv, NodesInv, CheckInv, OwnProofVerdict,
             OnlyEmptyOverflows, Top, OwnPath, Proving, Building
-----------------------------------------------------------------------------
(* One lemma for each action, one step in it for each part of MerkleInv.   *)

\* The last level is the root.
LEMMA BuildRootStep ==
  ASSUME MerkleInv, BuildRoot
  PROVE  MerkleInv'
<1> USE DEF MerkleInv, BuildRoot, tree, proof, check
<1>1. ShapeInv'
  BY DEF ShapeInv
<1>2. BuildInv'
  <2>1. level = <<level[1]>>
    BY LengthOne DEF ShapeInv
  <2> QED BY <2>1 DEF BuildInv, Top, Building
<1>3. DepthInv'
  BY DEF DepthInv
<1>4. NodesInv'
  BY DEF NodesInv, OwnPath, Proving
<1>5. CheckInv'
  BY DEF CheckInv
<1>6. OwnProofVerdict'
  BY DEF OwnProofVerdict
<1>7. OnlyEmptyOverflows'
  BY DEF OnlyEmptyOverflows
<1> QED BY <1>1, <1>2, <1>3, <1>4, <1>5, <1>6, <1>7

\* A level is appended and hashed into a shorter one.
LEMMA BuildLevelStep ==
  ASSUME MerkleInv, BuildLevel
  PROVE  MerkleInv'
<1> USE DEF MerkleInv, BuildLevel, tree, proof, check
<1>a. /\ IsSeq(branches) /\ IsSeq(branches')
      /\ Len(branches) \in Nat /\ DOMAIN branches = 1 .. Len(branches)
      /\ DOMAIN branches' = 1 .. Len(branches')
      /\ Len(branches') = Len(branches) + 1
      /\ \A i \in 1 .. Len(branches) : branches'[i] = branches[i]
      /\ branches'[Len(branches')] = level
      /\ branches' # <<>>
  BY SeqFacts, AppendFacts DEF ShapeInv
<1>b. IsSeq(level) /\ IsSeq(Parents(level)) /\ Len(level) \in Nat
  BY SeqFacts, ParentsFacts DEF ShapeInv
<1>1. ShapeInv'
  BY <1>a, <1>b DEF ShapeInv
<1>2. BuildInv'
  <2>1. level = IF branches = <<>> THEN leaves ELSE Parents(branches[Len(branches)])
    BY DEF BuildInv, Top, Last
  <2>2. \A i \in DOMAIN branches' :
           branches'[i] = IF i = 1 THEN leaves ELSE Parents(branches'[i - 1])
    <3> SUFFICES ASSUME NEW i \in DOMAIN branches'
                 PROVE  branches'[i] = IF i = 1 THEN leaves ELSE Parents(branches'[i - 1])
      OBVIOUS
    <3>1. CASE i \in DOMAIN branches
      BY <3>1, <1>a DEF BuildInv
    <3>2. CASE i = Len(branches') /\ i = 1
      <4>1. branches = <<>>
        BY <3>2, <1>a, SeqFacts
      <4> QED BY <4>1, <3>2, <2>1, <1>a
    <3>3. CASE i = Len(branches') /\ i # 1
      <4>1. branches # <<>> /\ i - 1 = Len(branches) /\ i - 1 \in 1 .. Len(branches)
        BY <3>3, <1>a, SeqFacts
      <4> QED BY <4>1, <3>3, <2>1, <1>a
    <3> QED BY <3>1, <3>2, <3>3, <1>a
  <2>3. Top' = Parents(level)
    BY <1>a DEF Top, Last
  <2> QED BY <2>2, <2>3 DEF BuildInv, Building
<1>3. DepthInv'
  <2> SUFFICES ASSUME pc' = "build", leaves # <<>>
               PROVE  Len(level') >= 1 /\ Len(level') + Len(branches') <= Len(leaves)
    BY DEF DepthInv
  <2>1. Len(level) >= 2 /\ Len(level) + Len(branches) <= Len(leaves)
    <3>1. Len(level) >= 1 /\ Len(level) + Len(branches) <= Len(leaves) /\ Len(level) # 1
      BY DEF DepthInv
    <3> HIDE DEF MerkleInv, BuildLevel
    <3>2. Len(level) = 1 \/ Len(level) >= 2
      BY <3>1, <1>b
    <3> QED BY <3>1, <3>2
  <2>2. level' = Parents(level)
    OBVIOUS
  <2>3. Len(level') \in Nat /\ Len(level') >= 1 /\ Len(level') <= Len(level) - 1
    BY <1>b, <2>1, <2>2, ParentsFacts, SeqFacts
  <2>4. Len(leaves) \in Nat
    BY TreeAssumption, SeqFacts DEF ShapeInv
  <2> QED BY <1>a, <1>b, <2>1, <2>3, <2>4
<1>4. NodesInv'
  BY DEF NodesInv, OwnPath, Proving
<1>5. CheckInv'
  BY DEF CheckInv
<1>6. OwnProofVerdict'
  BY DEF OwnProofVerdict
<1>7. OnlyEmptyOverflows'
  BY DEF OnlyEmptyOverflows
<1> QED BY <1>1, <1>2, <1>3, <1>4, <1>5, <1>6, <1>7

\* The stack is full: of all trees, only the empty one gets here.
LEMMA BuildOverflowStep ==
  ASSUME MerkleInv, BuildOverflow
  PROVE  MerkleInv'
<1> USE DEF MerkleInv, BuildOverflow, tree, proof, check
<1>1. ShapeInv'
  BY DEF ShapeInv
<1>2. BuildInv'
  BY DEF BuildInv, Top, Building
<1>3. DepthInv'
  BY DEF DepthInv
<1>4. NodesInv'
  BY DEF NodesInv, OwnPath, Proving
<1>5. CheckInv'
  BY DEF CheckInv
<1>6. OwnProofVerdict'
  BY DEF OwnProofVerdict
<1>7. OnlyEmptyOverflows'
  <2>1. /\ Len(level) \in Nat /\ Len(branches) \in Nat /\ Len(leaves) \in Nat
        /\ MaxDepth \in Nat /\ Len(leaves) <= MaxDepth
    BY TreeAssumption, SeqFacts DEF ShapeInv
  <2> QED BY <2>1 DEF DepthInv, OnlyEmptyOverflows
<1> QED BY <1>1, <1>2, <1>3, <1>4, <1>5, <1>6, <1>7

\* A proof begins at the leaf.
LEMMA ProofStep ==
  ASSUME MerkleInv, Proof
  PROVE  MerkleInv'
<1> USE DEF MerkleInv, Proof, tree, proof, check
<1>1. ShapeInv'
  BY SingletonFacts DEF ShapeInv
<1>2. BuildInv'
  BY DEF BuildInv, Top, Building
<1>3. DepthInv'
  BY DEF DepthInv
<1>4. NodesInv'
  <2>1. path = <<>> /\ Len(path) = 0 /\ Len(branches) \in Nat
    BY SeqFacts, EmptyIsSeq DEF CheckInv, ShapeInv
  <2>2. DOMAIN path = {}
    BY <2>1
  <2> QED BY <2>1, <2>2, SingletonFacts DEF NodesInv
<1>5. CheckInv'
  BY DEF CheckInv
<1>6. OwnProofVerdict'
  BY DEF OwnProofVerdict
<1>7. OnlyEmptyOverflows'
  BY DEF OnlyEmptyOverflows
<1> QED BY <1>1, <1>2, <1>3, <1>4, <1>5, <1>6, <1>7

\* A proof climbs by one branch.
LEMMA RecursiveProofStep ==
  ASSUME MerkleInv, RecursiveProof
  PROVE  MerkleInv'
<1> USE DEF MerkleInv, RecursiveProof, tree, proof, check
<1>a. /\ IsSeq(path) /\ Len(path) \in Nat /\ DOMAIN path = 1 .. Len(path)
      /\ IsSeq(nodes) /\ Len(nodes) = Len(path) + 1
      /\ IsSeq(branches) /\ Len(branches) \in Nat /\ DOMAIN branches = 1 .. Len(branches)
  BY SeqFacts DEF ShapeInv, NodesInv, OwnPath, Proving
<1>b. IsSeq(Branch)
  BY <1>a DEF ShapeInv, Branch
<1>c. \/ UNCHANGED proof /\ pc' \in {"notFound", "panicked", "nextproofError"}
      \/ \E v : /\ path' = Append(path, v)
                /\ nodes' = Append(nodes, MerkleHash(Last(nodes), v))
                /\ UNCHANGED pc
                /\ Last(nodes) \in Elements(Branch)
                /\ Hashes(Last(nodes), v)
                /\ MerkleHash(Last(nodes), v) \in Elements(Parents(Branch))
  <2>1. CASE Last(nodes) \notin Elements(Branch) /\ pc' = "notFound" /\ UNCHANGED proof
    BY <2>1
  <2>2. ASSUME NEW k \in DOMAIN Branch, IsFirst(Branch, Last(nodes), k),
               NEW d \in {1, -1},
               d = 1 => k % 2 = 1 /\ k < Len(Branch),
               d = -1 => k % 2 = 0,
               Hashes(Last(nodes), Branch[k + d]),
               path' = Append(path, Branch[k + d]),
               nodes' = Append(nodes, MerkleHash(Last(nodes), Branch[k + d])),
               UNCHANGED pc
        PROVE  \E v : /\ path' = Append(path, v)
                      /\ nodes' = Append(nodes, MerkleHash(Last(nodes), v))
                      /\ UNCHANGED pc
                      /\ Last(nodes) \in Elements(Branch)
                      /\ Hashes(Last(nodes), v)
                      /\ MerkleHash(Last(nodes), v) \in Elements(Parents(Branch))
    <3>1. Last(nodes) = Branch[k] /\ Last(nodes) \in Elements(Branch)
      BY <2>2 DEF IsFirst, Elements
    <3>2. MerkleHash(Branch[k], Branch[k + d]) \in Elements(Parents(Branch))
      BY <2>2, <1>b, NeighboursHaveParent
    <3> QED BY <2>2, <3>1, <3>2
  <2> QED BY <2>1, <2>2
<1>d. ASSUME NEW v, path' = Append(path, v),
             nodes' = Append(nodes, MerkleHash(Last(nodes), v))
      PROVE  /\ IsSeq(path') /\ Len(path') = Len(path) + 1
             /\ DOMAIN path' = 1 .. Len(path')
             /\ \A i \in 1 .. Len(path) : path'[i] = path[i] /\ nodes'[i] = nodes[i]
             /\ path'[Len(path')] = v
             /\ IsSeq(nodes') /\ Len(nodes') = Len(path') + 1
             /\ nodes'[Len(path')] = Last(nodes)
             /\ nodes'[Len(path') + 1] = MerkleHash(Last(nodes), v)
  <2>1. /\ IsSeq(path') /\ Len(path') = Len(path) + 1
        /\ \A i \in 1 .. Len(path) : path'[i] = path[i]
        /\ path'[Len(path) + 1] = v
    BY <1>d, <1>a, AppendFacts
  <2>2. /\ IsSeq(nodes') /\ Len(nodes') = Len(nodes) + 1
        /\ \A i \in 1 .. Len(nodes) : nodes'[i] = nodes[i]
        /\ nodes'[Len(nodes) + 1] = MerkleHash(Last(nodes), v)
    BY <1>d, <1>a, AppendFacts
  <2> QED BY <2>1, <2>2, <1>a, SeqFacts DEF Last
<1>1. ShapeInv'
  BY <1>c, <1>d DEF ShapeInv
<1>2. BuildInv'
  BY DEF BuildInv, Top, Building
<1>3. DepthInv'
  BY DEF DepthInv
<1>4. NodesInv'
  <2>1. CASE UNCHANGED proof /\ pc' \in {"notFound", "panicked", "nextproofError"}
    BY <2>1 DEF NodesInv, OwnPath, Proving
  <2>2. ASSUME NEW v, path' = Append(path, v),
               nodes' = Append(nodes, MerkleHash(Last(nodes), v)),
               UNCHANGED pc,
               Last(nodes) \in Elements(Branch),
               Hashes(Last(nodes), v),
               MerkleHash(Last(nodes), v) \in Elements(Parents(Branch))
        PROVE  NodesInv'
    <3> DEFINE OK(i) == /\ nodes'[i] \in Elements(branches[i])
                        /\ Hashes(nodes'[i], path'[i])
                        /\ nodes'[i + 1] = MerkleHash(nodes'[i], path'[i])
                        /\ nodes'[i + 1] \in Elements(Parents(branches[i]))
    <3>1. Len(path') = Len(path) + 1 /\ DOMAIN path' = 1 .. Len(path')
      BY <2>2, <1>d
    <3>2. /\ Len(nodes') = Len(path') + 1
          /\ Len(path') <= Len(branches)
          /\ nodes'[1] = leaf
      <4>1. nodes[1] = leaf /\ Last(nodes) = nodes[Len(path) + 1]
        BY <1>a DEF NodesInv, OwnPath, Proving, Last
      <4> QED BY <4>1, <2>2, <1>a, <1>d
    <3>3. ASSUME NEW i \in 1 .. Len(path) PROVE OK(i)
      <4>1. nodes'[i] = nodes[i] /\ path'[i] = path[i]
        BY <2>2, <1>d
      <4>2. nodes'[i + 1] = nodes[i + 1]
        <5>1. CASE i = Len(path)
          BY <5>1, <2>2, <1>a, <1>d DEF Last
        <5>2. CASE i # Len(path)
          <6>1. i + 1 \in 1 .. Len(path)
            <7>1. Len(path) \in Nat
              BY <1>a
            <7> HIDE DEF RecursiveProof, MerkleInv
            <7> QED BY <5>2, <7>1
          <6> QED BY <6>1, <2>2, <1>d
        <5> QED BY <5>1, <5>2
      <4> QED BY <4>1, <4>2, <1>a DEF NodesInv, OwnPath, Proving
    <3>4. OK(Len(path'))
      BY <2>2, <1>a, <1>d DEF Branch
    <3> HIDE DEF OK
    <3>5. \A i \in DOMAIN path' : OK(i)
      BY <3>1, <3>3, <3>4, <1>a
    <3> QED BY <3>1, <3>2, <3>5 DEF NodesInv, OK
  <2> QED BY <1>c, <2>1, <2>2
<1>5. CheckInv'
  BY DEF CheckInv
<1>6. OwnProofVerdict'
  BY DEF OwnProofVerdict
<1>7. OnlyEmptyOverflows'
  BY DEF OnlyEmptyOverflows
<1> QED BY <1>1, <1>2, <1>3, <1>4, <1>5, <1>6, <1>7

\* A proof is returned at the root.
LEMMA ProofReturnsStep ==
  ASSUME MerkleInv, ProofReturns
  PROVE  MerkleInv'
<1> USE DEF MerkleInv, ProofReturns, tree, proof, check
<1>1. ShapeInv'
  BY DEF ShapeInv
<1>2. BuildInv'
  BY DEF BuildInv, Top, Building
<1>3. DepthInv'
  BY DEF DepthInv
<1>4. NodesInv'
  BY DEF NodesInv, OwnPath, Proving
<1>5. CheckInv'
  BY DEF CheckInv
<1>6. OwnProofVerdict'
  BY DEF OwnProofVerdict
<1>7. OnlyEmptyOverflows'
  BY DEF OnlyEmptyOverflows
<1> QED BY <1>1, <1>2, <1>3, <1>4, <1>5, <1>6, <1>7

\* The check of a proof begins at the same leaf.
LEMMA CheckStep ==
  ASSUME MerkleInv, Check
  PROVE  MerkleInv'
<1> USE DEF MerkleInv, Check, tree, proof, check
<1>1. ShapeInv'
  BY DEF ShapeInv
<1>2. BuildInv'
  BY DEF BuildInv, Top, Building
<1>3. DepthInv'
  BY DEF DepthInv
<1>4. NodesInv'
  BY DEF NodesInv, OwnPath, Proving
<1>5. CheckInv'
  BY DEF CheckInv, NodesInv, OwnPath, Proving
<1>6. OwnProofVerdict'
  BY DEF OwnProofVerdict
<1>7. OnlyEmptyOverflows'
  BY DEF OnlyEmptyOverflows
<1> QED BY <1>1, <1>2, <1>3, <1>4, <1>5, <1>6, <1>7

\* The check of any other path.
LEMMA CheckForgedStep ==
  ASSUME MerkleInv, CheckForged
  PROVE  MerkleInv'
<1> USE DEF MerkleInv, CheckForged, tree, proof, check
<1>1. ShapeInv'
  BY DEF ShapeInv
<1>2. BuildInv'
  BY DEF BuildInv, Top, Building
<1>3. DepthInv'
  BY DEF DepthInv
<1>4. NodesInv'
  BY DEF NodesInv, OwnPath, Proving
<1>5. CheckInv'
  BY DEF CheckInv
<1>6. OwnProofVerdict'
  BY DEF OwnProofVerdict
<1>7. OnlyEmptyOverflows'
  BY DEF OnlyEmptyOverflows
<1> QED BY <1>1, <1>2, <1>3, <1>4, <1>5, <1>6, <1>7

\* The check of a proof climbs as the proof did.
LEMMA VerifyStepStep ==
  ASSUME MerkleInv, VerifyStep
  PROVE  MerkleInv'
<1> USE DEF MerkleInv, VerifyStep, tree, proof, check
<1>a. PICK s \in NextOnPath :
        \/ /\ Hashes(node, s)
           /\ node' = MerkleHash(node, s) /\ step' = step + 1
           /\ UNCHANGED <<pc, verdict>>
        \/ /\ ~Hashes(node, s)
           /\ verdict' = FALSE /\ pc' = "verdict"
           /\ UNCHANGED <<node, step>>
  BY Zenon
<1>b. ~forged => /\ step + 1 \in DOMAIN path
                 /\ DOMAIN path = 1 .. Len(path)
                 /\ Hashes(node, s)
                 /\ MerkleHash(node, s) = nodes[step + 2]
  <2> SUFFICES ASSUME ~forged PROVE /\ step + 1 \in DOMAIN path
                                    /\ DOMAIN path = 1 .. Len(path)
                                    /\ Hashes(node, s)
                                    /\ MerkleHash(node, s) = nodes[step + 2]
    OBVIOUS
  <2>1. step + 1 \in DOMAIN path /\ s = path[step + 1]
    BY DEF NextOnPath
  <2>2. node = nodes[step + 1] /\ step \in Nat
    BY DEF CheckInv, ShapeInv
  <2>3. /\ Hashes(nodes[step + 1], path[step + 1])
        /\ nodes[(step + 1) + 1] = MerkleHash(nodes[step + 1], path[step + 1])
    BY <2>1 DEF NodesInv, OwnPath
  <2> QED BY <2>1, <2>2, <2>3, SeqFacts DEF ShapeInv
<1>1. ShapeInv'
  BY DEF ShapeInv
<1>2. BuildInv'
  BY DEF BuildInv, Top, Building
<1>3. DepthInv'
  BY DEF DepthInv
<1>4. NodesInv'
  BY DEF NodesInv, OwnPath, Proving
<1>5. CheckInv'
  BY <1>a, <1>b DEF CheckInv, ShapeInv
<1>6. OwnProofVerdict'
  BY <1>a, <1>b DEF OwnProofVerdict
<1>7. OnlyEmptyOverflows'
  BY DEF OnlyEmptyOverflows
<1> QED BY <1>1, <1>2, <1>3, <1>4, <1>5, <1>6, <1>7

\* At the end of the path the node is compared with the root.
LEMMA VerifyEndStep ==
  ASSUME MerkleInv, VerifyEnd
  PROVE  MerkleInv'
<1> USE DEF MerkleInv, VerifyEnd, tree, proof, check
<1>1. ShapeInv'
  BY DEF ShapeInv
<1>2. BuildInv'
  BY DEF BuildInv, Top, Building
<1>3. DepthInv'
  BY DEF DepthInv
<1>4. NodesInv'
  BY DEF NodesInv, OwnPath, Proving
<1>5. CheckInv'
  BY DEF CheckInv
<1>6. OwnProofVerdict'
  <2> SUFFICES ASSUME ~forged PROVE (node = root) <=> leaf \in Elements(leaves)
    BY DEF OwnProofVerdict
  <2>1. /\ node = nodes[Len(path) + 1] /\ Len(path) = Len(branches) /\ nodes[1] = leaf
        /\ DOMAIN path = 1 .. Len(path) /\ Len(path) \in Nat
        /\ IsSeq(branches)
        /\ Top = <<root>>
    BY SeqFacts DEF CheckInv, NodesInv, OwnPath, ShapeInv, BuildInv, Building
  <2>2. Elements(<<root>>) = {root}
    BY DEF Elements
  <2>3. CASE Len(path) = 0
    <3>1. leaves = <<root>>
      BY <2>1, <2>3, SeqFacts DEF Top
    <3> QED BY <3>1, <2>1, <2>2, <2>3
  <2>4. CASE Len(path) # 0
    <3>1. branches # <<>> /\ Last(branches) = branches[Len(path)]
      BY <2>1, <2>4, SeqFacts DEF Last
    <3>2. /\ nodes[Len(path) + 1] \in Elements(Parents(branches[Len(path)]))
          /\ nodes[1] \in Elements(branches[1])
      BY <2>1, <2>4 DEF NodesInv, OwnPath
    <3>3. branches[1] = leaves
      <4>1. 1 \in DOMAIN branches
        BY <2>1, <2>4, SeqFacts
      <4> QED BY <4>1 DEF BuildInv
    <3> QED BY <3>1, <3>2, <3>3, <2>1, <2>2 DEF Top
  <2> QED BY <2>3, <2>4
<1>7. OnlyEmptyOverflows'
  BY DEF OnlyEmptyOverflows
<1> QED BY <1>1, <1>2, <1>3, <1>4, <1>5, <1>6, <1>7

LEMMA NextMerkleInv == MerkleInv /\ [Next]_vars => MerkleInv'
<1> SUFFICES ASSUME MerkleInv, [Next]_vars PROVE MerkleInv'
  OBVIOUS
<1>1. CASE UNCHANGED vars
  BY <1>1 DEF vars, tree, proof, check, MerkleInv, ShapeInv, BuildInv, DepthInv, NodesInv,
       CheckInv, OwnProofVerdict, OnlyEmptyOverflows, Top, OwnPath, Proving, Building
<1>2. CASE Next
  BY <1>2, BuildRootStep, BuildLevelStep, BuildOverflowStep, ProofStep, RecursiveProofStep,
     ProofReturnsStep, CheckStep, CheckForgedStep, VerifyStepStep, VerifyEndStep
     DEF Next, Build, Prove, Verify
<1> QED BY <1>1, <1>2

\* MerkleInv holds in every state.
THEOREM MerkleInvCorrect == Spec => []MerkleInv
BY InitMerkleInv, NextMerkleInv, PTL DEF Spec

\* In a tree of any size, with any duplicates, ProofMerklePath accepts what Proof
\* returns for a leaf, and nothing that it returns for another value.
THEOREM OwnProofCorrect == Spec => []OwnProofVerdict
<1>1. MerkleInv => OwnProofVerdict
  BY DEF MerkleInv
<1> QED BY <1>1, MerkleInvCorrect, PTL

\* build needs no more calls than there are leaves, unless there are none.
THEOREM BuildEnds == Spec => []OnlyEmptyOverflows
<1>1. MerkleInv => OnlyEmptyOverflows
  BY DEF MerkleInv
<1> QED BY <1>1, MerkleInvCorrect, PTL
-----------------------------------------------------------------------------
(* Which values have proofs.                                               *)

\* A tree whose building went on has no value that MerkleHash refuses.
HashableInv ==
  pc # "buildError" => \A i \in DOMAIN branches : Elements(branches[i]) \cap Unhashable = {}

FoundInv == pc = "notFound" => leaf \notin Elements(leaves)

ProofInv == HashableInv /\ FoundInv /\ pc # "nextproofError"

LEMMA InitProofInv == Init => ProofInv
BY DEF Init, ProofInv, HashableInv, FoundInv

\* A level is appended only after it was hashed.
LEMMA BuildLevelProofInv ==
  ASSUME MerkleInv, ProofInv, BuildLevel
  PROVE  ProofInv'
<1> USE DEF BuildLevel, ProofInv
<1>1. IsSeq(branches) /\ DOMAIN branches = 1 .. Len(branches)
  BY SeqFacts DEF MerkleInv, ShapeInv
<1>2. /\ IsSeq(branches') /\ DOMAIN branches' = 1 .. Len(branches) + 1
      /\ \A i \in 1 .. Len(branches) : branches'[i] = branches[i]
      /\ branches'[Len(branches) + 1] = level
  BY <1>1, AppendFacts, SeqFacts
<1>3. HashableInv'
  <2> SUFFICES ASSUME pc' # "buildError", NEW i \in DOMAIN branches'
               PROVE  Elements(branches'[i]) \cap Unhashable = {}
    BY DEF HashableInv
  <2>1. Elements(level) \cap Unhashable = {}
    OBVIOUS
  <2>2. i \in 1 .. Len(branches) \/ i = Len(branches) + 1
    <3>1. Len(branches) \in Nat
      BY <1>1, SeqFacts
    <3> HIDE DEF BuildLevel
    <3> QED BY <1>2, <3>1
  <2> QED BY <1>1, <1>2, <2>1, <2>2 DEF HashableInv
<1> QED BY <1>3 DEF FoundInv

\* A value that is not found is the one that was asked for: what the proof has
\* hashed since is in the next branch.
LEMMA RecursiveProofProofInv ==
  ASSUME MerkleInv, ProofInv, RecursiveProof
  PROVE  ProofInv'
<1> USE DEF ProofInv
<1>1. UNCHANGED tree /\ pc = "prove" /\ UNCHANGED leaf
  BY DEF RecursiveProof
<1>2. /\ IsSeq(path) /\ Len(path) \in Nat /\ DOMAIN path = 1 .. Len(path)
      /\ Len(nodes) = Len(path) + 1 /\ nodes[1] = leaf
      /\ IsSeq(branches) /\ Len(branches) \in Nat /\ DOMAIN branches = 1 .. Len(branches)
      /\ Len(path) < Len(branches)
  BY <1>1, SeqFacts DEF MerkleInv, ShapeInv, NodesInv, OwnPath, Proving, RecursiveProof
<1>3. Len(path) + 1 \in DOMAIN branches
  BY <1>2
<1>4. Elements(Branch) \cap Unhashable = {}
  BY <1>1, <1>3 DEF HashableInv, Branch
<1>5. HashableInv'
  BY <1>1 DEF HashableInv, tree
<1>6. FoundInv'
  <2> SUFFICES ASSUME pc' = "notFound", leaf \in Elements(leaves) PROVE FALSE
    BY <1>1 DEF FoundInv, tree
  <2>1. Last(nodes) \notin Elements(Branch)
    BY <1>1 DEF RecursiveProof
  <2>2. CASE Len(path) = 0
    <3>1. Branch = leaves
      <4>1. Branch = branches[1] /\ 1 \in DOMAIN branches
        BY <1>3, <2>2 DEF Branch
      <4> QED BY <4>1 DEF MerkleInv, BuildInv
    <3> QED BY <1>2, <2>1, <2>2, <3>1 DEF Last
  <2>3. CASE Len(path) # 0
    <3>1. Len(path) \in DOMAIN path
      BY <1>2, <2>3
    <3>2. nodes[Len(path) + 1] \in Elements(Parents(branches[Len(path)]))
      BY <1>1, <3>1 DEF MerkleInv, NodesInv, OwnPath, Proving
    <3>3. Branch = Parents(branches[Len(path)])
      <4>1. Len(path) + 1 # 1 /\ (Len(path) + 1) - 1 = Len(path)
        BY <1>2, <2>3
      <4> QED BY <1>3, <4>1 DEF MerkleInv, BuildInv, Branch
    <3> QED BY <1>2, <2>1, <3>2, <3>3 DEF Last
  <2> QED BY <2>2, <2>3
<1>7. pc' # "nextproofError"
  <2> SUFFICES ASSUME pc' = "nextproofError" PROVE FALSE
    OBVIOUS
  <2>1. PICK k \in DOMAIN Branch, d \in {1, -1} :
          /\ IsFirst(Branch, Last(nodes), k)
          /\ d = 1 => k % 2 = 1 /\ k < Len(Branch)
          /\ d = -1 => k % 2 = 0
          /\ ~Hashes(Last(nodes), Branch[k + d])
    BY <1>1 DEF RecursiveProof
  <2>2. IsSeq(Branch)
    BY <1>3 DEF MerkleInv, ShapeInv, Branch
  <2>3. k + d \in DOMAIN Branch
    BY <2>1, <2>2, NeighboursHaveParent
  <2>4. Last(nodes) = Branch[k]
    BY <2>1 DEF IsFirst
  <2> QED BY <1>4, <2>1, <2>3, <2>4 DEF Elements, Hashes
<1> QED BY <1>5, <1>6, <1>7

LEMMA NextProofInv ==
  ASSUME MerkleInv, ProofInv, [Next]_vars
  PROVE  ProofInv'
<1> USE DEF ProofInv, HashableInv, FoundInv, tree, proof, check
<1>1. CASE UNCHANGED vars
  BY <1>1 DEF vars
<1>2. CASE BuildRoot
  BY <1>2 DEF BuildRoot
<1>3. CASE BuildOverflow
  BY <1>3 DEF BuildOverflow
<1>4. CASE Proof
  BY <1>4 DEF Proof
<1>5. CASE ProofReturns
  BY <1>5 DEF ProofReturns
<1>6. CASE Check
  BY <1>6 DEF Check
<1>7. CASE CheckForged
  BY <1>7 DEF CheckForged
<1>8. CASE VerifyStep
  BY <1>8 DEF VerifyStep
<1>9. CASE VerifyEnd
  BY <1>9 DEF VerifyEnd
<1> QED
  BY <1>1, <1>2, <1>3, <1>4, <1>5, <1>6, <1>7, <1>8, <1>9, BuildLevelProofInv,
     RecursiveProofProofInv DEF Next, Build, Prove, Verify

\* Proof fails for no leaf of the tree, and gives a path for no other value unless
\* the tree is one leaf; MerkleHash refuses nothing in a tree that was built.
THEOREM ProofsAreOfLeaves == Spec => []OnlyLeavesHaveProofs
<1>1. Spec => []ProofInv
  BY MerkleInvCorrect, InitProofInv, NextProofInv, PTL DEF Spec
<1>2. MerkleInv /\ ProofInv => OnlyLeavesHaveProofs
  <2> SUFFICES ASSUME MerkleInv, pc = "proved", leaf \notin Elements(leaves)
               PROVE  Len(leaves) = 1
    BY DEF ProofInv, FoundInv, OnlyLeavesHaveProofs
  <2>1. /\ nodes[1] = leaf /\ Len(path) = Len(branches) /\ DOMAIN path = 1 .. Len(path)
        /\ Len(path) \in Nat /\ IsSeq(branches) /\ Top = <<root>>
    BY SeqFacts DEF MerkleInv, NodesInv, CheckInv, ShapeInv, BuildInv, OwnPath, Proving,
                    Building
  <2>2. CASE Len(path) = 0
    <3>1. branches = <<>>
      BY <2>1, <2>2, SeqFacts
    <3>2. leaves = <<root>>
      BY <2>1, <3>1 DEF Top
    <3> QED BY <3>2, SingletonFacts
  <2>3. CASE Len(path) # 0
    <3>1. 1 \in DOMAIN path /\ 1 \in DOMAIN branches
      BY <2>1, <2>3, SeqFacts
    <3>2. nodes[1] \in Elements(branches[1]) /\ branches[1] = leaves
      BY <3>1 DEF MerkleInv, NodesInv, BuildInv, OwnPath, Proving
    <3> QED BY <2>1, <3>2
  <2> QED BY <2>1, <2>2, <2>3
<1> QED BY MerkleInvCorrect, <1>1, <1>2, PTL
-----------------------------------------------------------------------------
(* The type invariant.                                                     *)

\* nil is not what MerkleHash returns.
NilIsNoHash == \A x, y : MerkleHash(x, y) # Nil

\* A path that is not Proof's own leaves hashPath empty.
TypeInv == TypeOK /\ (~OwnPath => path = <<>>)

LEMMA InitTypeInv == Init => TypeInv
<1> SUFFICES ASSUME Init PROVE TypeInv
  OBVIOUS
<1>1. DOMAIN branches = {} /\ Len(path) <= Len(branches)
  BY DEF Init
<1> QED BY <1>1 DEF Init, TypeInv, TypeOK, OwnPath, Building, Proving

\* The root is a leaf, in a tree of one, or a hash.
LEMMA BuildRootTypeInv ==
  ASSUME NilIsNoHash, MerkleInv, TypeInv, BuildRoot
  PROVE  TypeInv'
<1> USE DEF BuildRoot, TypeInv
<1>1. level[1] # Nil
  <2>1. /\ level = Top /\ level = <<level[1]>> /\ IsSeq(level) /\ 1 \in DOMAIN level
    BY SeqFacts, LengthOne DEF MerkleInv, BuildInv, ShapeInv
  <2>2. CASE branches = <<>>
    <3>1. level[1] \in Elements(leaves)
      BY <2>1, <2>2 DEF Top, Elements
    <3> QED BY <3>1, TreeAssumption DEF MerkleInv, ShapeInv
  <2>3. CASE branches # <<>>
    <3>1. level = Parents(Last(branches))
      BY <2>1, <2>3 DEF Top
    <3>2. \E x, y : level[1] = MerkleHash(x, y)
      BY <2>1, <3>1 DEF Parents
    <3> QED BY <3>2 DEF NilIsNoHash
  <2> QED BY <2>2, <2>3
<1> QED BY <1>1, EmptyIsSeq, SeqFacts DEF TypeOK, Building, Proving, OwnPath, tree, proof, check

\* Only a level of two or more values becomes a branch.
LEMMA BuildLevelTypeInv ==
  ASSUME MerkleInv, TypeInv, BuildLevel
  PROVE  TypeInv'
<1> USE DEF BuildLevel, TypeInv
<1>1. /\ IsSeq(branches) /\ Len(branches) \in Nat /\ DOMAIN branches = 1 .. Len(branches)
      /\ IsSeq(level) /\ Len(level) \in Nat
  BY SeqFacts DEF MerkleInv, ShapeInv
<1>2. /\ DOMAIN branches' = 1 .. Len(branches) + 1 /\ Len(branches') = Len(branches) + 1
      /\ \A i \in 1 .. Len(branches) : branches'[i] = branches[i]
      /\ branches'[Len(branches) + 1] = level
  BY <1>1, AppendFacts, SeqFacts
<1>3. leaves' # <<>> => \A i \in DOMAIN branches' : Len(branches'[i]) >= 2
  <2> SUFFICES ASSUME leaves # <<>>, NEW i \in 1 .. Len(branches) + 1
               PROVE  Len(branches'[i]) >= 2
    BY <1>2
  <2>1. Len(level) >= 2
    <3>1. Len(level) >= 1 /\ Len(level) # 1
      BY DEF MerkleInv, DepthInv
    <3> HIDE DEF BuildLevel, TypeInv
    <3>2. Len(level) \in Nat
      BY <1>1
    <3>3. Len(level) = 1 \/ Len(level) >= 2
      BY <3>1, <3>2
    <3> QED BY <3>1, <3>3
  <2>2. CASE i \in 1 .. Len(branches)
    BY <1>1, <1>2, <2>2 DEF TypeOK
  <2>3. CASE i = Len(branches) + 1
    BY <1>2, <2>1, <2>3
  <2> QED
    <3> HIDE DEF BuildLevel
    <3> QED BY <1>1, <2>2, <2>3
<1>4. path = <<>> /\ pc = "build" /\ pc' \in {"build", "buildError"}
  BY DEF OwnPath, Proving
<1>5. /\ ~OwnPath' /\ path' = <<>> /\ Len(path') <= Len(branches')
      /\ Building' /\ ~Proving'
  BY <1>1, <1>2, <1>4, EmptyIsSeq DEF OwnPath, Building, Proving, proof
<1> QED BY <1>3, <1>4, <1>5 DEF TypeOK, Building, check

LEMMA NextTypeInv ==
  ASSUME NilIsNoHash, MerkleInv, MerkleInv', TypeInv, [Next]_vars
  PROVE  TypeInv'
<1> USE DEF TypeInv, TypeOK, Building, Proving, OwnPath, tree, proof, check
<1>1. CASE UNCHANGED vars
  BY <1>1 DEF vars
<1>2. CASE BuildOverflow
  BY <1>2 DEF BuildOverflow
<1>3. CASE Proof
  BY <1>3, SingletonFacts, EmptyIsSeq DEF Proof, MerkleInv, CheckInv
<1>4. CASE RecursiveProof
  <2>1. /\ UNCHANGED <<tree, leaf, check>>
        /\ pc' \in {"prove", "notFound", "panicked", "nextproofError"}
    BY <1>4 DEF RecursiveProof
  <2>2. Len(nodes') = Len(path') + 1 /\ Len(path') <= Len(branches')
    BY <2>1 DEF MerkleInv, NodesInv
  <2>3. ~forged /\ step = 0 /\ Len(path') \in Nat
    BY <1>4, SeqFacts DEF RecursiveProof, MerkleInv, CheckInv, ShapeInv
  <2> QED BY <1>4, <2>1, <2>2, <2>3 DEF RecursiveProof
<1>5. CASE ProofReturns
  BY <1>5 DEF ProofReturns
<1>6. CASE Check
  <2>1. ~forged /\ Len(path) \in Nat /\ step = 0
    BY <1>6, SeqFacts DEF Check, MerkleInv, ShapeInv, CheckInv
  <2> QED BY <1>6, <2>1 DEF Check
<1>7. CASE CheckForged
  BY <1>7, EmptyIsSeq DEF CheckForged, MerkleInv, CheckInv
<1>8. CASE VerifyStep
  <2>1. /\ UNCHANGED <<tree, leaf, proof, forged>> /\ pc = "verify"
        /\ \/ pc' = "verify" /\ step' = step + 1 /\ verdict' = verdict
           \/ pc' = "verdict" /\ step' = step /\ verdict' = FALSE
    BY <1>8, Zenon DEF VerifyStep
  <2>2. step' \in Nat /\ (forged' \/ step' <= Len(path'))
    BY <2>1 DEF MerkleInv, CheckInv
  <2> QED BY <2>1, <2>2
<1>9. CASE VerifyEnd
  <2>1. /\ UNCHANGED <<tree, leaf, proof, forged, node, step>> /\ pc = "verify"
        /\ pc' = "verdict" /\ verdict' \in BOOLEAN
    BY <1>9 DEF VerifyEnd
  <2> QED BY <2>1
<1> QED
  <2> HIDE DEF TypeInv
  <2> QED BY <1>1, <1>2, <1>3, <1>4, <1>5, <1>6, <1>7, <1>8, <1>9, BuildRootTypeInv,
            BuildLevelTypeInv DEF Next, Build, Prove, Verify

\* The calls on a tree of any size keep their data in shape; in particular a tree
\* has a root exactly when build has returned one.
THEOREM TypeCorrect ==
  ASSUME NilIsNoHash
  PROVE  Spec => []TypeOK
<1>1. MerkleInv /\ MerkleInv' /\ TypeInv /\ [Next]_vars => TypeInv'
  BY NextTypeInv
<1>2. TypeInv => TypeOK
  BY DEF TypeInv
<1> QED BY MerkleInvCorrect, InitTypeInv, <1>1, <1>2, PTL DEF Spec
-----------------------------------------------------------------------------
(* What a path that leads to the root says.                                *)

\* The code hashes leaves and inner nodes alike, so that what follows supposes
\* that no leaf, and not the padding, is itself a hash.
LeavesAreNoHashes ==
  \A t \in Trees : \A v \in Elements(t) \cup {Zero} : \A x, y : v # MerkleHash(x, y)

\* A path that leads from a node into the tree leads there from its leaf.
KnownInv ==
  /\ pc = "verify" /\ node \in Known => leaf \in Known
  /\ VerifiedIsKnown

\* A hash that is in the tree is of two values in the tree.
LEMMA KnownHash ==
  ASSUME LeavesAreNoHashes, MerkleInv, ~Building, NEW x, NEW y,
         MerkleHash(x, y) \in Known
  PROVE  x \in Known
<1> DEFINE h == MerkleHash(x, y)
<1>1. /\ IsSeq(branches) /\ Len(branches) \in Nat /\ DOMAIN branches = 1 .. Len(branches)
      /\ \A i \in DOMAIN branches : IsSeq(branches[i])
      /\ Top = <<root>>
  BY SeqFacts DEF MerkleInv, ShapeInv, BuildInv
<1>2. h # Zero /\ h \notin Elements(leaves)
  BY DEF LeavesAreNoHashes, MerkleInv, ShapeInv
<1>3. ASSUME NEW i \in DOMAIN branches, h \in Elements(Parents(branches[i]))
      PROVE  x \in Known
  <2> DEFINE b == branches[i]
  <2>1. IsSeq(b) /\ Len(b) \in Nat /\ DOMAIN b = 1 .. Len(b)
    BY <1>1, SeqFacts
  <2>2. PICK j \in 1 .. ((Len(b) + 1) \div 2) : h = MerkleHash(b[2 * j - 1], Right(b, j))
    BY <1>3 DEF Elements, Parents
  <2>3. x = b[2 * j - 1] \/ x = Right(b, j)
    BY <2>2 DEF MerkleHash
  <2>4. 2 * j - 1 \in DOMAIN b /\ (2 * j <= Len(b) => 2 * j \in DOMAIN b)
    BY <2>1
  <2>5. x \in Elements(b) \cup {Zero}
    <3>1. ~(2 * j > Len(b)) => 2 * j \in DOMAIN b
      BY <2>1
    <3> QED BY <2>3, <2>4, <3>1 DEF Elements, Right
  <2> QED BY <2>5 DEF Known
<1>4. ASSUME NEW i \in DOMAIN branches, h \in Elements(branches[i])
      PROVE  x \in Known
  <2>1. i # 1
    BY <1>2, <1>4 DEF MerkleInv, BuildInv
  <2>2. branches[i] = Parents(branches[i - 1]) /\ i - 1 \in DOMAIN branches
    BY <1>1, <2>1 DEF MerkleInv, BuildInv
  <2> QED BY <1>3, <1>4, <2>2
<1>5. ASSUME h = root
      PROVE  x \in Known
  <2>1. h \in Elements(Top)
    BY <1>1, <1>5, SingletonFacts DEF Elements
  <2>2. branches # <<>> /\ h \in Elements(Parents(Last(branches)))
    BY <1>2, <2>1 DEF Top
  <2>3. Len(branches) \in DOMAIN branches
    BY <1>1, <2>2, SeqFacts
  <2> QED BY <1>3, <2>2, <2>3 DEF Last
<1> HIDE DEF h
<1>6. h \in Known
  BY DEF h
<1> QED BY <1>2, <1>4, <1>5, <1>6 DEF Known

LEMMA InitKnownInv == Init => KnownInv
BY DEF Init, KnownInv, VerifiedIsKnown

LEMMA NextKnownInv ==
  ASSUME LeavesAreNoHashes, MerkleInv, KnownInv, [Next]_vars
  PROVE  KnownInv'
<1> USE DEF KnownInv, VerifiedIsKnown
<1>1. CASE pc' \notin {"verify", "verdict"}
  BY <1>1
<1>2. CASE UNCHANGED vars
  BY <1>2 DEF vars, tree, proof, check, Known
<1>3. CASE Check
  <2>1. node' = leaf /\ UNCHANGED leaf /\ pc' = "verify"
    BY <1>3 DEF Check
  <2> QED BY <2>1
<1>4. CASE CheckForged
  <2>1. node' = leaf' /\ pc' = "verify"
    BY <1>4 DEF CheckForged
  <2> QED BY <2>1
<1>5. CASE VerifyStep
  <2>1. UNCHANGED <<tree, leaf>> /\ pc = "verify" /\ ~Building
    BY <1>5 DEF VerifyStep, Building
  <2>2. Known' = Known
    BY <2>1 DEF tree, Known
  <2>3. \/ pc' = "verify" /\ \E s : node' = MerkleHash(node, s)
        \/ pc' = "verdict" /\ verdict' = FALSE
    BY <1>5, Zenon DEF VerifyStep
  <2>4. pc' = "verify" /\ node' \in Known => node \in Known
    BY <2>1, <2>3, KnownHash
  <2> QED BY <2>1, <2>2, <2>3, <2>4
<1>6. CASE VerifyEnd
  <2>1. UNCHANGED <<tree, leaf>> /\ pc = "verify" /\ pc' = "verdict" /\ verdict' = (node = root)
    BY <1>6 DEF VerifyEnd
  <2>2. UNCHANGED Known /\ root \in Known
    BY <2>1 DEF tree, Known
  <2> QED BY <2>1, <2>2
<1> QED
  <2>1. CASE BuildRoot \/ BuildLevel \/ BuildOverflow \/ Proof \/ RecursiveProof \/ ProofReturns
    <3>1. pc' \notin {"verify", "verdict"}
      BY <2>1 DEF BuildRoot, BuildLevel, BuildOverflow, Proof, RecursiveProof, ProofReturns
    <3> QED BY <1>1, <3>1
  <2> HIDE DEF KnownInv
  <2> QED BY <1>2, <1>3, <1>4, <1>5, <1>6, <2>1 DEF Next, Build, Prove, Verify

\* ProofMerklePath accepts a value, with any path of any length, only if the value
\* is in the tree: a leaf, a hash on the way to the root or the padding.
THEOREM VerifiedIsKnownCorrect ==
  ASSUME LeavesAreNoHashes
  PROVE  Spec => []VerifiedIsKnown
<1>1. MerkleInv /\ KnownInv /\ [Next]_vars => KnownInv'
  BY NextKnownInv
<1>2. KnownInv => VerifiedIsKnown
  BY DEF KnownInv
<1> QED BY MerkleInvCorrect, InitKnownInv, <1>1, <1>2, PTL DEF Spec
=============================================================================
