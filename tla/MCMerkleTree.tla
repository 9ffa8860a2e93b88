---------------------------- MODULE MCMerkleTree ----------------------------
(***************************************************************************)
(* MerkleTree for TLC: the trees of up to MaxLeaves leaves, one for each   *)
(* pattern of equal leaves, and with 0 or an unhashable value among them.  *)
(***************************************************************************)
EXTENDS MerkleTree

CONSTANTS l1, l2, l3, l4, l5, zero, big, stranger, MaxLeaves

Names == <<l1, l2, l3, l4, l5>>

\* f[i] is the number of the leaf at i; a number is used after all smaller ones.
IsPattern(f) ==
  \A i \in DOMAIN f : f[i] > 1 => \E j \in 1 .. i - 1 : f[j] = f[i] - 1

Patterns == UNION {{f \in [1 .. n -> 1 .. n] : IsPattern(f)} : n \in 0 .. MaxLeaves}
Named    == {[i \in DOMAIN f |-> Names[f[i]]] : f \in Patterns}

\* The last of the leaves' names, replaced by a value of its own kind.
Special(v) == {[i \in DOMAIN t |-> IF t[i] = t[Len(t)] THEN v ELSE t[i]] : t \in Named}

MCTrees      == Named \cup Special(zero) \cup Special(big)
MCStrangers  == {stranger, big}
MCUnhashable == {big}
=============================================================================
