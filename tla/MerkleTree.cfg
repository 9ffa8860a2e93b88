SPECIFICATION Spec
CONSTANTS
  l1 = l1
  l2 = l2
  l3 = l3
  l4 = l4
  l5 = l5
  zero = zero
  big = big
  stranger = stranger
  MaxLeaves = 5
  Trees <- MCTrees
  Strangers <- MCStrangers
  Unhashable <- MCUnhashable
  Zero = zero
  Nil = Nil
  MaxDepth = 5
  MaxForgedPath = 3
INVARIANTS TypeOK OwnProofVerdict VerifiedIsKnown OnlyLeavesHaveProofs OnlyEmptyOverflows
CHECK_DEADLOCK FALSE
