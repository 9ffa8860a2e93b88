SPECIFICATION Spec
CONSTANTS
  l1 = l1
  l2 = l2
  l3 = l3
  l4 = l4
  l5 = l5
  zero = zero
  big = big
  stranger = stranger
  MaxLeaves = 3
  Trees <- MCTrees
  Strangers <- MCStrangers
  Unhashable <- MCUnhashable
  Zero = zero
  Nil = Nil
  MaxDepth = 5
  MaxForgedPath = 2
INVARIANTS ProofReturnsOrFails
CHECK_DEADLOCK FALSE
