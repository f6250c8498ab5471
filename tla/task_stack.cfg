SPECIFICATION FairSpec
CONSTANTS
  c1 = c1
  c2 = c2
  w1 = w1
  w2 = w2
  Callers <- TwoCallers
  Workers <- OneWorker
  Addresses <- MCAddresses
  Sizes = {1, 2}
CONSTRAINT NoABA
INVARIANTS OneOwnerUntilABA PointersAgreeUntilABA
PROPERTIES AllocateEnds
