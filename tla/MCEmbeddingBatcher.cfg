SPECIFICATION FairSpec
CONSTANTS
  Capacity = 3
  SeqIds <- MCSeqIds
  Unwritten = Unwritten
  Lens <- MCLens
  MaxInputs = 4
  SeqMax = 3
  LogitsAll = FALSE
INVARIANTS
  WholeSequences
PROPERTY ImplementsEmbedInOrder
CHECK_DEADLOCK FALSE
