CONSTANTS
  Capacity = 3
  SeqIds = {s0}
  Unwritten = Unwritten
  NoBatch = NoBatch
  NewSizes = {1, 3}
  NSeqMaxes = {1}
  Positions = {0, 5}
  NCtx = 2
  MaxBuffers = 1
SPECIFICATION Spec
INVARIANTS
  OnlyInitializedLogitsAccessed
