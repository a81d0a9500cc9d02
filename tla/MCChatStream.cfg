SPECIFICATION StreamSpec
CONSTANT MaxUpdates = 4
CHECK_DEADLOCK FALSE
INVARIANTS
  DeltasAreTheMessage
  LeaksOnlyUnconverted
  OnlyLiveBlocks
PROPERTY
  ImplementsStreamInOrder
