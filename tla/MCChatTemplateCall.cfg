SPECIFICATION Spec
CONSTANT Contents <- MCContents
CHECK_DEADLOCK FALSE
INVARIANTS
  NothingLeftBehind
  OnlyLiveBlocks
  ResultIsTheRendered
