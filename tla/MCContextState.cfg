CONSTANTS
  Seqs = {0, 1}
  I32Max = 2
  U32Max = 5
  Args <- ArgsMC
  Deltas <- DeltasMC
  Divisors = {2}
  Files = {f1}
  None = None
  NoState = NoState
  Refused = Refused
SPECIFICATION StateSpec
INVARIANTS
  RangesAreAsDocumented
  LoadedTokensAreCached
