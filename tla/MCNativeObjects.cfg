CONSTANTS
  Threads = {t1, t2}
  InitKinds = {"init", "init_numa"}
  MaxHandles = 2
  Programs <- ProgramsMC
SPECIFICATION NSpec
SYMMETRY Symmetry
INVARIANTS
  AtMostOneToken
  RefusedOnlyWhileOwned
  OneFreeEach
  StaleOnlyWhereNoLifetime
