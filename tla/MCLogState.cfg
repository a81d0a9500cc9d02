CONSTANTS
  Threads = {t1, t2}
  Levels = {"DEBUG", "INFO", "CONT"}
  EnabledLevels = {"INFO"}
  MaxCalls = 5
  None = None
SPECIFICATION FairSpec
CHECK_DEADLOCK FALSE
INVARIANTS
  EachMessageOnce
  BufferWillBeFlushed
  LinesInOrder
PROPERTIES
  EveryCallReturns
