SPECIFICATION Spec
CONSTANTS
  Capacity = 15
  SeqIds <- MCSeqIds
  Unwritten = Unwritten
  Programs <- MCPrograms
  I32Max = 7
  BatchSize = 2
  Prompts <- MCPrompts
  Budgets <- MCBudgets
  ContextSizes <- MCContextSizes
CHECK_DEADLOCK FALSE
INVARIANTS
  SampledRowExists
  PositionsInOrder
  FinishReasonExact
  StreamIsTheText
  NeverOutOfCells
