CONSTANTS
  w1 = w1
  w2 = w2
  w3 = w3
  a = a
  b = b
  None = None
  I32Max = 1
  I64Max = 7
  One = 4
  DefaultTokens = 2
  Programs = {"server", "tools", "tools_reasoning", "openai_stream"}
  Requests <- ManyRequests
  Rendered <- RenderedMC
  Words = {w1, w2, w3}
  Tokens = {a, b}
  TokensOf <- TokensOfMC
  QuotedDollar = {w2}
  MaxTriggers = 2
  MaxCalls = 2
SPECIFICATION Spec
INVARIANTS
  RefusalsAreRight
  NumbersAreUsable
  GrammarIsArmed
