--------------------------- MODULE MCGenerationLoop ---------------------------
(* Model checking GenerationLoop.                                          *)
EXTENDS GenerationLoop

MCPrograms == {"server", "simple", "usage", "tools", "openai_stream", "mtmd"}
MCSeqIds == {0}
MCBudgets == 0 .. 17
MCPrompts == 0 .. 3
MCContextSizes == 1 .. 7
=============================================================================
