-------------------------- MODULE MCEmbeddingBatcher --------------------------
(* Model checking EmbeddingBatcher.                                        *)
EXTENDS EmbeddingBatcher

MCLens == 0 .. 4
MCSeqIds == 0 .. 4
=============================================================================
