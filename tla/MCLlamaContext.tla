---- MODULE MCLlamaContext ----
(* LlamaContext for TLC. *)
EXTENDS LlamaContext
=============================================================================
