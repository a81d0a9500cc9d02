----------------------------- MODULE MCChatStream -----------------------------
(* Model checking ChatStream.                                              *)
EXTENDS ChatStream
=============================================================================
