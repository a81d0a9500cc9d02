--------------------------- MODULE MCContextState ---------------------------
(* Model checking ContextState.                                            *)
EXTENDS ContextState

DeltasMC == {-1, 1}
ArgsMC == {1, I32Max + 1, None}
=============================================================================
