--------------------------- MODULE MCNativeObjects ---------------------------
(* Model checking NativeObjects; the threads are interchangeable.          *)
EXTENDS NativeObjects, TLC
(* Models with what reads them, the samplers, and the multimodal objects.  *)
ProgramsMC ==
  {"model" :> 2 @@ "context" :> 1 @@ "lora" :> 1,
   "model" :> 1 @@ "grammar" :> 2 @@ "chain" :> 2,
   "model" :> 1 @@ "sampler" :> 1 @@ "chain" :> 1,
   "model" :> 1 @@ "llg" :> 1 @@ "llg_box" :> 2 @@ "chain" :> 1,
   "model" :> 1 @@ "mtmd" :> 1 @@ "chunks" :> 2 @@ "chunk" :> 2,
   "bitmap" :> 1 @@ "sampler" :> 2 @@ "chain" :> 1 @@ "gguf" :> 1}
Symmetry == Permutations(Threads)
=============================================================================
