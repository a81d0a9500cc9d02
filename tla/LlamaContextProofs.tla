-------------------------- MODULE LlamaContextProofs --------------------------
(***************************************************************************)
(* Proofs about LlamaContext, for batches of any capacity and any          *)
(* arguments.  The state machine inherits the consistency of the batch,    *)
(* and the match between the list of the context and the rows in C follows *)
(* from it at every successful decode.  Then proofs about ContextState,    *)
(* the cache of the context and its saved states, for any set of           *)
(* sequences, files and shifts and any widths of the integers.             *)
(***************************************************************************)
EXTENDS LlamaContext, ContextState, LlamaBatchProofs, TLAPS

-----------------------------------------------------------------------------
(* The state machine.                                                      *)

(* A batch with room owns a buffer in C, so Drop never frees one too many. *)
BufferHeld ==
  batch # NoBatch /\ batch.allocated > 0 => buffers[batch.allocated] > 0

(* The inductive invariant: the types, a consistent batch (without which a *)
(* successful decode would not leave a matching list), and the match.      *)
IInv ==
  /\ TypeOK
  /\ BufferHeld
  /\ batch # NoBatch => BatchConsistent(batch)
  /\ ListMatchesOutputs

LEMMA InitIInv == Init => IInv
BY BatchAssumption, ContextAssumption
   DEF Init, IInv, TypeOK, BufferHeld, ListMatchesOutputs

(* A batch call replaces the batch by a consistent one.                    *)
LEMMA BatchCallKeepsIInv ==
  ASSUME IInv, BatchConsistent(batch'),
         buffers' \in [0 .. Capacity -> 0 .. MaxBuffers],
         batch'.allocated > 0 => buffers'[batch'.allocated] > 0,
         UNCHANGED ctxVars
  PROVE  IInv'
<1>1. TypeOK' /\ BufferHeld'
  BY DEF IInv, TypeOK, BufferHeld, BatchConsistent, ctxVars
<1>2. ListMatchesOutputs'
  BY DEF IInv, ListMatchesOutputs, ctxVars
<1>3. (batch # NoBatch => BatchConsistent(batch))'
  BY DEF BatchConsistent, Batch, WrittenPrefix, ListIsFlags, FlaggedOffsets
<1> QED BY <1>1, <1>2, <1>3 DEF IInv

LEMMA StepIInv == IInv /\ [Next]_vars => IInv'
<1> SUFFICES ASSUME IInv, [Next]_vars PROVE IInv'
  OBVIOUS
<1> USE BatchAssumption, ContextAssumption
<1>0. batch # NoBatch => /\ batch \in Batch /\ BatchConsistent(batch)
                         /\ batch.allocated \in 0 .. Capacity
                         /\ batch.n_tokens \in 0 .. Capacity
                         /\ batch.allocated > 0 => buffers[batch.allocated] > 0
  BY DEF IInv, BatchConsistent, Batch, BufferHeld
<1>1. ASSUME NEW n \in NewSizes, NEW k \in NSeqMaxes, NewBatchCall(n, k)
      PROVE  IInv'
  <2>1. BatchConsistent(batch')
    BY <1>1, NewBatchConsistent DEF NewBatchCall
  <2>2. /\ buffers' \in [0 .. Capacity -> 0 .. MaxBuffers]
        /\ buffers'[n] > 0
        /\ UNCHANGED ctxVars
    BY <1>1 DEF NewBatchCall, IInv, TypeOK
  <2>3. batch'.allocated = n
    BY <1>1 DEF NewBatchCall, NewBatch
  <2> QED BY <2>1, <2>2, <2>3, BatchCallKeepsIInv
<1>2. ASSUME NEW len \in 0 .. Capacity, NEW seq \in SeqIds, GetOneCall(len, seq)
      PROVE  IInv'
  <2>1. BatchConsistent(batch')
    BY <1>2, GetOneConsistent DEF GetOneCall
  <2>2. buffers' \in [0 .. Capacity -> 0 .. MaxBuffers] /\ UNCHANGED ctxVars
    BY <1>2 DEF GetOneCall, IInv, TypeOK
  <2>3. batch'.allocated = 0
    BY <1>2 DEF GetOneCall, GetOne
  <2> QED BY <2>1, <2>2, <2>3, BatchCallKeepsIInv
<1>3. CASE DropBatch
  <2>1. TypeOK' /\ BufferHeld'
    BY <1>0, <1>3 DEF DropBatch, IInv, TypeOK, BufferHeld, ctxVars
  <2>2. ListMatchesOutputs'
    BY <1>3 DEF DropBatch, IInv, ListMatchesOutputs, ctxVars
  <2> QED BY <1>3, <2>1, <2>2 DEF DropBatch, IInv
<1>4. CASE ClearBatch
  <2>1. BatchConsistent(batch')
    BY <1>0, <1>4, ClearConsistent DEF ClearBatch
  <2>2. batch'.allocated = batch.allocated
    BY <1>0, <1>4 DEF ClearBatch, Clear, Batch
  <2> QED BY <1>0, <1>4, <2>1, <2>2, BatchCallKeepsIInv
          DEF ClearBatch, IInv, TypeOK
<1>5. ASSUME NEW pos \in Positions, NEW ids \in SUBSET SeqIds,
             NEW logits \in BOOLEAN, AddCall(pos, ids, logits)
      PROVE  IInv'
  <2>1. BatchConsistent(batch')
    BY <1>0, <1>5, AddConsistent DEF AddCall
  <2>2. batch'.allocated = batch.allocated
    BY <1>0, <1>5 DEF AddCall, Add, Batch
  <2> QED BY <1>0, <1>5, <2>1, <2>2, BatchCallKeepsIInv
          DEF AddCall, IInv, TypeOK
<1>6. ASSUME NEW len \in 0 .. Capacity, NEW seq \in SeqIds,
             NEW logits_all \in BOOLEAN, AddSequenceCall(len, seq, logits_all)
      PROVE  IInv'
  <2>1. BatchConsistent(batch')
    BY <1>0, <1>6, AddSequenceConsistent DEF AddSequenceCall
  <2>2. batch'.allocated = batch.allocated
    BY <1>0, <1>6 DEF AddSequenceCall, AddSequence, Batch
  <2> QED BY <1>0, <1>6, <2>1, <2>2, BatchCallKeepsIInv
          DEF AddSequenceCall, IInv, TypeOK
<1>7. ASSUME batch # NoBatch, Succeeds \/ Fails, UNCHANGED <<batch, buffers>>
      PROVE  IInv'
  <2>1. CASE Succeeds
    <3>1. initialized_logits' = outputs' /\ outputs' \in SUBSET Offsets
      BY <1>0, <1>7, <2>1
         DEF Succeeds, BatchConsistent, ListIsFlags, FlaggedOffsets
    <3> QED BY <1>7, <2>1, <3>1
            DEF Succeeds, IInv, TypeOK, BufferHeld, ListMatchesOutputs
  <2>2. CASE Fails
    <3>1. CASE UNCHANGED <<outputs, in_step>>
      BY <1>7, <2>2, <3>1 DEF Fails, IInv, TypeOK, BufferHeld, ListMatchesOutputs
    <3>2. CASE outputs' = {} /\ in_step' = FALSE
      BY <1>7, <2>2, <3>2 DEF Fails, IInv, TypeOK, BufferHeld, ListMatchesOutputs
    <3> QED BY <2>2, <3>1, <3>2 DEF Fails
  <2> QED BY <1>7, <2>1, <2>2
<1>8. CASE Decode
  BY <1>7, <1>8 DEF Decode
<1>9. CASE Encode
  BY <1>7, <1>9 DEF Encode
<1>10. CASE EvalChunks
  BY <1>10 DEF EvalChunks, IInv, TypeOK, BufferHeld, ListMatchesOutputs
<1>11. CASE LoadState
  BY <1>11 DEF LoadState, IInv, TypeOK, BufferHeld, ListMatchesOutputs
<1>12. CASE UNCHANGED vars
  BY <1>12 DEF vars, IInv, TypeOK, BufferHeld, ListMatchesOutputs,
               BatchConsistent, WrittenPrefix, ListIsFlags, FlaggedOffsets
<1> QED BY <1>1, <1>2, <1>3, <1>4, <1>5, <1>6, <1>8, <1>9, <1>10, <1>11, <1>12
        DEF Next

LEMMA SpecIInv == Spec => []IInv
BY InitIInv, StepIInv, PTL DEF Spec

(* The variables keep their types: n_tokens never passes what the batch    *)
(* was allocated with, and no buffer is freed twice.                       *)
THEOREM TypeCorrect == Spec => []TypeOK
<1>1. IInv => TypeOK
  BY DEF IInv
<1> QED BY <1>1, SpecIInv, PTL

(* Whatever the caller does, a batch it hands to llama_decode is fully     *)
(* written and its list equals its flags.                                  *)
THEOREM BatchReadyAlways == Spec => []BatchReady
<1>1. IInv => BatchReady
  BY DEF IInv, BatchReady, BatchConsistent
<1> QED BY <1>1, SpecIInv, PTL

(* The loop of add calls in add_sequence makes of every batch what the one *)
(* step does that all modules take for it (llama_batch.rs:127-131).        *)
THEOREM LoopInOneStep == Spec => []AddSequenceIsItsLoop
<1>1. ASSUME IInv
      PROVE  AddSequenceIsItsLoop
  <2> SUFFICES ASSUME batch # NoBatch, NEW len \in 0 .. Capacity, NEW seq \in SeqIds,
                      NEW logits_all \in BOOLEAN, HasRoom(batch, len)
               PROVE  AddSequence(batch, len, seq, logits_all)
                        = AddSequenceLoop(batch, len, seq, logits_all)
    BY DEF AddSequenceIsItsLoop
  <2>1. batch \in Batch /\ len \in Nat
    BY <1>1, BatchAssumption DEF IInv, BatchConsistent
  <2> QED BY <2>1, AddSequenceByAdds
<1> QED BY <1>1, SpecIInv, PTL

(* decode and encode leave a list that admits exactly the rows C kept,     *)
(* until a failure or an operation that bypasses the list.                 *)
THEOREM ListMatches == Spec => []ListMatchesOutputs
<1>1. IInv => ListMatchesOutputs
  BY DEF IInv
<1> QED BY <1>1, SpecIInv, PTL

-----------------------------------------------------------------------------
(* Of the buffers with room for a token there is exactly one while a batch *)
(* of its size is alive, and none otherwise.  Nothing is said of buffers   *)
(* with room for none: those Drop leaves behind.                           *)
OneBuffer ==
  \A n \in 1 .. Capacity :
    buffers[n] = IF batch # NoBatch /\ batch.allocated = n THEN 1 ELSE 0

LEMMA StepOneBuffer ==
  ASSUME IInv, OneBuffer, [Next]_vars
  PROVE  OneBuffer'
<1> USE BatchAssumption, ContextAssumption
<1>0. /\ batch # NoBatch => batch \in Batch /\ batch.allocated \in 0 .. Capacity
      /\ \A b \in Batch : b # NoBatch
  BY DEF IInv, BatchConsistent, Batch
<1>1. ASSUME NEW n \in NewSizes, NEW k \in NSeqMaxes, NewBatchCall(n, k)
      PROVE  OneBuffer'
  <2>1. batch' # NoBatch
    BY <1>0, <1>1, NewBatchConsistent DEF NewBatchCall, BatchConsistent
  <2>2. batch'.allocated = n
    BY <1>1 DEF NewBatchCall, NewBatch
  <2> QED BY <1>1, <2>1, <2>2 DEF NewBatchCall, OneBuffer, IInv, TypeOK
<1>2. ASSUME NEW len \in 0 .. Capacity, NEW seq \in SeqIds, GetOneCall(len, seq)
      PROVE  OneBuffer'
  BY <1>2 DEF GetOneCall, GetOne, OneBuffer
<1>3. CASE DropBatch
  BY <1>0, <1>3 DEF DropBatch, OneBuffer, IInv, TypeOK
<1>4. ASSUME batch # NoBatch, batch' # NoBatch, UNCHANGED buffers,
             batch'.allocated = batch.allocated
      PROVE  OneBuffer'
  BY <1>4 DEF OneBuffer
<1>5. CASE ClearBatch
  <2>1. batch'.allocated = batch.allocated
    BY <1>0, <1>5 DEF ClearBatch, Clear, Batch
  <2>2. batch' # NoBatch
    BY <1>0, <1>5, ClearConsistent DEF ClearBatch, IInv, BatchConsistent
  <2> QED BY <1>4, <1>5, <2>1, <2>2 DEF ClearBatch
<1>6. ASSUME NEW pos \in Positions, NEW ids \in SUBSET SeqIds,
             NEW logits \in BOOLEAN, AddCall(pos, ids, logits)
      PROVE  OneBuffer'
  <2>1. batch'.allocated = batch.allocated
    BY <1>0, <1>6 DEF AddCall, Add, Batch
  <2>2. BatchConsistent(batch')
    BY <1>6, AddConsistent DEF AddCall, IInv
  <2> QED BY <1>0, <1>4, <1>6, <2>1, <2>2 DEF AddCall, BatchConsistent
<1>7. ASSUME NEW len \in 0 .. Capacity, NEW seq \in SeqIds,
             NEW logits_all \in BOOLEAN, AddSequenceCall(len, seq, logits_all)
      PROVE  OneBuffer'
  <2>1. batch'.allocated = batch.allocated
    BY <1>0, <1>7 DEF AddSequenceCall, AddSequence, Batch
  <2>2. BatchConsistent(batch')
    BY <1>7, AddSequenceConsistent DEF AddSequenceCall, IInv
  <2> QED BY <1>0, <1>4, <1>7, <2>1, <2>2 DEF AddSequenceCall, BatchConsistent
<1>8. ASSUME UNCHANGED <<batch, buffers>>
      PROVE  OneBuffer'
  BY <1>8 DEF OneBuffer
<1> QED BY <1>1, <1>2, <1>3, <1>5, <1>6, <1>7, <1>8
        DEF Next, Decode, Encode, EvalChunks, LoadState, vars

(* The buffer of a batch with room for a token is freed with the batch, in *)
(* every behaviour and for batches of any size.                            *)
THEOREM BuffersFreed == Spec => []DropFreesBuffer
<1>1. Init => OneBuffer
  BY DEF Init, OneBuffer
<1>2. IInv /\ OneBuffer /\ [Next]_vars => OneBuffer'
  BY StepOneBuffer
<1>3. OneBuffer => DropFreesBuffer
  BY DEF OneBuffer, DropFreesBuffer
<1> QED BY <1>1, <1>2, <1>3, SpecIInv, PTL DEF Spec

-----------------------------------------------------------------------------
(* The cache and its saved states.  What a load returns is right because   *)
(* of what every file is: the tokens saved with a state are a prefix of    *)
(* the cells saved with it.                                                *)
FilesHold ==
  \A f \in Files :
    /\ whole[f] # NoState => 0 .. whole[f].tokens - 1 \subseteq whole[f].cells[0]
    /\ seqs[f] # NoState => 0 .. seqs[f].tokens - 1 \subseteq seqs[f].cells

StateInv == StateTypeOK /\ FilesHold /\ LoadedTokensAreCached

-----------------------------------------------------------------------------
(* The memory operations and the wrappers give a cache, or are refused.    *)

LEMMA MemTypes ==
  ASSUME NEW kv \in Cache, NEW src \in Int, NEW s \in Seqs, NEW dest \in Seqs,
         NEW p0 \in Int, NEW p1 \in Int, NEW d \in Int
  PROVE  /\ \A got \in MemRemove(kv, src, p0, p1) : got.cells \in Cache
         /\ MemCopy(kv, s, dest, p0, p1) \in Cache
         /\ MemKeep(kv, s) \in Cache
         /\ MemAdd(kv, s, p0, p1, d) \in Cache
         /\ MemDiv(kv, s, p0, p1, d) \in Cache
<1>1. \A got \in MemRemove(kv, src, p0, p1) : got.cells \in Cache
  <2>1. PICK rest : rest = [t \in Seqs |-> IF src < 0 \/ src = t
                                         THEN kv[t] \ MemPicked(kv, t, p0, p1) ELSE kv[t]]
    OBVIOUS
  <2>2. rest \in Cache
    BY <2>1 DEF Cache, MemPicked
  <2>3. \A got \in MemRemove(kv, src, p0, p1) : got.cells \in {rest, kv}
    BY <2>1 DEF MemRemove
  <2> QED BY <2>2, <2>3
<1>2. MemCopy(kv, s, dest, p0, p1) \in Cache
  BY DEF Cache, MemCopy, MemPicked
<1>3. MemKeep(kv, s) \in Cache
  BY DEF Cache, MemKeep
<1>4. MemAdd(kv, s, p0, p1, d) \in Cache
  BY DEF Cache, MemAdd, MemPicked
<1>5. MemDiv(kv, s, p0, p1, d) \in Cache
  BY DEF Cache, MemDiv, MemPicked
<1> QED BY <1>1, <1>2, <1>3, <1>4, <1>5

LEMMA ArgTypes ==
  ASSUME NEW a \in OptU32
  PROVE  AsI32(a) \in Int
BY StateAssumption DEF OptU32, AsI32

LEMMA CallTypes ==
  ASSUME NEW kv \in Cache, NEW p0 \in OptU32, NEW p1 \in OptU32, NEW src \in OptU32,
         NEW s \in Seqs, NEW dest \in Seqs, NEW d \in Int
  PROVE  /\ \A got \in ClearSeq(kv, src, p0, p1) : got.cells \in Cache
         /\ CopySeq(kv, s, dest, p0, p1) \in Cache \cup {Refused}
         /\ SeqAdd(kv, s, p0, p1, d) \in Cache \cup {Refused}
         /\ SeqDiv(kv, s, p0, p1, d) \in Cache \cup {Refused}
<1>1. \A got \in ClearSeq(kv, src, p0, p1) : got.cells \in Cache
  <2>1. \A got \in MemRemove(kv, AsI32(src), AsI32(p0), AsI32(p1)) : got.cells \in Cache
    BY MemTypes, ArgTypes
  <2> QED BY <2>1 DEF ClearSeq
<1>2. /\ CopySeq(kv, s, dest, p0, p1) \in Cache \cup {Refused}
      /\ SeqAdd(kv, s, p0, p1, d) \in Cache \cup {Refused}
      /\ SeqDiv(kv, s, p0, p1, d) \in Cache \cup {Refused}
  BY MemTypes, ArgTypes DEF CopySeq, SeqAdd, SeqDiv
<1> QED BY <1>1, <1>2

-----------------------------------------------------------------------------
(* Every call that only sets the cache keeps the invariant.                *)

LEMMA BecomesInv ==
  ASSUME StateInv, NEW kv \in Cache \cup {Refused}, Becomes(kv)
  PROVE  StateInv'
<1>1. StateTypeOK'
  BY StateAssumption DEF StateInv, StateTypeOK, Becomes, NotLoaded
<1>2. FilesHold'
  BY DEF StateInv, FilesHold, Becomes
<1>3. LoadedTokensAreCached'
  BY DEF Becomes, NotLoaded, LoadedTokensAreCached
<1> QED BY <1>1, <1>2, <1>3 DEF StateInv

LEMMA SaveWholeInv ==
  ASSUME StateInv, NEW f \in Files, NEW n \in 0 .. I32Max + 1, SaveWhole(f, n)
  PROVE  StateInv'
<1>1. StateTypeOK'
  BY StateAssumption DEF StateInv, StateTypeOK, SaveWhole, NotLoaded, WholeState
<1>2. FilesHold'
  BY DEF StateInv, StateTypeOK, FilesHold, SaveWhole, Prefix
<1>3. LoadedTokensAreCached'
  BY DEF SaveWhole, NotLoaded, LoadedTokensAreCached
<1> QED BY <1>1, <1>2, <1>3 DEF StateInv

LEMMA SaveSeqInv ==
  ASSUME StateInv, NEW f \in Files, NEW s \in Seqs, NEW n \in 0 .. I32Max + 1,
         SaveSeq(f, s, n)
  PROVE  StateInv'
<1>1. StateTypeOK'
  BY StateAssumption DEF StateInv, StateTypeOK, SaveSeq, NotLoaded, SeqState, Cache
<1>2. FilesHold'
  BY DEF StateInv, StateTypeOK, FilesHold, SaveSeq, Prefix
<1>3. LoadedTokensAreCached'
  BY DEF SaveSeq, NotLoaded, LoadedTokensAreCached
<1> QED BY <1>1, <1>2, <1>3 DEF StateInv

(* A save that fails and a crash leave torn files, which hold nothing.     *)
LEMMA TornInv ==
  ASSUME StateInv, NEW f \in Files, NEW torn \in BOOLEAN, SaveFails(f) \/ Crash(f, torn)
  PROVE  StateInv'
<1>1. StateTypeOK'
  BY StateAssumption DEF StateInv, StateTypeOK, SaveFails, Crash, NotLoaded, Cache
<1>2. FilesHold'
  BY DEF StateInv, StateTypeOK, FilesHold, SaveFails, Crash
<1>3. LoadedTokensAreCached'
  BY DEF SaveFails, Crash, NotLoaded, LoadedTokensAreCached
<1> QED BY <1>1, <1>2, <1>3 DEF StateInv

LEMMA LoadWholeInv ==
  ASSUME StateInv, NEW f \in Files, NEW max \in 0 .. I32Max, LoadWhole(f, max)
  PROVE  StateInv'
<1>1. whole[f] \in WholeState
  BY DEF StateInv, StateTypeOK, LoadWhole
<1>2. StateTypeOK'
  BY <1>1, StateAssumption
  DEF StateInv, StateTypeOK, LoadWhole, WholeState, Answer, NotLoaded
<1>3. FilesHold'
  BY DEF StateInv, FilesHold, LoadWhole
<1>4. LoadedTokensAreCached'
  BY <1>1, StateAssumption
  DEF StateInv, FilesHold, LoadWhole, WholeState, Answer, NotLoaded,
      LoadedTokensAreCached, Prefix
<1> QED BY <1>2, <1>3, <1>4 DEF StateInv

LEMMA LoadSeqInv ==
  ASSUME StateInv, NEW f \in Files, NEW dest \in Seqs, NEW max \in 0 .. I32Max,
         StateSeqLoadFile(f, dest, max)
  PROVE  StateInv'
<1>1. seqs[f] \in SeqState
  BY DEF StateInv, StateTypeOK, StateSeqLoadFile
<1>2. StateTypeOK'
  BY <1>1, StateAssumption
  DEF StateInv, StateTypeOK, StateSeqLoadFile, SeqState, Answer, NotLoaded, Cache
<1>3. FilesHold'
  BY DEF StateInv, FilesHold, StateSeqLoadFile
<1>4. LoadedTokensAreCached'
  BY <1>1, StateAssumption
  DEF StateInv, StateTypeOK, Cache, FilesHold, StateSeqLoadFile, SeqState, Answer, NotLoaded,
      LoadedTokensAreCached, Prefix
<1> QED BY <1>2, <1>3, <1>4 DEF StateInv

-----------------------------------------------------------------------------
LEMMA InitStateInv == StateInit => StateInv
BY StateAssumption
DEF StateInit, StateInv, StateTypeOK, FilesHold, LoadedTokensAreCached, NotLoaded, Cache

LEMMA StepStateInv == StateInv /\ [StateNext]_stateVars => StateInv'
<1> SUFFICES ASSUME StateInv, [StateNext]_stateVars PROVE StateInv'
  OBVIOUS
<1>0. cells \in Cache
  BY DEF StateInv, StateTypeOK
<1>1. CASE CacheCall
  <2>1. PICK p0 \in Args, p1 \in Args :
          \/ \E src \in Args : \E got \in ClearSeq(cells, src, p0, p1) : Becomes(got.cells)
          \/ \E src, dest \in Seqs : Becomes(CopySeq(cells, src, dest, p0, p1))
          \/ \E s \in Seqs, delta \in Deltas : Becomes(SeqAdd(cells, s, p0, p1, delta))
          \/ \E s \in Seqs, d \in Divisors : Becomes(SeqDiv(cells, s, p0, p1, d))
    BY <1>1 DEF CacheCall
  <2>2. Args \subseteq OptU32 /\ Deltas \subseteq Int /\ Divisors \subseteq Int
    BY StateAssumption DEF OptU32
  <2>3. 0 \in Seqs
    BY StateAssumption
  <2>4. \E kv \in Cache \cup {Refused} : Becomes(kv)
    BY <2>1, <2>2, <2>3, <1>0, CallTypes
  <2> QED BY <2>4, BecomesInv
<1>2. CASE \E src, dest \in Seqs, size \in -1 .. I32Max : CopyCacheCall(src, dest, size)
  <2>1. PICK src \in Seqs, dest \in Seqs, size \in -1 .. I32Max :
          Becomes(MemCopy(cells, src, dest, 0, size))
    BY <1>2 DEF CopyCacheCall, CopyCache
  <2>2. size \in Int /\ src \in Int
    BY StateAssumption
  <2>3. MemCopy(cells, src, dest, 0, size) \in Cache
    BY <1>0 DEF Cache, MemCopy, MemPicked
  <2> QED BY <2>1, <2>3, BecomesInv
<1>3. CASE ClearKvCache
  <2>1. [s \in Seqs |-> {}] \in Cache
    BY DEF Cache
  <2> QED BY <1>3, <2>1, BecomesInv DEF ClearKvCache
<1>4. CASE \E s \in Seqs : KeepSeq(s)
  <2>1. \A s \in Seqs : MemKeep(cells, s) \in Cache
    BY <1>0 DEF MemKeep, Cache
  <2> QED BY <1>4, <2>1, BecomesInv DEF KeepSeq
<1>5. CASE \E s \in Seqs : DecodeNext(s)
  <2>1. PICK s \in Seqs, p \in Pos : Becomes([cells EXCEPT ![s] = @ \cup {p}])
    BY <1>5 DEF DecodeNext
  <2>2. [cells EXCEPT ![s] = @ \cup {p}] \in Cache
    BY <1>0 DEF Cache
  <2> QED BY <2>1, <2>2, BecomesInv
<1>6. CASE \E f \in Files, n \in 0 .. I32Max + 1 :
             SaveSessionFile(f, n) \/ StateSaveFile(f, n)
  BY <1>6, SaveWholeInv DEF SaveSessionFile, StateSaveFile
<1>7. CASE \E f \in Files, s \in Seqs, n \in 0 .. I32Max + 1 : StateSeqSaveFile(f, s, n)
  BY <1>7, SaveSeqInv DEF StateSeqSaveFile
<1>8. CASE \E f \in Files, s \in Seqs : StateSeqGetDataExt(f, s)
  <2>1. 0 \in 0 .. I32Max + 1
    BY StateAssumption
  <2> QED BY <1>8, <2>1, SaveSeqInv DEF StateSeqGetDataExt
<1>9. CASE \E f \in Files : SaveFails(f)
  BY <1>9, TornInv
<1>10. CASE \E f \in Files : CopyStateData(f)
  <2>1. 0 \in 0 .. I32Max + 1
    BY StateAssumption
  <2> QED BY <1>10, <2>1, SaveWholeInv DEF CopyStateData
<1>11. CASE \E f \in Files : SetStateData(f)
  <2>1. \A f \in Files : whole[f] # NoState => whole[f].cells \in Cache
    BY DEF StateInv, StateTypeOK, WholeState
  <2> QED BY <1>11, <2>1, BecomesInv DEF SetStateData
<1>12. CASE \E f \in Files, torn \in BOOLEAN : Crash(f, torn)
  BY <1>12, TornInv
<1>13. CASE \E f \in Files, max \in 0 .. I32Max :
              LoadSessionFile(f, max) \/ StateLoadFile(f, max)
  BY <1>13, LoadWholeInv DEF LoadSessionFile, StateLoadFile
<1>14. CASE \E f \in Files, dest \in Seqs, max \in 0 .. I32Max :
              StateSeqLoadFile(f, dest, max)
  BY <1>14, LoadSeqInv
<1>15. CASE \E f \in Files, dest \in Seqs : StateSeqSetDataExt(f, dest)
  <2>1. \A f \in Files, dest \in Seqs : seqs[f] # NoState =>
          [cells EXCEPT ![dest] = seqs[f].cells] \in Cache
    BY DEF StateInv, StateTypeOK, SeqState, Cache
  <2> QED BY <1>15, <2>1, BecomesInv DEF StateSeqSetDataExt
<1>16. CASE \E gone \in SUBSET Seqs : LoadFails(gone)
  <2>1. \A gone \in SUBSET Seqs :
          [s \in Seqs |-> IF s \in gone THEN {} ELSE cells[s]] \in Cache
    BY <1>0 DEF Cache
  <2> QED BY <1>16, <2>1, BecomesInv DEF LoadFails
<1>17. CASE UNCHANGED stateVars
  BY <1>17 DEF stateVars, StateInv, StateTypeOK, FilesHold, LoadedTokensAreCached, Prefix
<1> QED
  BY <1>1, <1>2, <1>3, <1>4, <1>5, <1>6, <1>7, <1>8, <1>9, <1>10, <1>11, <1>12,
     <1>13, <1>14, <1>15, <1>16, <1>17 DEF StateNext

LEMMA SpecStateInv == StateSpec => []StateInv
BY InitStateInv, StepStateInv, PTL DEF StateSpec

-----------------------------------------------------------------------------
(* Type correctness: whatever the arguments, files and crashes, the cache  *)
(* holds positions only and a load answers with a sequence and a count.    *)
THEOREM StateTypeCorrect == StateSpec => []StateTypeOK
<1>1. StateInv => StateTypeOK
  BY DEF StateInv
<1> QED BY <1>1, SpecStateInv, PTL

(* The tokens of an Ok load are in the cache, however often files were     *)
(* written, torn and loaded in between (session.rs:163-211, 251-405).      *)
THEOREM LoadsAreCached == StateSpec => []LoadedTokensAreCached
<1>1. StateInv => LoadedTokensAreCached
  BY DEF StateInv
<1> QED BY <1>1, SpecStateInv, PTL

-----------------------------------------------------------------------------
(* clear_kv_cache_seq and the copy mean by their optional arguments what   *)
(* they document, for all of u32 (kv_cache.rs:37-48, 70-82).               *)

LEMMA RangeMeaning ==
  ASSUME NEW lo \in OptU32, NEW hi \in OptU32, Fits(lo), Fits(hi), NEW p \in Pos
  PROVE  InI32Range(p, AsI32(lo), AsI32(hi)) <=> InRange(p, lo, hi)
BY StateAssumption DEF OptU32, Fits, Pos, InI32Range, InRange, AsI32

LEMMA ClearMeaning ==
  ASSUME StateTypeOK, NEW lo \in OptU32, NEW hi \in OptU32, NEW src \in OptU32,
         NEW got \in ClearSeq(cells, src, lo, hi)
  PROVE  /\ got.answer = "err" <=> \E a \in {src, lo, hi} : a # None /\ a > I32Max
         /\ got.answer = "true" => \A s \in Seqs :
              got.cells[s] = {p \in cells[s] :
                                ~(src \in {None, s} /\ InRange(p, lo, hi))}
         /\ got.answer = "false" => lo \notin {None, 0} \/ hi # None
         /\ got.answer # "true" => got.cells = cells
<1>1. CASE \E a \in {src, lo, hi} : a # None /\ a > I32Max
  <2>1. ~(Fits(src) /\ Fits(lo) /\ Fits(hi))
    BY <1>1, StateAssumption DEF Fits, OptU32
  <2>2. got = [answer |-> "err", cells |-> cells]
    BY <2>1 DEF ClearSeq
  <2> QED BY <1>1, <2>2
<1>2. CASE ~\E a \in {src, lo, hi} : a # None /\ a > I32Max
  <2>1. Fits(src) /\ Fits(lo) /\ Fits(hi)
    BY <1>2, StateAssumption DEF Fits, OptU32
  <2>2. got \in MemRemove(cells, AsI32(src), AsI32(lo), AsI32(hi))
    BY <2>1 DEF ClearSeq
  <2>3. CASE got = [answer |-> "false", cells |-> cells]
                 /\ ~(AsI32(lo) <= 0 /\ AsI32(hi) < 0)
    <3>1. lo \notin {None, 0} \/ hi # None
      BY <2>3 DEF AsI32
    <3> QED BY <1>2, <2>3, <3>1
  <2>4. CASE got = [answer |-> "true", cells |->
                      [s \in Seqs |-> IF AsI32(src) < 0 \/ AsI32(src) = s
                                      THEN cells[s] \ MemPicked(cells, s, AsI32(lo), AsI32(hi))
                                      ELSE cells[s]]]
    <3>1. ASSUME NEW s \in Seqs
          PROVE  got.cells[s]
                   = {p \in cells[s] : ~(src \in {None, s} /\ InRange(p, lo, hi))}
      <4>1. \A p \in cells[s] : InI32Range(p, AsI32(lo), AsI32(hi)) <=> InRange(p, lo, hi)
        BY <2>1, RangeMeaning DEF StateTypeOK, Cache, Pos
      <4>2. (AsI32(src) < 0 \/ AsI32(src) = s) <=> src \in {None, s}
        BY StateAssumption DEF AsI32, OptU32
      <4>3. got.cells[s] = IF AsI32(src) < 0 \/ AsI32(src) = s
                           THEN cells[s] \ MemPicked(cells, s, AsI32(lo), AsI32(hi))
                           ELSE cells[s]
        BY <2>4
      <4> QED BY <4>1, <4>2, <4>3 DEF MemPicked
    <3> QED BY <1>2, <2>4, <3>1
  <2> QED BY <2>2, <2>3, <2>4 DEF MemRemove
<1> QED BY <1>1, <1>2

LEMMA CopyMeaning ==
  ASSUME StateTypeOK, NEW lo \in OptU32, NEW hi \in OptU32, NEW src \in Seqs, NEW dest \in Seqs
  PROVE  LET kv == CopySeq(cells, src, dest, lo, hi)
         IN IF \E a \in {lo, hi} : a # None /\ a > I32Max
            THEN kv = Refused
            ELSE \A s \in Seqs :
                   kv[s] = cells[s] \cup {p \in cells[src] :
                                            s = dest /\ InRange(p, lo, hi)}
<1>1. CASE \E a \in {lo, hi} : a # None /\ a > I32Max
  <2>1. ~(Fits(lo) /\ Fits(hi))
    BY <1>1, StateAssumption DEF Fits, OptU32
  <2> QED BY <1>1, <2>1 DEF CopySeq
<1>2. CASE ~\E a \in {lo, hi} : a # None /\ a > I32Max
  <2>1. Fits(lo) /\ Fits(hi)
    BY <1>2, StateAssumption DEF Fits, OptU32
  <2>2. ASSUME NEW s \in Seqs
        PROVE  CopySeq(cells, src, dest, lo, hi)[s]
                 = cells[s] \cup {p \in cells[src] : s = dest /\ InRange(p, lo, hi)}
    <3>1. \A p \in cells[src] : InI32Range(p, AsI32(lo), AsI32(hi)) <=> InRange(p, lo, hi)
      BY <2>1, RangeMeaning DEF StateTypeOK, Cache, Pos
    <3> QED BY <2>1, <3>1 DEF CopySeq, MemCopy, MemPicked, StateTypeOK, Cache
  <2> QED BY <1>2, <2>2
<1> QED BY <1>1, <1>2

(* Whatever is in the cache, every argument of u32 means what the          *)
(* documents say or is refused, and a removal that answers false has       *)
(* removed nothing and was not of whole sequences.                         *)
THEOREM RangesMeanWhatTheySay == StateSpec => []RangesAreAsDocumented
<1>1. StateTypeOK => RangesAreAsDocumented
  BY ClearMeaning, CopyMeaning DEF RangesAreAsDocumented
<1> QED BY <1>1, StateTypeCorrect, PTL
=============================================================================
