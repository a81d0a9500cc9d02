----------------------------- MODULE LlamaContext -----------------------------
(***************************************************************************)
(* One LlamaContext (qllama/src/context.rs) and the LlamaBatch its caller  *)
(* fills.  The context keeps initialized_logits, a copy of the list of the *)
(* last batch that was decoded with success, and get_logits_ith admits an  *)
(* index only if that list holds it.  What can really be read is decided   *)
(* by llama.cpp: outputs, the rows that its last computation left behind.  *)
(* Several operations change outputs and not the list.                     *)
(*                                                                         *)
(* llama_decode, llama_encode, mtmd_helper_eval_chunks and the state       *)
(* functions are external: their results are nondeterministic choices.     *)
(***************************************************************************)
EXTENDS LlamaBatch

CONSTANTS
  NewSizes,     \* the n_tokens arguments LlamaBatch::new is called with
  NSeqMaxes,    \* the n_seq_max arguments
  Positions,    \* the pos arguments of add
  NCtx,         \* llama_n_ctx of the context
  MaxBuffers,   \* bound on the batch buffers of one size alive in C
  NoBatch       \* the caller holds no batch

ASSUME ContextAssumption ==
  /\ NewSizes \subseteq 0 .. Capacity
  /\ NSeqMaxes \subseteq Nat
  /\ Positions \subseteq Nat
  /\ NCtx \in Nat
  /\ MaxBuffers \in Nat
  /\ NoBatch \notin Batch

VARIABLES
  batch,               \* the caller's LlamaBatch, or NoBatch
  buffers,             \* llama_batch_init buffers not yet freed, by their size
  initialized_logits,  \* LlamaContext.initialized_logits
  outputs,             \* offsets with a row in llama.cpp's output buffer
  in_step              \* history: the call that left outputs also set the list

vars == <<batch, buffers, initialized_logits, outputs, in_step>>
ctxVars == <<initialized_logits, outputs, in_step>>

TypeOK ==
  /\ batch \in Batch \cup {NoBatch}
  /\ buffers \in [0 .. Capacity -> 0 .. MaxBuffers]
  /\ initialized_logits \in SUBSET Offsets
  /\ outputs \in SUBSET Offsets
  /\ in_step \in BOOLEAN

Init ==
  /\ batch = NoBatch
  /\ buffers = [n \in 0 .. Capacity |-> 0]
  /\ initialized_logits = {}
  /\ outputs = {}
  /\ in_step = TRUE

-----------------------------------------------------------------------------
(* The caller's batch.                                                     *)

NewBatchCall(n, n_seq_max) ==
  /\ batch = NoBatch
  /\ buffers[n] < MaxBuffers
  /\ batch' = NewBatch(n, n_seq_max)
  /\ buffers' = [buffers EXCEPT ![n] = @ + 1]
  /\ UNCHANGED ctxVars

(* get_one refuses an empty slice and allocates nothing in C.              *)
GetOneCall(len, seq) ==
  /\ batch = NoBatch
  /\ len > 0
  /\ batch' = GetOne(len, seq)
  /\ UNCHANGED <<buffers, ctxVars>>

(* Mutant: the test that tells owned batches from views is off by one.     *)
DropBatchOffByOne ==
  /\ batch # NoBatch
  /\ batch' = NoBatch
  /\ buffers' = IF batch.allocated > 1
                THEN [buffers EXCEPT ![batch.allocated] = @ - 1] ELSE buffers
  /\ UNCHANGED ctxVars

(* Drop frees the buffer of a batch that has room for a token.             *)
DropBatch ==
  /\ batch # NoBatch
  /\ batch' = NoBatch
  /\ buffers' = IF batch.allocated > 0
                THEN [buffers EXCEPT ![batch.allocated] = @ - 1] ELSE buffers
  /\ UNCHANGED ctxVars

ClearBatch ==
  /\ batch # NoBatch
  /\ batch' = Clear(batch)
  /\ UNCHANGED <<buffers, ctxVars>>

(* InsufficientSpace leaves everything as it was.                          *)
AddCall(pos, seqs, logits) ==
  /\ batch # NoBatch
  /\ HasRoom(batch, 1)
  /\ batch' = Add(batch, pos, seqs, logits)
  /\ UNCHANGED <<buffers, ctxVars>>

AddSequenceCall(len, seq, logits_all) ==
  /\ batch # NoBatch
  /\ HasRoom(batch, len)
  /\ batch' = AddSequence(batch, len, seq, logits_all)
  /\ UNCHANGED <<buffers, ctxVars>>

-----------------------------------------------------------------------------
(* decode and encode share their shape: result 0 copies the batch's list,  *)
(* any other result is mapped to an error and nothing is assigned.         *)

Succeeds ==
  /\ batch.n_tokens > 0
  /\ outputs' = FlaggedOffsets(batch)
  /\ initialized_logits' = batch.initialized_logits
  /\ in_step' = TRUE

(* Mutant: the list is copied before the result is looked at.              *)
FailsAfterCopy ==
  /\ UNCHANGED <<outputs, in_step>>
  /\ initialized_logits' = batch.initialized_logits

(* Results -1 (no tokens) and 1 (no slot in the cache) come before the     *)
(* output buffer is touched; a later failure leaves no row to read.        *)
Fails ==
  /\ \/ UNCHANGED <<outputs, in_step>>
     \/ /\ batch.n_tokens > 0
        /\ outputs' = {}
        /\ in_step' = FALSE
  /\ UNCHANGED initialized_logits

Decode ==
  /\ batch # NoBatch
  /\ Succeeds \/ Fails
  /\ UNCHANGED <<batch, buffers>>

Encode ==
  /\ batch # NoBatch
  /\ Succeeds \/ Fails
  /\ UNCHANGED <<batch, buffers>>

(* MtmdInputChunks::eval_chunks takes &LlamaContext: it decodes batches of *)
(* its own and cannot assign to the list.  The last of them leaves a row   *)
(* for its last token if logits_last was given, and none if the call fails.*)
EvalChunks ==
  /\ \E last \in Offsets, rows \in SUBSET Offsets :
       /\ rows \subseteq {last}
       /\ outputs' = rows
  /\ in_step' = FALSE
  /\ UNCHANGED <<batch, buffers, initialized_logits>>

(* load_session_file, state_load_file and set_state_data restore a state   *)
(* "(rng, logits, embedding and kv_cache)" that any context may have saved.*)
LoadState ==
  /\ outputs' \in SUBSET Offsets
  /\ in_step' = FALSE
  /\ UNCHANGED <<batch, buffers, initialized_logits>>

-----------------------------------------------------------------------------
(* What a read of index i gives.  Reads change nothing.                    *)

(* get_logits_ith asserts twice and then builds a slice from the pointer   *)
(* llama_get_logits_ith returns, which is null for an index with no row.   *)
GetLogitsIth(i) ==
  CASE i \notin initialized_logits \/ i >= NCtx -> "panic"
    [] i \in initialized_logits /\ i < NCtx /\ i \in outputs -> "row"
    [] OTHER -> "null"

-----------------------------------------------------------------------------
Next ==
  \/ \E n \in NewSizes, n_seq_max \in NSeqMaxes : NewBatchCall(n, n_seq_max)
  \/ \E len \in 0 .. Capacity, seq \in SeqIds : GetOneCall(len, seq)
  \/ DropBatch
  \/ ClearBatch
  \/ \E pos \in Positions, seqs \in SUBSET SeqIds, logits \in BOOLEAN :
       AddCall(pos, seqs, logits)
  \/ \E len \in 0 .. Capacity, seq \in SeqIds, logits_all \in BOOLEAN :
       AddSequenceCall(len, seq, logits_all)
  \/ Decode
  \/ Encode
  \/ EvalChunks
  \/ LoadState

Spec == Init /\ [][Next]_vars

-----------------------------------------------------------------------------
(* Everything llama_decode would read of the batch was written, and the    *)
(* list of the batch names exactly the tokens C will keep outputs for.     *)
(* add, add_sequence, clear and get_one maintain the list and the flags by *)
(* different statements (llama_batch.rs:34-37, 80-95, 186-188).            *)
BatchReady == batch # NoBatch => WrittenPrefix(batch) /\ ListIsFlags(batch)

(* As long as every computation of the context went through decode or      *)
(* encode and the last one that reached the output buffer succeeded,       *)
(* get_logits_ith admits exactly the rows that exist: it never refuses a   *)
(* flagged token and never hands out a null row (context.rs:86-92).        *)
ListMatchesOutputs == in_step => initialized_logits = outputs

(* add_sequence in one step is its loop of add calls, for every batch the  *)
(* program can hold and every sequence that fits (llama_batch.rs:127-131). *)
AddSequenceIsItsLoop ==
  batch # NoBatch =>
    \A len \in 0 .. Capacity, seq \in SeqIds, logits_all \in BOOLEAN :
      HasRoom(batch, len) =>
        AddSequence(batch, len, seq, logits_all)
          = AddSequenceLoop(batch, len, seq, logits_all)

(* A buffer of llama_batch_init does not outlive the batch that owns it    *)
(* (Drop for LlamaBatch, llama_batch.rs:213-219), but for those of batches *)
(* with room for no token: Drop takes allocated = 0 for a view of get_one  *)
(* and leaves them to the end of the process.                              *)
DropFreesBuffer == batch = NoBatch => \A n \in 1 .. Capacity : buffers[n] = 0

(* "The logits that are initialized. Used by LlamaContext to ensure that   *)
(* only initialized logits are accessed" (llama_batch.rs:12): an index     *)
(* get_logits_ith admits has a row behind it.                              *)
OnlyInitializedLogitsAccessed == \A i \in Offsets : GetLogitsIth(i) # "null"
=============================================================================
