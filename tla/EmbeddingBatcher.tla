--------------------------- MODULE EmbeddingBatcher ---------------------------
(***************************************************************************)
(* The batching loop of benchmarks/src/lib.rs: inputs are put into one     *)
(* batch, each in a sequence of its own, until the next one does not fit;  *)
(* then the batch is decoded, one embedding is read for each sequence id,  *)
(* and the ids start again at 0.  rerank_token_batches, process_batch and  *)
(* process_splits_batch, and main of examples/reranker, share this loop.   *)
(*                                                                         *)
(* Tokens are known by the input they come from (owner).  What llama.cpp   *)
(* computes from them is external: the pooled embedding of a sequence      *)
(* depends on what the cache and the batch hold of that sequence.          *)
(***************************************************************************)
EXTENDS LlamaBatch, Sequences

CONSTANTS
  Lens,         \* the numbers of tokens an input may have
  MaxInputs,    \* bound on the number of inputs
  SeqMax,       \* the sequences the context can tell apart
  LogitsAll     \* the logits_all argument: only process_splits_batch sets it

ASSUME BatcherAssumption ==
  /\ Lens \subseteq Nat
  /\ MaxInputs \in Nat
  /\ SeqMax \in Nat
  /\ LogitsAll \in BOOLEAN
  /\ SeqIds = 0 .. MaxInputs

VARIABLES
  lens,              \* the number of tokens of each input
  next,              \* the input the loop is at
  batch,             \* the LlamaBatch
  owner,             \* the input the token at each offset came from
  max_seq_id_batch,  \* the inputs in the batch
  pc,                \* where the loop, or batch_decode, is
  cache,             \* external: the inputs the KV cache holds per sequence
  pooled,            \* external: the inputs each pooled embedding came from
  output,            \* the embeddings read
  read,              \* batch_decode's i
  outcome            \* what the call returned, if it did

vars == <<lens, next, batch, owner, max_seq_id_batch, pc, cache, pooled, output,
          read, outcome>>

Inputs == 1 .. MaxInputs
NoTokens == [s \in SeqIds |-> {}]

TypeOK ==
  /\ lens \in Seq(Lens) /\ Len(lens) <= MaxInputs
  /\ next \in 1 .. Len(lens) + 1
  /\ BatchConsistent(batch) /\ batch.allocated = Capacity
  /\ owner \in [Offsets -> 0 .. MaxInputs]
  /\ max_seq_id_batch \in 0 .. MaxInputs
  /\ pc \in {"check", "add", "clear", "decode", "read"}
  /\ cache \in [SeqIds -> SUBSET Inputs]
  /\ pooled \in [SeqIds -> SUBSET Inputs]
  /\ output \in Seq(SUBSET Inputs)
  /\ read \in 0 .. MaxInputs
  /\ outcome \in {"running", "ok", "failed"}

Init ==
  /\ lens \in UNION {[1 .. n -> Lens] : n \in 0 .. MaxInputs}
  /\ next = 1
  /\ batch = NewBatch(Capacity, 1)
  /\ owner = [o \in Offsets |-> 0]
  /\ max_seq_id_batch = 0
  /\ pc = "check"
  /\ cache \in {NoTokens, [NoTokens EXCEPT ![0] = Inputs]}
  /\ pooled = NoTokens
  /\ output = <<>>
  /\ read = 0
  /\ outcome = "running"

At(place) == outcome = "running" /\ pc = place
Fail == outcome' = "failed" /\ UNCHANGED <<lens, next, batch, owner,
                                max_seq_id_batch, pc, cache, pooled, output, read>>

-----------------------------------------------------------------------------
(* Flush when the next sequence would exceed batch capacity.               *)
MustFlush(len) == batch.n_tokens + len > Capacity

CheckNext ==
  /\ At("check")
  /\ pc' = IF next > Len(lens) \/ MustFlush(lens[next]) THEN "clear" ELSE "add"
  /\ UNCHANGED <<lens, next, batch, owner, max_seq_id_batch, cache, pooled, output,
                 read, outcome>>

(* add_sequence has a room check of its own, and its error ends the call.  *)
AddNext ==
  /\ At("add")
  /\ IF ~HasRoom(batch, lens[next]) THEN Fail
     ELSE /\ batch' = AddSequence(batch, lens[next], max_seq_id_batch, LogitsAll)
          /\ owner' = [o \in Offsets |->
                         IF o \in batch.n_tokens .. batch.n_tokens + lens[next] - 1
                         THEN next ELSE owner[o]]
          /\ max_seq_id_batch' = max_seq_id_batch + 1
          /\ next' = next + 1
          /\ pc' = "check"
          /\ UNCHANGED <<lens, cache, pooled, output, read, outcome>>

-----------------------------------------------------------------------------
(* batch_decode, before llama_decode.                                      *)
ClearKvCache ==
  /\ At("clear")
  /\ cache' = NoTokens
  /\ pc' = "decode"
  /\ UNCHANGED <<lens, next, batch, owner, max_seq_id_batch, pooled, output, read,
                 outcome>>

(* The inputs with tokens in the batch under a sequence id.                *)
InBatch(s) ==
  {owner[o] : o \in {p \in Offsets : p < batch.n_tokens
                                     /\ s \in batch.slots[p].seqs}}

(* llama_decode refuses an empty batch, and a sequence id the context was  *)
(* not made for.                                                           *)
DecodeRefuses ==
  \/ batch.n_tokens = 0
  \/ \E s \in SeqIds : s >= SeqMax /\ InBatch(s) # {}

DecodeBatch ==
  /\ At("decode")
  /\ IF DecodeRefuses THEN Fail
     ELSE /\ cache' = [s \in SeqIds |-> cache[s] \cup InBatch(s)]
          /\ pooled' = [s \in SeqIds |-> IF InBatch(s) = {} THEN {}
                                         ELSE cache[s] \cup InBatch(s)]
          /\ read' = 0
          /\ pc' = "read"
          /\ UNCHANGED <<lens, next, batch, owner, max_seq_id_batch, output, outcome>>

(* embeddings_seq_ith returns an error for a sequence without tokens.      *)
ReadEmbedding ==
  /\ At("read")
  /\ read < max_seq_id_batch
  /\ IF pooled[read] = {} THEN Fail
     ELSE /\ output' = Append(output, pooled[read])
          /\ read' = read + 1
          /\ UNCHANGED <<lens, next, batch, owner, max_seq_id_batch, pc, cache,
                         pooled, outcome>>

(* Mutant: the ids go on after a flush.                                    *)
EndFlushKeepsIds ==
  /\ At("read")
  /\ read = max_seq_id_batch
  /\ batch' = Clear(batch)
  /\ IF next > Len(lens) THEN outcome' = "ok" /\ UNCHANGED pc
                         ELSE pc' = "add" /\ UNCHANGED outcome
  /\ UNCHANGED <<lens, next, owner, max_seq_id_batch, cache, pooled, output, read>>

(* The end of batch_decode, and what the loop does after it: the input     *)
(* that did not fit is added without another look at the room.             *)
EndFlush ==
  /\ At("read")
  /\ read = max_seq_id_batch
  /\ batch' = Clear(batch)
  /\ max_seq_id_batch' = 0
  /\ IF next > Len(lens) THEN outcome' = "ok" /\ UNCHANGED pc
                         ELSE pc' = "add" /\ UNCHANGED outcome
  /\ UNCHANGED <<lens, next, owner, cache, pooled, output, read>>

Next == CheckNext \/ AddNext \/ ClearKvCache \/ DecodeBatch \/ ReadEmbedding
        \/ EndFlush

Spec == Init /\ [][Next]_vars

(* The loop runs on one thread and waits for nothing.                      *)
FairSpec == Spec /\ WF_vars(Next)

-----------------------------------------------------------------------------
Abstract ==
  INSTANCE EmbedInOrder WITH lens <- lens, output <- output, outcome <- outcome,
                             Capacity <- Capacity, SeqMax <- SeqMax

(* Output k comes from input k alone, and the call fails only for inputs   *)
(* that cannot be embedded; with fairness it returns.  Three counters have *)
(* to stay in step for this: the loop's index, the sequence ids of the     *)
(* batch, and the index the embeddings are read with (lib.rs:53-148).      *)
ImplementsEmbedInOrder == Abstract!FairSpec

(* What is decoded are whole sequences: each id below max_seq_id_batch has *)
(* the tokens of one input, at positions 0, 1, 2, ... in order, and wants  *)
(* the output of its last token (llama_batch.rs:99-130).                   *)
WholeSequences ==
  pc = "decode" =>
    \A s \in 0 .. max_seq_id_batch - 1 :
      LET input == next - max_seq_id_batch + s
          at == {o \in Offsets : o < batch.n_tokens /\ batch.slots[o].seqs = {s}}
      IN /\ {batch.slots[o].pos : o \in at} = 0 .. lens[input] - 1
         /\ Cardinality(at) = lens[input]
         /\ \A o \in at : /\ owner[o] = input
                          /\ batch.slots[o].pos = lens[input] - 1
                               => batch.slots[o].logits
=============================================================================
