------------------------------ MODULE LlamaBatch ------------------------------
(***************************************************************************)
(* The safe wrapper of a llama.cpp batch (qllama/src/llama_batch.rs), as   *)
(* operators on a batch record.  A batch is an array of slots that         *)
(* llama_decode reads up to n_tokens, and, on the Rust side, a separate    *)
(* list of the offsets whose logits will exist after a decode.  The two    *)
(* are written by different statements and must stay in step: C looks at   *)
(* the flags of the slots, LlamaContext looks at the list.                 *)
(*                                                                         *)
(* The list is only pushed to, filtered, copied and searched, so it is a   *)
(* set of offsets here.  Token ids are left out: nothing branches on them. *)
(***************************************************************************)
EXTENDS Integers, FiniteSets

CONSTANTS
  Capacity,   \* bound on the number of slots of a batch
  SeqIds,     \* sequence ids a token may be put in
  Unwritten   \* memory from llama_batch_init that no call of add has written

Offsets == 0 .. Capacity - 1

(* What llama_decode reads at one offset: position, sequences, flag.       *)
Slot == [pos : Nat, seqs : SUBSET SeqIds, logits : BOOLEAN]

ASSUME BatchAssumption ==
  /\ Capacity \in Nat \ {0}
  /\ Unwritten \notin Slot

Batch == [allocated : 0 .. Capacity,
          seq_cap : Nat,
          n_tokens : 0 .. Capacity,
          slots : [Offsets -> Slot \cup {Unwritten}],
          initialized_logits : SUBSET Offsets]

-----------------------------------------------------------------------------
(* LlamaBatch::new(n, n_seq_max): seq_cap is the room for sequence ids     *)
(* llama_batch_init reserves for each token.                               *)
NewBatch(n, n_seq_max) ==
  [allocated |-> n,
   seq_cap |-> n_seq_max,
   n_tokens |-> 0,
   slots |-> [i \in Offsets |-> Unwritten],
   initialized_logits |-> {}]

(* LlamaBatch::get_one over len > 0 tokens: a view of the caller's tokens. *)
(* The C side leaves the flag array null, which stands for "the last token *)
(* only"; the positions follow the sequence.                               *)
GetOne(len, seq) ==
  [allocated |-> 0,
   seq_cap |-> 1,
   n_tokens |-> len,
   slots |-> [i \in Offsets |->
                IF i < len
                THEN [pos |-> i, seqs |-> {seq}, logits |-> i = len - 1]
                ELSE Unwritten],
   initialized_logits |-> {len - 1}]

(* Mutant: clear forgets the list.                                         *)
ClearKeepsList(b) == [b EXCEPT !.n_tokens = 0]

(* LlamaBatch::clear keeps the memory and what was written to it.          *)
Clear(b) == [b EXCEPT !.n_tokens = 0, !.initialized_logits = {}]

(* Mutant: the room check lets one token too many in.                      *)
HasRoomOffByOne(b, n) == b.n_tokens + n <= b.allocated + 1

(* The room check of add: one more token must fit.                         *)
HasRoom(b, n) == b.n_tokens + n <= b.allocated

(* LlamaBatch::add past its room check.                                    *)
Add(b, pos, seqs, logits) ==
  [b EXCEPT
     !.slots[b.n_tokens] = [pos |-> pos, seqs |-> seqs, logits |-> logits],
     !.initialized_logits = IF logits THEN @ \cup {b.n_tokens}
                                      ELSE @ \ {b.n_tokens},
     !.n_tokens = @ + 1]

(* Mutant: positions go on from the batch instead of starting at 0.        *)
AddSequencePositionsGoOn(b, len, seq, logits_all) ==
  LET new == b.n_tokens .. b.n_tokens + len - 1
      flagged == {i \in new : logits_all \/ i = b.n_tokens + len - 1}
  IN [b EXCEPT
        !.slots = [i \in Offsets |->
                     IF i \in new
                     THEN [pos |-> i, seqs |-> {seq}, logits |-> i \in flagged]
                     ELSE b.slots[i]],
        !.initialized_logits = (@ \ new) \cup flagged,
        !.n_tokens = @ + len]

(* LlamaBatch::add_sequence past its room check, its loop of add calls in  *)
(* one step: positions start again at 0, and the last token is always      *)
(* flagged.  An empty sequence changes nothing.                            *)
AddSequence(b, len, seq, logits_all) ==
  LET new == b.n_tokens .. b.n_tokens + len - 1
      flagged == {i \in new : logits_all \/ i = b.n_tokens + len - 1}
  IN [b EXCEPT
        !.slots = [i \in Offsets |->
                     IF i \in new
                     THEN [pos |-> i - b.n_tokens, seqs |-> {seq},
                           logits |-> i \in flagged]
                     ELSE b.slots[i]],
        !.initialized_logits = (@ \ new) \cup flagged,
        !.n_tokens = @ + len]

(* The same loop, call by call, with the arguments the code computes.      *)
AddSequenceLoop(b, len, seq, logits_all) ==
  LET last_index == IF len = 0 THEN 0 ELSE len - 1
      added[k \in 0 .. len] ==
        IF k = 0 THEN b
        ELSE Add(added[k - 1], k - 1, {seq}, logits_all \/ k - 1 = last_index)
  IN added[len]

-----------------------------------------------------------------------------
(* The offsets C will produce an output for: the flags of the first        *)
(* n_tokens slots.                                                         *)
FlaggedOffsets(b) ==
  {i \in Offsets : i < b.n_tokens /\ b.slots[i] # Unwritten
                                  /\ b.slots[i].logits}

(* What makes a batch safe to hand to llama_decode and to remember:        *)
(* everything C reads was written, and the list names exactly the tokens   *)
(* C will produce outputs for.                                             *)
WrittenPrefix(b) == \A i \in Offsets : i < b.n_tokens => b.slots[i] # Unwritten
ListIsFlags(b) == b.initialized_logits = FlaggedOffsets(b)
BatchConsistent(b) == b \in Batch /\ WrittenPrefix(b) /\ ListIsFlags(b)
=============================================================================
