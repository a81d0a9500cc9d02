----------------------------- MODULE EmbedInOrder -----------------------------
(***************************************************************************)
(* What a caller of process_batch, process_splits_batch or                 *)
(* rerank_token_batches (benchmarks/src/lib.rs) counts on: output number k *)
(* was computed from input number k and from nothing else, and the call    *)
(* fails only for inputs that cannot be embedded.                          *)
(*                                                                         *)
(* An output is the set of the inputs whose tokens had a part in it.       *)
(***************************************************************************)
EXTENDS Naturals, Sequences

CONSTANTS
  Lens,         \* the numbers of tokens an input may have
  MaxInputs,    \* bound on the number of inputs
  Capacity,     \* the tokens a batch has room for
  SeqMax        \* the sequences the context can tell apart

VARIABLES
  lens,     \* the number of tokens of each input
  output,   \* the outputs so far
  outcome   \* what the call returned, if it did

vars == <<lens, output, outcome>>

Unfit ==
  \/ lens = <<>>
  \/ Len(lens) > SeqMax
  \/ \E k \in DOMAIN lens : lens[k] = 0 \/ lens[k] > Capacity

Init ==
  /\ lens \in UNION {[1 .. n -> Lens] : n \in 0 .. MaxInputs}
  /\ output = <<>>
  /\ outcome = "running"

EmbedNext ==
  /\ outcome = "running"
  /\ Len(output) < Len(lens)
  /\ output' = Append(output, {Len(output) + 1})
  /\ UNCHANGED <<lens, outcome>>

Succeed ==
  /\ outcome = "running"
  /\ Len(output) = Len(lens)
  /\ outcome' = "ok"
  /\ UNCHANGED <<lens, output>>

Fail ==
  /\ outcome = "running"
  /\ Unfit
  /\ outcome' = "failed"
  /\ UNCHANGED <<lens, output>>

Next == EmbedNext \/ Succeed \/ Fail

Spec == Init /\ [][Next]_vars
FairSpec == Spec /\ WF_vars(Next)
=============================================================================
