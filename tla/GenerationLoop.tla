---------------------------- MODULE GenerationLoop ----------------------------
(***************************************************************************)
(* The token loop of the programs that generate text, under src/examples.  *)
(* The prompt is decoded; then a token is sampled from the last row of     *)
(* what was decoded last, put alone into a batch at position n_cur, and    *)
(* decoded.  The programs differ in how they make their context, how they  *)
(* count their budget, where they look for stop strings, and what they     *)
(* report; the variable program says which one runs:                       *)
(*   server         run_chat_completion of server/src/main.rs              *)
(*   simple         main of simple/src/main.rs                             *)
(*   usage          main of usage.rs, and of llguidance.rs                 *)
(*   tools          main of tools.rs, generate_text of tools_reasoning.rs  *)
(*   openai_stream  main of openai_stream.rs                               *)
(*   mtmd           eval_message and generate_response of mtmd.rs          *)
(*                                                                         *)
(* A sampled token is an end of generation, a piece of text, or a piece    *)
(* that completes a stop string.  llama.cpp is external: decode needs a    *)
(* free cell in the KV cache for each token, may fail for other reasons,   *)
(* and leaves a row of logits for each flagged token.                      *)
(***************************************************************************)
EXTENDS LlamaBatch, Sequences

CONSTANTS
  Programs,      \* the programs to be run
  I32Max,        \* i32::MAX; the u32 of the code go up to 2 * I32Max + 1
  Prompts,       \* numbers of tokens a prompt may have, an i32 of llama_tokenize
  Budgets,       \* tokens asked for; a u64 for the server, an i32 elsewhere
  BatchSize,     \* slots of the batch of simple and usage, 512 in the code
  ContextSizes   \* n_ctx_train of the model, or n_ctx of the context

ASSUME GenerationAssumption ==
  /\ Programs \subseteq {"server", "simple", "usage", "tools", "openai_stream",
                         "mtmd"}
  /\ I32Max \in Nat
  /\ Prompts \subseteq 0 .. I32Max
  /\ Budgets \subseteq Nat
  /\ ContextSizes \subseteq 1 .. Capacity
  /\ BatchSize \in 1 .. Capacity
  /\ 0 \in SeqIds
  /\ 2 * I32Max + 1 <= Capacity

VARIABLES
  program,            \* which program runs
  n_prompt,           \* tokens of the prompt
  budget,             \* what the caller asked for
  n_ctx,              \* cells of the KV cache
  batch,              \* the LlamaBatch
  kv,                 \* the positions in the KV cache, in order of arrival
  outputs,            \* offsets with a row of logits
  n_cur,              \* the loop's position
  total,              \* what n_cur, or mtmd's count, is compared with
  completion_tokens,  \* pieces sampled
  generated,          \* generated_text, as its pieces
  streamed,           \* openai_stream: the pieces its parser was given
  closed,             \* openai_stream: the last update was not partial
  ended,              \* history: what ended the loop
  finish_reason,      \* what server and openai_stream answer
  pc,                 \* where the call is
  status              \* how it ended

request == <<program, n_prompt, budget>>
answer == <<ended, finish_reason>>
stream == <<streamed, closed>>
text == <<completion_tokens, generated>>
vars == <<request, n_ctx, batch, kv, outputs, n_cur, total, text, stream, answer,
          pc, status>>

Pieces == {"piece", "stop"}
Endings == {"none", "eog", "stop", "budget"}
Statuses == {"running", "done", "refused", "bad_budget", "no_slot", "error"}

WithStops == {"server", "tools", "openai_stream"}
Reporting == {"server", "openai_stream"}

TypeOK ==
  /\ program \in Programs
  /\ n_prompt \in Prompts /\ budget \in Budgets
  /\ n_ctx \in 1 .. Capacity
  /\ BatchConsistent(batch)
  /\ kv \in Seq(Nat) /\ Len(kv) <= n_ctx
  /\ outputs \in SUBSET Offsets
  /\ n_cur \in Nat
  /\ total \in Int
  /\ completion_tokens \in Nat
  /\ generated \in Seq(Pieces)
  /\ streamed \in Seq(Pieces)
  /\ closed \in BOOLEAN
  /\ ended \in Endings
  /\ finish_reason \in {"none", "stop", "tool_calls", "length"}
  /\ pc \in {"start", "decode", "after", "sample"}
  /\ status \in Statuses

-----------------------------------------------------------------------------
(* Conversions and sums of the release build.                              *)
AsU32(n) == n % (2 * (I32Max + 1))
AsI32(n) == LET u == AsU32(n) IN IF u > I32Max THEN u - 2 * (I32Max + 1) ELSE u

(* A budget is an i32 everywhere but in the server, and mtmd's prompt has  *)
(* at least the marker of its image.                                       *)
Init ==
  /\ program \in Programs
  /\ n_prompt \in Prompts /\ budget \in Budgets
  /\ program # "server" => AsI32(budget) = budget
  /\ program = "mtmd" => n_prompt > 0
  /\ n_ctx \in ContextSizes
  /\ batch = NewBatch(0, 1)
  /\ kv = <<>>
  /\ outputs = {}
  /\ n_cur = 0
  /\ total = 0
  /\ completion_tokens = 0
  /\ generated = <<>>
  /\ streamed = <<>>
  /\ closed = FALSE
  /\ ended = "none"
  /\ finish_reason = "none"
  /\ pc = "start"
  /\ status = "running"

At(place) == status = "running" /\ pc = place
Return(what) == status' = what

-----------------------------------------------------------------------------
(* Mutant: the flag goes to no token of the prompt.                        *)
PromptBatchUnflagged(size) ==
  IF n_prompt = 0 THEN NewBatch(size, 1)
  ELSE Add(AddSequence(NewBatch(size, 1), n_prompt - 1, 0, FALSE),
           n_prompt - 1, {0}, FALSE)

(* The prompt's tokens in one batch, only the last one flagged.            *)
PromptBatch(size) == AddSequence(NewBatch(size, 1), n_prompt, 0, FALSE)

(* The batch is filled and the loop's bounds are set; batch.add fails for  *)
(* a prompt the batch has no room for.                                     *)
Fill(size, bound) ==
  IF n_prompt > size
  THEN Return("error") /\ UNCHANGED <<batch, n_cur, total, pc>>
  ELSE /\ batch' = PromptBatch(size)
       /\ n_cur' = n_prompt
       /\ total' = bound
       /\ pc' = "decode"
       /\ UNCHANGED status

(* server main.rs:366-448.  The u64 of the request is cut to a u32 before  *)
(* it is compared with 0; the context is made as large as the prompt and   *)
(* the budget together.                                                    *)
StartServer ==
  LET max_tokens == AsU32(budget)
      wanted == AsU32(n_prompt + max_tokens)
      size == IF wanted > n_ctx THEN wanted ELSE n_ctx
  IN /\ program = "server" /\ At("start")
     /\ \/ max_tokens = 0 /\ Return("bad_budget")
           /\ UNCHANGED <<n_ctx, batch, n_cur, total, pc>>
        \/ /\ max_tokens > 0
           /\ n_ctx' = size
           /\ Fill(size, AsI32(n_prompt + AsI32(max_tokens)))
     /\ UNCHANGED <<request, kv, outputs, text, stream, answer>>

(* simple main.rs:271-326, with its two checks.                            *)
StartSimple ==
  LET n_kv_req == n_prompt + (budget - n_prompt)
  IN /\ program = "simple" /\ At("start")
     /\ IF n_kv_req > n_ctx \/ n_prompt >= budget
        THEN Return("refused") /\ UNCHANGED <<batch, n_cur, total, pc>>
        ELSE Fill(BatchSize, budget)
     /\ UNCHANGED <<request, n_ctx, kv, outputs, text, stream, answer>>

(* usage.rs and llguidance.rs: a fixed n_len and a default context, and no *)
(* check that they fit.                                                    *)
StartUsage ==
  /\ program = "usage" /\ At("start")
  /\ Fill(BatchSize, budget)
  /\ UNCHANGED <<request, n_ctx, kv, outputs, text, stream, answer>>

(* tools.rs, tools_reasoning.rs and openai_stream.rs: a fixed n_predict,   *)
(* and a context for the prompt and that many tokens.                      *)
StartTools ==
  LET wanted == n_prompt + budget
      size == IF wanted > n_ctx THEN wanted ELSE n_ctx
  IN /\ program \in {"tools", "openai_stream"} /\ At("start")
     /\ n_ctx' = size
     /\ Fill(size, n_prompt + budget)
     /\ UNCHANGED <<request, kv, outputs, text, stream, answer>>

(* mtmd.rs: eval_chunks decodes the prompt in batches of its own, and the  *)
(* loop's batch starts empty.  (A prompt has as many positions as tokens   *)
(* here, which M-RoPE models do not keep to.)                              *)
StartMtmd ==
  /\ program = "mtmd" /\ At("start")
  /\ \/ /\ n_prompt <= n_ctx
        /\ kv' = [i \in 1 .. n_prompt |-> i - 1]
        /\ outputs' = {0}
        /\ batch' = NewBatch(n_ctx, 1)
        /\ n_cur' = n_prompt
        /\ total' = budget
        /\ pc' = "sample"
        /\ UNCHANGED status
     \/ /\ \/ n_prompt > n_ctx /\ Return("no_slot")
           \/ Return("error")
        /\ UNCHANGED <<kv, outputs, batch, n_cur, total, pc>>
  /\ UNCHANGED <<request, n_ctx, text, stream, answer>>

-----------------------------------------------------------------------------
(* ctx.decode; every error ends the call, and one of the conversion of the *)
(* sampled token to text is counted here too.  Only tools and              *)
(* openai_stream have more to do for the token before the next one.        *)
Decode ==
  /\ At("decode")
  /\ \/ /\ batch.n_tokens > 0
        /\ Len(kv) + batch.n_tokens <= n_ctx
        /\ kv' = kv \o [i \in 1 .. batch.n_tokens |-> batch.slots[i - 1].pos]
        /\ outputs' = FlaggedOffsets(batch)
        /\ pc' = IF completion_tokens > 0 /\ program \in {"tools", "openai_stream"}
                 THEN "after" ELSE "sample"
        /\ UNCHANGED status
     \/ /\ Len(kv) + batch.n_tokens > n_ctx
        /\ Return("no_slot")
        /\ UNCHANGED <<kv, outputs, pc>>
     \/ Return("error") /\ UNCHANGED <<kv, outputs, pc>>
  /\ UNCHANGED <<request, n_ctx, batch, n_cur, total, text, stream, answer>>

(* Mutant: the server tests its budget as the other programs do.           *)
GoesOnInclusive == n_cur <= total

(* The test at the head of the loop.                                       *)
GoesOn == CASE program = "server" -> n_cur < total
            [] program = "mtmd"   -> completion_tokens < total
            [] OTHER              -> n_cur <= total

(* The end of the call: a stop string is cut from the text, the answer is  *)
(* parsed, which may fail, and the reason is told from n_cur.              *)
Finish(why, pieces) ==
  /\ ended' = why
  /\ generated' = IF pieces # <<>> /\ pieces[Len(pieces)] = "stop"
                  THEN SubSeq(pieces, 1, Len(pieces) - 1) ELSE pieces
  /\ \/ Return("done")
        /\ finish_reason' \in CASE program \notin Reporting -> {finish_reason}
                                [] program \in Reporting /\ n_cur >= total -> {"length"}
                                [] program = "server" /\ n_cur < total -> {"stop"}
                                [] OTHER -> {"stop", "tool_calls"}
     \/ program \in WithStops /\ Return("error") /\ UNCHANGED finish_reason
  /\ UNCHANGED <<n_cur, batch, pc>>

(* Mutant: the token is not put at the loop's position.                    *)
ContinueAtCount ==
  /\ batch' = Add(Clear(batch), completion_tokens, {0}, TRUE)
  /\ n_cur' = n_cur + 1
  /\ pc' = "decode"
  /\ UNCHANGED <<answer, status>>

(* The token alone in the batch, at the position after everything decoded. *)
Continue ==
  /\ batch' = Add(Clear(batch), n_cur, {0}, TRUE)
  /\ n_cur' = n_cur + 1
  /\ pc' = "decode"
  /\ UNCHANGED <<answer, status>>

(* Mutant: the server looks for stop strings where the others do.          *)
SampleStopsLate(token) ==
  /\ At("sample") /\ GoesOn /\ token # "eog"
  /\ completion_tokens' = completion_tokens + 1
  /\ IF token = "stop"
     THEN /\ ended' = "stop" /\ Return("done") /\ n_cur' = n_cur + 1
          /\ finish_reason' = IF n_cur' >= total THEN "length" ELSE "stop"
          /\ UNCHANGED <<batch, pc, generated>>
     ELSE Continue /\ generated' = Append(generated, token)
  /\ UNCHANGED <<request, n_ctx, kv, outputs, total, stream>>

(* One round of the loop up to its decode.  The server breaks on a stop    *)
(* string before it counts the token in n_cur.                             *)
Sample(token) ==
  /\ At("sample") /\ GoesOn
  /\ token = "stop" => program \in WithStops
  /\ IF token = "eog" THEN Finish("eog", generated) /\ UNCHANGED completion_tokens
     ELSE /\ completion_tokens' = completion_tokens + 1
          /\ IF token = "stop" /\ program = "server"
             THEN Finish("stop", Append(generated, token))
             ELSE Continue /\ generated' = Append(generated, token)
  /\ UNCHANGED <<request, n_ctx, kv, outputs, total, stream>>

StopNow == generated[Len(generated)] = "stop"

(* tools: the stop strings are looked for after the decode.                *)
AfterTools ==
  /\ program = "tools" /\ At("after")
  /\ IF StopNow THEN Finish("stop", generated)
     ELSE pc' = "sample" /\ UNCHANGED <<batch, n_cur, generated, answer, status>>
  /\ UNCHANGED <<request, n_ctx, kv, outputs, total, completion_tokens, stream>>

(* Mutant: the loop is left before the parser is told.                     *)
AfterStreamBreaksFirst ==
  /\ program = "openai_stream" /\ At("after")
  /\ IF StopNow THEN Finish("stop", generated) /\ UNCHANGED stream
     ELSE /\ streamed' = Append(streamed, generated[Len(generated)])
          /\ pc' = "sample"
          /\ UNCHANGED <<closed, batch, n_cur, generated, answer, status>>
  /\ UNCHANGED <<request, n_ctx, kv, outputs, total, completion_tokens>>

(* openai_stream: update gets the piece, as the last one if it completes a *)
(* stop string; a failing update ends the call.                            *)
AfterStream ==
  /\ program = "openai_stream" /\ At("after")
  /\ \/ /\ streamed' = Append(streamed, generated[Len(generated)])
        /\ closed' = StopNow
        /\ IF StopNow THEN Finish("stop", generated)
           ELSE pc' = "sample" /\ UNCHANGED <<batch, n_cur, generated, answer, status>>
     \/ /\ Return("error")
        /\ UNCHANGED <<stream, batch, n_cur, generated, answer, pc>>
  /\ UNCHANGED <<request, n_ctx, kv, outputs, total, completion_tokens>>

BudgetSpent ==
  /\ At("sample") /\ ~GoesOn
  /\ Finish("budget", generated)
  /\ UNCHANGED <<request, n_ctx, kv, outputs, total, completion_tokens, stream>>

Next ==
  \/ StartServer \/ StartSimple \/ StartUsage \/ StartTools \/ StartMtmd
  \/ Decode
  \/ \E token \in Pieces \cup {"eog"} : Sample(token)
  \/ AfterTools \/ AfterStream
  \/ BudgetSpent

Spec == Init /\ [][Next]_vars

-----------------------------------------------------------------------------
(* sampler.sample has no check of its index (sampling.rs:28-34): there is  *)
(* a row of logits for it whenever the loop goes on.  mtmd asks for the    *)
(* last row there is, by -1.                                               *)
SampledRowExists ==
  At("sample") => IF program = "mtmd" THEN outputs # {}
                                      ELSE batch.n_tokens - 1 \in outputs

(* The cache holds every position once, in order, without a gap, and n_cur *)
(* is the next one.                                                        *)
PositionsInOrder ==
  /\ \A i \in DOMAIN kv : kv[i] = i - 1
  /\ At("sample") => Len(kv) = n_cur

(* What is reported.  The server says "length" for a spent budget only,    *)
(* also on the last token (main.rs:458-498); a spent budget is the         *)
(* max_tokens of the request, unless that does not fit the i32 the loop    *)
(* counts in.  openai_stream says "length" as soon as as many tokens as    *)
(* n_predict were sampled, even if the text had ended by itself, and       *)
(* goes on to one more (openai_stream.rs:237, 293).                        *)
FinishReasonExact ==
  /\ status = "done" /\ program = "server" =>
       /\ finish_reason = IF ended = "budget" THEN "length" ELSE "stop"
       /\ completion_tokens <= budget
       /\ ended = "budget" => \/ completion_tokens = budget
                              \/ n_prompt + budget > I32Max
  /\ status = "done" /\ program = "openai_stream" =>
       /\ finish_reason = "length" <=> completion_tokens >= budget
       /\ ended = "budget" => completion_tokens = budget + 1
       /\ completion_tokens <= budget + 1

(* What a client of openai_stream was sent adds up to the answer, and to   *)
(* the stop string that is cut from the answer only (openai_stream.rs:     *)
(* 256-289); the parser is told of the end only by a stop string.          *)
StreamIsTheText ==
  program = "openai_stream" /\ status = "done" =>
    /\ streamed = IF ended = "stop" THEN Append(generated, "stop") ELSE generated
    /\ closed <=> ended = "stop"

(* A context that was made for the prompt and the budget does not run out  *)
(* of cells before both are decoded.  The server never does (main.rs:      *)
(* 423-426); simple checks for n_len cells (main.rs:277-285), tools and    *)
(* openai_stream ask for as many as they need, and all three decode one    *)
(* token more: they fail at that one, if the context has no cell to spare. *)
NeverOutOfCells ==
  status = "no_slot" =>
    /\ program # "server"
    /\ program \notin {"usage", "mtmd"} => n_ctx = total /\ Len(kv) = total
=============================================================================
