# A verification project for qllama-rs

qllama-rs is a Rust binding of llama.cpp: a safe API (`src/qllama`), a C ABI with
C++ wrappers for the chat helpers of llama.cpp's `common` library
(`src/qllama-sys`), example programs, among them an HTTP server that speaks the
OpenAI protocol (`src/examples`), and a benchmark of embedding models
(`src/benchmarks`). llama.cpp itself is a submodule and not part of this tree: it
is external here, and modelled from how the code calls it.

The binding does not compute. What it has to get right is *agreement*: between a
Rust list and a C array, a Rust token and a C global, a builder and the pointers
in the struct it builds, a parser in C++ and the deltas a client already has, a
loop counter and the cells of a cache. These agreements are what the
specifications in this directory state.

## 1. Inventory

| Part | State it keeps | Operations | What is hard about it |
|---|---|---|---|
| `LlamaBatch` (`llama_batch.rs`) | the C batch, `allocated`, `initialized_logits` | `new`, `get_one`, `clear`, `add`, `add_sequence`, `drop` | two records of the same fact (list and flags), written by different statements; owned batches and views share a type |
| `LlamaContext` (`context.rs`) | pointer to C, a copy of the list of the last decoded batch | `decode`, `encode`, `get_logits_ith`, embeddings, lora, state | the copy is only refreshed by a decode that succeeds; mtmd and state loading bypass it |
| KV cache, sessions (`context/kv_cache.rs`, `context/session.rs`) | cells in C, files | clear, copy, keep, shift, divide, save, load, of everything or one sequence | optional unsigned arguments become signed ones; checks made after C has changed its state; files outlive the process |
| `LlamaBackend` (`llama_backend.rs`) | a static atomic flag, a C global | `init`, `init_numa`, `drop` | flag and C call are not one step; several threads |
| Log redirection (`lib.rs`, `log.rs`) | a buffer under a mutex, two atomics beside it | one callback, called by any thread of llama.cpp | lock-free fast path around a lock; a CONT message refers to an earlier one |
| `LlamaModelParams` (`model/params.rs`, `kv_overrides.rs`) | two vectors, an array, and C pointers into them | `append_kv_override`, `add_cpu_buft_override`, `with_devices`, load mode flags | self-referential; panics half way; several flags in one field |
| Chat templates (`model.rs`, `wrapper_oai.cpp`, `wrapper_common.cpp`, `wrapper_utils.h`) | a C struct of copied strings and arrays | one call: render, copy out, convert, free | every copy can fail; who frees what |
| Chat stream parser (`openai.rs`, `wrapper_oai.cpp`) | the text so far, the last message, tool call ids | `update`, `drop` | state advances before later steps that fail |
| `LlamaModel` (`model.rs`) | pointer to C | load, tokenize, detokenize, metadata | buffers that grow and are asked for again |
| Native objects (`model.rs`, `context.rs`, `sampling.rs`, `llguidance_sampler.rs`, `mtmd.rs`, `gguf/mod.rs`) | pointers to C objects, some of which point to each other | make, share, move into another object, clone, view, drop | who frees what, and what is still read then; only `LlamaContext` has a lifetime |
| Chat request (`examples/server`, `tools`, `tools_reasoning`, `openai_stream`) | the template result, trigger tokens and patterns, the sampler chain, the conversation | check, render, decode the prompt, arm the grammar, generate, answer tool calls | sixteen checks and then one more; numbers that are cut to 32 bits before they are checked; three policies for what cannot be armed |
| Embedding loop (`benchmarks/src/lib.rs`, `examples/reranker`) | a batch, the sequence ids in it | add, flush, decode, read | when to flush; sequence ids start again with each batch |
| Generation loops (`examples/server`, `simple`, `openai_stream`, `tools`, ...) | position, budget, batch, text | prompt, sample, stop, finish reason | boundaries; integer widths |
| HTTP routing, CLI, downloads, build script, timings, plain getters | - | - | I/O and value types; see section 7 |

Interaction: the caller fills a `LlamaBatch` and gives it to a `LlamaContext`,
which copies the batch's list; the loops of the examples and of the benchmarks
drive both. llama.cpp calls the log state from its own threads. A chat request
renders a template, arms a grammar with what the result asks for, and runs a
generation loop; a template result also starts a stream parser, which is fed with
the text of the loop. Loading a model and making a context need the
`LlamaBackend` token, which then nothing keeps alive.

The 40 hazards found while reading are listed, at their lines, in
`PROJECT.json`; each names the properties that would catch it, or says why none
does yet. Where the code does go wrong at a hazard, a run shows it (section 6), or
the property names that case as its exception and the hazard's note says so: such a
property shows that there is no other case.

## 2. Modules

A component's module holds its state machine and properties, `MC<module>` and its
`.cfg` the instance TLC checks, `<module>Proofs` the theorems. A definition whose
comment begins with *Mutant* is a plausible bug of a definition below it; it is
used by no action and exists to show that a property would notice.

| Module | Code | State and actions |
|---|---|---|
| `LlamaBatch` | `llama_batch.rs` | A batch as a value: `n_tokens`, `slots` (positions, sequences and flag of each offset, or `Unwritten`), the Rust list `initialized_logits`. Operators for each method; no variables, so that the machines below share it. |
| `LlamaContext` | `context.rs`, `mtmd.rs` 680-738, `session.rs` 451 | One caller's batch and one context. Each method is an action; a decode has the outcomes the error mapping distinguishes: refused before the outputs were touched, failed after it, or done. `outputs` is what llama.cpp really has. |
| `LlamaBackend` | `llama_backend.rs` | Threads; the swap of the flag and the C call are two actions of each constructor and of `drop`. |
| `NativeObjects` | `model.rs`, `context.rs`, `sampling.rs`, `llguidance_sampler.rs`, `mtmd.rs`, `gguf/mod.rs` | Composed with `LlamaBackend` (it extends it, and its steps are among its own). An object of C counts the Rust values that will free it (`owners`) and those that will not (`views`), names its `parts`, which are freed with it, and the objects it `reads`. `chain` and the llguidance box move ownership, `CloneBitmap` copies it, a LoRA adapter or a chunk of a collection is a view. What the borrow checker refuses (dropping a model under its context) is a guard. |
| `ContextState` | `context/kv_cache.rs`, `context/session.rs` | The cache is the set of positions of each sequence. `AsI32` is the conversion, `Mem...` the memory of llama.cpp behind it; a removal is a set of answers, as llama.cpp may refuse one of a part of a sequence (`Ok(false)`). A file holds the cells and the number of tokens of its last save, or `NoState` when none was made or a crash has torn it; a load returns tokens only after C has replaced the cells. |
| `LogState` | `lib.rs` 572-611, `log.rs` | One action per access to the mutex or an atomic. A message is its number, level and whether it ends with a newline; a text is the sequence of the messages it was made of. |
| `ModelParams` | `model/params.rs`, `kv_overrides.rs` 100-131 | A vector is its entries and the number of its heap buffer; a pointer is the number it was taken at. Panics may be caught and the builder used on. |
| `EmbedInOrder` | - | What the embedding loop promises: the outputs of the inputs, one by one, in order; failure only if some input cannot be embedded. |
| `EmbeddingBatcher` | `examples/reranker/src/main.rs` 148-189, 223-262; `benchmarks/src/lib.rs` 53-148, 229-298 | The loop with its flush, over `LlamaBatch`; `llama_decode` computes, for each sequence id, the set of inputs whose tokens it was given. |
| `GenerationLoop` | `examples/server/src/main.rs` 366-512, `simple`, `usage.rs`, `llguidance.rs`, `tools.rs`, `tools_reasoning.rs`, `openai_stream.rs`, `mtmd` | All loops that generate text, over `LlamaBatch`; `program` says which, one `Start` action each. A sampled token is an end, a piece, or a piece that completes a stop string. `AfterTools` and `AfterStream` are what follows the decode of a token. The i32 of the code go up to `I32Max`, its u32 up to twice that and one. |
| `AskAgain` | `model.rs` 287-302, 351-404, 476-510, 558-612, 692-743, 891-949, 1425-1454 | Pure operators: each function that lends C a buffer, with the three ways in which C says that it was too small. `Outcomes` are all their results. |
| `TokenText` | `model.rs` 309-327, 434-460, `examples/server/src/main.rs` 466-478 | Extends `AskAgain`. A text is its bytes, each with its character, its part of it and its width; they are cut into tokens anywhere and turned to text again by `token_to_piece`, by the loops, or by `tokens_to_str`. The decoder of `encoding_rs` is external: it keeps the bytes of an unfinished character, and may refuse a byte when little room is left. |
| `RequestChecks` | `examples/server/src/main.rs` 116-174, 279-390 | Pure operators: what the server reads from each field of a request, and what it refuses. A field that is only passed on is its JSON type; a number is its value, read as u64, i64 or f64, cut to u32, i32 or f32 as the code does, and then checked. `Keeps` is what the messages of the refusals ask for, `Overlooked` the rules that the server does not hold a value to. |
| `ChatRequest` | `examples/server/src/main.rs` 30-417, 455-456, 496-555, `tools.rs`, `tools_reasoning.rs`, `openai_stream.rs` | Extends `RequestChecks`. One request, or one run of an example: the checks in their order, the prompt, preserved tokens, one step per trigger, the chain with the samplers that the numbers of the request ask for, the answer, and for `tools_reasoning` the second round, of whose tool calls only the number is kept. A template result is any the renderer may give; a word is what `str_to_token` makes of it. `GenerationLoop` is its one step `Generate`. |
| `ChatTemplateCall` | `model.rs` 976-1345, `wrapper_oai.cpp` 255-446, `wrapper_utils.h`, `wrapper_common.cpp` 32-78 | One call. The heap is a set of blocks named by the field and item they hold; each `malloc` succeeds or fails; each string is convertible or not. |
| `StreamInOrder` | - | What a caller of the stream parser counts on: a call tells all of the texts that the message newly shows, or fails and tells none of them; either may leave a message that shows fewer, and a text is told again, or a missed one late, only if the message has stopped showing it and then shows it once more. |
| `TextOrder` | - | The texts of a set in the order in which they were given. |
| `ChatStream` | `openai.rs` 49-115, `wrapper_oai.cpp` 476-927 | Several updates of one parser, with the same heap. A message is how many of the texts given so far it shows: more than the last one, as many, or fewer (it then does not extend the last one). It is kept before `compute_diffs`, which may throw or, for one that shows no more, find nothing to tell. That a parse takes texts it has shown for something else (content for a tool call) is not modelled. The caller goes on after an error. |

## 3. Runs

Every run finishes in at most two minutes on two cores.

| Run | Shows | Instance, and why it is enough |
|---|---|---|
| `context` | `BatchReady`, `ListMatchesOutputs`, `AddSequenceIsItsLoop`, `DropFreesBuffer` | Batches for 0, 1 and 3 tokens: none, one that is full at once, one with a first, a middle and a last slot. `NCtx` = 2 lets an admitted index be too large. At most one leaked buffer per size. |
| `context_stale_logits` | violation, section 6 | same |
| `native_objects` | `OneFreeEach`, `StaleOnlyWhereNoLifetime`; `AtMostOneToken`, `RefusedOnlyWhileOwned` of the token | Two threads: an owner, one half way or refused. Six programs, each with the objects of one group that point to each other, two where two make a difference (two models and one context, two grammars and two chains, two boxes, two collections), and every order of making and dropping them. |
| `log` | `EachMessageOnce`, `BufferWillBeFlushed`, `LinesInOrder`, `EveryCallReturns` | Two threads, five messages, an enabled level, a disabled one and CONT: enough for a part, its CONT, a line that flushes, and a second thread between any two accesses. |
| `model_params` | types, `VectorsWalkable`, `OverridesAreTheGiven`, `FlagsAreIndependent` | Two keys, one that does not fit, lists of zero to one too many devices; the setters of the load mode with either value, in every order. |
| `embedding` | `WholeSequences`, refinement of `EmbedInOrder` with its fairness | Up to four inputs of 0 to 4 tokens, a batch of 3: inputs that fill it, join in it, start a new one, are empty, or cannot fit. |
| `generation` | `SampledRowExists`, `PositionsInOrder`, `FinishReasonExact`, `StreamIsTheText`, `NeverOutOfCells` | 4-bit integers with budgets up to 17, so that every wrap of u32 and i32 is met; contexts smaller, equal and larger than prompt and budget; all eight programs. |
| `token_text` | types, `TextIsTheBytes`, `LoseNothing`, `WholeOrError`, `AnyLength` | Up to three characters of one, two and four bytes, tokens of up to six bytes, a first buffer of 3 and a string of 9: characters cut everywhere, tokens with the end of one and the beginning of another, shorter and longer than either bound; for `AnyLength`, up to 8 items against buffers of 3, 4 and every estimate. |
| `chat_template` | `NothingLeftBehind`, `OnlyLiveBlocks`, `ResultIsTheRendered` | Arrays of 0 to 2 items; texts that are plain, empty, not UTF-8, or hold a NUL. |
| `chat_stream` | `DeltasAreTheMessage`, `LeaksOnlyUnconverted`, `OnlyLiveBlocks`, refinement of `StreamInOrder` | Four updates, each of which may fail at any allocation, parse or conversion, and may leave a message that shows any number of the texts: one that shrinks, grows again, and grows past where it was. |
| `context_state` | `RangesAreAsDocumented`, `LoadedTokensAreCached` | Two sequences of three positions, i32 up to 2 and u32 up to 5, so that each argument is in range, too large, or None; one file, written, torn and loaded again in any order with the cache operations. In every reachable cache `RangesAreAsDocumented` looks at all arguments, not only at those the steps use. |
| `chat_request` | `RefusalsAreRight`, `NumbersAreUsable`, `GrammarIsArmed` | Up to two triggers of each type; a word of one token, one of two and one that cannot be tokenized; two tool calls: these with the examples and with a plain request, a greedy one and one with a bad `stop` (`Rendered`). Templates without triggers with every request that differs from a plain one in up to two fields, so that any two checks meet. i32 of 2 bits and i64 of 4, so that a number is too large for either, wraps to 0 and wraps to a negative one; 1 in four parts, f32 in steps of two of them, so that a fraction is rounded to 0, to 1 and away from both. |

`CHECK_DEADLOCK FALSE` is said where the program ends (a call returns, a process
has panicked) or a bound stops the model.

Bounds that cut behaviour: `MaxCalls` of `LogState` (messages logged),
`MaxBuffers` (leaked buffers per size), `MaxInputs`, `MaxUpdates`, `MaxPiece`
(bytes of a token), `Longest` (what C has to give), `Capacity`, `Programs` (how
many objects a program makes), `MaxHandles`, `MaxTriggers`, `MaxCalls` of
`ChatRequest` (tool calls of a message), `Requests` and `Rendered` (what a client may send, and
which templates may come of it), and the
widths `I32Max` and `I64Max`.

Type invariants are an invariant of a run where the type itself says something
(`model_params`, `token_text`); those of the other modules are part of the
invariants of section 5.

## 4. Fairness

`LogState`: weak fairness of each thread's step inside the callback. The callback
runs on llama.cpp's threads and waits only for the mutex, which is held for a
bounded number of steps; weak fairness (not strong) is enough because at most
one thread at a time keeps the lock over a step. New messages are not fair.

`EmbeddingBatcher`: weak fairness of the sequential loop as a whole: it is a
function that is called and runs.

No other module states liveness. `NativeObjects` and `ContextState` are calls that
a caller may stop making at any time, and a chat request waits for nothing but
itself.

## 5. What is proved

Every safety property that a passing run checks is also a theorem, for every value
of the constants that the modules' `ASSUME`s admit; each run evaluates these on its
instance. A theorem is `Spec => []P` from an inductive invariant, but for the
refinements and for `FlagsApart`, which is about steps: whichever call a step is, the
new mode reads back as what was given.

* `LlamaBatchProofs`: `NewBatch`, `GetOne`, `Clear`, `Add` and `AddSequence` yield a
  `BatchConsistent` batch: well typed, written up to `n_tokens`, list equal to
  flags. `AddSequenceByAdds`: `AddSequence`, which changes a batch at once, is the
  loop of `add` calls that the code makes.
* `LlamaContextProofs`: `TypeCorrect`, `BatchReadyAlways`, `ListMatches`,
  `BuffersFreed`, `LoopInOneStep`. The invariant adds to the types that the batch is
  consistent (a successful decode copies the list and computes the flags; they agree
  only because of this) and that a batch with room has a buffer. `BuffersFreed`
  needs a second invariant that counts exactly one buffer per living batch. Of
  `ContextState`: `StateTypeCorrect`, `LoadsAreCached`, `RangesMeanWhatTheySay`, for
  any sequences, files and integer widths. The tokens of every file that is not torn
  are a prefix of the cells saved with them; a load is right because of its file and
  not because of the cache it finds. The ranges follow from the types, argument by
  argument and answer by answer.
* `NativeProofs`: `DropNeverUnreachable`, `OneToken`, `RefusalsAreJustified` of the
  backend token (`TokenInv`: the flag is set exactly while one thread owns it), and
  `ProgramsUseTheToken`: a program that makes native objects implements
  `LlamaBackend`, so the three hold of the composition. `FreedOnce`,
  `StaleOnlyThere`, for any program: `NInv` says of each object that it has
  one owner, or one live whole, or was freed once (but for clones and a lost box),
  which kinds it may own and read, and that a living context keeps its model. `BuilderTypes`,
  `WalksEnd`, `OverridesFound`, `FlagsApart` of `ModelParams`: the pointers taken are
  to the buffers the vectors are in, also after a panic. `TextTypes`,
  `PiecesAreTheText`, `NoByteIsLost`, `AllOrAnError`, `AnySizeIsGiven` of
  `TokenText` and `AskAgain`, for texts and tokens of any length and buffers of any
  size. `TextInv` says that while nothing was lost the decoder holds exactly the
  unfinished character at the end of the tokens so far; inside a token, `HasRead`
  counts the room against the bytes read (`TokenRead`), from which follows which
  string is large enough: `n` bytes between whole characters, six more elsewhere.
* `LogStateProofs`: `TypeCorrect`, `BufferFlushed`, from who holds the mutex
  (`MutexInv`) and which messages reach which method (`RouteInv`);
  `NothingLostOrTwice`, from the one place each message is in (`PlaceInv`);
  `OneThreadInOrder`, from the order of the messages of a thread in what is emitted,
  buffered, taken and in hand, as long as no other thread has logged (`OrderInv`).
* `EmbeddingBatcherProofs`: `TypeCorrect`; `ImplementsSafely`: each step of the loop
  is a step of `EmbedInOrder` or a stutter; `SequencesAreWhole`. The invariant
  relates the counters to the inputs since the last flush, and a second one
  (`SequencesInv`) says at which offsets of the batch each of these inputs is.
* `GenerationLoopProofs`: `TypeCorrect`, `ARowForEverySample`, `EveryPositionOnce`,
  `TheReasonIsTold`, `TheStreamIsTheAnswer`, `CellsForTheBudget`, for any prompts,
  budgets, contexts and any width of the integers. `LoopInv` says that the cache and
  the batch being decoded are together the positions below `n_cur` (`InTheCache`),
  that `n_cur` counts the sampled tokens against the bound that the program has set
  (`Counts`), and what reason and text an answer has (`Answers`, `Streams`);
  `BudgetInv` adds that the budget of every program but the server is an i32.
* `ChatTemplateCallProofs`: `TypeCorrect`, `CallsDoNotLeak`, `FreesAreOnce`,
  `ResultsAreRendered`, for arrays of any length. The invariant says that the heap
  is exactly what the struct's pointers reach plus the array that is being copied.
* `ChatProofs`: `RefusalsRight`, `NumbersRight`, `GrammarArmed`, for any requests,
  widths, words, templates and triggers. `ChecksKeepRules` relates each check, which looks at what
  the server made of a field, to the rule, which looks at what the client wrote: a check
  that passes keeps its rule, and one that refuses shows it broken, unless the rule is
  overlooked for that value. Then `CheckedInv` and `AnsweredInv` say which checks a
  request has passed at each place and with what it may end there; `NumbersInv` which
  numbers the sampler is built from (what a cut can yield is `CutRanges`), and
  `ArmedInv` that the triggers below `next` are armed and stay so. Of `ChatStream`, for
  any number of updates: `StreamTypeCorrect`, `DeltasAddUp`, `OnlyConversionsLeak`,
  `StreamFreesOnce`, and that the parser implements `StreamInOrder`
  (`UpdatesAreWhole`): a call of update, with all its steps and at whatever step it
  fails, is a `Call` and then a `Tell` or a `Miss`. `BlocksInv` names the blocks allocated at each place of a call,
  which every error path has to free; `ToldInv` what was delivered before the call
  and what of it is converted, counted from where the message last showed less.

Recursive definitions are recursive functions. The induction theorems of the
library, which take an operator, cannot be used; what such a function does after
`n` steps is shown from the least `n` at which it would not (`LeastNatural`, from the
well-founded order of the numbers), as in `AddSequenceByAdds`, in `DecodeSteps` and
in the lemmas about the order of texts.

Only model-checked: liveness, which the prover has no rules for. These are
`EveryCallReturns` of the log, and that the embedding loop comes to an end (the
fairness of `EmbedInOrder`, in `ImplementsEmbedInOrder`; its safety half is
`ImplementsSafely`).

## 6. Where the code does not do what it says

Shown by a run whose property quotes the sentence (`PROJECT.json`, findings):

* `context_stale_logits`: after a failed decode or a state load, `get_logits_ith`
  passes its check and makes a slice of a null pointer.

Met while modelling, visible in the models, without a run of their own; each is an
exception that a property names, or described here alone:

* A CONT with nothing to continue is buffered where the next line does not look
  (`IsOrphan` in `LogState`).
* The second `append_kv_override` panics, as the first wrote entry 0 (`panicked` in
  `ModelParams`).
* `tokens_to_str` fails for a token longer than eight bytes (`AnyLength`); a token
  without text is an error for all, so a control token that is not preserved ends
  a chat completion.
* `LlamaBatch::new(0, n)` is never freed (`DropFreesBuffer` has to leave size 0 out).
* `add` does not compare the sequences of a token with `n_seq_max`.
* `drop` of the backend token gives the flag back before `llama_backend_free`: a
  thread initialized in between loses the backend under its token
  (`DropToken` in `LlamaBackend`). `init_numa` returns the token without
  `llama_backend_init`. Neither a model nor a context keeps the token.
* `token_to_piece` drops the last bytes of a character that is cut between two
  tokens when the second has fewer bytes than the character, as does any reader of
  32 bytes for a longer token (`LoseNothing` says for which tokens nothing is lost);
  each failed try leaks its buffer.
* A clone of a `MtmdBitmap` is freed twice (`clones` in `OneFreeEach`). If
  `llama_sampler_init` refuses an llguidance context, its box is lost (`LostBox`).
* A grammar sampler, a `MtmdContext`, a LoRA adapter, a context with an adapter and
  a chunk of a collection may be used after what they read was freed
  (`NoLifetime`, `StaleOnlyWhereNoLifetime`).
* `chat_template(Some(name))` gives C the pointer of a `CString` dropped at the end
  of its match arm; a name with a NUL silently asks for the default template.
* llguidance asks for each token's bytes with a buffer of 32 and no second try:
  a longer token becomes one without bytes.
* A failed `load_session_file` or `state_load_file` (`InsufficientMaxLength`) has
  replaced the cache already (`Answer` in `ContextState`).
* The server looks at `stop` after the prompt was decoded (`CheckStop`).
* A full pattern that ends in an escaped `$` gets no end anchor; the examples, unlike
  the server, go on without a grammar they could not make (`GrammarIsArmed`).
* The server lets an array pass for `chat_template_kwargs`, which C then refuses with
  what becomes a 500, and for a schema (`Overlooked`); `top_k`, `temperature` and `top_p`
  of another type, and numbers too large for theirs, are served as other numbers
  (`Fits`, `FitsF32`).
* A stop string that ends inside a token is not seen: it is looked for at the end
  of the text after each whole token.
* `previous_level` of the log is one for all threads: a disabled message of one
  makes the CONT of another be judged by the wrong level.
* A caller that repeats a failed `update` with the same text adds it twice.
* A message of level NONE, or a CONT before any other, panics in `meta_for_level`
  (`Call` in `LogState`).
* With `LLAMA_CPP_MAX_DEVICES` devices the array of them has no terminating null.
* The server cuts `max_tokens` to 32 bits before it checks it (`MaxTokens` in
  `RequestChecks`, `AsU32` in `StartServer`); `simple`, `tools` and `openai_stream`
  decode one token more than they have made or checked room for (`NeverOutOfCells`
  says exactly where); `usage`, `llguidance` and `mtmd` check nothing.
* `openai_stream` reports `length` also for a text that ended by itself after as
  many tokens (`FinishReasonExact`), sends the stop string that it cuts from its
  answer, and tells the parser of the end only if there is one (`StreamIsTheText`).
* `simple`, `usage`, `llguidance` and `mtmd` accept each token again after `sample`,
  which has accepted it (`sampling.rs` 26).
* A rendered prompt with a NUL is cut without an error (`FromPtr` in
  `ChatTemplateCall`); an optional string whose copy failed looks absent.
* A message that does not extend the last one is kept before `compute_diffs` throws.
  The call fails; the next deltas are taken from the shorter message and hold texts
  that the caller was given before, although `openai.rs` 48 promises deltas. One that
  is a beginning of the last is kept without an error, with the same effect (`cut` and
  `before` in `DeltasAreTheMessage`, which says that no other text is told again).
* `with_use_mmap(true)` after `with_no_alloc(true)` leaves both set, which `params.rs`
  446 excludes (`FlagsAreIndependent` says what each setter does).
* A negative `max_tokens`, or a fraction, counts as none and becomes 1024, although
  "max_tokens must be greater than zero" (`Overlooked`).
* A failed `update` loses its deltas for good, and a failed conversion leaks its
  message and diffs (`lost` and the exception in `LeaksOnlyUnconverted`).

## 7. Not modelled

* Build script: runs once, before the program.
* Context parameters, timings, token types, vocabulary getters, GGUF accessors:
  one field or one value each; no order of calls matters.
* The embeddings example: one batch, one decode and one read per input, all of
  them actions of `LlamaContext`.
* HTTP routing, the model list, CLI, downloads, files of the benchmarks: I/O around
  one blocking call. Requests share only the immutable model.
* What a sampler, a grammar or an embedding computes, and the data of a
  `LlamaTokenDataArray`: numbers written by C.
* llama.cpp, its `common` library, `encoding_rs` and `llguidance`: external,
  modelled as far as the calls can tell.
* A number so large that it is an infinite f32, and the fields of a request that are
  only passed on (`tools`, `seed`, the booleans).

## 8. Plan

Modelled, in this order: batch and context; backend; log; model parameters;
embedding loop; generation loops; template call; stream parser; streaming, tool
and multimodal loops; tokens to text and the other functions that ask again; native
objects; cache and sessions; chat requests.

Proved, in this order: batch and context; backend; log; embedding loop; template
call; cache and sessions; chat requests; native objects and model parameters;
generation loops; stream parser; tokens to text.

Next, in the order of what it is worth:

1. Abstract specifications of what a caller sees, with the machines shown to
   implement them: the log as one queue of lines per thread, a generation as the
   prefix of the sampled tokens that its bounds allow.
2. Action properties: what a failed call may not have changed (a refused decode, a
   failed load, an `update` that failed before its parse).
3. The hazards without a property, where a state can show them: the buffer-type
   override whose key has gone, the template name that C reads after its string.
4. A parse that takes texts which it has shown for something else (a tool call found in
   what was content), which `ChatStream` leaves out.
