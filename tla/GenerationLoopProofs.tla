------------------------- MODULE GenerationLoopProofs -------------------------
(***************************************************************************)
(* Proofs about the token loops, for every set of prompts, budgets and     *)
(* contexts and every width of the integers.  The inductive invariant is   *)
(* LoopInv: the cache and the batch that is being decoded are together the *)
(* positions below n_cur (InTheCache), n_cur counts the sampled tokens     *)
(* against the bound each program has set (Counts), a call that is done    *)
(* has told the reason it ended for (Answers), and the parser of           *)
(* openai_stream has been given all but the token being decoded (Streams). *)
(***************************************************************************)
EXTENDS GenerationLoop, LlamaBatchProofs, SequenceTheorems, TLAPS

-----------------------------------------------------------------------------
(* The cache, the batch and the loop's position n_cur at each place.       *)
InTheCache ==
  /\ \A i \in 1 .. Len(kv) : kv[i] = i - 1
  /\ pc = "start" => kv = <<>>
  /\ pc = "decode" =>
       /\ Len(kv) + batch.n_tokens = n_cur
       /\ \A i \in 0 .. batch.n_tokens - 1 : batch.slots[i].pos = Len(kv) + i
       /\ batch.n_tokens > 0 => batch.slots[batch.n_tokens - 1].logits
       /\ completion_tokens > 0 => batch.n_tokens = 1
  /\ pc \in {"sample", "after"} /\ status = "running" =>
       /\ Len(kv) = n_cur
       /\ outputs # {}
       /\ program # "mtmd" => batch.n_tokens - 1 \in outputs
  /\ status = "no_slot" => \/ pc = "start" /\ program = "mtmd"
                           \/ pc = "decode" /\ n_cur > n_ctx
  /\ pc # "start" => batch.allocated > 0

(* What each program counts, and with which bound.                         *)
Counts ==
  /\ pc = "start" => completion_tokens = 0
  /\ pc # "start" => completion_tokens = n_cur - n_prompt
                       + (IF program = "server" /\ ended = "stop" THEN 1 ELSE 0)
  /\ pc # "start" /\ program = "server" =>
       /\ n_prompt <= n_ctx
       /\ total <= n_prompt + budget
       /\ total > n_prompt => total <= n_ctx
       /\ n_prompt + budget <= I32Max => total = n_prompt + budget
       /\ n_cur > n_prompt => n_cur <= total
  /\ pc # "start" /\ program = "simple" =>
       total = budget /\ total <= n_ctx /\ n_prompt <= total
  /\ pc # "start" /\ program \in {"tools", "openai_stream"} =>
       total = n_prompt + budget /\ total <= n_ctx
  /\ pc # "start" /\ program \in {"simple", "tools", "openai_stream"} =>
       n_cur <= total + 1

(* How a call ends, and what is answered then.                             *)
Answers ==
  /\ status = "running" => ended = "none"
  /\ pc = "after" => completion_tokens > 0 /\ program \in {"tools", "openai_stream"}
  /\ status = "done" =>
       /\ pc # "start" /\ ended # "none"
       /\ program = "server" =>
            /\ finish_reason = IF n_cur >= total THEN "length" ELSE "stop"
            /\ ended = "budget" <=> n_cur >= total
       /\ program = "openai_stream" =>
            /\ finish_reason = "length" <=> n_cur >= total
            /\ ended = "budget" => n_cur > total

(* What the parser of openai_stream was given: all but the piece that is   *)
(* being decoded.                                                          *)
Untold == pc = "after" \/ (pc = "decode" /\ completion_tokens > 0)

Streams ==
  program = "openai_stream" =>
    /\ status = "running" => ~closed
    /\ status = "running" /\ Untold =>
         generated # <<>> /\ generated = Append(streamed, generated[Len(generated)])
    /\ status = "running" /\ ~Untold =>
         /\ streamed = generated
         /\ generated # <<>> => generated[Len(generated)] # "stop"
    /\ status = "done" =>
         /\ streamed = IF ended = "stop" THEN Append(generated, "stop") ELSE generated
         /\ closed <=> ended = "stop"

LoopInv == TypeOK /\ InTheCache /\ Counts /\ Answers /\ Streams

(* The conversions of the release build, as far as the loops need them.    *)
LEMMA ModBounds ==
  ASSUME NEW n \in Int, NEW m \in Nat \ {0}
  PROVE  n % m \in 0 .. m - 1 /\ (n \in 0 .. m - 1 => n % m = n)
OBVIOUS

LEMMA ModNegative ==
  ASSUME NEW n \in Int, NEW m \in Nat \ {0}, n < 0, n + m >= 0
  PROVE  n % m = n + m
OBVIOUS

LEMMA U32Facts ==
  ASSUME NEW n \in Nat
  PROVE  /\ AsU32(n) \in 0 .. 2 * I32Max + 1
         /\ AsU32(n) <= n
         /\ n <= 2 * I32Max + 1 => AsU32(n) = n
<1>1. PICK m \in Nat \ {0} : m = 2 * (I32Max + 1)
  BY GenerationAssumption
<1>2. n % m \in 0 .. m - 1 /\ n % m <= n /\ (n <= m - 1 => n % m = n)
  OBVIOUS
<1> QED BY <1>1, <1>2, GenerationAssumption DEF AsU32

LEMMA I32Facts ==
  ASSUME NEW n \in Int, n >= -(I32Max + 1)
  PROVE  /\ AsI32(n) \in Int /\ AsI32(n) <= I32Max /\ AsI32(n) <= n
         /\ n <= I32Max => AsI32(n) = n
         /\ AsI32(n) >= 0 => AsI32(n) = AsU32(n)
<1>1. PICK m \in Nat \ {0} : m = 2 * (I32Max + 1)
  BY GenerationAssumption
<1>2. I32Max \in Nat
  BY GenerationAssumption
<1>3. n % m \in 0 .. m - 1 /\ (n \in 0 .. m - 1 => n % m = n)
  BY ModBounds
<1>4. n < 0 => n % m = n + m
  <2>1. n < 0 => n + m >= 0
    BY <1>1, <1>2
  <2> QED BY <2>1, ModNegative
<1>5. n >= 0 => n % m <= n
  OBVIOUS
<1>6. AsU32(n) = n % m
  BY <1>1 DEF AsU32
<1>7. AsI32(n) = IF n % m > I32Max THEN (n % m) - m ELSE n % m
  BY <1>1, <1>6 DEF AsI32
<1> HIDE <1>1
<1>8. PICK u \in Int : u = n % m
  BY <1>3
<1> QED BY <1>1, <1>2, <1>3, <1>4, <1>5, <1>6, <1>7, <1>8

LEMMA I32Low ==
  ASSUME NEW n \in Int
  PROVE  AsI32(n) >= -(I32Max + 1)
<1>1. PICK m \in Nat \ {0} : m = 2 * (I32Max + 1)
  BY GenerationAssumption
<1>2. n % m \in 0 .. m - 1
  BY ModBounds
<1>3. AsI32(n) = IF n % m > I32Max THEN (n % m) - m ELSE n % m
  BY <1>1 DEF AsI32, AsU32
<1>4. PICK u \in Int : u = n % m
  BY <1>2
<1> QED BY <1>1, <1>2, <1>3, <1>4, GenerationAssumption

(* The budget of the server, an u64 that is cut to an u32 and then counted *)
(* in an i32: what the loop counts up to is never more than was asked for, *)
(* nor more than the context was made for.                                 *)
LEMMA ServerTotal ==
  ASSUME NEW p \in 0 .. I32Max, NEW b \in Nat
  PROVE  LET t == AsI32(p + AsI32(AsU32(b)))
         IN /\ t \in Int
            /\ t <= p + b
            /\ t > p => t <= AsU32(p + AsU32(b))
            /\ p + b <= I32Max => t = p + b
<1>1. PICK m : m = AsU32(b)
  OBVIOUS
<1>2. m \in 0 .. 2 * I32Max + 1 /\ m <= b /\ (b <= 2 * I32Max + 1 => m = b)
  BY <1>1, U32Facts
<1>3. PICK c : c = AsI32(m)
  OBVIOUS
<1>4. I32Max \in Nat
  BY GenerationAssumption
<1>5. m \in Nat /\ m >= -(I32Max + 1)
  BY <1>2, <1>4
<1>6. /\ c \in Int /\ c <= I32Max /\ c <= m /\ c >= -(I32Max + 1)
      /\ m <= I32Max => c = m
      /\ c >= 0 => c = AsU32(m)
  BY <1>3, <1>5, I32Facts, I32Low
<1>7. AsU32(m) = m
  BY <1>2, <1>5, U32Facts
<1>8. PICK t : t = AsI32(p + c)
  OBVIOUS
<1>9. p + c \in Int /\ p + c >= -(I32Max + 1)
  BY <1>4, <1>6
<1>10. /\ t \in Int /\ t <= p + c
       /\ p + c <= I32Max => t = p + c
       /\ t >= 0 => t = AsU32(p + c)
  BY <1>8, <1>9, I32Facts
<1>11. t <= p + b
  BY <1>2, <1>6, <1>10
<1>12. ASSUME t > p PROVE t <= AsU32(p + m)
  <2>1. c >= 0 /\ t >= 0
    BY <1>6, <1>10, <1>12
  <2>2. c = m /\ t = AsU32(p + c)
    BY <1>6, <1>7, <1>10, <2>1
  <2> QED BY <1>10, <2>2
<1>13. ASSUME p + b <= I32Max PROVE t = p + b
  BY <1>2, <1>4, <1>6, <1>10, <1>13
<1> QED BY <1>1, <1>3, <1>8, <1>10, <1>11, <1>12, <1>13

-----------------------------------------------------------------------------
(* The batches of the loops.                                               *)
LEMMA PromptBatchFacts ==
  ASSUME NEW size \in 1 .. Capacity, n_prompt \in 0 .. size
  PROVE  /\ BatchConsistent(PromptBatch(size))
         /\ PromptBatch(size).allocated = size
         /\ PromptBatch(size).n_tokens = n_prompt
         /\ \A i \in 0 .. n_prompt - 1 : PromptBatch(size).slots[i].pos = i
         /\ n_prompt > 0 => PromptBatch(size).slots[n_prompt - 1].logits
<1>1. PICK b : b = NewBatch(size, 1)
  OBVIOUS
<1>2. b.n_tokens = 0 /\ b.allocated = size /\ b \in Batch /\ BatchConsistent(b)
  BY <1>1, NewBatchConsistent DEF NewBatch, BatchConsistent
<1>3. HasRoom(b, n_prompt) /\ n_prompt \in Nat /\ 0 \in SeqIds
  BY <1>2, GenerationAssumption DEF HasRoom
<1>4. BatchConsistent(AddSequence(b, n_prompt, 0, FALSE))
  BY <1>2, <1>3, AddSequenceConsistent
<1>5. PICK c : c = AddSequence(b, n_prompt, 0, FALSE)
  OBVIOUS
<1>6. c.allocated = size /\ c.n_tokens = n_prompt
  BY <1>2, <1>5 DEF AddSequence, Batch
<1>7. ASSUME NEW i \in 0 .. n_prompt - 1
      PROVE  c.slots[i].pos = i /\ (i = n_prompt - 1 => c.slots[i].logits)
  <2>1. i \in Offsets
    BY BatchAssumption DEF Offsets
  <2>2. c.slots = [j \in Offsets |->
                    IF j \in 0 .. n_prompt - 1
                    THEN [pos |-> j - 0, seqs |-> {0},
                          logits |-> j \in {k \in 0 .. n_prompt - 1 : FALSE \/ k = n_prompt - 1}]
                    ELSE b.slots[j]]
    <3>1. 0 + n_prompt - 1 = n_prompt - 1
      BY <1>3
    <3> QED BY <1>2, <1>5, <3>1 DEF AddSequence, Batch
  <2>3. c.slots[i] = [pos |-> i - 0, seqs |-> {0},
                      logits |-> i \in {k \in 0 .. n_prompt - 1 : FALSE \/ k = n_prompt - 1}]
    BY <2>1, <2>2
  <2>4. c.slots[i].pos = i - 0 /\ i \in Int
    BY <2>3
  <2>5. ASSUME i = n_prompt - 1 PROVE c.slots[i].logits
    <3>1. i \in {k \in 0 .. n_prompt - 1 : FALSE \/ k = n_prompt - 1}
      BY <2>5
    <3>2. PICK flag : flag = (i \in {k \in 0 .. n_prompt - 1 : FALSE \/ k = n_prompt - 1})
      OBVIOUS
    <3>3. flag
      BY <3>1, <3>2, Zenon
    <3>4. c.slots[i] = [pos |-> i - 0, seqs |-> {0}, logits |-> flag]
      BY <2>3, <3>2, Zenon
    <3>5. c.slots[i].logits = flag
      BY <3>4
    <3> QED BY <3>3, <3>5, Zenon
  <2> QED BY <2>4, <2>5
<1>8. PromptBatch(size) = c
  BY <1>1, <1>5 DEF PromptBatch
<1>9. n_prompt > 0 => n_prompt - 1 \in 0 .. n_prompt - 1
  OBVIOUS
<1> QED BY <1>4, <1>5, <1>6, <1>7, <1>8, <1>9

LEMMA WrittenSlot ==
  ASSUME NEW S, NEW T, NEW f \in [S -> T], NEW x \in S, NEW s
  PROVE  [f EXCEPT ![x] = s][x] = s
OBVIOUS

LEMMA NextBatchFacts ==
  ASSUME NEW b, BatchConsistent(b), b.allocated > 0, NEW pos \in Nat
  PROVE  /\ BatchConsistent(Add(Clear(b), pos, {0}, TRUE))
         /\ Add(Clear(b), pos, {0}, TRUE).allocated = b.allocated
         /\ Add(Clear(b), pos, {0}, TRUE).n_tokens = 1
         /\ Add(Clear(b), pos, {0}, TRUE).slots[0].pos = pos
         /\ Add(Clear(b), pos, {0}, TRUE).slots[0].logits
<1>1. PICK c : c = Clear(b)
  OBVIOUS
<1>2. BatchConsistent(c) /\ c \in Batch /\ b \in Batch
  BY <1>1, ClearConsistent DEF BatchConsistent
<1>3. c.n_tokens = 0 /\ c.allocated = b.allocated
  BY <1>1, <1>2 DEF Clear, Batch
<1>4. HasRoom(c, 1) /\ {0} \in SUBSET SeqIds
  BY <1>2, <1>3, GenerationAssumption DEF HasRoom, Batch
<1>5. PICK d : d = Add(c, pos, {0}, TRUE)
  OBVIOUS
<1>6. BatchConsistent(d)
  BY <1>2, <1>4, <1>5, AddConsistent
<1>7. 0 \in Offsets
  BY BatchAssumption DEF Offsets
<1>8. PICK s : s = [pos |-> pos, seqs |-> {0}, logits |-> TRUE]
  OBVIOUS
<1>9. s.pos = pos /\ s.logits
  BY <1>8
<1>10. /\ d.allocated = c.allocated /\ d.n_tokens = c.n_tokens + 1
       /\ d.slots = [c.slots EXCEPT ![c.n_tokens] = s]
  BY <1>2, <1>5, <1>8 DEF Add, Batch
<1>11. c.slots \in [Offsets -> Slot \cup {Unwritten}]
  BY <1>2 DEF Batch
<1>12. d.slots[0] = s
  <2>1. d.slots = [c.slots EXCEPT ![0] = s]
    BY <1>3, <1>10
  <2> QED BY <1>7, <1>11, <2>1, WrittenSlot
<1>13. d.allocated = b.allocated /\ d.n_tokens = 1
  BY <1>3, <1>10
<1>14. d = Add(Clear(b), pos, {0}, TRUE)
  BY <1>1, <1>5
<1> QED BY <1>6, <1>9, <1>12, <1>13, <1>14

(* What a decode adds to the cache.                                        *)
LEMMA DecodedFacts ==
  ASSUME TypeOK, InTheCache, At("decode"), batch.n_tokens > 0,
         kv' = kv \o [i \in 1 .. batch.n_tokens |-> batch.slots[i - 1].pos]
  PROVE  /\ kv' \in Seq(Nat) /\ Len(kv') = n_cur
         /\ \A i \in 1 .. Len(kv') : kv'[i] = i - 1
         /\ batch.n_tokens - 1 \in FlaggedOffsets(batch)
<1>1. /\ batch \in Batch /\ batch.n_tokens \in 1 .. Capacity /\ kv \in Seq(Nat)
      /\ Len(kv) \in Nat /\ WrittenPrefix(batch)
  BY DEF TypeOK, BatchConsistent, Batch
<1>2. PICK n \in 1 .. Capacity : n = batch.n_tokens
  BY <1>1
<1>3. ASSUME NEW i \in 0 .. n - 1
      PROVE  i \in Offsets /\ batch.slots[i] # Unwritten /\ batch.slots[i] \in Slot
  <2>1. i \in Offsets
    BY BatchAssumption DEF Offsets
  <2>2. batch.slots[i] # Unwritten
    BY <1>1, <1>2, <2>1 DEF WrittenPrefix
  <2> QED BY <1>1, <2>1, <2>2 DEF Batch
<1>4. PICK new : new = [i \in 1 .. n |-> batch.slots[i - 1].pos]
  OBVIOUS
<1>5. \A i \in 1 .. n : i - 1 \in 0 .. n - 1
  OBVIOUS
<1>6. new \in Seq(Nat) /\ Len(new) = n
  <2>1. \A i \in 1 .. n : batch.slots[i - 1].pos \in Nat
    BY <1>3, <1>5 DEF Slot
  <2> QED BY <1>4, <2>1
<1>7. \A i \in 1 .. n : new[i] = Len(kv) + i - 1
  <2>1. \A i \in 0 .. n - 1 : batch.slots[i].pos = Len(kv) + i
    BY <1>2 DEF InTheCache, At
  <2> QED BY <1>1, <1>4, <1>5, <2>1
<1>8. /\ kv' = kv \o new /\ kv' \in Seq(Nat) /\ Len(kv') = Len(kv) + n
      /\ \A i \in 1 .. Len(kv) + n :
           kv'[i] = IF i <= Len(kv) THEN kv[i] ELSE new[i - Len(kv)]
  BY <1>1, <1>2, <1>4, <1>6
<1>9. \A i \in 1 .. Len(kv) + n : kv'[i] = i - 1
  <2> TAKE i \in 1 .. Len(kv) + n
  <2>1. CASE i <= Len(kv)
    BY <1>1, <1>8, <2>1 DEF InTheCache
  <2>2. CASE ~(i <= Len(kv))
    <3>1. i - Len(kv) \in 1 .. n
      BY <1>1, <2>2
    <3>2. new[i - Len(kv)] = Len(kv) + (i - Len(kv)) - 1
      BY <1>7, <3>1
    <3>3. kv'[i] = new[i - Len(kv)]
      BY <1>8, <2>2
    <3>4. i \in Int /\ Len(kv) \in Int
      BY <1>1
    <3>5. Len(kv) + (i - Len(kv)) - 1 = i - 1
      BY ONLY <3>4
    <3> QED BY ONLY <3>2, <3>3, <3>5
  <2> QED BY <2>1, <2>2
<1>10. n - 1 \in FlaggedOffsets(batch)
  <2>1. n - 1 \in 0 .. n - 1 /\ n - 1 < batch.n_tokens
    BY <1>2
  <2> QED BY <1>2, <1>3, <2>1 DEF FlaggedOffsets, InTheCache, At
<1>11. Len(kv) + n = n_cur
  BY <1>2 DEF InTheCache, At
<1> QED BY <1>2, <1>8, <1>9, <1>10, <1>11

-----------------------------------------------------------------------------
(* The steps.                                                              *)
LEMMA InitLoop == Init => LoopInv
<1> SUFFICES ASSUME Init PROVE LoopInv
  OBVIOUS
<1> USE GenerationAssumption, BatchAssumption
<1>1. batch = NewBatch(0, 1) /\ BatchConsistent(batch)
  <2>1. 0 \in 0 .. Capacity
    OBVIOUS
  <2> QED BY <2>1, NewBatchConsistent DEF Init
<1>2. TypeOK
  <2>1. kv \in Seq(Nat) /\ Len(kv) = 0 /\ generated \in Seq(Pieces) /\ streamed \in Seq(Pieces)
    BY DEF Init
  <2>2. n_ctx \in 1 .. Capacity /\ program \in Programs /\ n_prompt \in Prompts
        /\ budget \in Budgets
    BY DEF Init
  <2>3. outputs \in SUBSET Offsets
    BY DEF Init
  <2>4. n_cur \in Nat /\ total \in Int /\ completion_tokens \in Nat
    BY DEF Init
  <2>5. /\ closed \in BOOLEAN /\ ended \in Endings
        /\ finish_reason \in {"none", "stop", "tool_calls", "length"}
        /\ pc \in {"start", "decode", "after", "sample"} /\ status \in Statuses
    BY DEF Init, Endings, Statuses
  <2> QED BY <1>1, <2>1, <2>2, <2>3, <2>4, <2>5 DEF TypeOK
<1>3. InTheCache
  BY DEF Init, InTheCache
<1>4. Counts
  BY DEF Init, Counts
<1>5. Answers
  BY DEF Init, Answers
<1>6. Streams
  BY DEF Init, Streams, Untold
<1> QED BY <1>2, <1>3, <1>4, <1>5, <1>6 DEF LoopInv

(* What a program may set its loop's bound to, with a context of that many *)
(* cells.                                                                  *)
BoundFits(bound, cells) ==
  /\ program = "server" =>
       /\ n_prompt <= cells
       /\ bound <= n_prompt + budget
       /\ bound > n_prompt => bound <= cells
       /\ n_prompt + budget <= I32Max => bound = n_prompt + budget
  /\ program = "simple" => bound = budget /\ bound <= cells /\ n_prompt <= bound
  /\ program \in {"tools", "openai_stream"} =>
       bound = n_prompt + budget /\ bound <= cells

LEMMA FillKeeps ==
  ASSUME LoopInv, At("start"), NEW size \in 1 .. Capacity, NEW bound \in Int,
         program # "mtmd",
         Fill(size, bound), n_ctx' \in 1 .. Capacity, n_prompt <= size => BoundFits(bound, n_ctx'),
         UNCHANGED <<request, kv, outputs, text, stream, answer>>
  PROVE  LoopInv'
<1> USE GenerationAssumption, BatchAssumption
<1>1. /\ program' = program /\ n_prompt' = n_prompt /\ budget' = budget /\ kv' = kv
      /\ outputs' = outputs /\ completion_tokens' = completion_tokens
      /\ generated' = generated /\ streamed' = streamed /\ closed' = closed
      /\ ended' = ended /\ finish_reason' = finish_reason
  BY DEF request, text, stream, answer
<1>2. /\ pc = "start" /\ status = "running" /\ n_prompt \in Nat /\ budget \in Nat
      /\ TypeOK /\ InTheCache /\ Counts /\ Answers /\ Streams
  BY DEF At, LoopInv, TypeOK
<1>3. kv = <<>> /\ completion_tokens = 0 /\ ended = "none"
  BY <1>2 DEF InTheCache, Counts, Answers
<1>4. CASE n_prompt > size
  <2>1. status' = "error" /\ batch' = batch /\ n_cur' = n_cur /\ total' = total /\ pc' = pc
    BY <1>4 DEF Fill, Return
  <2>2. TypeOK'
    <3>1. BatchConsistent(batch')
      BY <1>2, <2>1 DEF TypeOK
    <3>2. kv' \in Seq(Nat) /\ Len(kv') = 0
      BY <1>1, <1>3
    <3> QED BY <1>1, <1>2, <2>1, <3>1, <3>2 DEF TypeOK, Statuses, BatchConsistent,
            WrittenPrefix, ListIsFlags, FlaggedOffsets
  <2>3. InTheCache'
    BY <1>1, <1>2, <1>3, <2>1 DEF InTheCache
  <2>4. Counts'
    BY <1>1, <1>2, <1>3, <2>1 DEF Counts
  <2>5. Answers' /\ Streams'
    BY <1>1, <1>2, <1>3, <2>1 DEF Answers, Streams
  <2> QED BY <2>2, <2>3, <2>4, <2>5 DEF LoopInv
<1>5. CASE ~(n_prompt > size)
  <2>1. /\ batch' = PromptBatch(size) /\ n_cur' = n_prompt /\ total' = bound
        /\ pc' = "decode" /\ status' = status /\ BoundFits(bound, n_ctx')
    BY <1>2, <1>5 DEF Fill
  <2>2. n_prompt \in 0 .. size
    BY <1>2, <1>5
  <2>3. /\ BatchConsistent(PromptBatch(size)) /\ batch'.allocated = size
        /\ batch'.n_tokens = n_prompt
        /\ \A i \in 0 .. n_prompt - 1 : batch'.slots[i].pos = i
        /\ n_prompt > 0 => batch'.slots[n_prompt - 1].logits
    BY <2>1, <2>2, PromptBatchFacts
  <2>4. TypeOK'
    <3>1. BatchConsistent(batch)'
      BY <2>1, <2>3 DEF BatchConsistent, WrittenPrefix, ListIsFlags, FlaggedOffsets
    <3>2. kv' \in Seq(Nat) /\ Len(kv') = 0
      BY <1>1, <1>3
    <3> QED BY <1>1, <1>2, <2>1, <3>1, <3>2 DEF TypeOK
  <2>5. InTheCache'
    <3>1. Len(kv') = 0 /\ batch'.allocated > 0
      BY <1>1, <1>3, <2>3
    <3> QED BY <1>1, <1>2, <1>3, <2>1, <2>3, <3>1 DEF InTheCache
  <2>6. Counts'
    BY <1>1, <1>2, <1>3, <2>1 DEF Counts, BoundFits
  <2>7. Answers'
    BY <1>1, <1>2, <1>3, <2>1 DEF Answers
  <2>8. Streams'
    BY <1>1, <1>2, <1>3, <2>1 DEF Streams, Untold
  <2> QED BY <2>4, <2>5, <2>6, <2>7, <2>8 DEF LoopInv
<1> QED BY <1>4, <1>5

(* A call that ends before it has begun.                                   *)
LEMMA RefusedKeeps ==
  ASSUME LoopInv, At("start"), status' \in {"bad_budget", "refused", "error", "no_slot"},
         status' = "no_slot" => program = "mtmd",
         UNCHANGED <<request, n_ctx, batch, kv, outputs, n_cur, total, text, stream, answer, pc>>
  PROVE  LoopInv'
<1>1. /\ program' = program /\ n_prompt' = n_prompt /\ budget' = budget /\ kv' = kv
      /\ outputs' = outputs /\ completion_tokens' = completion_tokens
      /\ generated' = generated /\ streamed' = streamed /\ closed' = closed
      /\ ended' = ended /\ finish_reason' = finish_reason /\ n_ctx' = n_ctx
      /\ batch' = batch /\ n_cur' = n_cur /\ total' = total /\ pc' = pc
  BY DEF request, text, stream, answer
<1>2. /\ pc = "start" /\ status = "running"
      /\ TypeOK /\ InTheCache /\ Counts /\ Answers /\ Streams
  BY DEF At, LoopInv
<1>3. TypeOK'
  <2>1. BatchConsistent(batch)'
    BY <1>1, <1>2 DEF TypeOK, BatchConsistent, WrittenPrefix, ListIsFlags, FlaggedOffsets
  <2> QED BY <1>1, <1>2, <2>1 DEF TypeOK, Statuses
<1>4. InTheCache'
  BY <1>1, <1>2 DEF InTheCache
<1>5. Counts' /\ Answers' /\ Streams'
  BY <1>1, <1>2 DEF Counts, Answers, Streams
<1> QED BY <1>3, <1>4, <1>5 DEF LoopInv

LEMMA StartServerKeeps == ASSUME LoopInv, StartServer PROVE LoopInv'
<1> USE GenerationAssumption
<1>1. PICK m : m = AsU32(budget)
  OBVIOUS
<1>2. PICK wanted : wanted = AsU32(n_prompt + m)
  OBVIOUS
<1>3. PICK size : size = IF wanted > n_ctx THEN wanted ELSE n_ctx
  OBVIOUS
<1>4. PICK bound : bound = AsI32(n_prompt + AsI32(m))
  OBVIOUS
<1>5. /\ program = "server" /\ At("start") /\ n_prompt \in 0 .. I32Max /\ budget \in Nat
      /\ n_ctx \in 1 .. Capacity
      /\ UNCHANGED <<request, kv, outputs, text, stream, answer>>
  BY DEF StartServer, LoopInv, TypeOK
<1>6. /\ bound \in Int /\ bound <= n_prompt + budget
      /\ bound > n_prompt => bound <= wanted
      /\ n_prompt + budget <= I32Max => bound = n_prompt + budget
  BY <1>1, <1>2, <1>4, <1>5, ServerTotal
<1>7. m \in Nat /\ wanted \in 0 .. 2 * I32Max + 1
  BY <1>1, <1>2, <1>5, U32Facts
<1>8. CASE m = 0
  <2>1. status' = "bad_budget" /\ UNCHANGED <<n_ctx, batch, n_cur, total, pc>>
    BY <1>1, <1>8 DEF StartServer, Return
  <2> QED BY <1>5, <2>1, RefusedKeeps DEF request, text, stream, answer
<1>9. CASE m > 0
  <2>1. n_ctx' = size /\ Fill(size, bound)
    BY <1>1, <1>2, <1>3, <1>4, <1>9 DEF StartServer
  <2>2. size \in 1 .. Capacity /\ wanted <= size /\ n_ctx <= size
    <3>1. Capacity \in Nat /\ wanted \in 0 .. Capacity
      BY <1>7, BatchAssumption
    <3> QED BY <1>3, <1>5, <3>1
  <2>3. n_prompt <= size => BoundFits(bound, size)
    BY <1>5, <1>6, <1>7, <2>2 DEF BoundFits
  <2> QED BY <1>5, <1>6, <2>1, <2>2, <2>3, FillKeeps
<1> QED BY <1>7, <1>8, <1>9

LEMMA StartSimpleKeeps == ASSUME LoopInv, StartSimple PROVE LoopInv'
<1> USE GenerationAssumption
<1>1. /\ program = "simple" /\ At("start") /\ n_prompt \in Nat /\ budget \in Nat
      /\ n_ctx \in 1 .. Capacity
      /\ UNCHANGED <<request, n_ctx, kv, outputs, text, stream, answer>>
  BY DEF StartSimple, LoopInv, TypeOK
<1>2. n_prompt + (budget - n_prompt) = budget
  BY <1>1
<1>3. CASE budget > n_ctx \/ n_prompt >= budget
  <2>1. status' = "refused" /\ UNCHANGED <<batch, n_cur, total, pc>>
    BY <1>2, <1>3 DEF StartSimple, Return
  <2> QED BY <1>1, <2>1, RefusedKeeps
<1>4. CASE ~(budget > n_ctx \/ n_prompt >= budget)
  <2>1. Fill(BatchSize, budget)
    BY <1>2, <1>4 DEF StartSimple
  <2>2. BoundFits(budget, n_ctx')
    BY <1>1, <1>4 DEF BoundFits
  <2>3. BatchSize \in 1 .. Capacity /\ budget \in Int /\ n_ctx' \in 1 .. Capacity
    BY <1>1
  <2> QED BY <1>1, <2>1, <2>2, <2>3, FillKeeps
<1> QED BY <1>3, <1>4

LEMMA StartUsageKeeps == ASSUME LoopInv, StartUsage PROVE LoopInv'
<1>1. /\ program = "usage" /\ At("start") /\ budget \in Int /\ Fill(BatchSize, budget)
      /\ n_ctx' \in 1 .. Capacity /\ BatchSize \in 1 .. Capacity
      /\ UNCHANGED <<request, n_ctx, kv, outputs, text, stream, answer>>
  BY GenerationAssumption DEF StartUsage, LoopInv, TypeOK
<1>2. BoundFits(budget, n_ctx')
  BY <1>1 DEF BoundFits
<1> QED BY <1>1, <1>2, FillKeeps

(* The budget of a program other than the server is an i32.                *)
BudgetInv == program # "server" => budget <= I32Max

LEMMA StartToolsKeeps == ASSUME LoopInv, BudgetInv, StartTools PROVE LoopInv'
<1>1. PICK wanted : wanted = n_prompt + budget
  OBVIOUS
<1>2. /\ program \in {"tools", "openai_stream"} /\ At("start") /\ n_prompt \in 0 .. I32Max
      /\ budget \in 0 .. I32Max /\ n_ctx \in 1 .. Capacity
      /\ UNCHANGED <<request, kv, outputs, text, stream, answer>>
  BY GenerationAssumption DEF StartTools, LoopInv, TypeOK, BudgetInv
<1>3. wanted \in 0 .. Capacity /\ Capacity \in Nat
  BY <1>1, <1>2, GenerationAssumption, BatchAssumption
<1>4. PICK size : size = IF wanted > n_ctx THEN wanted ELSE n_ctx
  OBVIOUS
<1>5. size \in 1 .. Capacity /\ wanted <= size
  BY <1>2, <1>3, <1>4
<1>6. n_ctx' = size /\ Fill(size, wanted)
  BY <1>1, <1>4 DEF StartTools
<1>7. BoundFits(wanted, size)
  BY <1>1, <1>2, <1>5 DEF BoundFits
<1>8. wanted \in Int /\ program # "mtmd"
  BY <1>2, <1>3
<1> QED BY <1>2, <1>5, <1>6, <1>7, <1>8, FillKeeps

LEMMA StartMtmdKeeps == ASSUME LoopInv, StartMtmd PROVE LoopInv'
<1> USE GenerationAssumption, BatchAssumption
<1>1. /\ program' = program /\ n_prompt' = n_prompt /\ budget' = budget
      /\ completion_tokens' = completion_tokens
      /\ generated' = generated /\ streamed' = streamed /\ closed' = closed
      /\ ended' = ended /\ finish_reason' = finish_reason /\ n_ctx' = n_ctx
  BY DEF StartMtmd, request, text, stream, answer
<1>2. /\ program = "mtmd" /\ pc = "start" /\ status = "running" /\ At("start")
      /\ n_prompt \in Nat /\ budget \in Nat /\ n_ctx \in 1 .. Capacity
      /\ TypeOK /\ InTheCache /\ Counts /\ Answers /\ Streams
  BY DEF StartMtmd, At, LoopInv, TypeOK
<1>3. completion_tokens = 0 /\ ended = "none"
  BY <1>2 DEF Counts, Answers
<1>4. ASSUME UNCHANGED <<kv, outputs, batch, n_cur, total, pc>>,
             status' \in {"no_slot", "error"}
      PROVE  LoopInv'
  <2>1. UNCHANGED <<request, n_ctx, text, stream, answer>>
    BY DEF StartMtmd
  <2> QED BY <1>2, <1>4, <2>1, RefusedKeeps
<1>5. ASSUME n_prompt <= n_ctx, kv' = [i \in 1 .. n_prompt |-> i - 1], outputs' = {0},
             batch' = NewBatch(n_ctx, 1), n_cur' = n_prompt, total' = budget,
             pc' = "sample", status' = status
      PROVE  LoopInv'
  <2>1. kv' \in Seq(Nat) /\ Len(kv') = n_prompt /\ \A i \in 1 .. n_prompt : kv'[i] = i - 1
    <3>1. \A i \in 1 .. n_prompt : i - 1 \in Nat
      OBVIOUS
    <3> QED BY <1>2, <1>5, <3>1
  <2>2. BatchConsistent(NewBatch(n_ctx, 1)) /\ batch'.allocated > 0
    <3>1. n_ctx \in 0 .. Capacity /\ n_ctx > 0
      BY <1>2
    <3> QED BY <1>5, <3>1, NewBatchConsistent DEF NewBatch
  <2>3. 0 \in Offsets
    BY DEF Offsets
  <2>4. TypeOK'
    <3>1. BatchConsistent(batch)'
      BY <1>5, <2>2 DEF BatchConsistent, WrittenPrefix, ListIsFlags, FlaggedOffsets
    <3> QED BY <1>1, <1>2, <1>5, <2>1, <2>3, <3>1 DEF TypeOK
  <2>5. InTheCache'
    BY <1>1, <1>2, <1>5, <2>1, <2>2 DEF InTheCache
  <2>6. Counts' /\ Answers' /\ Streams'
    BY <1>1, <1>2, <1>3, <1>5 DEF Counts, Answers, Streams
  <2> QED BY <2>4, <2>5, <2>6 DEF LoopInv
<1> QED BY <1>4, <1>5 DEF StartMtmd, Return

LEMMA DecodeKeeps == ASSUME LoopInv, Decode PROVE LoopInv'
<1>1. /\ program' = program /\ n_prompt' = n_prompt /\ budget' = budget
      /\ completion_tokens' = completion_tokens
      /\ generated' = generated /\ streamed' = streamed /\ closed' = closed
      /\ ended' = ended /\ finish_reason' = finish_reason /\ n_ctx' = n_ctx
      /\ batch' = batch /\ n_cur' = n_cur /\ total' = total
  BY DEF Decode, request, text, stream, answer
<1>2. /\ pc = "decode" /\ status = "running" /\ At("decode")
      /\ TypeOK /\ InTheCache /\ Counts /\ Answers /\ Streams
  BY DEF Decode, At, LoopInv
<1>3. BatchConsistent(batch)'
  BY <1>1, <1>2 DEF TypeOK, BatchConsistent, WrittenPrefix, ListIsFlags, FlaggedOffsets
<1>4. /\ n_cur \in Nat /\ Len(kv) + batch.n_tokens = n_cur /\ completion_tokens \in Nat
  BY <1>2 DEF TypeOK, InTheCache
<1>5. ASSUME UNCHANGED <<kv, outputs, pc>>,
             \/ status' = "error"
             \/ status' = "no_slot" /\ Len(kv) + batch.n_tokens > n_ctx
      PROVE  LoopInv'
  <2>1. TypeOK'
    BY <1>1, <1>2, <1>3, <1>5 DEF TypeOK, Statuses
  <2>2. InTheCache'
    BY <1>1, <1>2, <1>4, <1>5 DEF InTheCache
  <2>3. Counts' /\ Answers' /\ Streams'
    BY <1>1, <1>2, <1>5 DEF Counts, Answers, Streams
  <2> QED BY <2>1, <2>2, <2>3 DEF LoopInv
<1>6. ASSUME batch.n_tokens > 0, Len(kv) + batch.n_tokens <= n_ctx,
             kv' = kv \o [i \in 1 .. batch.n_tokens |-> batch.slots[i - 1].pos],
             outputs' = FlaggedOffsets(batch),
             pc' = IF completion_tokens > 0 /\ program \in {"tools", "openai_stream"}
                   THEN "after" ELSE "sample",
             status' = status
      PROVE  LoopInv'
  <2>1. /\ kv' \in Seq(Nat) /\ Len(kv') = n_cur
        /\ \A i \in 1 .. Len(kv') : kv'[i] = i - 1
        /\ batch.n_tokens - 1 \in outputs'
    BY <1>2, <1>6, DecodedFacts
  <2>2. outputs' \in SUBSET Offsets
    BY <1>6 DEF FlaggedOffsets
  <2>3. TypeOK'
    BY <1>1, <1>2, <1>3, <1>4, <1>6, <2>1, <2>2 DEF TypeOK
  <2>4. InTheCache'
    BY <1>1, <1>2, <1>6, <2>1 DEF InTheCache
  <2>5. Counts' /\ Answers'
    BY <1>1, <1>2, <1>6 DEF Counts, Answers
  <2>6. Streams'
    BY <1>1, <1>2, <1>4, <1>6 DEF Streams, Untold
  <2> QED BY <2>3, <2>4, <2>5, <2>6 DEF LoopInv
<1> QED BY <1>5, <1>6 DEF Decode, Return

(* The end of a call from inside its loop.                                 *)
LEMMA FinishKeeps ==
  ASSUME LoopInv, status = "running", pc \in {"sample", "after"},
         NEW why \in {"eog", "stop", "budget"}, NEW pieces \in Seq(Pieces),
         Finish(why, pieces), UNCHANGED <<request, n_ctx, kv, outputs, total>>,
         completion_tokens' = completion_tokens
                                + (IF program = "server" /\ why = "stop" THEN 1 ELSE 0),
         program = "server" => (why = "budget" <=> n_cur >= total),
         program = "openai_stream" /\ why = "budget" => n_cur > total,
         streamed' \in Seq(Pieces), closed' \in BOOLEAN,
         program = "openai_stream" /\ status' = "done" =>
           /\ streamed' = IF why = "stop" THEN Append(generated', "stop") ELSE generated'
           /\ closed' <=> why = "stop"
  PROVE  LoopInv'
<1>1. /\ program' = program /\ n_prompt' = n_prompt /\ budget' = budget
      /\ n_ctx' = n_ctx /\ kv' = kv /\ outputs' = outputs /\ total' = total
      /\ n_cur' = n_cur /\ batch' = batch /\ pc' = pc /\ ended' = why
      /\ status' \in {"done", "error"}
  BY DEF request, Finish, Return
<1>2. TypeOK /\ InTheCache /\ Counts /\ Answers /\ Streams
  BY DEF LoopInv
<1>3. n_cur \in Nat /\ total \in Int /\ completion_tokens \in Nat /\ n_prompt \in Nat
  BY <1>2, GenerationAssumption DEF TypeOK
<1>4. generated' \in Seq(Pieces)
  <2>1. CASE pieces # <<>> /\ pieces[Len(pieces)] = "stop"
    <3>1. generated' = SubSeq(pieces, 1, Len(pieces) - 1)
      BY <2>1 DEF Finish
    <3>2. Len(pieces) \in Nat /\ Len(pieces) - 1 \in Int /\ Len(pieces) - 1 <= Len(pieces)
      OBVIOUS
    <3> QED BY <3>1, <3>2, SubSeqProperties
  <2>2. CASE ~(pieces # <<>> /\ pieces[Len(pieces)] = "stop")
    BY <2>2 DEF Finish
  <2> QED BY <2>1, <2>2
<1>5. /\ finish_reason' \in {"none", "stop", "tool_calls", "length"}
      /\ status' = "done" /\ program = "server" =>
           finish_reason' = IF n_cur >= total THEN "length" ELSE "stop"
      /\ status' = "done" /\ program = "openai_stream" =>
           (finish_reason' = "length" <=> n_cur >= total)
  <2>1. CASE status' = "error" /\ UNCHANGED finish_reason
    BY <1>2, <2>1 DEF TypeOK
  <2>2. CASE ~(status' = "error" /\ UNCHANGED finish_reason)
    <3>1. finish_reason' \in
            CASE program \notin Reporting -> {finish_reason}
              [] program \in Reporting /\ n_cur >= total -> {"length"}
              [] program = "server" /\ n_cur < total -> {"stop"}
              [] OTHER -> {"stop", "tool_calls"}
      BY <2>2 DEF Finish, Return
    <3>2. CASE program \notin Reporting
      BY <1>2, <3>1, <3>2 DEF TypeOK, Reporting
    <3>3. CASE program \in Reporting /\ n_cur >= total
      <4>1. finish_reason' = "length"
        BY <1>3, <3>1, <3>3
      <4> QED BY <3>3, <4>1
    <3>4. CASE program = "server" /\ ~(n_cur >= total)
      <4>1. finish_reason' = "stop"
        BY <1>3, <3>1, <3>4 DEF Reporting
      <4> QED BY <3>4, <4>1
    <3>5. CASE program = "openai_stream" /\ ~(n_cur >= total)
      <4>1. finish_reason' \in {"stop", "tool_calls"}
        BY <3>1, <3>5 DEF Reporting
      <4> QED BY <3>5, <4>1
    <3> QED BY <3>2, <3>3, <3>4, <3>5 DEF Reporting
  <2> QED BY <2>1, <2>2
<1>6. BatchConsistent(batch)'
  BY <1>1, <1>2 DEF TypeOK, BatchConsistent, WrittenPrefix, ListIsFlags, FlaggedOffsets
<1>7. TypeOK'
  BY <1>1, <1>2, <1>3, <1>4, <1>5, <1>6 DEF TypeOK, Statuses, Endings
<1>8. InTheCache'
  BY <1>1, <1>2 DEF InTheCache
<1>9. Counts'
  <2>1. completion_tokens = n_cur - n_prompt
    BY <1>2, <1>3 DEF Counts, Answers
  <2> QED BY <1>1, <1>2, <1>3, <2>1 DEF Counts
<1>10. Answers'
  <2>1. pc' = "after" => completion_tokens' > 0 /\ program' \in {"tools", "openai_stream"}
    BY <1>1, <1>2, <1>3 DEF Answers
  <2> QED BY <1>1, <1>5, <2>1 DEF Answers
<1>11. Streams'
  BY <1>1 DEF Streams
<1> QED BY <1>7, <1>8, <1>9, <1>10, <1>11 DEF LoopInv

(* The token that was sampled goes into the batch.                         *)
LEMMA ContinueKeeps ==
  ASSUME LoopInv, At("sample"), GoesOn, Continue, NEW token \in Pieces,
         completion_tokens' = completion_tokens + 1,
         generated' = Append(generated, token),
         UNCHANGED <<request, n_ctx, kv, outputs, total, stream>>
  PROVE  LoopInv'
<1>1. /\ program' = program /\ n_prompt' = n_prompt /\ budget' = budget
      /\ n_ctx' = n_ctx /\ kv' = kv /\ outputs' = outputs /\ total' = total
      /\ streamed' = streamed /\ closed' = closed /\ ended' = ended
      /\ finish_reason' = finish_reason /\ status' = status
      /\ n_cur' = n_cur + 1 /\ pc' = "decode"
      /\ batch' = Add(Clear(batch), n_cur, {0}, TRUE)
  BY DEF request, stream, answer, Continue
<1>2. TypeOK /\ InTheCache /\ Counts /\ Answers /\ Streams /\ pc = "sample"
      /\ status = "running" /\ ended = "none"
  BY DEF LoopInv, At, Answers
<1>3. /\ n_cur \in Nat /\ total \in Int /\ completion_tokens \in Nat /\ n_prompt \in Nat
      /\ generated \in Seq(Pieces) /\ streamed \in Seq(Pieces)
  BY <1>2, GenerationAssumption DEF TypeOK
<1>4. /\ BatchConsistent(Add(Clear(batch), n_cur, {0}, TRUE)) /\ batch'.allocated > 0
      /\ batch'.n_tokens = 1 /\ batch'.slots[0].pos = n_cur /\ batch'.slots[0].logits
  <2>1. BatchConsistent(batch) /\ batch.allocated > 0
    BY <1>2 DEF TypeOK, InTheCache
  <2> QED BY <1>1, <1>3, <2>1, NextBatchFacts
<1>5. TypeOK'
  <2>1. BatchConsistent(batch)'
    BY <1>1, <1>4 DEF BatchConsistent, WrittenPrefix, ListIsFlags, FlaggedOffsets
  <2>2. generated' \in Seq(Pieces) /\ n_cur' \in Nat /\ completion_tokens' \in Nat
    BY <1>1, <1>3
  <2>3. pc' \in {"start", "decode", "after", "sample"}
    BY <1>1
  <2> QED BY <1>1, <1>2, <2>1, <2>2, <2>3 DEF TypeOK
<1>6. InTheCache'
  <2>1. Len(kv') = n_cur /\ \A i \in 1 .. Len(kv') : kv'[i] = i - 1
    BY <1>1, <1>2 DEF InTheCache
  <2>2. \A i \in 0 .. batch'.n_tokens - 1 : i = 0
    BY <1>4
  <2>3. \A i \in 0 .. batch'.n_tokens - 1 : batch'.slots[i].pos = n_cur + i
    BY <1>3, <1>4, <2>2
  <2>4. batch'.slots[batch'.n_tokens - 1].logits
    BY <1>4
  <2> QED BY <1>1, <1>2, <1>3, <1>4, <2>1, <2>3, <2>4 DEF InTheCache
<1>7. Counts'
  <2>1. completion_tokens = n_cur - n_prompt
    BY <1>2, <1>3 DEF Counts
  <2>2. program = "server" => n_cur < total
    BY DEF GoesOn
  <2>3. program \in {"simple", "tools", "openai_stream"} => n_cur <= total
    BY DEF GoesOn
  <2> QED BY <1>1, <1>2, <1>3, <2>1, <2>2, <2>3 DEF Counts
<1>8. Answers'
  BY <1>1, <1>2 DEF Answers
<1>9. Streams'
  <2>1. generated' # <<>> /\ generated'[Len(generated')] = token
    BY <1>3
  <2> QED BY <1>1, <1>2, <1>3, <2>1 DEF Streams, Untold
<1> QED BY <1>5, <1>6, <1>7, <1>8, <1>9 DEF LoopInv

(* Nothing is cut from a text that does not end with a stop string, and    *)
(* the stop string from one that does.                                     *)
LEMMA FinishedText ==
  ASSUME NEW why, NEW pieces \in Seq(Pieces), Finish(why, pieces)
  PROVE  /\ pieces = <<>> \/ pieces[Len(pieces)] # "stop" => generated' = pieces
         /\ \A before \in Seq(Pieces) :
              pieces = Append(before, "stop") => generated' = before
<1>1. pieces = <<>> \/ pieces[Len(pieces)] # "stop" => generated' = pieces
  BY DEF Finish
<1>2. ASSUME NEW before \in Seq(Pieces), pieces = Append(before, "stop")
      PROVE  generated' = before
  <2>1. pieces # <<>> /\ pieces[Len(pieces)] = "stop" /\ Len(pieces) - 1 = Len(before)
    BY <1>2
  <2>2. generated' = SubSeq(pieces, 1, Len(before))
    BY <2>1 DEF Finish
  <2>3. SubSeq(Append(before, "stop"), 1, Len(before)) = before
    BY <1>2, AppendProperties, SubSeqProperties
  <2> QED BY <1>2, <2>2, <2>3
<1> QED BY <1>1, <1>2

LEMMA SampleKeeps ==
  ASSUME LoopInv, NEW token \in Pieces \cup {"eog"}, Sample(token)
  PROVE  LoopInv'
<1>1. /\ At("sample") /\ GoesOn /\ pc = "sample" /\ status = "running"
      /\ UNCHANGED <<request, n_ctx, kv, outputs, total, stream>>
      /\ streamed' = streamed /\ closed' = closed
  BY DEF Sample, At, stream
<1>2. /\ completion_tokens \in Nat /\ generated \in Seq(Pieces)
      /\ streamed \in Seq(Pieces) /\ closed \in BOOLEAN
      /\ n_cur \in Nat /\ total \in Int
  BY DEF LoopInv, TypeOK
<1>3. program = "server" => ~(n_cur >= total)
  BY <1>1, <1>2 DEF GoesOn
<1>4. CASE token = "eog"
  <2>1. Finish("eog", generated) /\ completion_tokens' = completion_tokens
    BY <1>4 DEF Sample
  <2>2. program = "openai_stream" => streamed' = generated' /\ ~closed'
    <3>1. program = "openai_stream" =>
            /\ streamed = generated /\ ~closed
            /\ generated # <<>> => generated[Len(generated)] # "stop"
      BY <1>1 DEF LoopInv, Streams, Untold
    <3>2. generated = <<>> \/ generated[Len(generated)] # "stop" => generated' = generated
      BY <1>2, <2>1, FinishedText
    <3> QED BY <1>1, <3>1, <3>2
  <2>3. completion_tokens' = completion_tokens
                               + (IF program = "server" /\ "eog" = "stop" THEN 1 ELSE 0)
    BY <1>2, <2>1
  <2> QED BY <1>1, <1>2, <1>3, <2>1, <2>2, <2>3, FinishKeeps
<1>5. CASE token = "stop" /\ program = "server"
  <2>1. /\ Finish("stop", Append(generated, token))
        /\ completion_tokens' = completion_tokens + 1
        /\ Append(generated, token) \in Seq(Pieces)
    BY <1>2, <1>5 DEF Sample, Pieces
  <2>2. completion_tokens' = completion_tokens
                               + (IF program = "server" /\ "stop" = "stop" THEN 1 ELSE 0)
    BY <1>5, <2>1
  <2>3. program # "openai_stream"
    BY <1>5
  <2> QED BY <1>1, <1>2, <1>3, <2>1, <2>2, <2>3, FinishKeeps
<1>6. CASE token # "eog" /\ ~(token = "stop" /\ program = "server")
  <2>1. /\ token \in Pieces /\ Continue /\ completion_tokens' = completion_tokens + 1
        /\ generated' = Append(generated, token)
    BY <1>6 DEF Sample
  <2> QED BY <1>1, <2>1, ContinueKeeps
<1> QED BY <1>4, <1>5, <1>6

(* After a decode: the call goes on to the next token, or fails.           *)
LEMMA GoOnOrFailKeeps ==
  ASSUME LoopInv, At("after"),
         UNCHANGED <<request, n_ctx, batch, kv, outputs, n_cur, total, text, answer>>,
         \/ status' = "error" /\ pc' = pc /\ UNCHANGED stream
         \/ /\ status' = status /\ pc' = "sample" /\ ~StopNow
            /\ program # "openai_stream" => UNCHANGED stream
            /\ program = "openai_stream" =>
                 streamed' = Append(streamed, generated[Len(generated)]) /\ closed' = FALSE
  PROVE  LoopInv'
<1>1. /\ program' = program /\ n_prompt' = n_prompt /\ budget' = budget
      /\ n_ctx' = n_ctx /\ kv' = kv /\ outputs' = outputs /\ total' = total
      /\ n_cur' = n_cur /\ batch' = batch /\ ended' = ended
      /\ finish_reason' = finish_reason /\ completion_tokens' = completion_tokens
      /\ generated' = generated
  BY DEF request, text, answer
<1>2. TypeOK /\ InTheCache /\ Counts /\ Answers /\ Streams /\ pc = "after"
      /\ status = "running"
  BY DEF LoopInv, At
<1>3. BatchConsistent(batch)'
  BY <1>1, <1>2 DEF TypeOK, BatchConsistent, WrittenPrefix, ListIsFlags, FlaggedOffsets
<1>4. CASE status' = "error" /\ pc' = pc /\ UNCHANGED stream
  <2>1. streamed' = streamed /\ closed' = closed
    BY <1>4 DEF stream
  <2>2. TypeOK'
    BY <1>1, <1>2, <1>3, <1>4, <2>1 DEF TypeOK, Statuses
  <2>3. InTheCache'
    BY <1>1, <1>2, <1>4 DEF InTheCache
  <2>4. Counts' /\ Answers' /\ Streams'
    BY <1>1, <1>2, <1>4, <2>1 DEF Counts, Answers, Streams
  <2> QED BY <2>2, <2>3, <2>4 DEF LoopInv
<1>5. CASE /\ status' = status /\ pc' = "sample" /\ ~StopNow
           /\ program # "openai_stream" => UNCHANGED stream
           /\ program = "openai_stream" =>
                streamed' = Append(streamed, generated[Len(generated)]) /\ closed' = FALSE
  <2>1. program = "openai_stream" =>
          /\ generated # <<>> /\ generated[Len(generated)] # "stop"
          /\ streamed' = generated /\ closed' = FALSE
    BY <1>2, <1>5 DEF Streams, Untold, StopNow
  <2>2. program # "openai_stream" => streamed' = streamed /\ closed' = closed
    BY <1>5 DEF stream
  <2>3. TypeOK'
    <3>1. streamed' \in Seq(Pieces) /\ closed' \in BOOLEAN
      BY <1>2, <2>1, <2>2 DEF TypeOK
    <3>2. pc' \in {"start", "decode", "after", "sample"}
      BY <1>5
    <3> QED BY <1>1, <1>2, <1>3, <1>5, <3>1, <3>2 DEF TypeOK
  <2>4. InTheCache'
    BY <1>1, <1>2, <1>5 DEF InTheCache
  <2>5. Counts' /\ Answers'
    BY <1>1, <1>2, <1>5 DEF Counts, Answers
  <2>6. Streams'
    BY <1>1, <1>2, <1>5, <2>1 DEF Streams, Untold
  <2> QED BY <2>3, <2>4, <2>5, <2>6 DEF LoopInv
<1> QED BY <1>4, <1>5

LEMMA AfterToolsKeeps == ASSUME LoopInv, AfterTools PROVE LoopInv'
<1>1. /\ program = "tools" /\ At("after") /\ pc = "after" /\ status = "running"
      /\ UNCHANGED <<request, n_ctx, kv, outputs, total, stream>>
      /\ completion_tokens' = completion_tokens /\ UNCHANGED stream
      /\ streamed' = streamed /\ closed' = closed
  BY DEF AfterTools, At, stream
<1>2. /\ completion_tokens \in Nat /\ generated \in Seq(Pieces)
      /\ streamed \in Seq(Pieces) /\ closed \in BOOLEAN
  BY DEF LoopInv, TypeOK
<1>3. CASE StopNow
  <2>1. Finish("stop", generated)
    BY <1>3 DEF AfterTools
  <2>2. completion_tokens' = completion_tokens
                               + (IF program = "server" /\ "stop" = "stop" THEN 1 ELSE 0)
    BY <1>1, <1>2
  <2> QED BY <1>1, <1>2, <2>1, <2>2, FinishKeeps
<1>4. CASE ~StopNow
  <2>1. pc' = "sample" /\ UNCHANGED <<batch, n_cur, generated, answer, status>>
    BY <1>4 DEF AfterTools
  <2>2. UNCHANGED <<request, n_ctx, batch, kv, outputs, n_cur, total, text, answer>>
    BY <1>1, <2>1 DEF text
  <2> QED BY <1>1, <1>4, <2>1, <2>2, GoOnOrFailKeeps
<1> QED BY <1>3, <1>4

LEMMA AfterStreamKeeps == ASSUME LoopInv, AfterStream PROVE LoopInv'
<1>1. /\ program = "openai_stream" /\ At("after") /\ pc = "after" /\ status = "running"
      /\ UNCHANGED <<request, n_ctx, kv, outputs, total>>
      /\ completion_tokens' = completion_tokens
  BY DEF AfterStream, At
<1>2. /\ completion_tokens \in Nat /\ generated \in Seq(Pieces)
      /\ streamed \in Seq(Pieces)
  BY DEF LoopInv, TypeOK
<1>3. /\ generated # <<>> /\ generated = Append(streamed, generated[Len(generated)])
      /\ Len(generated) \in 1 .. Len(generated) /\ generated[Len(generated)] \in Pieces
  <2>1. generated # <<>> /\ generated = Append(streamed, generated[Len(generated)])
    BY <1>1 DEF LoopInv, Streams, Untold
  <2> QED BY <1>2, <2>1
<1>4. CASE Return("error") /\ UNCHANGED <<stream, batch, n_cur, generated, answer, pc>>
  <2>1. UNCHANGED <<request, n_ctx, batch, kv, outputs, n_cur, total, text, answer>>
    BY <1>1, <1>4 DEF text
  <2> QED BY <1>1, <1>4, <2>1, GoOnOrFailKeeps DEF Return
<1>5. CASE /\ streamed' = Append(streamed, generated[Len(generated)])
           /\ closed' = StopNow
           /\ StopNow /\ Finish("stop", generated)
  <2>1. generated = Append(streamed, "stop") /\ generated' = streamed
    BY <1>2, <1>3, <1>5, FinishedText DEF StopNow
  <2>2. streamed' = Append(generated', "stop") /\ streamed' \in Seq(Pieces)
    BY <1>2, <1>3, <1>5, <2>1 DEF StopNow
  <2>3. closed' /\ closed' \in BOOLEAN
    BY <1>5, Zenon DEF StopNow
  <2>4. completion_tokens' = completion_tokens
                               + (IF program = "server" /\ "stop" = "stop" THEN 1 ELSE 0)
    BY <1>1, <1>2
  <2>5. program = "openai_stream" /\ status' = "done" =>
          /\ streamed' = IF "stop" = "stop" THEN Append(generated', "stop") ELSE generated'
          /\ closed' <=> "stop" = "stop"
    BY <2>2, <2>3, Zenon
  <2>6. Finish("stop", generated)
    BY <1>5
  <2>7. program # "server"
    BY <1>1
  <2> QED BY <1>1, <1>2, <2>2, <2>3, <2>4, <2>5, <2>6, <2>7, FinishKeeps
<1>6. CASE /\ streamed' = Append(streamed, generated[Len(generated)])
           /\ closed' = StopNow /\ ~StopNow
           /\ pc' = "sample" /\ UNCHANGED <<batch, n_cur, generated, answer, status>>
  <2>1. closed' = FALSE
    BY <1>6, Zenon DEF StopNow
  <2>2. UNCHANGED <<request, n_ctx, batch, kv, outputs, n_cur, total, text, answer>>
    BY <1>1, <1>6 DEF text
  <2> QED BY <1>1, <1>6, <2>1, <2>2, GoOnOrFailKeeps
<1> QED BY <1>4, <1>5, <1>6 DEF AfterStream

LEMMA BudgetSpentKeeps == ASSUME LoopInv, BudgetSpent PROVE LoopInv'
<1>1. /\ At("sample") /\ ~GoesOn /\ pc = "sample" /\ status = "running"
      /\ Finish("budget", generated)
      /\ UNCHANGED <<request, n_ctx, kv, outputs, total, stream>>
      /\ completion_tokens' = completion_tokens
      /\ streamed' = streamed /\ closed' = closed
  BY DEF BudgetSpent, At, stream
<1>2. /\ completion_tokens \in Nat /\ generated \in Seq(Pieces)
      /\ streamed \in Seq(Pieces) /\ closed \in BOOLEAN
      /\ n_cur \in Nat /\ total \in Int
  BY DEF LoopInv, TypeOK
<1>3. /\ program = "server" => n_cur >= total
      /\ program = "openai_stream" => n_cur > total
  BY <1>1, <1>2 DEF GoesOn
<1>4. program = "openai_stream" => streamed' = generated' /\ ~closed'
  <2>1. program = "openai_stream" =>
          /\ streamed = generated /\ ~closed
          /\ generated # <<>> => generated[Len(generated)] # "stop"
    BY <1>1 DEF LoopInv, Streams, Untold
  <2>2. generated = <<>> \/ generated[Len(generated)] # "stop" => generated' = generated
    BY <1>1, <1>2, FinishedText
  <2> QED BY <1>1, <2>1, <2>2
<1>5. completion_tokens' = completion_tokens
                             + (IF program = "server" /\ "budget" = "stop" THEN 1 ELSE 0)
  BY <1>1, <1>2
<1> QED BY <1>1, <1>2, <1>3, <1>4, <1>5, FinishKeeps

LEMMA StutterKeeps == ASSUME LoopInv, UNCHANGED vars PROVE LoopInv'
<1>1. /\ program' = program /\ n_prompt' = n_prompt /\ budget' = budget
      /\ n_ctx' = n_ctx /\ kv' = kv /\ outputs' = outputs /\ total' = total
      /\ n_cur' = n_cur /\ batch' = batch /\ ended' = ended
      /\ finish_reason' = finish_reason /\ completion_tokens' = completion_tokens
      /\ generated' = generated /\ streamed' = streamed /\ closed' = closed
      /\ pc' = pc /\ status' = status
  BY DEF vars, request, text, stream, answer
<1>2. TypeOK /\ InTheCache /\ Counts /\ Answers /\ Streams
  BY DEF LoopInv
<1>3. BatchConsistent(batch)'
  BY <1>1, <1>2 DEF TypeOK, BatchConsistent, WrittenPrefix, ListIsFlags, FlaggedOffsets
<1>4. TypeOK'
  BY <1>1, <1>2, <1>3 DEF TypeOK
<1>5. InTheCache'
  BY <1>1, <1>2 DEF InTheCache
<1>6. Counts' /\ Answers' /\ Streams'
  BY <1>1, <1>2 DEF Counts, Answers, Streams, Untold
<1> QED BY <1>4, <1>5, <1>6 DEF LoopInv

LEMMA BudgetInit == Init => BudgetInv
<1> SUFFICES ASSUME Init, program # "server" PROVE budget <= I32Max
  BY DEF BudgetInv
<1>1. budget \in Int /\ budget >= -(I32Max + 1) /\ AsI32(budget) = budget
  BY GenerationAssumption DEF Init
<1>2. AsI32(budget) <= I32Max
  BY <1>1, I32Facts
<1> QED BY <1>1, <1>2

LEMMA RequestKept == [Next]_vars => UNCHANGED request
BY DEF Next, vars, StartServer, StartSimple, StartUsage, StartTools, StartMtmd, Decode,
       Sample, AfterTools, AfterStream, BudgetSpent

LEMMA StepLoop == LoopInv /\ BudgetInv /\ [Next]_vars => LoopInv'
<1> SUFFICES ASSUME LoopInv, BudgetInv, [Next]_vars PROVE LoopInv'
  OBVIOUS
<1>1. CASE StartServer
  BY <1>1, StartServerKeeps
<1>2. CASE StartSimple
  BY <1>2, StartSimpleKeeps
<1>3. CASE StartUsage
  BY <1>3, StartUsageKeeps
<1>4. CASE StartTools
  BY <1>4, StartToolsKeeps
<1>5. CASE StartMtmd
  BY <1>5, StartMtmdKeeps
<1>6. CASE Decode
  BY <1>6, DecodeKeeps
<1>7. CASE \E token \in Pieces \cup {"eog"} : Sample(token)
  BY <1>7, SampleKeeps
<1>8. CASE AfterTools
  BY <1>8, AfterToolsKeeps
<1>9. CASE AfterStream
  BY <1>9, AfterStreamKeeps
<1>10. CASE BudgetSpent
  BY <1>10, BudgetSpentKeeps
<1>11. CASE UNCHANGED vars
  BY <1>11, StutterKeeps
<1> QED BY <1>1, <1>2, <1>3, <1>4, <1>5, <1>6, <1>7, <1>8, <1>9, <1>10, <1>11 DEF Next

LEMMA SpecLoop == Spec => [](LoopInv /\ BudgetInv)
<1>1. Init => LoopInv /\ BudgetInv
  BY InitLoop, BudgetInit
<1>2. BudgetInv /\ [Next]_vars => BudgetInv'
  BY RequestKept DEF BudgetInv, request
<1>3. LoopInv /\ BudgetInv /\ [Next]_vars => (LoopInv /\ BudgetInv)'
  BY <1>2, StepLoop
<1> QED BY <1>1, <1>3, PTL DEF Spec

-----------------------------------------------------------------------------
(* What the runs check, for every budget, prompt and width.                *)

(* Every variable keeps its type, and the cache holds no more than its     *)
(* cells, whatever program runs.                                           *)
THEOREM TypeCorrect == Spec => []TypeOK
<1>1. LoopInv => TypeOK
  BY DEF LoopInv
<1> QED BY <1>1, SpecLoop, PTL

(* sampler.sample, which checks no index, is called when the decode before *)
(* it has left a row of logits for the batch's last token.                 *)
THEOREM ARowForEverySample == Spec => []SampledRowExists
<1>1. LoopInv => SampledRowExists
  BY DEF LoopInv, InTheCache, SampledRowExists, At
<1> QED BY <1>1, SpecLoop, PTL

(* No position is decoded twice or skipped, in any loop, and the loop's    *)
(* n_cur is the next position when a token is sampled.                     *)
THEOREM EveryPositionOnce == Spec => []PositionsInOrder
<1>1. ASSUME LoopInv PROVE PositionsInOrder
  <2>1. DOMAIN kv = 1 .. Len(kv)
    BY <1>1 DEF LoopInv, TypeOK
  <2> QED BY <1>1, <2>1 DEF LoopInv, InTheCache, PositionsInOrder, At
<1> QED BY <1>1, SpecLoop, PTL

(* The server answers "length" if and only if its budget was spent, and    *)
(* openai_stream from the n_predict-th token on, whatever is asked for.    *)
THEOREM TheReasonIsTold == Spec => []FinishReasonExact
<1>1. ASSUME LoopInv, status = "done" PROVE FinishReasonExact
  <2>1. /\ TypeOK /\ Counts /\ Answers /\ pc # "start" /\ ended # "none"
        /\ n_cur \in Nat /\ total \in Int /\ completion_tokens \in Nat
        /\ n_prompt \in Nat /\ budget \in Nat /\ ended \in Endings
    BY <1>1, GenerationAssumption DEF LoopInv, TypeOK, Answers
  <2>2. CASE program = "server"
    <3>1. /\ finish_reason = IF n_cur >= total THEN "length" ELSE "stop"
          /\ ended = "budget" <=> n_cur >= total
      BY <1>1, <2>1, <2>2 DEF Answers
    <3>2. finish_reason = IF ended = "budget" THEN "length" ELSE "stop"
      BY <3>1
    <3>3. /\ completion_tokens = n_cur - n_prompt + (IF ended = "stop" THEN 1 ELSE 0)
          /\ total <= n_prompt + budget
          /\ n_prompt + budget <= I32Max => total = n_prompt + budget
          /\ n_cur > n_prompt => n_cur <= total
      BY <2>1, <2>2 DEF Counts
    <3>4. completion_tokens <= budget
      BY <2>1, <3>1, <3>3
    <3>5. ended = "budget" => completion_tokens = budget \/ n_prompt + budget > I32Max
      BY <2>1, <3>1, <3>3, GenerationAssumption
    <3> QED BY <2>2, <3>2, <3>4, <3>5 DEF FinishReasonExact
  <2>3. CASE program = "openai_stream"
    <3>1. /\ finish_reason = "length" <=> n_cur >= total
          /\ ended = "budget" => n_cur > total
          /\ completion_tokens = n_cur - n_prompt
          /\ total = n_prompt + budget
          /\ n_cur <= total + 1
      BY <1>1, <2>1, <2>3 DEF Answers, Counts
    <3> QED BY <2>1, <2>3, <3>1 DEF FinishReasonExact
  <2> QED BY <2>2, <2>3 DEF FinishReasonExact
<1>2. LoopInv => FinishReasonExact
  BY <1>1 DEF FinishReasonExact
<1> QED BY <1>2, SpecLoop, PTL

(* What openai_stream sent while it ran is the text it answers with, up to *)
(* the stop string that only the answer loses.                             *)
THEOREM TheStreamIsTheAnswer == Spec => []StreamIsTheText
<1>1. LoopInv => StreamIsTheText
  BY DEF LoopInv, Streams, StreamIsTheText
<1> QED BY <1>1, SpecLoop, PTL

(* The server never runs out of cells, whatever max_tokens was asked for   *)
(* and however its conversions cut it; simple, tools and openai_stream     *)
(* only at the one token past their bound.                                 *)
THEOREM CellsForTheBudget == Spec => []NeverOutOfCells
<1>1. ASSUME LoopInv, status = "no_slot" PROVE NeverOutOfCells
  <2>1. /\ TypeOK /\ InTheCache /\ Counts
        /\ n_cur \in Nat /\ total \in Int /\ n_ctx \in Nat /\ completion_tokens \in Nat
        /\ n_prompt \in Nat /\ budget \in Nat
        /\ Len(kv) \in Nat /\ Len(kv) <= n_ctx /\ program \in Programs
    BY <1>1, GenerationAssumption DEF LoopInv, TypeOK
  <2>2. program # "mtmd" => pc = "decode" /\ n_cur > n_ctx
    BY <1>1, <2>1 DEF InTheCache
  <2>3. program # "server"
    <3>1. SUFFICES ASSUME program = "server" PROVE FALSE
      OBVIOUS
    <3>2. /\ n_prompt <= n_ctx /\ pc # "start"
          /\ total > n_prompt => total <= n_ctx
          /\ n_cur > n_prompt => n_cur <= total
      BY <2>1, <2>2, <3>1 DEF Counts
    <3> QED BY <2>1, <2>2, <3>1, <3>2
  <2>4. ASSUME program \in {"simple", "tools", "openai_stream"}
        PROVE  n_ctx = total /\ Len(kv) = total
    <3>1. n_cur > n_ctx /\ pc = "decode" /\ pc # "start"
      BY <2>2, <2>4
    <3>2. n_cur <= total + 1 /\ total <= n_ctx /\ completion_tokens >= n_cur - n_prompt
      BY <2>1, <2>4, <3>1 DEF Counts
    <3>3. Len(kv) + batch.n_tokens = n_cur
      BY <2>1, <3>1 DEF InTheCache
    <3>4. n_prompt <= total
      BY <2>1, <2>4, <3>1 DEF Counts
    <3>5. batch.n_tokens = 1
      BY <2>1, <3>1, <3>2, <3>4 DEF InTheCache
    <3> QED BY <2>1, <3>1, <3>2, <3>3, <3>5
  <2> QED BY <2>1, <2>3, <2>4, GenerationAssumption DEF NeverOutOfCells
<1>2. LoopInv => NeverOutOfCells
  BY <1>1 DEF NeverOutOfCells
<1> QED BY <1>2, SpecLoop, PTL
=============================================================================
