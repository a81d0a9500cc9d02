------------------------- MODULE EmbeddingBatcherProofs -------------------------
(***************************************************************************)
(* EmbeddingBatcher implements EmbedInOrder for any inputs and any batch   *)
(* size.  The invariant ties the counters together: the batch holds the    *)
(* inputs next - max_seq_id_batch .. next - 1 under the sequence ids from  *)
(* 0 on, and everything before those has its output.  A second invariant   *)
(* says at which offsets of the batch each of these inputs is.             *)
(***************************************************************************)
EXTENDS EmbeddingBatcher, LlamaBatchProofs, FiniteSetTheorems, SequenceTheorems, TLAPS

(* The input a sequence id stands for.                                     *)
InputOf(s) == next - max_seq_id_batch + s

BatchHoldsInputs ==
  \A s \in SeqIds :
    InBatch(s) = IF s < max_seq_id_batch /\ lens[InputOf(s)] > 0
                 THEN {InputOf(s)} ELSE {}

(* How far the outputs are.                                                *)
OutputsSoFar ==
  /\ \A k \in 1 .. Len(output) : output[k] = {k}
  /\ outcome = "running" =>
       Len(output) = next - 1 - max_seq_id_batch + IF pc = "read" THEN read ELSE 0

(* What each place of the loop has established.                            *)
PlaceInv ==
  outcome = "running" =>
    /\ pc \in {"check", "clear", "decode", "read"} /\ next > 1
         => max_seq_id_batch > 0
    /\ pc = "add" =>
         /\ next <= Len(lens)
         /\ MustFlush(lens[next]) => batch.n_tokens = 0
    /\ pc \in {"clear", "decode", "read"} /\ next <= Len(lens)
         => MustFlush(lens[next])
    /\ pc = "decode" => cache = NoTokens
    /\ pc = "read" => /\ \A s \in SeqIds : pooled[s] = InBatch(s)
                      /\ read <= max_seq_id_batch

IInv ==
  /\ TypeOK
  /\ max_seq_id_batch < next
  /\ BatchHoldsInputs
  /\ OutputsSoFar
  /\ PlaceInv

-----------------------------------------------------------------------------
LEMMA LensType ==
  ASSUME NEW n \in 0 .. MaxInputs, NEW f \in [1 .. n -> Lens]
  PROVE  f \in Seq(Lens) /\ Len(f) = n /\ DOMAIN f = 1 .. n
BY BatcherAssumption

(* The arithmetic facts in TypeOK.                                         *)
LEMMA Numbers ==
  ASSUME TypeOK
  PROVE  /\ Len(lens) \in Nat /\ Len(lens) <= MaxInputs /\ DOMAIN lens = 1 .. Len(lens)
         /\ \A k \in 1 .. Len(lens) : lens[k] \in Nat
         /\ next \in 1 .. Len(lens) + 1
         /\ max_seq_id_batch \in Nat /\ read \in Nat /\ Len(output) \in Nat
         /\ Capacity \in Nat /\ MaxInputs \in Nat /\ SeqIds = 0 .. MaxInputs
         /\ batch.n_tokens \in Nat
<1>1. lens \in Seq(Lens)
  BY DEF TypeOK
<1>2. \A k \in 1 .. Len(lens) : lens[k] \in Nat
  <2>1. \A k \in 1 .. Len(lens) : lens[k] \in Lens
    BY <1>1
  <2> QED BY <2>1, BatcherAssumption
<1>3. batch.n_tokens \in Nat
  BY DEF TypeOK, BatchConsistent, Batch
<1>4. max_seq_id_batch \in Nat /\ read \in Nat
  BY BatcherAssumption DEF TypeOK
<1> QED BY <1>1, <1>2, <1>3, <1>4, BatcherAssumption, BatchAssumption DEF TypeOK

LEMMA InitIInv == Init => IInv
<1> SUFFICES ASSUME Init PROVE IInv
  OBVIOUS
<1> USE DEF Init
<1>1. lens \in Seq(Lens) /\ Len(lens) \in 0 .. MaxInputs
  BY LensType, BatcherAssumption
<1>2. BatchConsistent(batch) /\ batch.allocated = Capacity /\ batch.n_tokens = 0
  <2>1. Capacity \in 0 .. Capacity /\ 1 \in Nat
    BY BatchAssumption
  <2> QED BY <2>1, NewBatchConsistent DEF NewBatch
<1>3. cache \in [SeqIds -> SUBSET Inputs] /\ pooled \in [SeqIds -> SUBSET Inputs]
  BY BatcherAssumption DEF NoTokens
<1>4. owner \in [Offsets -> 0 .. MaxInputs]
  BY BatcherAssumption
<1>5. TypeOK
  BY <1>1, <1>2, <1>3, <1>4, BatcherAssumption DEF TypeOK
<1>6. \A s \in SeqIds : InBatch(s) = {}
  BY <1>2, BatchAssumption DEF InBatch, Offsets
<1>7. BatchHoldsInputs
  BY <1>6, BatcherAssumption DEF BatchHoldsInputs
<1>8. OutputsSoFar /\ PlaceInv /\ max_seq_id_batch < next
  BY DEF OutputsSoFar, PlaceInv
<1> QED BY <1>5, <1>7, <1>8 DEF IInv

-----------------------------------------------------------------------------
(* What AddNext leaves in the batch.                                       *)
LEMMA AddSequenceSlots ==
  ASSUME NEW b, BatchConsistent(b), NEW len \in Nat, HasRoom(b, len),
         NEW seq \in SeqIds, NEW logits_all \in BOOLEAN
  PROVE  LET c == AddSequence(b, len, seq, logits_all)
         IN /\ c.n_tokens = b.n_tokens + len
            /\ c.allocated = b.allocated
            /\ \A o \in Offsets : c.slots[o].seqs =
                 IF o \in b.n_tokens .. b.n_tokens + len - 1 THEN {seq}
                 ELSE b.slots[o].seqs
<1> DEFINE new == b.n_tokens .. b.n_tokens + len - 1
           flagged == {i \in new : logits_all \/ i = b.n_tokens + len - 1}
           s(i) == [pos |-> i - b.n_tokens, seqs |-> {seq},
                    logits |-> i \in flagged]
           c == AddSequence(b, len, seq, logits_all)
<1>1. b \in Batch
  BY DEF BatchConsistent
<1>2. /\ c.slots = [i \in Offsets |-> IF i \in new THEN s(i) ELSE b.slots[i]]
      /\ c.n_tokens = b.n_tokens + len
      /\ c.allocated = b.allocated
  BY <1>1 DEF AddSequence, Batch
<1>3. \A o \in Offsets : c.slots[o].seqs = IF o \in new THEN {seq} ELSE b.slots[o].seqs
  BY <1>2
<1> QED BY <1>2, <1>3

LEMMA AddNextHolds ==
  ASSUME IInv, AddNext, HasRoom(batch, lens[next])
  PROVE  /\ BatchConsistent(batch') /\ batch'.allocated = Capacity
         /\ owner' \in [Offsets -> 0 .. MaxInputs]
         /\ max_seq_id_batch' = max_seq_id_batch + 1 /\ next' = next + 1
         /\ next <= Len(lens)
         /\ BatchHoldsInputs'
<1> DEFINE m == max_seq_id_batch
           len == lens[next]
           new == batch.n_tokens .. batch.n_tokens + len - 1
<1>1. /\ next \in Nat /\ next <= Len(lens) /\ next <= MaxInputs
      /\ m \in 0 .. MaxInputs /\ m < next
      /\ len \in Nat /\ m \in SeqIds
  <2>1. outcome = "running" /\ pc = "add" /\ TypeOK /\ m < next
    BY DEF IInv, AddNext, At
  <2>2. next <= Len(lens)
    BY <2>1 DEF IInv, PlaceInv
  <2> QED BY <2>1, <2>2, Numbers
<1>2. /\ batch' = AddSequence(batch, len, m, LogitsAll)
      /\ owner' = [o \in Offsets |-> IF o \in new THEN next ELSE owner[o]]
      /\ m' = m + 1 /\ next' = next + 1 /\ UNCHANGED lens
  BY DEF AddNext
<1>3. BatchConsistent(batch) /\ batch \in Batch /\ batch.n_tokens \in Nat
      /\ batch.allocated = Capacity
  BY DEF IInv, TypeOK, BatchConsistent, Batch
<1>4. /\ batch'.n_tokens = batch.n_tokens + len
      /\ batch'.allocated = Capacity
      /\ \A o \in Offsets : batch'.slots[o].seqs =
                              IF o \in new THEN {m} ELSE batch.slots[o].seqs
  <2>1. LogitsAll \in BOOLEAN /\ HasRoom(batch, len)
    BY BatcherAssumption
  <2> HIDE DEF len, new, m
  <2>2. LET c == AddSequence(batch, len, m, LogitsAll)
        IN /\ c.n_tokens = batch.n_tokens + len
           /\ c.allocated = batch.allocated
           /\ \A o \in Offsets : c.slots[o].seqs =
                IF o \in batch.n_tokens .. batch.n_tokens + len - 1 THEN {m}
                ELSE batch.slots[o].seqs
    <3>1. BatchConsistent(batch) /\ len \in Nat /\ m \in SeqIds
      BY <1>1, <1>3
    <3> QED BY ONLY <2>1, <3>1, AddSequenceSlots, Zenon
  <2> DEFINE c == AddSequence(batch, len, m, LogitsAll)
  <2>3. batch' = c /\ c.n_tokens = batch.n_tokens + len /\ c.allocated = Capacity
    BY <1>2, <1>3, <2>2
  <2>4. \A o \in Offsets : c.slots[o].seqs =
                              IF o \in new THEN {m} ELSE batch.slots[o].seqs
    BY <2>2 DEF new
  <2> HIDE DEF c
  <2> QED BY <2>3, <2>4
<1>5. BatchConsistent(batch')
  BY <1>1, <1>2, <1>3, AddSequenceConsistent, BatcherAssumption
<1>6. owner' \in [Offsets -> 0 .. MaxInputs]
  BY <1>1, <1>2 DEF IInv, TypeOK
<1>7. new \subseteq Offsets
  BY <1>1, <1>3, BatchAssumption DEF HasRoom, Offsets
<1>8. ASSUME NEW s \in SeqIds
      PROVE  InBatch(s)' = InBatch(s) \cup IF s = m /\ len > 0 THEN {next} ELSE {}
  <2> DEFINE old == {p \in Offsets : p < batch.n_tokens /\ s \in batch.slots[p].seqs}
             now == {p \in Offsets : p < batch'.n_tokens /\ s \in batch'.slots[p].seqs}
  <2>1. \A p \in Offsets : p \in now <=> p \in old \/ (p \in new /\ s = m)
    BY <1>1, <1>3, <1>4, BatchAssumption DEF Offsets
  <2>2. \A p \in old : owner'[p] = owner[p]
    BY <1>2, <1>3, BatchAssumption DEF Offsets
  <2>3. \A p \in new : owner'[p] = next
    BY <1>2, <1>7
  <2>4. InBatch(s) = {owner[p] : p \in old} /\ InBatch(s)' = {owner'[p] : p \in now}
    BY DEF InBatch
  <2>5. CASE s = m /\ len > 0
    <3>1. batch.n_tokens \in new
      BY <1>1, <1>3, <2>5
    <3>2. now = old \cup new
      BY <2>1, <2>5, <1>7
    <3> QED BY <2>2, <2>3, <2>4, <2>5, <3>1, <3>2
  <2>6. CASE ~(s = m /\ len > 0)
    <3>1. s = m => new = {}
      BY <1>1, <1>3, <2>6
    <3>2. now = old
      BY <2>1, <3>1
    <3> QED BY <2>2, <2>4, <2>6, <3>2
  <2> QED BY <2>5, <2>6
<1>9. BatchHoldsInputs'
  <2> SUFFICES ASSUME NEW s \in SeqIds
               PROVE  InBatch(s)' = IF s < m + 1 /\ lens[next - m + s] > 0
                                    THEN {next - m + s} ELSE {}
    BY <1>1, <1>2 DEF BatchHoldsInputs, InputOf
  <2>1. InBatch(s) = IF s < m /\ lens[next - m + s] > 0 THEN {next - m + s} ELSE {}
    BY DEF IInv, BatchHoldsInputs, InputOf
  <2>2. s \in Nat /\ (s < m + 1 <=> s < m \/ s = m) /\ (s = m => next - m + s = next)
    BY <1>1, BatcherAssumption
  <2> QED BY <1>1, <1>8, <2>1, <2>2
<1> QED BY <1>1, <1>2, <1>4, <1>5, <1>6, <1>9

-----------------------------------------------------------------------------
LEMMA StepIInv == IInv /\ [Next]_vars => IInv'
<1> SUFFICES ASSUME IInv, [Next]_vars PROVE IInv'
  OBVIOUS
<1>1. CASE Fail /\ outcome = "running"
  <2>1. TypeOK'
    BY <1>1 DEF Fail, IInv, TypeOK
  <2>2. BatchHoldsInputs'
    BY <1>1 DEF Fail, IInv, BatchHoldsInputs, InBatch, InputOf
  <2>3. OutputsSoFar' /\ PlaceInv'
    BY <1>1 DEF Fail, IInv, OutputsSoFar, PlaceInv
  <2> QED BY <1>1, <2>1, <2>2, <2>3 DEF IInv, Fail
<1>2. CASE CheckNext
  <2>1. TypeOK'
    BY <1>2 DEF CheckNext, IInv, TypeOK
  <2>2. BatchHoldsInputs'
    BY <1>2 DEF CheckNext, IInv, BatchHoldsInputs, InBatch, InputOf
  <2>3. OutputsSoFar' /\ PlaceInv'
    BY <1>2 DEF CheckNext, IInv, TypeOK, OutputsSoFar, PlaceInv, At, MustFlush
  <2> QED BY <1>2, <2>1, <2>2, <2>3 DEF IInv, CheckNext
<1>3. CASE AddNext /\ HasRoom(batch, lens[next])
  <2>1. TypeOK'
    <3>1. next' \in 1 .. Len(lens)' + 1 /\ max_seq_id_batch' \in 0 .. MaxInputs
      BY <1>3, AddNextHolds, BatcherAssumption DEF AddNext, IInv, TypeOK
    <3> QED BY <1>3, <3>1, AddNextHolds DEF AddNext, IInv, TypeOK
  <2>2. OutputsSoFar'
    BY <1>3 DEF AddNext, At, IInv, TypeOK, OutputsSoFar
  <2>3. PlaceInv'
    BY <1>3, BatcherAssumption DEF AddNext, At, IInv, TypeOK, PlaceInv
  <2> QED BY <1>3, <2>1, <2>2, <2>3, AddNextHolds DEF IInv, TypeOK
<1>4. CASE ClearKvCache
  <2>1. TypeOK'
    BY <1>4 DEF ClearKvCache, IInv, TypeOK, NoTokens
  <2>2. BatchHoldsInputs'
    BY <1>4 DEF ClearKvCache, IInv, BatchHoldsInputs, InBatch, InputOf
  <2>3. OutputsSoFar' /\ PlaceInv'
    BY <1>4 DEF ClearKvCache, IInv, TypeOK, OutputsSoFar, PlaceInv, At, MustFlush
  <2> QED BY <1>4, <2>1, <2>2, <2>3 DEF IInv, ClearKvCache
<1>5. CASE DecodeBatch /\ ~DecodeRefuses
  <2>1. \A s \in SeqIds : cache[s] = {} /\ InBatch(s) \in SUBSET Inputs
    <3> SUFFICES ASSUME NEW s \in SeqIds
                 PROVE  cache[s] = {} /\ InBatch(s) \in SUBSET Inputs
      OBVIOUS
    <3>1. cache[s] = {}
      BY <1>5 DEF DecodeBatch, At, IInv, PlaceInv, NoTokens
    <3>2. s < max_seq_id_batch => InputOf(s) \in Inputs
      BY BatcherAssumption DEF IInv, TypeOK, InputOf, Inputs
    <3> QED BY <3>1, <3>2 DEF IInv, BatchHoldsInputs
  <2>2. \A s \in SeqIds : pooled'[s] = InBatch(s)
    BY <1>5, <2>1 DEF DecodeBatch
  <2>3. TypeOK'
    <3>1. cache' \in [SeqIds -> SUBSET Inputs] /\ pooled' \in [SeqIds -> SUBSET Inputs]
      BY <1>5, <2>1 DEF DecodeBatch, IInv, TypeOK
    <3> QED BY <1>5, <3>1, BatcherAssumption DEF DecodeBatch, IInv, TypeOK
  <2>4. BatchHoldsInputs' /\ \A s \in SeqIds : InBatch(s)' = InBatch(s)
    BY <1>5 DEF DecodeBatch, IInv, BatchHoldsInputs, InBatch, InputOf
  <2>5. OutputsSoFar'
    BY <1>5 DEF DecodeBatch, At, IInv, TypeOK, OutputsSoFar
  <2>6. PlaceInv'
    BY <1>5, <2>2, <2>4 DEF DecodeBatch, At, IInv, TypeOK, PlaceInv, MustFlush
  <2> QED BY <1>5, <2>3, <2>4, <2>5, <2>6 DEF IInv, DecodeBatch
<1>6. CASE ReadEmbedding /\ pooled[read] # {}
  <2>1. read \in SeqIds /\ read < max_seq_id_batch /\ read \in Nat
    BY <1>6, BatcherAssumption DEF ReadEmbedding, IInv, TypeOK
  <2>2. pooled[read] = {InputOf(read)} /\ InputOf(read) = Len(output) + 1
    BY <1>6, <2>1 DEF ReadEmbedding, At, IInv, TypeOK, PlaceInv, BatchHoldsInputs,
                      OutputsSoFar, InputOf
  <2>3. /\ output' = Append(output, {Len(output) + 1})
        /\ Len(output') = Len(output) + 1
        /\ \A k \in 1 .. Len(output') : output'[k] = {k}
    <3>1. output' = Append(output, {Len(output) + 1}) /\ output \in Seq(SUBSET Inputs)
      BY <1>6, <2>2 DEF ReadEmbedding, IInv, TypeOK
    <3>2. Len(output') = Len(output) + 1 /\ Len(output) \in Nat
      BY <3>1
    <3>3. ASSUME NEW k \in 1 .. Len(output')
          PROVE  output'[k] = {k}
      <4>1. CASE k = Len(output) + 1
        BY <3>1, <4>1
      <4>2. CASE k \in 1 .. Len(output)
        <5>1. output'[k] = output[k]
          BY <3>1, <4>2
        <5> QED BY <4>2, <5>1 DEF IInv, OutputsSoFar
      <4> QED BY <3>2, <3>3, <4>1, <4>2
    <3> QED BY <3>1, <3>2, <3>3
  <2>4. TypeOK'
    <3>1. output' \in Seq(SUBSET Inputs)
      BY <1>6, <2>1 DEF ReadEmbedding, IInv, TypeOK
    <3>2. read' \in 0 .. MaxInputs
      BY <1>6, <2>1, Numbers DEF ReadEmbedding, IInv, TypeOK
    <3> QED BY <1>6, <3>1, <3>2 DEF ReadEmbedding, IInv, TypeOK
  <2>5. BatchHoldsInputs' /\ \A s \in SeqIds : InBatch(s)' = InBatch(s)
    BY <1>6 DEF ReadEmbedding, IInv, BatchHoldsInputs, InBatch, InputOf
  <2>6. OutputsSoFar'
    BY <1>6, <2>1, <2>3 DEF ReadEmbedding, At, IInv, TypeOK, OutputsSoFar
  <2>7. PlaceInv'
    BY <1>6, <2>1, <2>5 DEF ReadEmbedding, At, IInv, TypeOK, PlaceInv, MustFlush
  <2> QED BY <1>6, <2>4, <2>5, <2>6, <2>7 DEF IInv, ReadEmbedding
<1>7. CASE EndFlush
  <2>1. BatchConsistent(batch') /\ batch'.allocated = Capacity /\ batch'.n_tokens = 0
    BY <1>7, ClearConsistent DEF EndFlush, IInv, TypeOK, Clear, BatchConsistent, Batch
  <2>2. TypeOK'
    BY <1>7, <2>1, BatcherAssumption DEF EndFlush, IInv, TypeOK
  <2>3. \A s \in SeqIds : InBatch(s)' = {}
    BY <2>1, BatchAssumption DEF InBatch, Offsets
  <2>4. BatchHoldsInputs'
    BY <1>7, <2>3, BatcherAssumption DEF EndFlush, BatchHoldsInputs
  <2>5. OutputsSoFar'
    BY <1>7 DEF EndFlush, At, IInv, TypeOK, OutputsSoFar
  <2>6. PlaceInv'
    BY <1>7, <2>1 DEF EndFlush, At, IInv, TypeOK, PlaceInv
  <2> QED BY <1>7, <2>2, <2>4, <2>5, <2>6 DEF IInv, TypeOK, EndFlush
<1>8. CASE UNCHANGED vars
  <2>1. TypeOK'
    BY <1>8 DEF vars, IInv, TypeOK
  <2>2. BatchHoldsInputs' /\ \A s \in SeqIds : InBatch(s)' = InBatch(s)
    BY <1>8 DEF vars, IInv, BatchHoldsInputs, InBatch, InputOf
  <2>3. OutputsSoFar'
    BY <1>8 DEF vars, IInv, OutputsSoFar
  <2>4. PlaceInv'
    BY <1>8, <2>2 DEF vars, IInv, PlaceInv, MustFlush
  <2> QED BY <1>8, <2>1, <2>2, <2>3, <2>4 DEF IInv, vars
<1> QED BY <1>1, <1>2, <1>3, <1>4, <1>5, <1>6, <1>7, <1>8
        DEF Next, AddNext, DecodeBatch, ReadEmbedding, At

LEMMA SpecIInv == Spec => []IInv
BY InitIInv, StepIInv, PTL DEF Spec

-----------------------------------------------------------------------------
(* A call fails only for inputs that cannot be embedded.                   *)
LEMMA FailsOnlyIfUnfit ==
  ASSUME IInv, Next, Fail, outcome = "running"
  PROVE  Abstract!Unfit
<1> USE Numbers DEF IInv, At
<1>1. CASE AddNext
  <2>1. ~HasRoom(batch, lens[next]) /\ next \in 1 .. Len(lens)
    BY <1>1 DEF AddNext, PlaceInv, Fail
  <2>2. batch.n_tokens = 0
    <3>1. batch.allocated = Capacity
      BY DEF TypeOK
    <3> QED BY <1>1, <2>1, <3>1 DEF AddNext, PlaceInv, MustFlush, HasRoom
  <2>3. lens[next] > Capacity
    BY <2>1, <2>2, Numbers DEF HasRoom, TypeOK
  <2> QED BY <2>1, <2>3 DEF Abstract!Unfit
<1>2. CASE DecodeBatch
  <2>1. DecodeRefuses
    BY <1>2 DEF DecodeBatch, Fail
  <2>2. ASSUME NEW s \in SeqIds, s >= SeqMax, InBatch(s) # {}
        PROVE  Abstract!Unfit
    <3>1. s < max_seq_id_batch
      BY <2>2 DEF BatchHoldsInputs
    <3> QED BY <2>2, <3>1, BatcherAssumption DEF Abstract!Unfit
  <2>3. ASSUME batch.n_tokens = 0
        PROVE  Abstract!Unfit
    <3>1. \A s \in SeqIds : InBatch(s) = {}
      BY <2>3, BatchAssumption DEF InBatch, Offsets
    <3>2. CASE next = 1 /\ next > Len(lens)
      BY <3>2 DEF Abstract!Unfit
    <3>3. CASE next <= Len(lens)
      <4>1. lens[next] > Capacity
        BY <1>2, <2>3, <3>3, BatchAssumption, BatcherAssumption
           DEF DecodeBatch, PlaceInv, MustFlush
      <4> QED BY <3>3, <4>1 DEF Abstract!Unfit
    <3>4. CASE next > 1 /\ next > Len(lens)
      <4>1. max_seq_id_batch > 0 /\ 0 \in SeqIds
        BY <1>2, <3>4, BatcherAssumption DEF DecodeBatch, PlaceInv
      <4>2. InputOf(0) \in 1 .. Len(lens) /\ ~(lens[InputOf(0)] > 0)
        <5>1. InputOf(0) \in 1 .. Len(lens)
          BY <3>4, <4>1 DEF InputOf
        <5>2. InBatch(0) = IF 0 < max_seq_id_batch /\ lens[InputOf(0)] > 0
                           THEN {InputOf(0)} ELSE {}
          BY <4>1 DEF BatchHoldsInputs
        <5> QED BY <3>1, <4>1, <5>1, <5>2
      <4>3. lens[InputOf(0)] = 0
        BY <4>2, BatcherAssumption
      <4> QED BY <4>2, <4>3 DEF Abstract!Unfit
    <3> QED BY <3>2, <3>3, <3>4
  <2> QED BY <2>1, <2>2, <2>3 DEF DecodeRefuses
<1>3. CASE ReadEmbedding
  <2>1. /\ pooled[read] = {} /\ read < max_seq_id_batch
        /\ read \in Nat /\ read \in SeqIds
    BY <1>3, BatcherAssumption DEF ReadEmbedding, Fail
  <2>2. InputOf(read) \in 1 .. Len(lens) /\ ~(lens[InputOf(read)] > 0)
    <3>1. InputOf(read) \in 1 .. Len(lens)
      BY <2>1 DEF InputOf
    <3>2. InBatch(read) = IF read < max_seq_id_batch /\ lens[InputOf(read)] > 0
                          THEN {InputOf(read)} ELSE {}
      BY <2>1 DEF BatchHoldsInputs
    <3>3. InBatch(read) = {}
      BY <1>3, <2>1 DEF ReadEmbedding, PlaceInv
    <3> QED BY <2>1, <3>1, <3>2, <3>3
  <2>3. lens[InputOf(read)] = 0
    BY <2>2, BatcherAssumption
  <2> QED BY <2>2, <2>3 DEF Abstract!Unfit
<1>4. ~CheckNext /\ ~ClearKvCache /\ ~EndFlush
  BY DEF CheckNext, ClearKvCache, EndFlush, Fail
<1> QED BY <1>1, <1>2, <1>3, <1>4 DEF Next

LEMMA StepRefines ==
  ASSUME IInv, IInv', [Next]_vars
  PROVE  [Abstract!Next]_(Abstract!vars)
<1> USE DEF Abstract!vars
<1>1. CASE Fail /\ outcome = "running" /\ Next
  <2>1. Abstract!Unfit
    BY <1>1, FailsOnlyIfUnfit
  <2> QED BY <1>1, <2>1 DEF Abstract!Next, Abstract!Fail, Fail
<1>2. CASE CheckNext \/ ClearKvCache
  BY <1>2 DEF CheckNext, ClearKvCache
<1>3. CASE AddNext /\ HasRoom(batch, lens[next])
  BY <1>3 DEF AddNext
<1>4. CASE DecodeBatch /\ ~DecodeRefuses
  BY <1>4 DEF DecodeBatch
<1>5. CASE ReadEmbedding /\ pooled[read] # {}
  <2>1. read \in SeqIds /\ read < max_seq_id_batch /\ read \in Nat
    BY <1>5, BatcherAssumption DEF ReadEmbedding, IInv, TypeOK
  <2>2. pooled[read] = {InputOf(read)} /\ InputOf(read) = Len(output) + 1
    <3>1. InBatch(read) = IF read < max_seq_id_batch /\ lens[InputOf(read)] > 0
                          THEN {InputOf(read)} ELSE {}
      BY <2>1 DEF IInv, BatchHoldsInputs
    <3>2. pooled[read] = InBatch(read) /\ Len(output) = InputOf(read) - 1
      <4>1. outcome = "running" /\ pc = "read"
        BY <1>5 DEF ReadEmbedding, At
      <4>2. pooled[read] = InBatch(read)
        BY <2>1, <4>1 DEF IInv, PlaceInv
      <4>3. Len(output) = next - 1 - max_seq_id_batch + read
        BY <2>1, <4>1 DEF IInv, OutputsSoFar
      <4> QED BY <2>1, <4>2, <4>3, Numbers DEF IInv, InputOf
    <3>3. InputOf(read) \in Int
      BY <2>1, Numbers DEF IInv, InputOf
    <3> QED BY <1>5, <2>1, <3>1, <3>2, <3>3
  <2>3. Len(output) < Len(lens)
    BY <2>1, <2>2 DEF IInv, TypeOK, InputOf
  <2> QED BY <1>5, <2>2, <2>3
          DEF ReadEmbedding, At, Abstract!Next, Abstract!EmbedNext
<1>6. CASE EndFlush
  <2>1. CASE next > Len(lens)
    <3>1. Len(output) = Len(lens)
      BY <1>6, <2>1 DEF EndFlush, At, IInv, TypeOK, OutputsSoFar
    <3> QED BY <1>6, <2>1, <3>1 DEF EndFlush, At, Abstract!Next, Abstract!Succeed
  <2>2. CASE ~(next > Len(lens))
    BY <1>6, <2>2 DEF EndFlush
  <2> QED BY <2>1, <2>2
<1>7. CASE UNCHANGED vars
  BY <1>7 DEF vars
<1> QED BY <1>1, <1>2, <1>3, <1>4, <1>5, <1>6, <1>7
        DEF Next, AddNext, DecodeBatch, ReadEmbedding, At

(* The variables keep their types, and the batch stays consistent.         *)
THEOREM TypeCorrect == Spec => []TypeOK
<1>1. IInv => TypeOK
  BY DEF IInv
<1> QED BY <1>1, SpecIInv, PTL

(* The safety part of ImplementsEmbedInOrder: output k is the embedding of *)
(* input k and of no other, success means one output per input, and only   *)
(* inputs that cannot be embedded make the call fail.                      *)
THEOREM ImplementsSafely == Spec => Abstract!Spec
<1>1. Init => Abstract!Init
  BY DEF Init, Abstract!Init
<1>2. IInv /\ IInv' /\ [Next]_vars => [Abstract!Next]_(Abstract!vars)
  BY StepRefines
<1> QED BY <1>1, <1>2, SpecIInv, PTL DEF Spec, Abstract!Spec

-----------------------------------------------------------------------------
(* Where the tokens of a sequence id are in the batch: from offset first   *)
(* on, in order, and nowhere else.                                         *)
Placed(s, first) ==
  LET len == lens[InputOf(s)]
      there == first .. first + len - 1
  IN /\ first + len <= batch.n_tokens
     /\ \A o \in Offsets : o < batch.n_tokens =>
          (batch.slots[o].seqs = {s} <=> o \in there)
     /\ \A o \in there : /\ batch.slots[o].pos = o - first
                         /\ owner[o] = InputOf(s)
                         /\ o = first + len - 1 => batch.slots[o].logits

SequencesInv == \A s \in 0 .. max_seq_id_batch - 1 : \E first \in Nat : Placed(s, first)

(* A sequence stays where it is while offsets after it are written.        *)
LEMMA PlacedStays ==
  ASSUME NEW s \in Nat, NEW first \in Nat, Placed(s, first),
         InputOf(s)' = InputOf(s), lens[InputOf(s)] \in Nat, UNCHANGED lens,
         batch.n_tokens \in Nat, batch'.n_tokens \in Nat,
         batch.n_tokens <= batch'.n_tokens, batch.n_tokens <= Capacity,
         Capacity \in Nat,
         \A o \in Offsets : o < batch.n_tokens =>
           batch'.slots[o] = batch.slots[o] /\ owner'[o] = owner[o],
         \A o \in Offsets : o >= batch.n_tokens /\ o < batch'.n_tokens =>
           batch'.slots[o].seqs # {s}
  PROVE  Placed(s, first)'
<1> DEFINE len == lens[InputOf(s)]
           there == first .. first + len - 1
<1>1. len' = len
  OBVIOUS
<1>2. /\ first + len <= batch.n_tokens
      /\ \A o \in Offsets : o < batch.n_tokens =>
           (batch.slots[o].seqs = {s} <=> o \in there)
      /\ \A o \in there : /\ batch.slots[o].pos = o - first
                          /\ owner[o] = InputOf(s)
                          /\ o = first + len - 1 => batch.slots[o].logits
  BY DEF Placed
<1>3. \A o \in there : o \in Offsets /\ o < batch.n_tokens
  BY <1>2 DEF Offsets
<1>4. first + len <= batch'.n_tokens
  BY <1>2
<1>5. ASSUME NEW o \in Offsets, o < batch'.n_tokens
      PROVE  batch'.slots[o].seqs = {s} <=> o \in there
  <2>1. CASE o < batch.n_tokens
    BY <1>2, <2>1
  <2>2. CASE o >= batch.n_tokens
    <3>1. o \notin there
      BY <1>3, <2>2 DEF Offsets
    <3> QED BY <1>5, <2>2, <3>1
  <2> QED BY <2>1, <2>2 DEF Offsets
<1>6. ASSUME NEW o \in there
      PROVE  /\ batch'.slots[o].pos = o - first
             /\ owner'[o] = InputOf(s)
             /\ o = first + len - 1 => batch'.slots[o].logits
  BY <1>2, <1>3
<1> QED BY <1>1, <1>4, <1>5, <1>6 DEF Placed

(* The sequence that AddNext writes is at the end of the batch.            *)
LEMMA AddedSlots ==
  ASSUME NEW b, b \in Batch, NEW len \in Nat, HasRoom(b, len),
         NEW seq \in SeqIds, NEW logits_all \in BOOLEAN,
         NEW o \in Offsets
  PROVE  /\ o < b.n_tokens => AddSequence(b, len, seq, logits_all).slots[o] = b.slots[o]
         /\ o >= b.n_tokens /\ o < b.n_tokens + len =>
              /\ AddSequence(b, len, seq, logits_all).slots[o].seqs = {seq}
              /\ AddSequence(b, len, seq, logits_all).slots[o].pos = o - b.n_tokens
              /\ o = b.n_tokens + len - 1 =>
                   AddSequence(b, len, seq, logits_all).slots[o].logits
<1> DEFINE new == b.n_tokens .. b.n_tokens + len - 1
           flagged == {i \in new : logits_all \/ i = b.n_tokens + len - 1}
           slot(i) == [pos |-> i - b.n_tokens, seqs |-> {seq},
                       logits |-> i \in flagged]
           c == AddSequence(b, len, seq, logits_all)
<1>1. c.slots = [i \in Offsets |-> IF i \in new THEN slot(i) ELSE b.slots[i]]
  BY DEF AddSequence, Batch
<1>2. c.slots[o] = IF o \in new THEN slot(o) ELSE b.slots[o]
  BY <1>1
<1>3. b.n_tokens \in Nat /\ o \in Nat
  BY BatchAssumption DEF Batch, Offsets
<1>4. CASE o < b.n_tokens
  <2>1. o \notin new
    BY <1>3, <1>4
  <2> QED BY <1>2, <1>3, <1>4, <2>1
<1>5. CASE o >= b.n_tokens /\ o < b.n_tokens + len
  <2>1. o \in new
    BY <1>3, <1>5
  <2>2. o = b.n_tokens + len - 1 => o \in flagged
    BY <2>1
  <2>3. c.slots[o] = slot(o)
    BY <1>2, <2>1
  <2> HIDE DEF c, flagged
  <2>4. c.slots[o].seqs = {seq} /\ c.slots[o].pos = o - b.n_tokens
        /\ c.slots[o].logits = (o \in flagged)
    BY <2>3
  <2>5. ~(o < b.n_tokens)
    BY <1>3, <1>5
  <2> QED BY <2>2, <2>4, <2>5 DEF c
<1>6. CASE o >= b.n_tokens + len
  <2>1. ~(o < b.n_tokens) /\ ~(o < b.n_tokens + len)
    BY <1>3, <1>6
  <2> QED BY <2>1
<1> QED BY <1>3, <1>4, <1>5, <1>6

(* add_sequence puts the next input at the end and leaves the others.      *)
LEMMA AddKeepsSequences ==
  ASSUME IInv, SequencesInv, AddNext, HasRoom(batch, lens[next])
  PROVE  SequencesInv'
<1> DEFINE m == max_seq_id_batch
           len == lens[next]
           n == batch.n_tokens
<1>1. /\ next \in Nat /\ next <= Len(lens) /\ m < next
      /\ m \in Nat /\ m \in SeqIds /\ len \in Nat
  <2>1. outcome = "running" /\ pc = "add" /\ TypeOK /\ m < next
    BY DEF IInv, AddNext, At
  <2>2. next <= Len(lens)
    BY <2>1 DEF IInv, PlaceInv
  <2> QED BY <2>1, <2>2, Numbers
<1>2. /\ batch' = AddSequence(batch, len, m, LogitsAll)
      /\ owner' = [o \in Offsets |-> IF o \in n .. n + len - 1 THEN next ELSE owner[o]]
      /\ m' = m + 1 /\ next' = next + 1 /\ UNCHANGED lens
  BY DEF AddNext
<1>3. /\ batch \in Batch /\ BatchConsistent(batch) /\ n \in Nat
      /\ batch.allocated = Capacity /\ n + len <= Capacity
      /\ Capacity \in Nat /\ Offsets = 0 .. Capacity - 1
  BY BatchAssumption DEF IInv, TypeOK, BatchConsistent, Batch, HasRoom, Offsets
<1>4. batch'.n_tokens = n + len
  BY <1>2, <1>3 DEF AddSequence, Batch
<1>5. ASSUME NEW o \in Offsets
      PROVE  /\ o < n => batch'.slots[o] = batch.slots[o] /\ owner'[o] = owner[o]
             /\ o >= n /\ o < n + len =>
                  /\ batch'.slots[o].seqs = {m}
                  /\ batch'.slots[o].pos = o - n
                  /\ owner'[o] = next
                  /\ o = n + len - 1 => batch'.slots[o].logits
  <2>1. HasRoom(batch, len) /\ LogitsAll \in BOOLEAN
    BY BatcherAssumption
  <2>2. /\ o < n => AddSequence(batch, len, m, LogitsAll).slots[o] = batch.slots[o]
        /\ o >= n /\ o < n + len =>
              /\ AddSequence(batch, len, m, LogitsAll).slots[o].seqs = {m}
              /\ AddSequence(batch, len, m, LogitsAll).slots[o].pos = o - n
              /\ o = n + len - 1 =>
                   AddSequence(batch, len, m, LogitsAll).slots[o].logits
    BY <1>1, <1>3, <2>1, AddedSlots
  <2>3. /\ o < n => owner'[o] = owner[o]
        /\ o >= n /\ o < n + len => owner'[o] = next
    BY <1>1, <1>2, <1>3
  <2> QED BY <1>2, <2>2, <2>3
<1>6. m' = m + 1
  BY <1>2
<1>7. \A s \in Nat : InputOf(s)' = InputOf(s)
  BY <1>1, <1>2 DEF InputOf
<1>8. InputOf(m) = next
  BY <1>1 DEF InputOf
<1>9. ASSUME NEW s \in 0 .. m - 1
      PROVE  \E first \in Nat : Placed(s, first)'
  <2>1. PICK first \in Nat : Placed(s, first)
    BY DEF SequencesInv
  <2>2. lens[InputOf(s)] \in Nat
    <3>1. InputOf(s) \in 1 .. Len(lens)
      BY <1>1, Numbers DEF InputOf, IInv
    <3> QED BY <3>1, Numbers DEF IInv
  <2>3. s \in Nat /\ {s} # {m}
    BY <1>1
  <2>4. Placed(s, first)'
    <3>1. \A o \in Offsets : o < n =>
            batch'.slots[o] = batch.slots[o] /\ owner'[o] = owner[o]
      BY <1>5
    <3>2. \A o \in Offsets : o >= n /\ o < batch'.n_tokens => batch'.slots[o].seqs # {s}
      BY <1>4, <1>5, <2>3
    <3>3. batch'.n_tokens \in Nat /\ n <= batch'.n_tokens /\ n <= Capacity
      BY <1>1, <1>3, <1>4
    <3>4. InputOf(s)' = InputOf(s) /\ UNCHANGED lens
      BY <1>2, <1>7, <2>3
    <3> QED BY <1>3, <2>1, <2>2, <2>3, <3>1, <3>2, <3>3, <3>4, PlacedStays
  <2> QED BY <2>4
<1>10. PICK q \in Nat : q = m
  BY <1>1
<1>11. PICK first \in Nat : first = n
  BY <1>3
<1>12. InputOf(q) = next /\ InputOf(q)' = next /\ lens' = lens
  BY <1>1, <1>2, <1>7, <1>8, <1>10
<1>13. Placed(q, first)'
  <2>1. \A o \in Offsets : o < n => batch.slots[o].seqs # {q}
    <3> SUFFICES ASSUME NEW o \in Offsets, o < n, batch.slots[o].seqs = {q}
                 PROVE  FALSE
      OBVIOUS
    <3>1. owner[o] \in InBatch(m)
      BY <1>10 DEF InBatch
    <3>2. InBatch(m) = {}
      BY <1>1 DEF IInv, BatchHoldsInputs
    <3> QED BY <3>1, <3>2
  <2>2. ASSUME NEW o \in Offsets, o < batch'.n_tokens
        PROVE  batch'.slots[o].seqs = {q} <=> o \in first .. first + len - 1
    <3>1. CASE o < n
      <4>1. o \notin first .. first + len - 1
        BY <1>3, <1>11, <3>1
      <4> QED BY <1>5, <2>1, <3>1, <4>1
    <3>2. CASE o >= n
      <4>1. o \in first .. first + len - 1
        BY <1>1, <1>3, <1>4, <1>11, <2>2, <3>2
      <4> QED BY <1>4, <1>5, <1>10, <2>2, <3>2, <4>1
    <3> QED BY <1>3, <3>1, <3>2
  <2>3. ASSUME NEW o \in first .. first + len - 1
        PROVE  /\ batch'.slots[o].pos = o - first
               /\ owner'[o] = next
               /\ o = first + len - 1 => batch'.slots[o].logits
    <3>1. o \in Offsets /\ o >= n /\ o < n + len
      BY <1>1, <1>3, <1>11
    <3> QED BY <1>5, <1>11, <3>1
  <2>4. first + len <= batch'.n_tokens
    BY <1>1, <1>3, <1>4, <1>11
  <2>5. (lens[InputOf(q)])' = len
    BY <1>12
  <2> HIDE DEF len, n, m
  <2> QED BY <1>12, <2>2, <2>3, <2>4, <2>5 DEF Placed
<1>14. \E start \in Nat : Placed(q, start)'
  BY <1>13
<1>15. ASSUME NEW s \in 0 .. m' - 1
       PROVE  \E start \in Nat : Placed(s, start)'
  <2>1. s \in 0 .. m - 1 \/ s = q
    BY <1>1, <1>6, <1>10
  <2> QED BY <1>9, <1>14, <2>1
<1> QED BY <1>15 DEF SequencesInv

(* Only AddNext and the end of a flush change what the batch holds.        *)
LEMMA SequencesAlways == Spec => []SequencesInv
<1>1. Init => SequencesInv
  BY DEF Init, SequencesInv
<1>2. IInv /\ SequencesInv /\ [Next]_vars => SequencesInv'
  <2> SUFFICES ASSUME IInv, SequencesInv, [Next]_vars PROVE SequencesInv'
    OBVIOUS
  <2>1. CASE AddNext /\ HasRoom(batch, lens[next])
    BY <2>1, AddKeepsSequences
  <2>2. CASE EndFlush
    BY <2>2 DEF EndFlush, SequencesInv
  <2>3. CASE UNCHANGED <<lens, next, batch, owner, max_seq_id_batch>>
    BY <2>3 DEF SequencesInv, Placed, InputOf
  <2> QED BY <2>1, <2>2, <2>3 DEF Next, CheckNext, AddNext, Fail, ClearKvCache,
                                  DecodeBatch, ReadEmbedding, vars
<1> QED BY <1>1, <1>2, SpecIInv, PTL DEF Spec

(* Each id that is decoded has the tokens of one input, all of them, at    *)
(* positions 0, 1, 2, ... and wants the output of the last.                *)
THEOREM SequencesAreWhole == Spec => []WholeSequences
<1>1. ASSUME IInv, SequencesInv
      PROVE  WholeSequences
  <2> SUFFICES ASSUME NEW s \in 0 .. max_seq_id_batch - 1
               PROVE  LET at == {o \in Offsets : o < batch.n_tokens
                                                 /\ batch.slots[o].seqs = {s}}
                      IN /\ {batch.slots[o].pos : o \in at} = 0 .. lens[InputOf(s)] - 1
                         /\ Cardinality(at) = lens[InputOf(s)]
                         /\ \A o \in at : /\ owner[o] = InputOf(s)
                                          /\ batch.slots[o].pos = lens[InputOf(s)] - 1
                                               => batch.slots[o].logits
    BY DEF WholeSequences, InputOf
  <2>1. PICK first \in Nat : Placed(s, first)
    BY <1>1 DEF SequencesInv
  <2> DEFINE len == lens[InputOf(s)]
             there == first .. first + len - 1
             at == {o \in Offsets : o < batch.n_tokens /\ batch.slots[o].seqs = {s}}
  <2>2. len \in Nat
    <3>1. InputOf(s) \in 1 .. Len(lens)
      BY <1>1, Numbers DEF InputOf, IInv
    <3> QED BY <1>1, <3>1, Numbers DEF IInv
  <2>3. /\ batch.n_tokens \in Nat /\ batch.n_tokens <= Capacity
        /\ Capacity \in Nat /\ Offsets = 0 .. Capacity - 1
    BY <1>1, BatchAssumption DEF IInv, TypeOK, BatchConsistent, Batch, Offsets
  <2>4. /\ first + len <= batch.n_tokens
        /\ \A o \in Offsets : o < batch.n_tokens =>
             (batch.slots[o].seqs = {s} <=> o \in there)
        /\ \A o \in there : /\ batch.slots[o].pos = o - first
                            /\ owner[o] = InputOf(s)
                            /\ o = first + len - 1 => batch.slots[o].logits
    BY <2>1 DEF Placed
  <2> HIDE DEF len
  <2>5. at = there
    BY <2>2, <2>3, <2>4
  <2>6. Cardinality(there) = len
    <3>1. Cardinality(there) = IF first > first + len - 1 THEN 0
                               ELSE (first + len - 1) - first + 1
      BY <2>2, FS_Interval
    <3> QED BY <2>2, <3>1
  <2>7. {batch.slots[o].pos : o \in there} = 0 .. len - 1
    <3>1. \A o \in there : batch.slots[o].pos \in 0 .. len - 1
      BY <2>2, <2>4
    <3>2. ASSUME NEW p \in 0 .. len - 1
          PROVE  \E o \in there : batch.slots[o].pos = p
      <4>1. first + p \in there /\ (first + p) - first = p
        BY <2>2
      <4> QED BY <2>4, <4>1
    <3> QED BY <3>1, <3>2
  <2>8. \A o \in there : /\ owner[o] = InputOf(s)
                         /\ batch.slots[o].pos = len - 1 => batch.slots[o].logits
    BY <2>2, <2>4
  <2> QED BY <2>5, <2>6, <2>7, <2>8 DEF len
<1> QED BY <1>1, SpecIInv, SequencesAlways, PTL
=============================================================================
