--------------------------- MODULE LlamaBatchProofs ---------------------------
(***************************************************************************)
(* Each operation of LlamaBatch keeps a batch consistent: everything that  *)
(* llama_decode reads was written, and the list on the Rust side names the *)
(* flagged slots.  For batches of any capacity and any arguments.  And     *)
(* add_sequence, taken as one step, is its loop of add calls: a recursive  *)
(* function, reasoned about with the least index at which it would differ. *)
(***************************************************************************)
EXTENDS LlamaBatch, WellFoundedInduction, TLAPS

LEMMA NewBatchConsistent ==
  ASSUME NEW n \in 0 .. Capacity, NEW k \in Nat
  PROVE  BatchConsistent(NewBatch(n, k))
<1> DEFINE b == NewBatch(n, k)
<1>1. b \in Batch
  BY BatchAssumption DEF NewBatch, Batch, Offsets
<1>2. WrittenPrefix(b)
  BY BatchAssumption DEF NewBatch, WrittenPrefix, Offsets
<1>3. ListIsFlags(b)
  BY BatchAssumption DEF NewBatch, ListIsFlags, FlaggedOffsets, Offsets
<1> QED BY <1>1, <1>2, <1>3 DEF BatchConsistent

LEMMA GetOneConsistent ==
  ASSUME NEW len \in 1 .. Capacity, NEW seq \in SeqIds
  PROVE  BatchConsistent(GetOne(len, seq))
<1> DEFINE b == GetOne(len, seq)
           s(i) == [pos |-> i, seqs |-> {seq}, logits |-> i = len - 1]
<1>1. \A i \in Offsets : s(i) \in Slot /\ s(i) # Unwritten
                         /\ s(i).logits = (i = len - 1)
  <2>1. \A i \in Offsets : i \in Nat /\ (i = len - 1) \in BOOLEAN
    BY BatchAssumption DEF Offsets
  <2>2. \A i \in Offsets : s(i) \in Slot
    BY <2>1 DEF Slot
  <2> QED BY <2>2, BatchAssumption
<1>2. b \in Batch
  BY <1>1, BatchAssumption DEF GetOne, Batch, Offsets
<1>3. WrittenPrefix(b)
  BY <1>1, BatchAssumption DEF GetOne, WrittenPrefix, Offsets
<1>4. ListIsFlags(b)
  <2>1. b.initialized_logits = {len - 1} /\ len - 1 \in Offsets
    BY BatchAssumption DEF GetOne, Offsets
  <2>2. \A i \in Offsets :
          i < b.n_tokens => b.slots[i] = s(i)
    BY DEF GetOne
  <2>3. \A i \in Offsets : i \in FlaggedOffsets(b) <=> i = len - 1
    <3> TAKE i \in Offsets
    <3>1. b.n_tokens = len
      BY DEF GetOne
    <3>2. CASE i < len
      BY <3>1, <3>2, <1>1, <2>2 DEF FlaggedOffsets
    <3>3. CASE ~(i < len)
      BY <3>1, <3>3 DEF FlaggedOffsets, Offsets
    <3> QED BY <3>2, <3>3
  <2> QED BY <2>1, <2>3 DEF ListIsFlags, FlaggedOffsets
<1> QED BY <1>2, <1>3, <1>4 DEF BatchConsistent

LEMMA ClearConsistent ==
  ASSUME NEW b, BatchConsistent(b)
  PROVE  BatchConsistent(Clear(b))
<1>1. b \in Batch /\ Clear(b) \in Batch
  <2>1. b \in Batch /\ 0 \in 0 .. Capacity
    BY BatchAssumption DEF BatchConsistent
  <2>2. {} \in SUBSET Offsets
    OBVIOUS
  <2> QED BY <2>1, <2>2 DEF Clear, Batch
<1>2. Clear(b).n_tokens = 0 /\ Clear(b).initialized_logits = {}
  BY <1>1 DEF Clear, Batch
<1>3. \A i \in Offsets : ~(i < Clear(b).n_tokens)
  BY <1>2, BatchAssumption DEF Offsets
<1> QED BY <1>1, <1>2, <1>3
        DEF BatchConsistent, WrittenPrefix, ListIsFlags, FlaggedOffsets

LEMMA AddConsistent ==
  ASSUME NEW b, BatchConsistent(b), HasRoom(b, 1),
         NEW pos \in Nat, NEW seqs \in SUBSET SeqIds, NEW logits \in BOOLEAN
  PROVE  BatchConsistent(Add(b, pos, seqs, logits))
<1> DEFINE c == Add(b, pos, seqs, logits)
           s == [pos |-> pos, seqs |-> seqs, logits |-> logits]
<1>1. b \in Batch /\ b.n_tokens \in Offsets /\ b.n_tokens + 1 \in 0 .. Capacity
  BY BatchAssumption DEF BatchConsistent, Batch, HasRoom, Offsets
<1>2. s \in Slot /\ s # Unwritten /\ s.logits = logits
  BY BatchAssumption DEF Slot
<1>3. /\ c.slots = [b.slots EXCEPT ![b.n_tokens] = s]
      /\ c.n_tokens = b.n_tokens + 1
      /\ c.initialized_logits = IF logits
                                THEN b.initialized_logits \cup {b.n_tokens}
                                ELSE b.initialized_logits \ {b.n_tokens}
      /\ c.allocated = b.allocated /\ c.seq_cap = b.seq_cap
  BY <1>1 DEF Add, Batch
<1>4. c \in Batch
  BY <1>1, <1>2, <1>3 DEF Add, Batch
<1>5. /\ \A i \in Offsets : i # b.n_tokens => c.slots[i] = b.slots[i]
      /\ c.slots[b.n_tokens] = s
  BY <1>1, <1>3 DEF Batch
<1>6. WrittenPrefix(c)
  BY <1>1, <1>2, <1>3, <1>5 DEF BatchConsistent, WrittenPrefix, Offsets, Batch
<1>7. ListIsFlags(c)
  <2>1. b.initialized_logits = FlaggedOffsets(b)
    BY DEF BatchConsistent, ListIsFlags
  <2>2. \A i \in Offsets : i \in FlaggedOffsets(c)
          <=> IF i = b.n_tokens THEN logits ELSE i \in FlaggedOffsets(b)
    BY <1>1, <1>2, <1>3, <1>5 DEF FlaggedOffsets, Offsets, Batch
  <2>3. b.n_tokens \notin FlaggedOffsets(b)
    BY <1>1 DEF FlaggedOffsets, Offsets
  <2> QED BY <1>1, <1>3, <2>1, <2>2, <2>3 DEF ListIsFlags, FlaggedOffsets
<1> QED BY <1>4, <1>6, <1>7 DEF BatchConsistent

LEMMA AddSequenceConsistent ==
  ASSUME NEW b, BatchConsistent(b), NEW len \in Nat, HasRoom(b, len),
         NEW seq \in SeqIds, NEW logits_all \in BOOLEAN
  PROVE  BatchConsistent(AddSequence(b, len, seq, logits_all))
<1> DEFINE c == AddSequence(b, len, seq, logits_all)
           new == b.n_tokens .. b.n_tokens + len - 1
           flagged == {i \in new : logits_all \/ i = b.n_tokens + len - 1}
           s(i) == [pos |-> i - b.n_tokens, seqs |-> {seq},
                    logits |-> i \in flagged]
<1>1. /\ b \in Batch /\ b.n_tokens \in 0 .. Capacity
      /\ b.n_tokens + len \in 0 .. Capacity /\ new \subseteq Offsets
  BY BatchAssumption DEF BatchConsistent, Batch, HasRoom, Offsets
<1>2. \A i \in new : s(i) \in Slot /\ s(i) # Unwritten
                     /\ s(i).logits = (i \in flagged)
  <2>1. \A i \in new : i - b.n_tokens \in Nat
    BY <1>1
  <2>2. \A i \in new : s(i) \in Slot
    BY <2>1 DEF Slot
  <2> QED BY <2>2, BatchAssumption
<1>3. /\ c.slots = [i \in Offsets |-> IF i \in new THEN s(i) ELSE b.slots[i]]
      /\ c.n_tokens = b.n_tokens + len
      /\ c.initialized_logits = (b.initialized_logits \ new) \cup flagged
      /\ c.allocated = b.allocated /\ c.seq_cap = b.seq_cap
  BY <1>1 DEF AddSequence, Batch
<1>4. c \in Batch
  <2>1. c.slots \in [Offsets -> Slot \cup {Unwritten}]
    BY <1>1, <1>2, <1>3 DEF Batch
  <2>2. c.initialized_logits \in SUBSET Offsets
    BY <1>1, <1>3 DEF Batch
  <2> QED BY <1>1, <1>3, <2>1, <2>2 DEF AddSequence, Batch
<1>5. \A i \in Offsets : c.slots[i] = IF i \in new THEN s(i) ELSE b.slots[i]
  BY <1>3
<1>6. WrittenPrefix(c)
  <2> SUFFICES ASSUME NEW i \in Offsets, i < c.n_tokens
               PROVE  c.slots[i] # Unwritten
    BY DEF WrittenPrefix
  <2>1. CASE i \in new
    BY <2>1, <1>2, <1>5
  <2>2. CASE i \notin new
    <3>1. i < b.n_tokens
      BY <2>2, <1>1, <1>3 DEF Offsets
    <3> QED BY <3>1, <2>2, <1>5 DEF BatchConsistent, WrittenPrefix
  <2> QED BY <2>1, <2>2
<1>7. ListIsFlags(c)
  <2>1. b.initialized_logits = FlaggedOffsets(b)
    BY DEF BatchConsistent, ListIsFlags
  <2>2. \A i \in Offsets : i \in FlaggedOffsets(c)
          <=> IF i \in new THEN i \in flagged ELSE i \in FlaggedOffsets(b)
    <3> TAKE i \in Offsets
    <3>1. CASE i \in new
      <4>1. i < c.n_tokens
        BY <1>1, <1>3, <3>1 DEF Offsets
      <4> QED BY <4>1, <3>1, <1>2, <1>5 DEF FlaggedOffsets
    <3>2. CASE i \notin new
      <4>1. i < c.n_tokens <=> i < b.n_tokens
        BY <1>1, <1>3, <3>2 DEF Offsets
      <4> QED BY <4>1, <3>2, <1>5 DEF FlaggedOffsets
    <3> QED BY <3>1, <3>2
  <2>3. \A i \in FlaggedOffsets(b) : i \notin new
    BY <1>1 DEF FlaggedOffsets, Offsets
  <2>4. flagged \subseteq Offsets /\ flagged \subseteq new
    BY <1>1
  <2>5. FlaggedOffsets(c) \subseteq Offsets /\ FlaggedOffsets(b) \subseteq Offsets
    BY DEF FlaggedOffsets
  <2> HIDE DEF c, new, flagged
  <2> QED BY <1>3, <2>1, <2>2, <2>3, <2>4, <2>5 DEF ListIsFlags
<1> QED BY <1>4, <1>6, <1>7 DEF BatchConsistent
-----------------------------------------------------------------------------
(* Induction over the naturals without an operator parameter: a set of     *)
(* naturals that is not empty has a least one.                             *)
LEMMA LeastNatural ==
  ASSUME NEW T, T \subseteq Nat, T # {}
  PROVE  \E x \in T : \A y \in T : ~(y < x)
<1> DEFINE R == OpToRel(<, Nat)
<1>1. IsWellFoundedOn(R, Nat)
  BY NatLessThanWellFounded
<1>2. \A x, y \in Nat : <<y, x>> \in R <=> y < x
  BY DEF OpToRel
<1> HIDE DEF R
<1>3. PICK x \in T : \A y \in T : ~(<<y, x>> \in R)
  BY <1>1, WFMin
<1> QED BY <1>2, <1>3

(* The batch after k calls of add, written out; step by step it is what    *)
(* the next call makes of it.                                              *)
AfterAdds(b, len, seq, logits_all, k) ==
  [allocated |-> b.allocated,
   seq_cap |-> b.seq_cap,
   n_tokens |-> b.n_tokens + k,
   slots |-> [i \in Offsets |->
                IF i \in b.n_tokens .. b.n_tokens + k - 1
                THEN [pos |-> i - b.n_tokens, seqs |-> {seq},
                      logits |-> logits_all \/ i = b.n_tokens + len - 1]
                ELSE b.slots[i]],
   initialized_logits |->
     (b.initialized_logits \ (b.n_tokens .. b.n_tokens + k - 1))
       \cup {i \in b.n_tokens .. b.n_tokens + k - 1 :
               logits_all \/ i = b.n_tokens + len - 1}]

(* No call of add has been made.                                           *)
LEMMA NoAddYet ==
  ASSUME NEW b \in Batch, NEW len \in Nat, NEW seq \in SeqIds,
         NEW logits_all \in BOOLEAN
  PROVE  AfterAdds(b, len, seq, logits_all, 0) = b
<1>1. b.n_tokens \in Nat /\ b.n_tokens .. b.n_tokens + 0 - 1 = {}
  BY BatchAssumption DEF Batch
<1>2. b.slots = [i \in Offsets |-> b.slots[i]]
  BY DEF Batch
<1>3. /\ AfterAdds(b, len, seq, logits_all, 0).slots = b.slots
      /\ AfterAdds(b, len, seq, logits_all, 0).initialized_logits = b.initialized_logits
      /\ AfterAdds(b, len, seq, logits_all, 0).n_tokens = b.n_tokens
      /\ AfterAdds(b, len, seq, logits_all, 0).allocated = b.allocated
      /\ AfterAdds(b, len, seq, logits_all, 0).seq_cap = b.seq_cap
  BY <1>1, <1>2 DEF AfterAdds
<1>4. b = [allocated |-> b.allocated, seq_cap |-> b.seq_cap, n_tokens |-> b.n_tokens,
           slots |-> b.slots, initialized_logits |-> b.initialized_logits]
  BY DEF Batch
<1> QED BY <1>3, <1>4 DEF AfterAdds

(* The fields of a batch that a method of LlamaBatch changes.              *)
LEMMA BatchChanged ==
  ASSUME NEW a, NEW m, NEW n, NEW s, NEW l, NEW n2, NEW s2, NEW l2
  PROVE  [[allocated |-> a, seq_cap |-> m, n_tokens |-> n, slots |-> s,
           initialized_logits |-> l]
             EXCEPT !.slots = s2, !.initialized_logits = l2, !.n_tokens = n2]
           = [allocated |-> a, seq_cap |-> m, n_tokens |-> n2, slots |-> s2,
              initialized_logits |-> l2]
<1> DEFINE Rec == [allocated : {a}, seq_cap : {m}, n_tokens : {n, n2}, slots : {s, s2},
                   initialized_logits : {l, l2}]
           r == [allocated |-> a, seq_cap |-> m, n_tokens |-> n, slots |-> s,
                 initialized_logits |-> l]
           c == [r EXCEPT !.slots = s2, !.initialized_logits = l2, !.n_tokens = n2]
           d == [allocated |-> a, seq_cap |-> m, n_tokens |-> n2, slots |-> s2,
                 initialized_logits |-> l2]
<1>1. [r EXCEPT !.slots = s2] \in Rec
  OBVIOUS
<1>2. [[r EXCEPT !.slots = s2] EXCEPT !.initialized_logits = l2] \in Rec
  OBVIOUS
<1>3. c \in Rec /\ d \in Rec
  BY <1>1, <1>2
<1>4. /\ c.allocated = a /\ c.seq_cap = m /\ c.n_tokens = n2 /\ c.slots = s2
      /\ c.initialized_logits = l2
  OBVIOUS
<1>5. /\ d.allocated = a /\ d.seq_cap = m /\ d.n_tokens = n2 /\ d.slots = s2
      /\ d.initialized_logits = l2
  OBVIOUS
<1>6. c = d
  <2> HIDE DEF c, d
  <2> QED BY <1>3, <1>4, <1>5
<1> QED BY <1>6

(* Add of a batch that is written out, written out.                        *)
LEMMA AddWritten ==
  ASSUME NEW a, NEW m, NEW n, NEW slots, NEW list, NEW pos, NEW ids,
         NEW logits \in BOOLEAN
  PROVE  Add([allocated |-> a, seq_cap |-> m, n_tokens |-> n, slots |-> slots,
              initialized_logits |-> list], pos, ids, logits)
           = [allocated |-> a, seq_cap |-> m, n_tokens |-> n + 1,
              slots |-> [slots EXCEPT
                           ![n] = [pos |-> pos, seqs |-> ids, logits |-> logits]],
              initialized_logits |-> IF logits THEN list \cup {n} ELSE list \ {n}]
<1>1. PICK n2 : n2 = n + 1
  OBVIOUS
<1>2. PICK s2 : s2 = [slots EXCEPT ![n] = [pos |-> pos, seqs |-> ids, logits |-> logits]]
  OBVIOUS
<1>3. PICK l2 : l2 = IF logits THEN list \cup {n} ELSE list \ {n}
  OBVIOUS
<1> DEFINE r == [allocated |-> a, seq_cap |-> m, n_tokens |-> n, slots |-> slots,
                 initialized_logits |-> list]
<1>4. Add(r, pos, ids, logits)
        = [r EXCEPT !.slots = s2, !.initialized_logits = l2, !.n_tokens = n2]
  <2>1. r.slots = slots /\ r.n_tokens = n /\ r.initialized_logits = list
    OBVIOUS
  <2> HIDE DEF r
  <2> QED BY <1>1, <1>2, <1>3, <2>1 DEF Add
<1> QED BY ONLY <1>1, <1>2, <1>3, <1>4, BatchChanged

(* The k-th call of the loop, on what the calls before it left.            *)
LEMMA OneMoreAdd ==
  ASSUME NEW b \in Batch, NEW len \in Nat, HasRoom(b, len), NEW seq \in SeqIds,
         NEW logits_all \in BOOLEAN, NEW k \in 1 .. len
  PROVE  AfterAdds(b, len, seq, logits_all, k)
           = Add(AfterAdds(b, len, seq, logits_all, k - 1), k - 1, {seq},
                 logits_all \/ k - 1 = len - 1)
<1> DEFINE n == b.n_tokens
           new(j) == n .. n + j - 1
           flag(i) == logits_all \/ i = n + len - 1
           slot(i) == [pos |-> i - n, seqs |-> {seq}, logits |-> flag(i)]
           c == AfterAdds(b, len, seq, logits_all, k - 1)
           d == AfterAdds(b, len, seq, logits_all, k)
           e == Add(c, k - 1, {seq}, logits_all \/ k - 1 = len - 1)
<1>1. /\ n \in Nat /\ n + len <= Capacity /\ Capacity \in Nat
      /\ Offsets = 0 .. Capacity - 1
  BY BatchAssumption DEF Batch, HasRoom, Offsets
<1>2. /\ new(k) = new(k - 1) \cup {n + k - 1} /\ n + k - 1 \notin new(k - 1)
      /\ n + k - 1 \in Offsets
      /\ n + (k - 1) = n + k - 1 /\ (n + k - 1) - n = k - 1
      /\ (k - 1 = len - 1 <=> n + k - 1 = n + len - 1)
  BY <1>1
<1>3. /\ c.n_tokens = n + (k - 1) /\ d.n_tokens = n + k
      /\ c.slots = [i \in Offsets |-> IF i \in new(k - 1) THEN slot(i) ELSE b.slots[i]]
      /\ d.slots = [i \in Offsets |-> IF i \in new(k) THEN slot(i) ELSE b.slots[i]]
      /\ c.initialized_logits = (b.initialized_logits \ new(k - 1))
                                  \cup {i \in new(k - 1) : flag(i)}
      /\ d.initialized_logits = (b.initialized_logits \ new(k))
                                  \cup {i \in new(k) : flag(i)}
  BY DEF AfterAdds
<1>4. slot(n + k - 1) = [pos |-> k - 1, seqs |-> {seq},
                         logits |-> logits_all \/ k - 1 = len - 1]
  BY <1>2
<1>5. e = [allocated |-> b.allocated, seq_cap |-> b.seq_cap,
           n_tokens |-> c.n_tokens + 1,
           slots |-> [c.slots EXCEPT ![c.n_tokens] =
                        [pos |-> k - 1, seqs |-> {seq},
                         logits |-> logits_all \/ k - 1 = len - 1]],
           initialized_logits |->
             IF logits_all \/ k - 1 = len - 1
             THEN c.initialized_logits \cup {c.n_tokens}
             ELSE c.initialized_logits \ {c.n_tokens}]
  <2>1. c = [allocated |-> b.allocated, seq_cap |-> b.seq_cap,
             n_tokens |-> c.n_tokens, slots |-> c.slots,
             initialized_logits |-> c.initialized_logits]
    BY DEF AfterAdds
  <2>2. PICK flagged \in BOOLEAN : flagged = (logits_all \/ k - 1 = len - 1)
    OBVIOUS
  <2> HIDE DEF c
  <2>3. PICK a, m, p, s, l :
          /\ a = b.allocated /\ m = b.seq_cap /\ p = c.n_tokens /\ s = c.slots
          /\ l = c.initialized_logits
    OBVIOUS
  <2>4. c = [allocated |-> a, seq_cap |-> m, n_tokens |-> p, slots |-> s,
             initialized_logits |-> l]
    BY ONLY <2>1, <2>3
  <2>5. Add(c, k - 1, {seq}, flagged)
          = [allocated |-> a, seq_cap |-> m, n_tokens |-> p + 1,
             slots |-> [s EXCEPT ![p] = [pos |-> k - 1, seqs |-> {seq},
                                         logits |-> flagged]],
             initialized_logits |-> IF flagged THEN l \cup {p} ELSE l \ {p}]
    <3>1. flagged \in BOOLEAN
      OBVIOUS
    <3>2. PICK pos, ids : pos = k - 1 /\ ids = {seq}
      OBVIOUS
    <3>3. Add(c, pos, ids, flagged)
            = [allocated |-> a, seq_cap |-> m, n_tokens |-> p + 1,
               slots |-> [s EXCEPT ![p] = [pos |-> pos, seqs |-> ids,
                                           logits |-> flagged]],
               initialized_logits |-> IF flagged THEN l \cup {p} ELSE l \ {p}]
      BY ONLY <2>4, <3>1, AddWritten
    <3> QED BY ONLY <3>2, <3>3
  <2> QED BY ONLY <2>2, <2>3, <2>5 DEF e
<1>6. d = [allocated |-> b.allocated, seq_cap |-> b.seq_cap, n_tokens |-> d.n_tokens,
           slots |-> d.slots, initialized_logits |-> d.initialized_logits]
  BY DEF AfterAdds
<1> HIDE DEF c, d, e
<1>7. c.n_tokens + 1 = d.n_tokens
  BY <1>1, <1>3
<1>8. d.slots = [c.slots EXCEPT ![c.n_tokens] =
                   [pos |-> k - 1, seqs |-> {seq},
                    logits |-> logits_all \/ k - 1 = len - 1]]
  <2> HIDE DEF slot, new, n
  <2>1. \A i \in Offsets : d.slots[i] = IF i = n + k - 1 THEN slot(n + k - 1)
                                        ELSE c.slots[i]
    BY <1>2, <1>3
  <2>2. DOMAIN c.slots = Offsets /\ DOMAIN d.slots = Offsets
    BY <1>3
  <2>3. c.slots = [i \in Offsets |-> c.slots[i]] /\ d.slots = [i \in Offsets |-> d.slots[i]]
    BY <1>3
  <2> QED BY <1>2, <1>3, <1>4, <2>1, <2>2, <2>3
<1>9. d.initialized_logits = IF logits_all \/ k - 1 = len - 1
                             THEN c.initialized_logits \cup {c.n_tokens}
                             ELSE c.initialized_logits \ {c.n_tokens}
  <2>1. flag(n + k - 1) <=> logits_all \/ k - 1 = len - 1
    BY <1>2
  <2>2. c.n_tokens = n + k - 1
    BY <1>2, <1>3
  <2> HIDE DEF flag, new, n
  <2> QED BY <1>2, <1>3, <2>1, <2>2
<1> QED BY <1>5, <1>6, <1>7, <1>8, <1>9 DEF c, d, e

(* add_sequence makes of a batch what its loop of add calls makes of it.   *)
LEMMA AddSequenceByAdds ==
  ASSUME NEW b \in Batch, NEW len \in Nat, HasRoom(b, len), NEW seq \in SeqIds,
         NEW logits_all \in BOOLEAN
  PROVE  AddSequence(b, len, seq, logits_all) = AddSequenceLoop(b, len, seq, logits_all)
<1> DEFINE last == IF len = 0 THEN 0 ELSE len - 1
           more(x, k) == Add(x, k - 1, {seq}, logits_all \/ k - 1 = last)
           Eq(f) == f = [k \in 0 .. len |->
                           IF k = 0 THEN b
                           ELSE more(f[k - 1], k)]
           g == [k \in 0 .. len |-> AfterAdds(b, len, seq, logits_all, k)]
<1>1. Eq(g)
  <2>1. ASSUME NEW k \in 0 .. len
        PROVE  g[k] = IF k = 0 THEN b ELSE more(g[k - 1], k)
    <3>1. CASE k = 0
      BY <3>1, NoAddYet
    <3>2. CASE k # 0
      <4>1. k \in 1 .. len /\ k - 1 \in 0 .. len /\ last = len - 1
        BY <3>2
      <4>2. g[k] = AfterAdds(b, len, seq, logits_all, k)
            /\ g[k - 1] = AfterAdds(b, len, seq, logits_all, k - 1)
        BY <4>1
      <4> HIDE DEF g, last
      <4> QED BY <3>2, <4>1, <4>2, OneMoreAdd
    <3> QED BY <3>1, <3>2
  <2> QED BY <2>1
<1> HIDE DEF more
<1>2. ASSUME NEW f, Eq(f)
      PROVE  f = g
  <2> DEFINE T == {k \in 0 .. len : f[k] # g[k]}
  <2>0. /\ f[0] = b /\ g[0] = b
        /\ \A k \in 1 .. len :
             f[k] = more(f[k - 1], k) /\ g[k] = more(g[k - 1], k)
    <3> HIDE DEF g
    <3>1. ASSUME NEW h, Eq(h)
          PROVE  /\ h[0] = b
                 /\ \A k \in 1 .. len : h[k] = more(h[k - 1], k)
      BY <3>1
    <3> QED BY <1>1, <1>2, <3>1
  <2>1. T = {}
    <3> SUFFICES ASSUME T # {} PROVE FALSE
      OBVIOUS
    <3>1. PICK k \in T : \A j \in T : ~(j < k)
      <4>1. T \subseteq Nat
        OBVIOUS
      <4> HIDE DEF T
      <4> QED BY <4>1, LeastNatural
    <3>2. k # 0
      BY <2>0
    <3>3. k - 1 \in 0 .. len /\ k - 1 < k /\ k \in 1 .. len
      BY <3>2
    <3>4. f[k - 1] = g[k - 1]
      BY <3>1, <3>3
    <3> QED BY <2>0, <3>3, <3>4
  <2>2. f = [k \in 0 .. len |-> f[k]] /\ g = [k \in 0 .. len |-> g[k]]
    BY <1>2
  <2> QED BY <2>1, <2>2
<1>3. AddSequenceLoop(b, len, seq, logits_all) = (CHOOSE f : Eq(f))[len]
  BY DEF AddSequenceLoop, more
<1>4. (CHOOSE f : Eq(f)) = g
  <2> HIDE DEF Eq, g
  <2>1. Eq(CHOOSE f : Eq(f))
    BY <1>1
  <2> QED BY <1>2, <2>1
<1>5. g[len] = AfterAdds(b, len, seq, logits_all, len)
  OBVIOUS
<1>6. AfterAdds(b, len, seq, logits_all, len) = AddSequence(b, len, seq, logits_all)
  <2> DEFINE new == b.n_tokens .. b.n_tokens + len - 1
             flagged == {i \in new : logits_all \/ i = b.n_tokens + len - 1}
             c == AddSequence(b, len, seq, logits_all)
             d == AfterAdds(b, len, seq, logits_all, len)
  <2>1. PICK s2, l2, n2 :
          /\ s2 = [i \in Offsets |->
                     IF i \in new THEN [pos |-> i - b.n_tokens, seqs |-> {seq},
                                       logits |-> i \in flagged]
                     ELSE b.slots[i]]
          /\ l2 = (b.initialized_logits \ new) \cup flagged
          /\ n2 = b.n_tokens + len
    OBVIOUS
  <2>5. c = [b EXCEPT !.slots = s2, !.initialized_logits = l2, !.n_tokens = n2]
    BY <2>1 DEF AddSequence
  <2>6. b = [allocated |-> b.allocated, seq_cap |-> b.seq_cap, n_tokens |-> b.n_tokens,
             slots |-> b.slots, initialized_logits |-> b.initialized_logits]
    BY DEF Batch
  <2>7. c = [allocated |-> b.allocated, seq_cap |-> b.seq_cap, n_tokens |-> n2,
             slots |-> s2, initialized_logits |-> l2]
    BY ONLY <2>5, <2>6, BatchChanged
  <2>2. \A i \in new : (i \in flagged) = (logits_all \/ i = b.n_tokens + len - 1)
    OBVIOUS
  <2>3. /\ d.slots = [i \in Offsets |->
                       IF i \in new THEN [pos |-> i - b.n_tokens, seqs |-> {seq},
                                         logits |-> logits_all
                                                    \/ i = b.n_tokens + len - 1]
                       ELSE b.slots[i]]
        /\ d = [allocated |-> b.allocated, seq_cap |-> b.seq_cap,
                n_tokens |-> b.n_tokens + len, slots |-> d.slots,
                initialized_logits |-> (b.initialized_logits \ new) \cup flagged]
    BY DEF AfterAdds
  <2> HIDE DEF c, d
  <2>4. s2 = d.slots
    <3> HIDE DEF flagged, new
    <3> QED BY <2>1, <2>2, <2>3
  <2> QED BY <2>1, <2>3, <2>4, <2>7 DEF c, d
<1> QED BY <1>3, <1>4, <1>5, <1>6
=============================================================================
