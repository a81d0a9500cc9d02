----------------------------- MODULE ContextState -----------------------------
(***************************************************************************)
(* The cache of one LlamaContext and the files and buffers its state is    *)
(* saved to (qllama/src/context/kv_cache.rs, session.rs).  Of the cache    *)
(* only the positions of each sequence are kept.  The cache operations     *)
(* convert their optional u32 arguments to i32 with -1 for None before     *)
(* they call C; the loads look at the number of tokens after C has         *)
(* replaced the state.  The memory of llama.cpp is external, and so is     *)
(* what a load finds in a file that a crash has torn: C refuses it.        *)
(***************************************************************************)
EXTENDS Integers, FiniteSets

CONSTANTS
  Seqs,      \* sequence ids, from 0
  I32Max,    \* i32::MAX, and the largest position
  U32Max,    \* u32::MAX
  Args,      \* the arguments the steps use; the properties look at all
  Deltas,    \* the shifts kv_cache_seq_add is called with
  Divisors,  \* the divisors kv_cache_seq_div is called with
  Files,     \* session and state files, and buffers for state data
  None,      \* Option::None
  NoState,   \* a file that was never written, or is torn
  Refused    \* KvCacheConversionError

ASSUME StateAssumption ==
  /\ Seqs \subseteq 0 .. I32Max /\ 0 \in Seqs
  /\ I32Max \in Nat /\ U32Max \in Nat /\ I32Max < U32Max
  /\ Deltas \subseteq Int /\ Divisors \subseteq Nat \ {0}
  /\ None \notin Int
  /\ Args \subseteq (0 .. U32Max) \cup {None}
  /\ Refused \notin [Seqs -> SUBSET (0 .. I32Max)]

Pos == 0 .. I32Max
Cache == [Seqs -> SUBSET Pos]

(* What one save writes: the whole cache or one sequence of it, and how    *)
(* many tokens the caller associated with it.                              *)
WholeState == [cells : Cache, tokens : 0 .. I32Max + 1]
SeqState == [cells : SUBSET Pos, tokens : 0 .. I32Max + 1]

VARIABLES
  cells,   \* the positions of each sequence in the cache
  whole,   \* what each file holds of a whole state
  seqs,    \* what each file holds of one sequence
  loaded   \* the tokens of the load that was the last call, if it was Ok

stateVars == <<cells, whole, seqs, loaded>>

NotLoaded == [seq |-> None, tokens |-> 0, max |-> 0]

StateInit ==
  /\ cells = [s \in Seqs |-> {}]
  /\ whole = [f \in Files |-> NoState]
  /\ seqs = [f \in Files |-> NoState]
  /\ loaded = NotLoaded

-----------------------------------------------------------------------------
(* The memory of llama.cpp: ranges [p0, p1) of i32, where a negative end   *)
(* is open and a negative sequence means every sequence.                   *)
InI32Range(p, p0, p1) == (p0 < 0 \/ p0 <= p) /\ (p1 < 0 \/ p < p1)
MemPicked(kv, s, p0, p1) == {p \in kv[s] : InI32Range(p, p0, p1)}

(* A removal answers true, or false and removes nothing: only one of whole *)
(* sequences always succeeds.                                              *)
MemRemove(kv, src, p0, p1) ==
  LET rest == [s \in Seqs |-> IF src < 0 \/ src = s
                              THEN kv[s] \ MemPicked(kv, s, p0, p1) ELSE kv[s]]
  IN {[answer |-> "true", cells |-> rest]}
       \cup (IF p0 <= 0 /\ p1 < 0 THEN {} ELSE {[answer |-> "false", cells |-> kv]})

MemCopy(kv, src, dest, p0, p1) ==
  [kv EXCEPT ![dest] = @ \cup MemPicked(kv, src, p0, p1)]
MemKeep(kv, seq) == [s \in Seqs |-> IF s = seq THEN kv[s] ELSE {}]
MemAdd(kv, s, p0, p1, delta) ==
  LET hit == MemPicked(kv, s, p0, p1)
  IN [kv EXCEPT ![s] = (@ \ hit) \cup {q \in Pos : \E p \in hit : q = p + delta}]
MemDiv(kv, s, p0, p1, d) ==
  LET hit == MemPicked(kv, s, p0, p1)
  IN [kv EXCEPT ![s] = (@ \ hit) \cup {q \in Pos : \E p \in hit : q = p \div d}]

-----------------------------------------------------------------------------
(* The wrappers.  Each gives the cache after the call, or Refused; the     *)
(* removal, what it can answer with the cache after it.                    *)

OptU32 == (0 .. U32Max) \cup {None}

Fits(a) == a = None \/ a <= I32Max

(* Mutant: `as i32` instead of try_from.                                   *)
AsI32Wrapping(a) ==
  IF a = None THEN -1 ELSE IF a <= I32Max THEN a ELSE a - (U32Max + 1)

(* map_or(Ok(-1), i32::try_from), where it succeeds.                       *)
AsI32(a) == IF a = None THEN -1 ELSE a

CopyCache(kv, src, dest, size) == MemCopy(kv, src, dest, 0, size)

CopySeq(kv, src, dest, p0, p1) ==
  IF ~Fits(p0) \/ ~Fits(p1) THEN Refused
  ELSE MemCopy(kv, src, dest, AsI32(p0), AsI32(p1))

(* Mutant: only the two positions are tried, the sequence is cast.         *)
ClearSeqCast(kv, src, p0, p1) ==
  IF ~Fits(p0) \/ ~Fits(p1) THEN {[answer |-> "err", cells |-> kv]}
  ELSE MemRemove(kv, AsI32Wrapping(src), AsI32(p0), AsI32(p1))

(* clear_kv_cache_seq.                                                     *)
ClearSeq(kv, src, p0, p1) ==
  IF ~Fits(src) \/ ~Fits(p0) \/ ~Fits(p1) THEN {[answer |-> "err", cells |-> kv]}
  ELSE MemRemove(kv, AsI32(src), AsI32(p0), AsI32(p1))

SeqAdd(kv, s, p0, p1, delta) ==
  IF ~Fits(p0) \/ ~Fits(p1) THEN Refused
  ELSE MemAdd(kv, s, AsI32(p0), AsI32(p1), delta)

SeqDiv(kv, s, p0, p1, d) ==
  IF ~Fits(p0) \/ ~Fits(p1) THEN Refused
  ELSE MemDiv(kv, s, AsI32(p0), AsI32(p1), d)

(* kv_cache_seq_pos_max: -1 for a sequence with no cells.                  *)
PosMax(kv, s) ==
  IF kv[s] = {} THEN -1 ELSE CHOOSE p \in kv[s] : \A q \in kv[s] : q <= p

-----------------------------------------------------------------------------
(* A wrapper as a step: a refused call changes nothing.                    *)
Becomes(kv) ==
  /\ cells' = IF kv = Refused THEN cells ELSE kv
  /\ loaded' = NotLoaded
  /\ UNCHANGED <<whole, seqs>>

CacheCall ==
  \E p0, p1 \in Args :
    \/ \E src \in Args : \E got \in ClearSeq(cells, src, p0, p1) : Becomes(got.cells)
    \/ \E src, dest \in Seqs : Becomes(CopySeq(cells, src, dest, p0, p1))
    \/ \E s \in Seqs, delta \in Deltas : Becomes(SeqAdd(cells, s, p0, p1, delta))
    \/ \E s \in Seqs, d \in Divisors : Becomes(SeqDiv(cells, s, p0, p1, d))

CopyCacheCall(src, dest, size) == Becomes(CopyCache(cells, src, dest, size))
ClearKvCache == Becomes([s \in Seqs |-> {}])
KeepSeq(seq) == Becomes(MemKeep(cells, seq))

(* A decode of one token at the next position of a sequence.               *)
DecodeNext(s) ==
  \E p \in Pos : /\ p = PosMax(cells, s) + 1
                 /\ Becomes([cells EXCEPT ![s] = @ \cup {p}])

-----------------------------------------------------------------------------
(* Saving.  "tokens ... should be a prefix of a sequence of tokens that    *)
(* the context has processed, so that the relevant KV caches are already   *)
(* filled" (session.rs:131): the caller's part of the contract.            *)
Prefix(s, n) == 0 .. n - 1 \subseteq cells[s]

(* What a save of everything, or of a sequence, leaves in f.               *)
SaveWhole(f, n) ==
  /\ Prefix(0, n)
  /\ whole' = [whole EXCEPT ![f] = [cells |-> cells, tokens |-> n]]
  /\ loaded' = NotLoaded
  /\ UNCHANGED <<cells, seqs>>

SaveSeq(f, s, n) ==
  /\ Prefix(s, n)
  /\ seqs' = [seqs EXCEPT ![f] = [cells |-> cells[s], tokens |-> n]]
  /\ loaded' = NotLoaded
  /\ UNCHANGED <<cells, whole>>

SaveSessionFile(f, n) == SaveWhole(f, n)
StateSaveFile(f, n) == SaveWhole(f, n)
StateSeqSaveFile(f, s, n) == SaveSeq(f, s, n)

(* Into a buffer of the caller: no tokens go with it.                      *)
CopyStateData(f) == SaveWhole(f, 0)
StateSeqGetDataExt(f, s) == SaveSeq(f, s, 0)

(* C fails, or the process dies half way, and leaves a torn file.          *)
SaveFails(f) ==
  /\ whole' = [whole EXCEPT ![f] = NoState]
  /\ seqs' = [seqs EXCEPT ![f] = NoState]
  /\ loaded' = NotLoaded
  /\ UNCHANGED cells

(* The process ends, perhaps in a save of f, and starts again.             *)
Crash(f, torn) ==
  /\ cells' = [s \in Seqs |-> {}]
  /\ whole' = IF torn THEN [whole EXCEPT ![f] = NoState] ELSE whole
  /\ seqs' = IF torn THEN [seqs EXCEPT ![f] = NoState] ELSE seqs
  /\ loaded' = NotLoaded

-----------------------------------------------------------------------------
(* The end of each load: InsufficientMaxLength, or a vector of exactly the *)
(* tokens C has written.                                                   *)
Answer(s, tokens, max) ==
  IF tokens > max THEN NotLoaded ELSE [seq |-> s, tokens |-> tokens, max |-> max]

(* What load_session_file and state_load_file have in common.              *)
LoadWhole(f, max) ==
  /\ whole[f] # NoState
  /\ cells' = whole[f].cells
  /\ loaded' = Answer(0, whole[f].tokens, max)
  /\ UNCHANGED <<whole, seqs>>

LoadSessionFile(f, max) == LoadWhole(f, max)
StateLoadFile(f, max) == LoadWhole(f, max)

(* Mutant: the state is put where it was saved from.                       *)
StateSeqLoadFileIgnoresDest(f, dest, max) ==
  /\ seqs[f] # NoState
  /\ cells' = [cells EXCEPT ![0] = seqs[f].cells]
  /\ loaded' = Answer(dest, seqs[f].tokens, max)
  /\ UNCHANGED <<whole, seqs>>

StateSeqLoadFile(f, dest, max) ==
  /\ seqs[f] # NoState
  /\ cells' = [cells EXCEPT ![dest] = seqs[f].cells]
  /\ loaded' = Answer(dest, seqs[f].tokens, max)
  /\ UNCHANGED <<whole, seqs>>

(* set_state_data and state_seq_set_data_ext: no tokens come back.         *)
SetStateData(f) ==
  /\ whole[f] # NoState
  /\ Becomes(whole[f].cells)

StateSeqSetDataExt(f, dest) ==
  /\ seqs[f] # NoState
  /\ Becomes([cells EXCEPT ![dest] = seqs[f].cells])

(* FailedToLoad: C refused the file at once, or after it had emptied what  *)
(* it was about to fill.                                                   *)
LoadFails(gone) == Becomes([s \in Seqs |-> IF s \in gone THEN {} ELSE cells[s]])

-----------------------------------------------------------------------------
StateNext ==
  \/ CacheCall
  \/ \E src, dest \in Seqs, size \in -1 .. I32Max : CopyCacheCall(src, dest, size)
  \/ ClearKvCache
  \/ \E s \in Seqs : KeepSeq(s) \/ DecodeNext(s)
  \/ \E f \in Files, n \in 0 .. I32Max + 1 :
       SaveSessionFile(f, n) \/ StateSaveFile(f, n)
  \/ \E f \in Files, s \in Seqs, n \in 0 .. I32Max + 1 : StateSeqSaveFile(f, s, n)
  \/ \E f \in Files, s \in Seqs : StateSeqGetDataExt(f, s)
  \/ \E f \in Files : SaveFails(f) \/ CopyStateData(f) \/ SetStateData(f)
  \/ \E f \in Files, torn \in BOOLEAN : Crash(f, torn)
  \/ \E f \in Files, max \in 0 .. I32Max :
       LoadSessionFile(f, max) \/ StateLoadFile(f, max)
  \/ \E f \in Files, dest \in Seqs, max \in 0 .. I32Max :
       StateSeqLoadFile(f, dest, max)
  \/ \E f \in Files, dest \in Seqs : StateSeqSetDataExt(f, dest)
  \/ \E gone \in SUBSET Seqs : LoadFails(gone)

StateSpec == StateInit /\ [][StateNext]_stateVars

-----------------------------------------------------------------------------
StateTypeOK ==
  /\ cells \in Cache
  /\ whole \in [Files -> WholeState \cup {NoState}]
  /\ seqs \in [Files -> SeqState \cup {NoState}]
  /\ loaded \in [seq : Seqs \cup {None}, tokens : 0 .. I32Max + 1, max : Nat]

(* The documented meaning of an optional range and sequence.               *)
InRange(p, lo, hi) == (lo = None \/ lo <= p) /\ (hi = None \/ p < hi)

(* "If the sequence id or either position exceeds the maximum i32 value,   *)
(* no removal is attempted and an Err is returned"; Ok(true) means that    *)
(* exactly the cells of the sequence (or of all) in [p0, p1) are gone,     *)
(* where None is open; Ok(false), that all are still there, and "only when *)
(* partial sequence removals fail" (kv_cache.rs:66-79).  The copy takes    *)
(* exactly that range and no other sequence is touched (:37-48).           *)
RangesAreAsDocumented ==
  \A lo, hi \in OptU32 :
    /\ \A src \in OptU32 : \A got \in ClearSeq(cells, src, lo, hi) :
         /\ got.answer = "err" <=> \E a \in {src, lo, hi} : a # None /\ a > I32Max
         /\ got.answer = "true" => \A s \in Seqs :
              got.cells[s] = {p \in cells[s] :
                                ~(src \in {None, s} /\ InRange(p, lo, hi))}
         /\ got.answer = "false" => lo \notin {None, 0} \/ hi # None
         /\ got.answer # "true" => got.cells = cells
    /\ \A src, dest \in Seqs :
         LET kv == CopySeq(cells, src, dest, lo, hi)
         IN IF \E a \in {lo, hi} : a # None /\ a > I32Max
            THEN kv = Refused
            ELSE \A s \in Seqs :
                   kv[s] = cells[s] \cup {p \in cells[src] :
                                            s = dest /\ InRange(p, lo, hi)}

(* "What this function buys you is that the KV caches are already filled": *)
(* a load that returns n tokens, n within the room it was given, leaves    *)
(* the positions of these tokens in the sequence it was loaded to, however *)
(* the file was saved, and whatever happened to the cache, to other files  *)
(* and to the process in between (session.rs:163-211, 251-298, 343-405).   *)
LoadedTokensAreCached ==
  loaded.seq # None => /\ loaded.tokens <= loaded.max
                       /\ Prefix(loaded.seq, loaded.tokens)
=============================================================================
