---------------------------- MODULE NativeObjects ----------------------------
(***************************************************************************)
(* The objects llama.cpp allocates for the binding, and the Rust values    *)
(* that hold them: models, contexts, LoRA adapters (model.rs, context.rs), *)
(* samplers (sampling.rs, llguidance_sampler.rs), multimodal contexts,     *)
(* bitmaps and chunks (mtmd.rs), GGUF readers (gguf/mod.rs), together with *)
(* the LlamaBackend token that loading a model asks for.                   *)
(*                                                                         *)
(* Who frees an object is decided in three ways: by a Drop, by moving it   *)
(* into another C object (mem::forget), or by making a value that does not *)
(* free.  Only LlamaContext carries a lifetime; every other value that     *)
(* keeps a pointer into another object is kept alive by its caller alone.  *)
(* Constructors that return an error and leave nothing behind are steps    *)
(* that change nothing, and are not written down.                          *)
(***************************************************************************)
EXTENDS LlamaBackend, Sequences

CONSTANTS
  MaxHandles,   \* bound on the Rust values of one object
  Programs      \* bound: how many objects of which kinds one program makes

VARIABLE
  objs   \* the objects of C in the order they were allocated

nvars == <<vars, objs>>

Kinds == {"model", "context", "lora", "sampler", "grammar", "llg", "llg_box",
          "chain", "mtmd", "bitmap", "chunks", "chunk", "gguf"}
Samplers == {"sampler", "grammar", "llg", "chain"}

ASSUME NativeAssumption ==
  /\ MaxHandles \in Nat
  /\ \A P \in Programs : DOMAIN P \subseteq Kinds /\ \A k \in DOMAIN P : P[k] \in Nat

Ids == DOMAIN objs

(* parts are freed with the object, reads are pointers into other objects. *)
Object ==
  [kind : Kinds,
   owners : 0 .. MaxHandles,    \* Rust values whose Drop frees the object
   views : 0 .. MaxHandles,     \* Rust values whose Drop does not
   parts : SUBSET Nat,
   reads : SUBSET Nat,
   frees : 0 .. MaxHandles,     \* history: how often C was told to free it
   clones : 0 .. MaxHandles]    \* history: owners made by Clone

NInit == Init /\ objs = <<>>

-----------------------------------------------------------------------------
Freed(o) == objs[o].frees > 0
Owned(o, k) == objs[o].kind = k /\ objs[o].owners > 0

(* An object with everything C frees together with it.                     *)
Closed(S) == \A o \in S : objs[o].parts \subseteq S
Within(o) == {p \in Ids : \A S \in SUBSET Ids : o \in S /\ Closed(S) => p \in S}

(* The borrow checker keeps a model where it is while a context of it      *)
(* lives: LlamaContext<'a> holds &'a LlamaModel.                           *)
Borrowed(o) ==
  \E c \in Ids : Owned(c, "context") /\ o \in objs[c].reads
                                     /\ objs[o].kind = "model"

New(k, parts, reads) ==
  [kind |-> k, owners |-> 1, views |-> 0, parts |-> parts, reads |-> reads,
   frees |-> 0, clones |-> 0]
Held(object, n) == [object EXCEPT !.owners = n]

(* The bound: some program makes these objects.                            *)
Allowed(all) ==
  \E P \in Programs :
    \A o \in DOMAIN all :
      LET k == all[o].kind
      IN k \in DOMAIN P /\ Cardinality({p \in DOMAIN all : all[p].kind = k}) <= P[k]

Next1 == Len(objs) + 1

Make(k, reads) ==
  /\ objs' = Append(objs, New(k, {}, reads))
  /\ Allowed(objs')
  /\ UNCHANGED vars

-----------------------------------------------------------------------------
(* Models, contexts and adapters.                                          *)

(* load_from_file takes a &LlamaBackend and keeps nothing of it.           *)
LoadModel(t) == pc[t] = "holding" /\ Make("model", {})

NewContext(t, m) ==
  pc[t] = "holding" /\ Owned(m, "model") /\ Make("context", {m})

(* The adapter belongs to its model, which frees it; LlamaLoraAdapter has  *)
(* neither a Drop nor a lifetime.                                          *)
LoraAdapterInit(m) ==
  /\ Owned(m, "model")
  /\ objs' = Append([objs EXCEPT ![m].parts = @ \cup {Next1}],
                    [New("lora", {}, {m}) EXCEPT !.owners = 0, !.views = 1])
  /\ Allowed(objs')
  /\ UNCHANGED vars

OwnModel(c) == {m \in objs[c].reads : objs[m].kind = "model"}

(* llama_set_adapters_lora replaces all adapters of the context by one.    *)
LoraAdapterSet(c, l) ==
  /\ Owned(c, "context")
  /\ objs[l].kind = "lora" /\ objs[l].views > 0 /\ ~Freed(l)
  /\ objs' = [objs EXCEPT ![c].reads = OwnModel(c) \cup {l}]
  /\ UNCHANGED vars

LoraAdapterRemove(c) ==
  /\ Owned(c, "context")
  /\ objs' = [objs EXCEPT ![c].reads = OwnModel(c)]
  /\ UNCHANGED vars

-----------------------------------------------------------------------------
(* Samplers.                                                               *)

(* temp .. xtc and penalties .. logit_bias: nothing of the arguments is    *)
(* kept.                                                                   *)
NewSampler == Make("sampler", {})

(* C turns the breakers into tokens while it is called and keeps no        *)
(* pointer to the vocabulary.                                              *)
NewDry(m) == Owned(m, "model") /\ Make("sampler", {})

(* grammar, grammar_lazy and grammar_lazy_patterns hand C the vocabulary   *)
(* of the model; the LlamaSampler they return does not mention the model.  *)
NewGrammar(m) == Owned(m, "model") /\ Make("grammar", {m})

(* create_llg_sampler boxes its context and gives it to                    *)
(* llama_sampler_init.  Its token trie is a copy, so it reads no model; if *)
(* C returns null the error is reported and the box is nobody's.           *)
NewLlg(m, null) ==
  /\ Owned(m, "model")
  /\ LET box == Held(New("llg_box", {}, {}), 0)
     IN objs' = IF null THEN Append(objs, box)
                ELSE objs \o <<box, New("llg", {Next1}, {})>>
  /\ Allowed(objs')
  /\ UNCHANGED vars

(* Mutant: chain adds the samplers and lets them be dropped as well.       *)
ChainWithoutForget(S) ==
  /\ \A s \in S : objs[s].kind \in Samplers /\ objs[s].owners > 0
  /\ objs' = Append(objs, New("chain", S, {}))
  /\ Allowed(objs')
  /\ UNCHANGED vars

(* chain takes its samplers by value and forgets them: C owns them now.    *)
Chain(S) ==
  /\ \A s \in S : objs[s].kind \in Samplers /\ objs[s].owners > 0
  /\ objs' = Append([o \in Ids |-> IF o \in S THEN Held(objs[o], 0) ELSE objs[o]],
                    New("chain", S, {}))
  /\ Allowed(objs')
  /\ UNCHANGED vars

-----------------------------------------------------------------------------
(* Multimodal objects.                                                     *)

(* MtmdContext keeps the text model's pointer in C and has no lifetime.    *)
MtmdInit(m) == Owned(m, "model") /\ Make("mtmd", {m})

(* from_image_data, from_audio_data, from_file and from_buffer.            *)
NewBitmap == Make("bitmap", {})

(* #[derive(Clone)] copies the pointer.                                    *)
CloneBitmap(b) ==
  /\ Owned(b, "bitmap")
  /\ objs[b].owners + objs[b].frees < MaxHandles
  /\ objs' = [objs EXCEPT ![b].owners = @ + 1, ![b].clones = @ + 1]
  /\ UNCHANGED vars

(* tokenize makes the collection first and returns it filled; on an error  *)
(* it is dropped on the way out.  The bitmaps are only borrowed.           *)
Tokenize(x, ok) ==
  /\ Owned(x, "mtmd")
  /\ LET chunk == Held(New("chunk", {}, {}), 0)
     IN objs' = IF ok THEN objs \o <<New("chunks", {Next1 + 1}, {}), chunk>>
                ELSE Append(objs, [New("chunks", {}, {}) EXCEPT !.owners = 0,
                                                               !.frees = 1])
  /\ Allowed(objs')
  /\ UNCHANGED vars

(* MtmdInputChunks::get: a chunk that is not owned and not tied to the     *)
(* collection either.                                                      *)
GetChunk(c, p) ==
  /\ Owned(c, "chunks") /\ p \in objs[c].parts
  /\ objs[p].views < MaxHandles
  /\ objs' = [objs EXCEPT ![p].views = @ + 1]
  /\ UNCHANGED vars

(* MtmdInputChunk::copy: an object of its own, owned.                      *)
CopyChunk(p) ==
  /\ objs[p].kind = "chunk" /\ ~Freed(p)
  /\ objs[p].owners + objs[p].views > 0
  /\ Make("chunk", {})

OpenGguf == Make("gguf", {})

-----------------------------------------------------------------------------
(* The end of a Rust value.                                                *)

(* Mutant: a context does not borrow its model.                            *)
DropUnborrowed(o) ==
  /\ objs[o].owners > 0
  /\ objs' = [p \in Ids |->
                [objs[p] EXCEPT !.owners = IF p = o THEN @ - 1 ELSE @,
                                !.frees = IF p \in Within(o) THEN @ + 1 ELSE @]]
  /\ UNCHANGED vars

(* Drop of an owner: C frees the object and its parts.                     *)
DropOwner(o) ==
  /\ objs[o].owners > 0
  /\ ~Borrowed(o)
  /\ objs' = [p \in Ids |->
                [objs[p] EXCEPT !.owners = IF p = o THEN @ - 1 ELSE @,
                                !.frees = IF p \in Within(o) THEN @ + 1 ELSE @]]
  /\ UNCHANGED vars

(* A LlamaLoraAdapter, or a chunk with owned = false.                      *)
DropView(o) ==
  /\ objs[o].views > 0
  /\ objs' = [objs EXCEPT ![o].views = @ - 1]
  /\ UNCHANGED vars

-----------------------------------------------------------------------------
TokenStep == Next /\ UNCHANGED objs

NNext ==
  \/ TokenStep
  \/ \E t \in Threads : LoadModel(t)
  \/ \E t \in Threads, m \in Ids : NewContext(t, m)
  \/ \E m \in Ids : LoraAdapterInit(m)
  \/ \E c, l \in Ids : LoraAdapterSet(c, l)
  \/ \E c \in Ids : LoraAdapterRemove(c)
  \/ NewSampler
  \/ \E m \in Ids : NewDry(m)
  \/ \E m \in Ids : NewGrammar(m)
  \/ \E m \in Ids, null \in BOOLEAN : NewLlg(m, null)
  \/ \E S \in SUBSET Ids : Chain(S)
  \/ \E m \in Ids : MtmdInit(m)
  \/ NewBitmap
  \/ \E b \in Ids : CloneBitmap(b)
  \/ \E x \in Ids, ok \in BOOLEAN : Tokenize(x, ok)
  \/ \E c, p \in Ids : GetChunk(c, p)
  \/ \E p \in Ids : CopyChunk(p)
  \/ OpenGguf
  \/ \E o \in Ids : DropOwner(o)
  \/ \E o \in Ids : DropView(o)

NSpec == NInit /\ [][NNext]_nvars

-----------------------------------------------------------------------------
NTypeOK == TypeOK /\ objs \in Seq(Object)

Wholes(o) == {w \in Ids : o \in objs[w].parts /\ ~Freed(w)}
LostBox(o) == objs[o].kind = "llg_box" /\ \A w \in Ids : o \notin objs[w].parts

(* Each object is freed once and by one party: counting the values whose   *)
(* Drop will free it, the live objects it is a part of and the frees       *)
(* already made gives one.  More is a double free to come, less a leak.    *)
(* The exceptions are what Clone of MtmdBitmap adds (mtmd.rs:349) and the  *)
(* box of an llguidance sampler that C refused (llguidance_sampler.rs:176).*)
OneFreeEach ==
  \A o \in Ids :
    objs[o].owners + Cardinality(Wholes(o)) + objs[o].frees
      = IF LostBox(o) THEN 0 ELSE 1 + objs[o].clones

(* What a value may find freed under it: the pairs of an object and of one *)
(* it reads (or is) that no Drop, move or lifetime keeps together.         *)
NoLifetime ==
  {<<"lora", "lora">>, <<"lora", "model">>, <<"context", "lora">>,
   <<"grammar", "model">>, <<"mtmd", "model">>, <<"chunk", "chunk">>,
   <<"bitmap", "bitmap">>}

(* Nothing else reads freed memory: a context never outlives its model, a  *)
(* chain never its samplers, a copied chunk needs no collection, an        *)
(* llguidance sampler no model (the `model` field of LlamaContext,         *)
(* context.rs:29; mem::forget, sampling.rs:114; copy, mtmd.rs:842).        *)
StaleOnlyWhereNoLifetime ==
  \A w \in Ids : objs[w].owners + objs[w].views > 0 =>
    \A o \in Within(w) : \A u \in objs[o].reads \cup {o} :
      Freed(u) => <<objs[o].kind, objs[u].kind>> \in NoLifetime
=============================================================================
