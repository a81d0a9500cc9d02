------------------------------ MODULE NativeProofs ------------------------------
(***************************************************************************)
(* Proofs about what a program has on the C side and what crosses to it:   *)
(* the backend's token (LlamaBackend), the objects made while it is held   *)
(* (NativeObjects), the parameters a model is loaded with (ModelParams),   *)
(* and the text of tokens that comes back (TokenText with AskAgain).  For  *)
(* any threads, objects, kinds of programs, keys, devices, texts and sizes *)
(* of buffers.                                                             *)
(***************************************************************************)
EXTENDS NativeObjects, ModelParams, TokenText, FiniteSetTheorems, SequenceTheorems,
        WellFoundedInduction, TLAPS

-----------------------------------------------------------------------------
(* The token.  The invariant ties the flag to its owner in both            *)
(* directions: the flag is set exactly while one thread owns it.           *)
TokenInv ==
  /\ TypeOK
  /\ AtMostOneToken
  /\ initialized <=> \E t \in Threads : Owns(t)

(* Nobody owns the flag at first, and it is not set.                       *)
LEMMA InitTokenInv == Init => TokenInv
BY DEF Init, TokenInv, TypeOK, AtMostOneToken, Owns

(* The flag is swapped by the thread that gains or gives up the token.     *)
LEMMA StepTokenInv == TokenInv /\ [Next]_vars => TokenInv'
<1> SUFFICES ASSUME TokenInv, [Next]_vars PROVE TokenInv'
  OBVIOUS
<1> USE DEF TokenInv, TypeOK, AtMostOneToken, Owns, Goto
<1>1. ASSUME NEW t \in Threads, NEW k \in InitKinds, MarkInit(t, k)
      PROVE  TokenInv'
  BY <1>1, BackendAssumption DEF MarkInit
<1>2. ASSUME NEW t \in Threads, NEW k \in InitKinds, InitRefused(t, k)
      PROVE  TokenInv'
  BY <1>2, BackendAssumption DEF InitRefused
<1>3. ASSUME NEW t \in Threads, FinishInit(t)
      PROVE  TokenInv'
  <2>1. TypeOK'
    BY <1>3 DEF FinishInit
  <2>2. \A u \in Threads : Owns(u)' <=> Owns(u)
    BY <1>3 DEF FinishInit
  <2> QED BY <1>3, <2>1, <2>2 DEF FinishInit
<1>4. ASSUME NEW t \in Threads, DropToken(t)
      PROVE  TokenInv'
  <2>1. initialized
    BY <1>4 DEF DropToken
  <2> QED BY <1>4, <2>1 DEF DropToken
<1>5. ASSUME NEW t \in Threads, FinishDrop(t)
      PROVE  TokenInv'
  BY <1>5 DEF FinishDrop
<1>6. CASE UNCHANGED vars
  BY <1>6 DEF vars
<1> QED BY <1>1, <1>2, <1>3, <1>4, <1>5, <1>6 DEF Next

(* So flag and owner agree between any two steps.                          *)
LEMMA SpecTokenInv == Spec => []TokenInv
BY InitTokenInv, StepTokenInv, PTL DEF Spec

(* A program that makes objects does with the token what the threads of    *)
(* LlamaBackend do: NativeObjects implements it.                           *)
THEOREM ProgramsUseTheToken == NSpec => Spec
<1>1. NInit => Init
  BY DEF NInit
<1>2. [NNext]_nvars => [Next]_vars
  BY DEF nvars, NNext, TokenStep, LoadModel, NewContext, LoraAdapterInit, LoraAdapterSet,
         LoraAdapterRemove, NewSampler, NewDry, NewGrammar, NewLlg, Chain, MtmdInit,
         NewBitmap, CloneBitmap, Tokenize, GetChunk, CopyChunk, OpenGguf, DropOwner,
         DropView, Make
<1> QED BY <1>1, <1>2, PTL DEF NSpec, Spec

(* No thread reaches the unreachable! arm of Drop.                         *)
THEOREM DropNeverUnreachable == NSpec => []TypeOK
<1>1. TokenInv => TypeOK
  BY DEF TokenInv
<1> QED BY <1>1, SpecTokenInv, ProgramsUseTheToken, PTL

(* At most one token exists, however init and drop interleave.             *)
THEOREM OneToken == NSpec => []AtMostOneToken
<1>1. TokenInv => AtMostOneToken
  BY DEF TokenInv
<1> QED BY <1>1, SpecTokenInv, ProgramsUseTheToken, PTL

(* A constructor is refused only while the token, or one on its way,       *)
(* exists: nothing leaves the flag set behind.                             *)
THEOREM RefusalsAreJustified == NSpec => []RefusedOnlyWhileOwned
<1>1. TokenInv => RefusedOnlyWhileOwned
  BY DEF TokenInv, RefusedOnlyWhileOwned
<1> QED BY <1>1, SpecTokenInv, ProgramsUseTheToken, PTL

-----------------------------------------------------------------------------
(* The objects.  OneFreeEach counts; what keeps the count is who the       *)
(* parties are: an object has an owner, or is part of exactly one live     *)
(* whole, or is freed (OneParty), parts and reads lead to objects of the   *)
(* kinds they may (WellKept), and a context in use keeps its model         *)
(* (ModelKept).                                                            *)

Obj == [kind : Kinds, owners : Nat, views : Nat, parts : SUBSET Nat,
        reads : SUBSET Nat, frees : Nat, clones : Nat]

(* What an object of a kind may own, and what it may keep a pointer to.    *)
PartKinds(k) ==
  CASE k = "chain"  -> Samplers
    [] k = "model"  -> {"lora"}
    [] k = "llg"    -> {"llg_box"}
    [] k = "chunks" -> {"chunk"}
    [] OTHER        -> {}
ReadKinds(k) ==
  CASE k = "context"                     -> {"model", "lora"}
    [] k \in {"lora", "grammar", "mtmd"} -> {"model"}
    [] OTHER                             -> {}

WellKept(o) ==
  /\ \A p \in objs[o].parts : p \in Ids /\ objs[p].kind \in PartKinds(objs[o].kind)
  /\ \A u \in objs[o].reads : u \in Ids /\ objs[u].kind \in ReadKinds(objs[o].kind)
  /\ objs[o].views > 0 => objs[o].kind \in {"lora", "chunk"}
  /\ objs[o].clones > 0 => objs[o].kind = "bitmap"

(* Who will free an object: an owner, the one live whole it is part of, or *)
(* nobody any more.                                                        *)
OneParty(o) ==
  \/ objs[o].owners = 1 /\ objs[o].frees = 0 /\ Wholes(o) = {}
  \/ objs[o].owners = 0 /\ objs[o].frees = 1 /\ Wholes(o) = {}
  \/ objs[o].owners = 0 /\ objs[o].frees = 0 /\ \E w \in Ids : Wholes(o) = {w}

Accounted(o) ==
  /\ objs[o].kind = "bitmap" => objs[o].owners + objs[o].frees = 1 + objs[o].clones
  /\ LostBox(o) => objs[o].owners = 0 /\ objs[o].frees = 0
  /\ objs[o].kind # "bitmap" /\ ~LostBox(o) => OneParty(o)

ModelKept(c) ==
  Owned(c, "context") => \A m \in objs[c].reads : objs[m].kind = "model" => ~Freed(m)

NInv ==
  /\ objs \in Seq(Obj)
  /\ \A o \in Ids : WellKept(o)
  /\ \A o \in Ids : Accounted(o)
  /\ \A o \in Ids : ModelKept(o)

(* The invariant holds before anything was allocated.                      *)
LEMMA NInvInit == NInit => NInv
BY DEF NInit, NInv, Ids

(* An object that is put behind the others, alone.                         *)
LEMMA AppendAlone ==
  ASSUME NInv, NEW x \in Obj, objs' = Append(objs, x),
         x.parts = {}, x.views = 0, x.clones = 0,
         \A u \in x.reads : u \in Ids /\ objs[u].kind \in ReadKinds(x.kind),
         \A u \in x.reads : x.kind = "context" => ~Freed(u),
         \/ x.owners = 1 /\ x.frees = 0 /\ x.kind # "llg_box"
         \/ x.owners = 0 /\ x.frees = 1 /\ x.kind \notin {"bitmap", "llg_box"}
         \/ x.owners = 0 /\ x.frees = 0 /\ x.kind = "llg_box"
  PROVE  NInv'
<1> DEFINE n == Len(objs) + 1
<1>1. /\ objs' \in Seq(Obj) /\ Ids' = Ids \cup {n} /\ n \notin Ids
      /\ objs'[n] = x /\ \A o \in Ids : objs'[o] = objs[o]
  BY DEF NInv, Ids
<1> HIDE DEF n
<1>2. ASSUME NEW o \in Ids' PROVE WellKept(o)'
  <2>1. CASE o = n
    <3>1. objs'[o] = x
      BY <1>1, <2>1
    <3>2. \A u \in x.reads : u \in Ids' /\ objs'[u].kind \in ReadKinds(x.kind)
      BY <1>1
    <3>3. ~(objs'[o].views > 0) /\ ~(objs'[o].clones > 0) /\ objs'[o].parts = {}
      BY <3>1
    <3>4. \A u \in objs'[o].reads : u \in Ids' /\ objs'[u].kind \in ReadKinds(objs'[o].kind)
      BY <3>1, <3>2
    <3> QED BY <3>3, <3>4 DEF WellKept
  <2>2. CASE o \in Ids
    <3>1. WellKept(o)
      BY <2>2 DEF NInv
    <3> QED BY <3>1, <2>2, <1>1 DEF WellKept
  <2> QED BY <1>1, <2>1, <2>2
<1>3. ASSUME NEW o \in Ids PROVE Wholes(o)' = Wholes(o)
  BY <1>1 DEF Wholes, Freed
<1>4. \A w \in Ids' : n \notin objs'[w].parts
  BY <1>1 DEF NInv, WellKept
<1>5. ASSUME NEW o \in Ids PROVE LostBox(o)' <=> LostBox(o)
  BY <1>1 DEF LostBox
<1>6. ASSUME NEW o \in Ids' PROVE Accounted(o)'
  <2>1. CASE o \in Ids
    <3>1. Accounted(o)
      BY <2>1 DEF NInv
    <3>2. Wholes(o)' = Wholes(o) /\ (LostBox(o)' <=> LostBox(o)) /\ objs'[o] = objs[o]
      BY <1>1, <1>3, <1>5, <2>1
    <3>3. OneParty(o) => OneParty(o)'
      BY <1>1, <3>2 DEF OneParty
    <3> QED BY <3>1, <3>2, <3>3 DEF Accounted
  <2>2. CASE o = n
    <3>1. Wholes(o)' = {}
      BY <1>4, <2>2 DEF Wholes
    <3>2. objs'[o] = x /\ (LostBox(o)' <=> x.kind = "llg_box")
      BY <1>1, <1>4, <2>2 DEF LostBox
    <3> QED BY <3>1, <3>2 DEF Accounted, OneParty
  <2> QED BY <2>1, <2>2, <1>1
<1>7. ASSUME NEW c \in Ids' PROVE ModelKept(c)'
  <2>1. CASE c \in Ids
    <3>1. ModelKept(c) /\ WellKept(c)
      BY <2>1 DEF NInv
    <3> QED BY <3>1, <2>1, <1>1 DEF ModelKept, WellKept, Owned, Freed
  <2>2. CASE c = n
    BY <2>2, <1>1 DEF ModelKept, Owned, Freed
  <2> QED BY <2>1, <2>2, <1>1
<1> QED BY <1>1, <1>2, <1>6, <1>7 DEF NInv

(* An object nothing happened to keeps its party.                          *)
LEMMA SameAccount ==
  ASSUME NEW o, Accounted(o), Wholes(o)' = Wholes(o), LostBox(o)' <=> LostBox(o),
         \A w \in Wholes(o) : w \in Ids', objs'[o].kind = objs[o].kind,
         objs'[o].owners = objs[o].owners, objs'[o].frees = objs[o].frees,
         objs'[o].clones = objs[o].clones
  PROVE  Accounted(o)'
<1>1. OneParty(o) => OneParty(o)'
  BY DEF OneParty
<1> QED BY <1>1 DEF Accounted

(* An object of which nothing but owners and frees changed is as well kept *)
(* as before, if no kind changed.                                          *)
LEMMA StillKept ==
  ASSUME NEW o, WellKept(o), \A p \in Ids : p \in Ids' /\ objs'[p].kind = objs[p].kind,
         o \in Ids,
         objs'[o].parts = objs[o].parts, objs'[o].reads = objs[o].reads,
         objs'[o].views = objs[o].views, objs'[o].clones = objs[o].clones
  PROVE  WellKept(o)'
BY DEF WellKept

(* A step that touches views and reads only.                               *)
LEMMA QuietStep ==
  ASSUME NInv, objs' \in Seq(Obj), Ids' = Ids,
         \A o \in Ids : /\ objs'[o].kind = objs[o].kind
                        /\ objs'[o].owners = objs[o].owners
                        /\ objs'[o].parts = objs[o].parts
                        /\ objs'[o].frees = objs[o].frees
                        /\ objs'[o].clones = objs[o].clones,
         \A o \in Ids : WellKept(o)',
         \A o \in Ids : \A u \in objs'[o].reads :
            objs[u].kind = "model" => u \in objs[o].reads
  PROVE  NInv'
<1>1. ASSUME NEW o \in Ids PROVE Wholes(o)' = Wholes(o)
  BY DEF Wholes, Freed
<1>2. ASSUME NEW o \in Ids PROVE LostBox(o)' <=> LostBox(o)
  BY DEF LostBox
<1>3. ASSUME NEW o \in Ids PROVE Accounted(o)'
  <2>1. Accounted(o)
    BY DEF NInv
  <2>2. Wholes(o) \subseteq Ids'
    BY DEF Wholes
  <2> QED BY <1>1, <1>2, <2>1, <2>2, SameAccount
<1>4. ASSUME NEW c \in Ids PROVE ModelKept(c)'
  <2>1. ModelKept(c)
    BY DEF NInv
  <2>2. \A u \in objs'[c].reads : u \in Ids
    BY DEF WellKept
  <2> QED BY <2>1, <2>2 DEF ModelKept, Owned, Freed
<1> QED BY <1>3, <1>4 DEF NInv

(* The fields of an object that exists, typed.                             *)
LEMMA ObjFields ==
  ASSUME NInv, NEW o \in Ids
  PROVE  /\ objs[o] \in Obj /\ objs[o].kind \in Kinds /\ objs[o].owners \in Nat
         /\ objs[o].views \in Nat /\ objs[o].frees \in Nat /\ objs[o].clones \in Nat
         /\ objs[o].parts \subseteq Nat /\ objs[o].reads \subseteq Nat
         /\ Ids = 1 .. Len(objs) /\ Len(objs) \in Nat
<1>1. objs[o] \in Obj /\ Ids = 1 .. Len(objs) /\ Len(objs) \in Nat
  BY DEF NInv, Ids
<1> QED BY <1>1 DEF Obj

(* A clone of a bitmap counts as one more owner and one more clone.        *)
LEMMA CloneStep ==
  ASSUME NInv, NEW b \in Ids, CloneBitmap(b)
  PROVE  NInv'
<1>1. objs' = [objs EXCEPT ![b].owners = @ + 1, ![b].clones = @ + 1]
  BY DEF CloneBitmap
<1>2. objs[b] \in Obj /\ objs[b].kind = "bitmap"
  BY ObjFields DEF CloneBitmap, Owned
<1>3. [objs[b] EXCEPT !.owners = @ + 1, !.clones = @ + 1] \in Obj
  <2>1. \A r \in Obj : [r EXCEPT !.owners = @ + 1, !.clones = @ + 1] \in Obj
    <3> SUFFICES ASSUME NEW r \in Obj
                 PROVE  [r EXCEPT !.owners = @ + 1, !.clones = @ + 1] \in Obj
      OBVIOUS
    <3>1. r.owners + 1 \in Nat /\ r.clones + 1 \in Nat
      BY DEF Obj
    <3> QED BY <3>1 DEF Obj
  <2> QED BY <1>2, <2>1
<1>4. objs' = [objs EXCEPT ![b] = [objs[b] EXCEPT !.owners = @ + 1, !.clones = @ + 1]]
  BY <1>1, <1>2 DEF Ids
<1>5. objs' \in Seq(Obj) /\ Ids' = Ids
  BY <1>3, <1>4 DEF NInv, Ids
<1>6. /\ \A o \in Ids : o # b => objs'[o] = objs[o]
      /\ objs'[b].owners = objs[b].owners + 1 /\ objs'[b].clones = objs[b].clones + 1
      /\ objs'[b].kind = objs[b].kind /\ objs'[b].parts = objs[b].parts
      /\ objs'[b].reads = objs[b].reads /\ objs'[b].views = objs[b].views
      /\ objs'[b].frees = objs[b].frees
  BY <1>2, <1>4 DEF Obj, Ids
<1>7. \A o \in Ids : WellKept(o)'
  BY <1>2, <1>5, <1>6 DEF NInv, WellKept
<1>8. ASSUME NEW o \in Ids PROVE Wholes(o)' = Wholes(o)
  BY <1>5, <1>6 DEF Wholes, Freed
<1>9. ASSUME NEW o \in Ids PROVE LostBox(o)' <=> LostBox(o)
  BY <1>5, <1>6 DEF LostBox
<1>10. ASSUME NEW o \in Ids PROVE Accounted(o)'
  <2>1. Accounted(o) /\ Wholes(o) \subseteq Ids'
    BY <1>5 DEF NInv, Wholes
  <2>2. CASE o # b
    BY <1>6, <1>8, <1>9, <2>1, <2>2, SameAccount
  <2>3. CASE o = b
    <3>1. objs'[b].owners + objs'[b].frees = 1 + objs'[b].clones
      BY <1>2, <1>6, <2>1, <2>3, ObjFields DEF Accounted
    <3> QED BY <1>2, <1>6, <2>3, <3>1 DEF Accounted, LostBox
  <2> QED BY <2>2, <2>3
<1>11. ASSUME NEW c \in Ids PROVE ModelKept(c)'
  <2>1. ModelKept(c) /\ WellKept(c)
    BY DEF NInv
  <2> QED BY <2>1, <1>2, <1>6 DEF ModelKept, Owned, Freed, WellKept
<1> QED BY <1>5, <1>7, <1>10, <1>11 DEF NInv

(* The kinds that are parts of something, and what they are parts of.      *)
LEMMA PartOf ==
  ASSUME NInv, NEW w \in Ids, NEW p \in objs[w].parts
  PROVE  /\ p \in Ids /\ objs[p].kind \in PartKinds(objs[w].kind)
         /\ objs[p].kind \in Samplers \cup {"lora", "llg_box", "chunk"}
         /\ objs[p].kind \notin {"bitmap", "model", "context"}
<1>1. WellKept(w)
  BY DEF NInv
<1> QED BY <1>1 DEF WellKept, PartKinds, Samplers

(* An object with an owner is part of nothing and was not freed; only a    *)
(* bitmap has more than one owner.                                         *)
LEMMA OwnerIsTheParty ==
  ASSUME NInv, NEW o \in Ids, objs[o].owners > 0
  PROVE  /\ Wholes(o) = {} /\ ~LostBox(o)
         /\ objs[o].kind # "bitmap" => objs[o].owners = 1 /\ objs[o].frees = 0
<1>1. Accounted(o) /\ objs[o].owners \in Nat
  BY ObjFields DEF NInv
<1>2. ~LostBox(o)
  BY <1>1 DEF Accounted
<1>3. CASE objs[o].kind = "bitmap"
  BY <1>2, <1>3, PartOf DEF Wholes
<1>4. CASE objs[o].kind # "bitmap"
  BY <1>1, <1>2, <1>4 DEF Accounted, OneParty
<1> QED BY <1>2, <1>3, <1>4

(* The records of new objects, field by field.                             *)
LEMMA NewFields ==
  ASSUME NEW k \in Kinds, NEW parts \in SUBSET Nat, NEW reads \in SUBSET Nat
  PROVE  /\ New(k, parts, reads) \in Obj
         /\ New(k, parts, reads).kind = k
         /\ New(k, parts, reads).owners = 1
         /\ New(k, parts, reads).views = 0
         /\ New(k, parts, reads).parts = parts
         /\ New(k, parts, reads).reads = reads
         /\ New(k, parts, reads).frees = 0
         /\ New(k, parts, reads).clones = 0
BY DEF New, Obj

(* An object whose owners are set, field by field.                         *)
LEMMA HeldFields ==
  ASSUME NEW r \in Obj, NEW n \in Nat
  PROVE  /\ Held(r, n) \in Obj
         /\ Held(r, n).kind = r.kind
         /\ Held(r, n).owners = n
         /\ Held(r, n).views = r.views
         /\ Held(r, n).parts = r.parts
         /\ Held(r, n).reads = r.reads
         /\ Held(r, n).frees = r.frees
         /\ Held(r, n).clones = r.clones
BY DEF Obj, Held

(* An adapter is a part of its model from the start.                       *)
LEMMA LoraStep ==
  ASSUME NInv, NEW m \in Ids, LoraAdapterInit(m)
  PROVE  NInv'
<1> DEFINE n == Len(objs) + 1
           held == [objs[m] EXCEPT !.parts = @ \cup {n}]
           lora == [New("lora", {}, {m}) EXCEPT !.owners = 0, !.views = 1]
<1>1. objs[m] \in Obj /\ objs[m].kind = "model" /\ objs[m].owners > 0 /\ n \in Nat
  BY ObjFields DEF LoraAdapterInit, Owned
<1>2. held \in Obj
  <2>1. \A r \in Obj : [r EXCEPT !.parts = @ \cup {n}] \in Obj
    BY <1>1 DEF Obj
  <2> QED BY <1>1, <2>1
<1>3. /\ lora \in Obj /\ lora.kind = "lora" /\ lora.owners = 0 /\ lora.views = 1
      /\ lora.parts = {} /\ lora.reads = {m} /\ lora.frees = 0 /\ lora.clones = 0
  <2>1. "lora" \in Kinds /\ {} \in SUBSET Nat /\ {m} \in SUBSET Nat
    BY ObjFields DEF Kinds
  <2> DEFINE r == New("lora", {}, {m})
  <2>2. /\ r \in Obj /\ r.kind = "lora" /\ r.parts = {} /\ r.reads = {m}
        /\ r.frees = 0 /\ r.clones = 0
    BY <2>1, NewFields
  <2> HIDE DEF r
  <2>3. lora = [r EXCEPT !.owners = 0, !.views = 1]
    BY DEF r
  <2> HIDE DEF lora
  <2> QED BY <2>2, <2>3 DEF Obj
<1>4. lora \in Obj
  BY <1>3
<1>5. objs' = Append([objs EXCEPT ![m] = held], lora)
  BY DEF LoraAdapterInit, Next1
<1>6. /\ held.parts = objs[m].parts \cup {n} /\ held.kind = "model"
      /\ held.owners = objs[m].owners /\ held.views = objs[m].views
      /\ held.reads = objs[m].reads /\ held.frees = objs[m].frees
      /\ held.clones = objs[m].clones
  BY <1>1 DEF Obj
<1> HIDE DEF held, lora
<1>7. /\ objs' \in Seq(Obj) /\ Ids' = Ids \cup {n} /\ n \notin Ids
      /\ objs'[n] = lora /\ objs'[m] = held
      /\ \A o \in Ids : o # m => objs'[o] = objs[o]
  BY <1>2, <1>4, <1>5 DEF NInv, Ids
<1> HIDE DEF n
<1>8. ASSUME NEW o \in Ids' PROVE WellKept(o)'
  <2>1. CASE o \in Ids /\ o # m
    <3>1. \A p \in Ids : p \in Ids' /\ objs'[p].kind = objs[p].kind
      BY <1>1, <1>6, <1>7
    <3> QED BY <2>1, <1>7, <3>1, StillKept DEF NInv
  <2>2. CASE o = m
    <3>1. WellKept(m)
      BY DEF NInv
    <3>2. "lora" \in PartKinds("model")
      BY DEF PartKinds
    <3>3. \A p \in Ids : p \in Ids' /\ objs'[p].kind = objs[p].kind
      BY <1>1, <1>6, <1>7
    <3>4. objs'[n].kind = "lora"
      BY <1>3, <1>7
    <3> QED BY <2>2, <1>1, <1>6, <1>7, <3>1, <3>2, <3>3, <3>4 DEF WellKept
  <2>3. CASE o = n
    <3>1. objs'[m].kind \in ReadKinds("lora")
      BY <1>1, <1>6, <1>7 DEF ReadKinds
    <3>2. /\ objs'[o].kind = "lora" /\ objs'[o].parts = {} /\ objs'[o].reads = {m}
          /\ objs'[o].clones = 0
      BY <1>3, <1>7, <2>3
    <3> QED BY <3>1, <3>2, <1>7 DEF WellKept
  <2> QED BY <1>7, <2>1, <2>2, <2>3
<1>9. ASSUME NEW o \in Ids PROVE Wholes(o)' = Wholes(o) /\ (LostBox(o)' <=> LostBox(o))
  <2>1. o # n
    BY <1>7
  <2>2. objs'[n].parts = {}
    BY <1>3, <1>7
  <2>3. \A w \in Ids' : o \in objs'[w].parts <=> w \in Ids /\ o \in objs[w].parts
    BY <1>6, <1>7, <2>1, <2>2
  <2>4. \A w \in Ids : Freed(w)' <=> Freed(w)
    BY <1>6, <1>7 DEF Freed
  <2>5. Wholes(o)' = Wholes(o)
    BY <1>7, <2>3, <2>4 DEF Wholes
  <2>6. objs'[o].kind = objs[o].kind
    BY <1>1, <1>6, <1>7
  <2> QED BY <1>7, <2>3, <2>5, <2>6 DEF LostBox
<1>10. ASSUME NEW o \in Ids' PROVE Accounted(o)'
  <2>1. CASE o \in Ids
    <3>1. Accounted(o) /\ Wholes(o) \subseteq Ids'
      BY <2>1, <1>7 DEF NInv, Wholes
    <3>2. /\ objs'[o].kind = objs[o].kind /\ objs'[o].owners = objs[o].owners
          /\ objs'[o].frees = objs[o].frees /\ objs'[o].clones = objs[o].clones
      BY <2>1, <1>1, <1>6, <1>7
    <3> QED BY <2>1, <1>9, <3>1, <3>2, SameAccount
  <2>2. CASE o = n
    <3>1. \A w \in Ids' : n \in objs'[w].parts <=> w = m
      <4>1. \A w \in Ids : n \notin objs[w].parts
        BY <1>7, PartOf
      <4> QED BY <4>1, <1>3, <1>6, <1>7
    <3>2. ~Freed(m)'
      <4>1. objs[m].frees = 0
        BY <1>1, OwnerIsTheParty
      <4>2. objs'[m].frees = 0
        BY <4>1, <1>6, <1>7
      <4> QED BY <4>2 DEF Freed
    <3>3. Wholes(o)' = {m}
      BY <2>2, <1>7, <3>1, <3>2 DEF Wholes
    <3>4. objs'[o].kind = "lora" /\ objs'[o].owners = 0 /\ objs'[o].frees = 0
      BY <1>3, <1>7, <2>2
    <3>5. ~LostBox(o)' /\ OneParty(o)'
      BY <2>2, <1>7, <3>3, <3>4 DEF OneParty, LostBox
    <3> QED BY <3>4, <3>5 DEF Accounted
  <2> QED BY <1>7, <2>1, <2>2
<1>11. ASSUME NEW c \in Ids' PROVE ModelKept(c)'
  <2>1. CASE c = n
    BY <2>1, <1>3, <1>7 DEF ModelKept, Owned
  <2>2. CASE c \in Ids
    <3>1. ModelKept(c) /\ WellKept(c)
      BY <2>2 DEF NInv
    <3>2. \A p \in Ids : objs'[p].kind = objs[p].kind /\ objs'[p].owners = objs[p].owners
                         /\ objs'[p].reads = objs[p].reads /\ objs'[p].frees = objs[p].frees
      BY <1>1, <1>6, <1>7
    <3> QED BY <2>2, <3>1, <3>2 DEF ModelKept, WellKept, Owned, Freed
  <2> QED BY <1>7, <2>1, <2>2
<1> QED BY <1>7, <1>8, <1>10, <1>11 DEF NInv

(* A whole made at once: new objects N, one of which, x, has the others and *)
(* the samplers S, until now owned, as its parts.                          *)
WholeMade(N, x, S) ==
  /\ objs' \in Seq(Obj) /\ Ids' = Ids \cup N /\ N \cap Ids = {} /\ x \in N
  /\ S \subseteq Ids
  /\ \A o \in Ids : /\ objs'[o].kind = objs[o].kind
                    /\ objs'[o].parts = objs[o].parts
                    /\ objs'[o].reads = objs[o].reads
                    /\ objs'[o].views = objs[o].views
                    /\ objs'[o].frees = objs[o].frees
                    /\ objs'[o].clones = objs[o].clones
  /\ \A o \in Ids : o \notin S => objs'[o].owners = objs[o].owners
  /\ \A o \in S : /\ objs[o].kind \in Samplers /\ objs[o].owners > 0
                  /\ objs'[o].owners = 0
  /\ objs'[x].owners = 1 /\ objs'[x].frees = 0
  /\ objs'[x].kind \in {"chain", "llg", "chunks"}
  /\ objs'[x].parts = S \cup (N \ {x})
  /\ \A o \in N : o # x => /\ objs'[o].owners = 0 /\ objs'[o].frees = 0
                           /\ objs'[o].kind \in {"llg_box", "chunk"}
                           /\ objs'[o].parts = {}
  /\ \A o \in N : objs'[o].views = 0 /\ objs'[o].clones = 0 /\ objs'[o].reads = {}
  /\ \A o \in S \cup (N \ {x}) : objs'[o].kind \in PartKinds(objs'[x].kind)

(* A whole that takes over its parts, new ones or ones that had an owner,  *)
(* becomes the one party that frees each of them.                          *)
LEMMA WholeStep ==
  ASSUME NInv, NEW N, NEW x, NEW S, WholeMade(N, x, S)
  PROVE  NInv'
<1> USE DEF WholeMade
<1>1. ASSUME NEW o \in Ids' PROVE WellKept(o)'
  <2>1. CASE o \in Ids
    BY <2>1, StillKept DEF NInv
  <2>2. CASE o = x
    <3>1. ~(objs'[o].views > 0) /\ ~(objs'[o].clones > 0) /\ objs'[o].reads = {}
      BY <2>2
    <3>2. \A p \in objs'[o].parts : p \in Ids' /\ objs'[p].kind \in PartKinds(objs'[o].kind)
      BY <2>2
    <3> QED BY <3>1, <3>2 DEF WellKept
  <2>3. CASE o \in N /\ o # x
    <3>1. /\ ~(objs'[o].views > 0) /\ ~(objs'[o].clones > 0) /\ objs'[o].reads = {}
          /\ objs'[o].parts = {}
      BY <2>3
    <3> QED BY <3>1 DEF WellKept
  <2> QED BY <2>1, <2>2, <2>3
<1>2. \A w \in Ids : ~Freed(w)' <=> ~Freed(w)
  BY DEF Freed
<1>3. ~Freed(x)'
  BY DEF Freed
<1>4. \A w \in Ids : \A p \in objs[w].parts : p \in Ids
  BY PartOf
<1>5. ASSUME NEW o \in S \cup (N \ {x}) PROVE Wholes(o)' = {x}
  <2>1. \A w \in Ids' : o \in objs'[w].parts /\ ~Freed(w)' => w = x
    <3> SUFFICES ASSUME NEW w \in Ids', o \in objs'[w].parts, ~Freed(w)', w # x
                 PROVE  FALSE
      OBVIOUS
    <3>1. w \in Ids
      OBVIOUS
    <3>2. o \in objs[w].parts /\ ~Freed(w)
      BY <3>1, <1>2
    <3>3. o \in S
      BY <3>1, <3>2, <1>4
    <3>4. Wholes(o) = {}
      BY <3>3, OwnerIsTheParty
    <3> QED BY <3>1, <3>2, <3>4 DEF Wholes
  <2> QED BY <1>3, <2>1 DEF Wholes
<1>6. ASSUME NEW o \in Ids, o \notin S
      PROVE  Wholes(o)' = Wholes(o) /\ (LostBox(o)' <=> LostBox(o))
  <2>1. \A w \in Ids' : o \in objs'[w].parts <=> w \in Ids /\ o \in objs[w].parts
    BY <1>6
  <2>2. Wholes(o)' = Wholes(o)
    BY <1>2, <2>1 DEF Wholes
  <2> QED BY <2>1, <2>2 DEF LostBox
<1>7. ASSUME NEW o \in Ids' PROVE Accounted(o)'
  <2>1. CASE o \in Ids /\ o \notin S
    <3>1. Accounted(o) /\ Wholes(o) \subseteq Ids'
      BY <2>1 DEF NInv, Wholes
    <3> QED BY <2>1, <1>6, <3>1, SameAccount
  <2>2. CASE o \in S \cup (N \ {x})
    <3>1. ~LostBox(o)'
      BY <2>2 DEF LostBox
    <3>2. objs'[o].owners = 0 /\ objs'[o].frees = 0 /\ objs'[o].kind # "bitmap"
      <4>1. CASE o \in S
        <5>1. objs[o].kind # "bitmap" /\ objs[o].owners > 0
          BY <4>1 DEF Samplers
        <5>2. objs[o].frees = 0
          BY <4>1, <5>1, OwnerIsTheParty
        <5> QED BY <4>1, <5>1, <5>2
      <4>2. CASE o \in N \ {x}
        BY <4>2
      <4> QED BY <2>2, <4>1, <4>2
    <3>3. OneParty(o)'
      BY <1>5, <2>2, <3>2 DEF OneParty
    <3> QED BY <3>1, <3>2, <3>3 DEF Accounted
  <2>3. CASE o = x
    <3>1. \A w \in Ids' : x \notin objs'[w].parts
      BY <1>4
    <3>2. Wholes(o)' = {}
      BY <2>3, <3>1 DEF Wholes
    <3>3. ~LostBox(o)' /\ objs'[o].kind # "bitmap"
      BY <2>3 DEF LostBox
    <3>4. OneParty(o)'
      BY <2>3, <3>2 DEF OneParty
    <3> QED BY <3>3, <3>4 DEF Accounted
  <2> QED BY <2>1, <2>2, <2>3
<1>8. ASSUME NEW c \in Ids' PROVE ModelKept(c)'
  <2>1. CASE c \in N
    BY <2>1 DEF ModelKept, Owned
  <2>2. CASE c \in Ids /\ objs[c].kind = "context"
    <3>1. ModelKept(c) /\ WellKept(c)
      BY <2>2 DEF NInv
    <3>2. c \notin S
      BY <2>2 DEF Samplers
    <3> QED BY <2>2, <3>1, <3>2 DEF ModelKept, WellKept, Owned, Freed
  <2>3. CASE c \in Ids /\ objs[c].kind # "context"
    BY <2>3 DEF ModelKept, Owned
  <2> QED BY <2>1, <2>2, <2>3
<1> QED BY <1>1, <1>7, <1>8 DEF NInv

(* Dropping an owner frees what was within the object, and nothing of it   *)
(* was freed before.                                                       *)
LEMMA WithinObject ==
  ASSUME NInv, NEW o \in Ids
  PROVE  /\ o \in Within(o) /\ Within(o) \subseteq Ids
         /\ \A w \in Within(o) : objs[w].parts \subseteq Within(o)
         /\ \A p \in Within(o) : p # o => \E w \in Within(o) : p \in objs[w].parts
<1>1. o \in Within(o) /\ Within(o) \subseteq Ids
  BY DEF Within
<1>2. ASSUME NEW w \in Within(o), NEW p \in objs[w].parts
      PROVE  p \in Within(o)
  <2>1. p \in Ids
    BY <1>1, PartOf
  <2>2. ASSUME NEW S \in SUBSET Ids, o \in S, Closed(S)
        PROVE  p \in S
    <3>1. w \in S
      BY <2>2 DEF Within
    <3> QED BY <2>2, <3>1 DEF Closed
  <2> QED BY <2>1, <2>2 DEF Within
<1>3. ASSUME NEW p \in Within(o), p # o, \A w \in Within(o) : p \notin objs[w].parts
      PROVE  FALSE
  <2> DEFINE S == Within(o) \ {p}
  <2>1. S \in SUBSET Ids /\ o \in S
    BY <1>1, <1>3
  <2>2. Closed(S)
    BY <1>2, <1>3 DEF Closed
  <2>3. p \in S
    BY <2>1, <2>2 DEF Within
  <2> QED BY <2>3
<1> QED BY <1>1, <1>2, <1>3

(* What is part of a live whole has no other party, and was not freed.     *)
LEMMA LiveWhole ==
  ASSUME NInv, NEW w \in Ids, ~Freed(w), NEW p \in objs[w].parts
  PROVE  /\ p \in Ids /\ Wholes(p) = {w} /\ objs[p].owners = 0 /\ objs[p].frees = 0
         /\ objs[p].kind # "bitmap" /\ ~LostBox(p)
<1>1. p \in Ids /\ objs[p].kind # "bitmap"
  BY PartOf
<1>2. w \in Wholes(p) /\ ~LostBox(p)
  BY DEF Wholes, LostBox
<1>3. OneParty(p)
  BY <1>1, <1>2 DEF NInv, Accounted
<1> QED BY <1>1, <1>2, <1>3 DEF OneParty

(* What is within an object that was not freed was not freed either.       *)
LEMMA WithinLive ==
  ASSUME NInv, NEW o \in Ids, ~Freed(o)
  PROVE  \A p \in Within(o) : ~Freed(p)
<1> DEFINE S == {p \in Ids : ~Freed(p)}
<1>1. Closed(S)
  BY LiveWhole DEF Closed, Freed
<1>2. S \in SUBSET Ids /\ o \in S
  OBVIOUS
<1>3. \A p \in Within(o) : p \in S
  BY <1>1, <1>2 DEF Within
<1> QED BY <1>3

(* Kinds without parts are alone within themselves.                        *)
LEMMA BitmapAlone ==
  ASSUME NInv, NEW o \in Ids, objs[o].kind \in {"bitmap", "lora", "chunk"}
  PROVE  Within(o) = {o}
<1>1. objs[o].parts = {}
  <2>1. PartKinds(objs[o].kind) = {}
    BY DEF PartKinds
  <2> QED BY <2>1, PartOf
<1>2. Closed({o})
  BY <1>1 DEF Closed
<1>3. \A p \in Within(o) : p \in {o}
  BY <1>2 DEF Within
<1> QED BY <1>3, WithinObject

(* Dropping an owner frees the object and its parts, each for the first    *)
(* time, and no context keeps a model that is freed.                       *)
LEMMA DropStep ==
  ASSUME NInv, NEW o \in Ids, DropOwner(o)
  PROVE  NInv'
<1> DEFINE W == Within(o)
           After(p) == [objs[p] EXCEPT !.owners = IF p = o THEN @ - 1 ELSE @,
                                       !.frees = IF p \in W THEN @ + 1 ELSE @]
<1>1. objs[o].owners > 0 /\ ~Borrowed(o) /\ objs' = [p \in Ids |-> After(p)]
  BY DEF DropOwner
<1>2. ASSUME NEW p \in Ids
      PROVE  /\ After(p) \in Obj /\ After(p).kind = objs[p].kind
             /\ After(p).owners = IF p = o THEN objs[p].owners - 1 ELSE objs[p].owners
             /\ After(p).frees = IF p \in W THEN objs[p].frees + 1 ELSE objs[p].frees
             /\ After(p).parts = objs[p].parts /\ After(p).reads = objs[p].reads
             /\ After(p).views = objs[p].views /\ After(p).clones = objs[p].clones
  <2>1. objs[p] \in Obj
    BY ObjFields
  <2> DEFINE a == IF p = o THEN objs[p].owners - 1 ELSE objs[p].owners
             f == IF p \in W THEN objs[p].frees + 1 ELSE objs[p].frees
  <2>2. a \in Nat /\ f \in Nat
    <3>1. objs[p].owners \in Nat /\ objs[p].frees \in Nat /\ (p = o => objs[p].owners > 0)
      BY <1>1, ObjFields
    <3> HIDE DEF W
    <3> QED BY <3>1
  <2>3. After(p) = [objs[p] EXCEPT !.owners = a, !.frees = f]
    OBVIOUS
  <2> HIDE DEF a, f, After
  <2>4. /\ After(p) \in Obj /\ After(p).kind = objs[p].kind
        /\ After(p).owners = a /\ After(p).frees = f
        /\ After(p).parts = objs[p].parts /\ After(p).reads = objs[p].reads
        /\ After(p).views = objs[p].views /\ After(p).clones = objs[p].clones
    BY <2>1, <2>2, <2>3 DEF Obj
  <2> QED BY <2>4 DEF a, f
<1> HIDE DEF W, After
<1>3. objs' \in Seq(Obj) /\ Ids' = Ids
  <2>1. Ids = 1 .. Len(objs) /\ Len(objs) \in Nat
    BY ObjFields
  <2>2. objs' \in [1 .. Len(objs) -> Obj]
    BY <1>1, <1>2, <2>1
  <2> QED BY <2>1, <2>2 DEF Ids
<1>4. \A p \in Ids : objs'[p] = After(p)
  BY <1>1
<1>5. /\ o \in W /\ W \subseteq Ids /\ \A w \in W : objs[w].parts \subseteq W
      /\ \A p \in W : p # o => \E w \in W : p \in objs[w].parts
  BY WithinObject DEF W
<1>6. ASSUME NEW p \in Ids PROVE WellKept(p)'
  BY <1>2, <1>3, <1>4, StillKept DEF NInv
<1>7. \A w \in Ids : ~Freed(w)' <=> ~Freed(w) /\ w \notin W
  BY <1>2, <1>4, ObjFields DEF Freed
<1>8. ASSUME NEW p \in Ids PROVE Wholes(p)' = Wholes(p) \ W
  BY <1>2, <1>3, <1>4, <1>7 DEF Wholes
<1>9. ASSUME NEW p \in Ids PROVE LostBox(p)' <=> LostBox(p)
  BY <1>2, <1>3, <1>4 DEF LostBox
<1>10. ASSUME NEW p \in Ids PROVE Accounted(p)'
  <2>1. Accounted(p) /\ Wholes(p) \subseteq Ids'
    BY <1>3 DEF NInv, Wholes
  <2>2. CASE p \notin W
    <3>1. Wholes(p) \cap W = {}
      BY <1>5, <2>2 DEF Wholes
    <3>2. Wholes(p)' = Wholes(p) /\ (LostBox(p)' <=> LostBox(p))
      BY <1>8, <1>9, <3>1
    <3>3. p # o
      BY <1>5, <2>2
    <3>4. /\ objs'[p].kind = objs[p].kind /\ objs'[p].owners = objs[p].owners
          /\ objs'[p].frees = objs[p].frees /\ objs'[p].clones = objs[p].clones
      BY <1>2, <1>4, <2>2, <3>3
    <3> QED BY <2>1, <3>2, <3>4, SameAccount
  <2>3. CASE p = o /\ objs[o].kind = "bitmap"
    <3>1. objs'[o].owners + objs'[o].frees = 1 + objs'[o].clones
      BY <1>2, <1>4, <1>5, <2>1, <2>3, ObjFields DEF Accounted
    <3>2. objs'[o].kind = "bitmap"
      BY <1>2, <1>4, <2>3
    <3> QED BY <2>3, <3>1, <3>2 DEF Accounted, LostBox
  <2>4. CASE p = o /\ objs[o].kind # "bitmap"
    <3>1. Wholes(o) = {} /\ ~LostBox(o) /\ objs[o].owners = 1 /\ objs[o].frees = 0
      BY <1>1, <2>4, OwnerIsTheParty
    <3>2. objs'[o].owners = 0 /\ objs'[o].frees = 1 /\ objs'[o].kind # "bitmap"
      BY <1>2, <1>4, <1>5, <2>4, <3>1
    <3>3. OneParty(p)'
      BY <1>8, <2>4, <3>1, <3>2 DEF OneParty
    <3> QED BY <1>9, <2>4, <3>1, <3>2, <3>3 DEF Accounted
  <2>5. CASE p \in W /\ p # o
    <3>1. objs[o].kind # "bitmap"
      BY <2>5, BitmapAlone DEF W
    <3>2. ~Freed(o)
      BY <1>1, <3>1, OwnerIsTheParty DEF Freed
    <3>3. PICK w \in W : p \in objs[w].parts
      BY <1>5, <2>5
    <3>4. ~Freed(w)
      BY <3>2, WithinLive DEF W
    <3>5. /\ Wholes(p) = {w} /\ objs[p].owners = 0 /\ objs[p].frees = 0
          /\ objs[p].kind # "bitmap" /\ ~LostBox(p)
      BY <1>5, <3>3, <3>4, LiveWhole
    <3>6. objs'[p].owners = 0 /\ objs'[p].frees = 1 /\ objs'[p].kind # "bitmap"
      BY <1>2, <1>4, <2>5, <3>5
    <3>7. OneParty(p)'
      BY <1>8, <3>5, <3>6 DEF OneParty
    <3> QED BY <1>9, <3>5, <3>6, <3>7 DEF Accounted
  <2> QED BY <2>2, <2>3, <2>4, <2>5
<1>11. ASSUME NEW c \in Ids PROVE ModelKept(c)'
  <2> SUFFICES ASSUME Owned(c, "context")', NEW m \in objs'[c].reads,
                      objs'[m].kind = "model"
               PROVE  ~Freed(m)'
    BY DEF ModelKept
  <2>1. Owned(c, "context") /\ m \in objs[c].reads
    BY <1>2, <1>4, ObjFields DEF Owned
  <2>2. m \in Ids
    BY <2>1 DEF NInv, WellKept
  <2>3. objs[m].kind = "model"
    BY <1>2, <1>4, <2>2
  <2>4. ~Freed(m)
    BY <2>1, <2>3 DEF NInv, ModelKept
  <2>5. m # o
    BY <1>1, <2>1, <2>3 DEF Borrowed
  <2>6. m \notin W
    BY <1>5, <2>3, <2>5, PartOf
  <2> QED BY <1>7, <2>2, <2>4, <2>6
<1> QED BY <1>3, <1>6, <1>10, <1>11 DEF NInv

(* Make puts behind the others an object that reads what its kind may.     *)
LEMMA MakeStep ==
  ASSUME NInv, NEW k \in Kinds, k # "llg_box", NEW reads \in SUBSET Ids,
         \A u \in reads : objs[u].kind \in ReadKinds(k),
         \A u \in reads : k = "context" => ~Freed(u),
         Make(k, reads)
  PROVE  NInv'
<1>1. reads \in SUBSET Nat /\ {} \in SUBSET Nat
  BY DEF NInv, Ids
<1>2. PICK x : x = New(k, {}, reads)
  OBVIOUS
<1>3. /\ x \in Obj /\ x.kind = k /\ x.owners = 1 /\ x.views = 0
      /\ x.parts = {} /\ x.reads = reads /\ x.frees = 0 /\ x.clones = 0
  BY <1>1, <1>2, NewFields
<1>4. objs' = Append(objs, x)
  BY <1>2 DEF Make
<1> QED BY <1>3, <1>4, AppendAlone

(* Constructors that keep a pointer to a model that is held.               *)
LEMMA ReadsModel ==
  ASSUME NInv, NEW m \in Ids, Owned(m, "model"),
         NEW k \in {"context", "grammar", "mtmd"}, Make(k, {m})
  PROVE  NInv'
<1>1. objs[m].kind = "model" /\ ~Freed(m)
  BY OwnerIsTheParty DEF Owned, Freed
<1>2. "model" \in ReadKinds(k) /\ k \in Kinds /\ k # "llg_box"
  BY DEF ReadKinds, Kinds
<1> QED BY <1>1, <1>2, MakeStep

(* Constructors that keep no pointer.                                      *)
LEMMA ReadsNothing ==
  ASSUME NInv, NEW k \in Kinds \ {"llg_box"}, Make(k, {})
  PROVE  NInv'
BY MakeStep

(* A llguidance sampler gets its box, or C refuses it and the box is lost. *)
LEMMA LlgStep ==
  ASSUME NInv, NEW m \in Ids, NEW null \in BOOLEAN, NewLlg(m, null)
  PROVE  NInv'
<1> DEFINE n == Len(objs) + 1
           r == New("llg_box", {}, {})
           box == Held(r, 0)
           llg == New("llg", {n}, {})
<1>1. Len(objs) \in Nat /\ Ids = 1 .. Len(objs)
  BY DEF NInv, Ids
<1>2. /\ r \in Obj /\ r.kind = "llg_box" /\ r.views = 0 /\ r.parts = {}
      /\ r.reads = {} /\ r.frees = 0 /\ r.clones = 0
  BY NewFields DEF Kinds
<1>3. /\ llg \in Obj /\ llg.kind = "llg" /\ llg.owners = 1 /\ llg.views = 0
      /\ llg.parts = {n} /\ llg.reads = {} /\ llg.frees = 0 /\ llg.clones = 0
  BY <1>1, NewFields DEF Kinds
<1> HIDE DEF r, llg
<1>4. /\ box \in Obj /\ box.kind = "llg_box" /\ box.owners = 0 /\ box.views = 0
      /\ box.parts = {} /\ box.reads = {} /\ box.frees = 0 /\ box.clones = 0
  BY <1>2, HeldFields
<1>5. objs' = IF null THEN Append(objs, box) ELSE objs \o <<box, llg>>
  BY DEF NewLlg, Next1, r, llg
<1> HIDE DEF box
<1>6. CASE null
  BY <1>4, <1>5, <1>6, AppendAlone
<1>7. CASE ~null
  <2> DEFINE N == {n, n + 1}
  <2>0. <<box, llg>> \in Seq(Obj) /\ objs' = objs \o <<box, llg>> /\ objs \in Seq(Obj)
    BY <1>3, <1>4, <1>5, <1>7 DEF NInv
  <2>1. /\ objs' \in Seq(Obj) /\ Ids' = Ids \cup N /\ N \cap Ids = {}
        /\ objs'[n] = box /\ objs'[n + 1] = llg
        /\ \A o \in Ids : objs'[o] = objs[o]
    BY <1>1, <2>0 DEF Ids
  <2>2. n + 1 \in N /\ N \ {n + 1} = {n} /\ n # n + 1
    BY <1>1
  <2> HIDE DEF n
  <2>3. box.kind \in PartKinds(llg.kind)
    BY <1>3, <1>4 DEF PartKinds
  <2> QED
    <3> DEFINE x == n + 1
    <3>1. /\ x \in N /\ N \ {x} = {n} /\ objs'[x] = llg /\ objs'[n] = box
          /\ \A o \in N : o # x => o = n
      BY <2>1, <2>2
    <3> HIDE DEF x, N
    <3>2. WholeMade(N, x, {})
      BY <2>1, <2>3, <3>1, <1>3, <1>4 DEF WholeMade
    <3> QED BY <3>2, WholeStep
<1> QED BY <1>6, <1>7

(* A collection gets its chunk, or is dropped on the way out.              *)
LEMMA TokenizeStep ==
  ASSUME NInv, NEW m \in Ids, NEW ok \in BOOLEAN, Tokenize(m, ok)
  PROVE  NInv'
<1> DEFINE n == Len(objs) + 1
           r == New("chunk", {}, {})
           chunk == Held(r, 0)
           chunks == New("chunks", {n + 1}, {})
           e == New("chunks", {}, {})
           empty == [e EXCEPT !.owners = 0, !.frees = 1]
<1>1. Len(objs) \in Nat /\ Ids = 1 .. Len(objs)
  BY DEF NInv, Ids
<1>2. /\ r \in Obj /\ r.kind = "chunk" /\ r.views = 0 /\ r.parts = {}
      /\ r.reads = {} /\ r.frees = 0 /\ r.clones = 0
  BY NewFields DEF Kinds
<1>3. /\ chunks \in Obj /\ chunks.kind = "chunks" /\ chunks.owners = 1
      /\ chunks.views = 0 /\ chunks.parts = {n + 1} /\ chunks.reads = {}
      /\ chunks.frees = 0 /\ chunks.clones = 0
  BY <1>1, NewFields DEF Kinds
<1>4. /\ e \in Obj /\ e.kind = "chunks" /\ e.parts = {} /\ e.reads = {}
      /\ e.views = 0 /\ e.clones = 0
  BY NewFields DEF Kinds
<1> HIDE DEF r, chunks, e
<1>5. /\ chunk \in Obj /\ chunk.kind = "chunk" /\ chunk.owners = 0 /\ chunk.views = 0
      /\ chunk.parts = {} /\ chunk.reads = {} /\ chunk.frees = 0 /\ chunk.clones = 0
  BY <1>2, HeldFields
<1>6. /\ empty \in Obj /\ empty.kind = "chunks" /\ empty.owners = 0 /\ empty.frees = 1
      /\ empty.parts = {} /\ empty.reads = {} /\ empty.views = 0 /\ empty.clones = 0
  BY <1>4 DEF Obj
<1>7. objs' = IF ok THEN objs \o <<chunks, chunk>> ELSE Append(objs, empty)
  BY DEF Tokenize, Next1, r, chunks, e
<1> HIDE DEF chunk, empty
<1>8. CASE ~ok
  BY <1>6, <1>7, <1>8, AppendAlone
<1>9. CASE ok
  <2> DEFINE N == {n, n + 1}
             y == n + 1
  <2>1. /\ objs' \in Seq(Obj) /\ Ids' = Ids \cup N /\ N \cap Ids = {}
        /\ objs'[n] = chunks /\ objs'[n + 1] = chunk
        /\ \A o \in Ids : objs'[o] = objs[o]
    BY <1>1, <1>3, <1>5, <1>7, <1>9 DEF NInv, Ids
  <2>2. n \in N /\ N \ {n} = {y} /\ \A o \in N : o # n => o = y
    BY <1>1
  <2>3. objs'[y] = chunk /\ chunks.parts = {y}
    BY <2>1, <1>3
  <2>4. chunk.kind \in PartKinds(chunks.kind)
    BY <1>3, <1>5 DEF PartKinds
  <2> HIDE DEF n, y
  <2> QED
    <3> DEFINE x == n
    <3>1. /\ x \in N /\ N \ {x} = {y} /\ objs'[x] = chunks /\ objs'[y] = chunk
          /\ \A o \in N : o # x => o = y
      BY <2>1, <2>2, <2>3
    <3> HIDE DEF x, N
    <3>2. WholeMade(N, x, {})
      BY <2>1, <2>3, <2>4, <3>1, <1>3, <1>5 DEF WholeMade
    <3> QED BY <3>2, WholeStep
<1> QED BY <1>8, <1>9

(* A chain takes the samplers over from the values that held them.         *)
LEMMA ChainStep ==
  ASSUME NInv, NEW S \in SUBSET Ids, Chain(S)
  PROVE  NInv'
<1> DEFINE n == Len(objs) + 1
           chain == New("chain", S, {})
           moved == [o \in Ids |-> IF o \in S THEN Held(objs[o], 0) ELSE objs[o]]
<1>1. Len(objs) \in Nat /\ Ids = 1 .. Len(objs)
  BY DEF NInv, Ids
<1>2. /\ chain \in Obj /\ chain.kind = "chain" /\ chain.owners = 1
      /\ chain.views = 0 /\ chain.parts = S /\ chain.reads = {}
      /\ chain.frees = 0 /\ chain.clones = 0
  <2>1. S \in SUBSET Nat /\ "chain" \in Kinds /\ {} \in SUBSET Nat
    BY <1>1 DEF Kinds
  <2> QED BY <2>1, NewFields
<1>3. ASSUME NEW o \in Ids
      PROVE  /\ moved[o] \in Obj /\ moved[o].kind = objs[o].kind
             /\ moved[o].owners = IF o \in S THEN 0 ELSE objs[o].owners
             /\ moved[o].views = objs[o].views
             /\ moved[o].parts = objs[o].parts /\ moved[o].reads = objs[o].reads
             /\ moved[o].frees = objs[o].frees /\ moved[o].clones = objs[o].clones
  <2>1. objs[o] \in Obj
    BY ObjFields
  <2>2. CASE o \in S
    BY <2>1, <2>2, HeldFields
  <2>3. CASE o \notin S
    BY <2>1, <2>3
  <2> QED BY <2>2, <2>3
<1>4. objs' = Append(moved, chain) /\ \A s \in S : objs[s].kind \in Samplers /\ objs[s].owners > 0
  BY DEF Chain
<1> HIDE DEF chain
<1>5. moved \in [1 .. Len(objs) -> Obj]
  BY <1>1, <1>3
<1> HIDE DEF moved
<1>6. moved \in Seq(Obj) /\ Len(moved) = Len(objs)
  BY <1>1, <1>5
<1>7. /\ objs' \in Seq(Obj) /\ Ids' = Ids \cup {n} /\ {n} \cap Ids = {}
      /\ objs'[n] = chain /\ \A o \in Ids : objs'[o] = moved[o]
  BY <1>1, <1>2, <1>4, <1>6 DEF Ids
<1>8. \A s \in S : objs[s].kind \in PartKinds("chain")
  BY <1>4 DEF PartKinds
<1> DEFINE x == n
           N == {n}
<1>9. /\ x \in N /\ N \ {x} = {} /\ objs'[x] = chain /\ Ids' = Ids \cup N /\ N \cap Ids = {}
      /\ \A o \in N : o = x
  BY <1>7
<1> HIDE DEF n, x, N
<1>10. /\ objs'[x].owners = 1 /\ objs'[x].frees = 0
       /\ objs'[x].kind \in {"chain", "llg", "chunks"}
       /\ objs'[x].parts = S \cup (N \ {x})
  BY <1>2, <1>9
<1>11. /\ \A o \in N : o # x => /\ objs'[o].owners = 0 /\ objs'[o].frees = 0
                               /\ objs'[o].kind \in {"llg_box", "chunk"}
                               /\ objs'[o].parts = {}
       /\ \A o \in N : objs'[o].views = 0 /\ objs'[o].clones = 0 /\ objs'[o].reads = {}
  BY <1>2, <1>9
<1>12. \A o \in S \cup (N \ {x}) : objs'[o].kind \in PartKinds(objs'[x].kind)
  BY <1>2, <1>3, <1>7, <1>8, <1>9
<1>13. /\ \A o \in Ids : /\ objs'[o].kind = objs[o].kind
                        /\ objs'[o].parts = objs[o].parts
                        /\ objs'[o].reads = objs[o].reads
                        /\ objs'[o].views = objs[o].views
                        /\ objs'[o].frees = objs[o].frees
                        /\ objs'[o].clones = objs[o].clones
       /\ \A o \in Ids : o \notin S => objs'[o].owners = objs[o].owners
       /\ \A o \in S : objs'[o].owners = 0
  BY <1>3, <1>7
<1>14. WholeMade(N, x, S)
  BY <1>4, <1>7, <1>9, <1>10, <1>11, <1>12, <1>13 DEF WholeMade
<1> QED BY <1>14, WholeStep

(* Records of which one field is changed.                                  *)
LEMMA OneField ==
  ASSUME NInv, NEW o \in Ids, NEW r \in Obj, objs' = [objs EXCEPT ![o] = r],
         r.kind = objs[o].kind, r.owners = objs[o].owners, r.parts = objs[o].parts,
         r.frees = objs[o].frees, r.clones = objs[o].clones,
         r.views > 0 => r.kind \in {"lora", "chunk"},
         \A u \in r.reads : u \in Ids /\ objs[u].kind \in ReadKinds(r.kind),
         \A u \in r.reads : objs[u].kind = "model" => u \in objs[o].reads
  PROVE  NInv'
<1>1. objs' \in Seq(Obj) /\ Ids' = Ids /\ objs'[o] = r
      /\ \A p \in Ids : p # o => objs'[p] = objs[p]
  BY DEF NInv, Ids
<1>2. \A p \in Ids : /\ objs'[p].kind = objs[p].kind
                     /\ objs'[p].owners = objs[p].owners
                     /\ objs'[p].parts = objs[p].parts
                     /\ objs'[p].frees = objs[p].frees
                     /\ objs'[p].clones = objs[p].clones
  BY <1>1
<1>3. ASSUME NEW p \in Ids PROVE WellKept(p)'
  <2>1. CASE p # o
    BY <1>1, <1>2, <2>1, StillKept DEF NInv
  <2>2. CASE p = o
    <3>1. WellKept(o)
      BY DEF NInv
    <3> QED BY <1>1, <1>2, <2>2, <3>1 DEF WellKept
  <2> QED BY <2>1, <2>2
<1>4. \A p \in Ids : \A u \in objs'[p].reads :
        objs[u].kind = "model" => u \in objs[p].reads
  BY <1>1
<1> QED BY <1>1, <1>2, <1>3, <1>4, QuietStep

(* Setting and removing an adapter changes what the context reads, but for *)
(* its model.                                                              *)
LEMMA AdapterStep ==
  ASSUME NInv, NEW c \in Ids,
         LoraAdapterRemove(c) \/ \E l \in Ids : LoraAdapterSet(c, l)
  PROVE  NInv'
<1>1. PICK R : /\ objs' = [objs EXCEPT ![c].reads = R] /\ Owned(c, "context")
               /\ \/ R = OwnModel(c)
                  \/ \E l \in Ids : objs[l].kind = "lora" /\ R = OwnModel(c) \cup {l}
  BY DEF LoraAdapterRemove, LoraAdapterSet
<1> DEFINE r == [objs[c] EXCEPT !.reads = R]
<1>2. objs[c] \in Obj /\ objs[c].kind = "context" /\ WellKept(c) /\ Ids \subseteq Nat
  BY <1>1, ObjFields DEF NInv, Owned
<1>3. OwnModel(c) \subseteq objs[c].reads
  BY DEF OwnModel
<1>4. \A u \in R : /\ u \in Ids /\ objs[u].kind \in {"model", "lora"}
                   /\ objs[u].kind = "model" => u \in objs[c].reads
  BY <1>1, <1>2, <1>3 DEF WellKept, OwnModel
<1>5. R \in SUBSET Nat
  BY <1>2, <1>4
<1>6. /\ r \in Obj /\ r.kind = "context" /\ r.owners = objs[c].owners
      /\ r.parts = objs[c].parts /\ r.frees = objs[c].frees
      /\ r.clones = objs[c].clones /\ r.views = objs[c].views /\ r.reads = R
  <2>1. \A q \in Obj : LET x == [q EXCEPT !.reads = R]
          IN /\ x \in Obj /\ x.kind = q.kind /\ x.owners = q.owners
             /\ x.parts = q.parts /\ x.frees = q.frees
             /\ x.clones = q.clones /\ x.views = q.views /\ x.reads = R
    BY <1>5 DEF Obj
  <2> QED BY <1>2, <2>1
<1>7. objs' = [objs EXCEPT ![c] = r]
  BY <1>1 DEF Ids
<1>8. ReadKinds("context") = {"model", "lora"} /\ (r.views > 0 => FALSE)
  BY <1>2, <1>6 DEF ReadKinds, WellKept
<1> HIDE DEF r
<1> QED BY <1>2, <1>4, <1>6, <1>7, <1>8, OneField

(* Views come and go without any other field.                              *)
LEMMA ViewStep ==
  ASSUME NInv, NEW p \in Ids,
         (\E c \in Ids : GetChunk(c, p)) \/ DropView(p)
  PROVE  NInv'
<1>1. PICK v \in Nat : /\ objs' = [objs EXCEPT ![p].views = v]
                       /\ objs[p].kind \in {"lora", "chunk"}
  <2>1. CASE DropView(p)
    <3>1. objs[p].views \in Nat /\ objs[p].views > 0
      BY <2>1, ObjFields DEF DropView
    <3>2. objs[p].kind \in {"lora", "chunk"}
      BY <3>1 DEF NInv, WellKept
    <3>3. objs' = [objs EXCEPT ![p].views = objs[p].views - 1]
      BY <2>1 DEF DropView
    <3>4. objs[p].views - 1 \in Nat
      BY <3>1
    <3> QED BY <3>2, <3>3, <3>4
  <2>2. ASSUME NEW c \in Ids, GetChunk(c, p)
        PROVE  \E v \in Nat : /\ objs' = [objs EXCEPT ![p].views = v]
                              /\ objs[p].kind \in {"lora", "chunk"}
    <3>1. objs[c].kind = "chunks" /\ p \in objs[c].parts
      BY <2>2 DEF GetChunk, Owned
    <3>2. objs[p].kind = "chunk"
      BY <3>1, PartOf DEF PartKinds
    <3>3. objs[p].views + 1 \in Nat
      BY ObjFields
    <3>4. objs' = [objs EXCEPT ![p].views = objs[p].views + 1]
      BY <2>2 DEF GetChunk
    <3> QED BY <3>2, <3>3, <3>4
  <2> QED BY <2>1, <2>2
<1> DEFINE r == [objs[p] EXCEPT !.views = v]
<1>2. objs[p] \in Obj /\ WellKept(p)
  BY ObjFields DEF NInv
<1>3. /\ r \in Obj /\ r.kind = objs[p].kind /\ r.owners = objs[p].owners
      /\ r.parts = objs[p].parts /\ r.frees = objs[p].frees
      /\ r.clones = objs[p].clones /\ r.reads = objs[p].reads
  <2>1. \A q \in Obj : LET x == [q EXCEPT !.views = v]
          IN /\ x \in Obj /\ x.kind = q.kind /\ x.owners = q.owners
             /\ x.parts = q.parts /\ x.frees = q.frees
             /\ x.clones = q.clones /\ x.reads = q.reads
    BY DEF Obj
  <2> QED BY <1>2, <2>1
<1>4. objs' = [objs EXCEPT ![p] = r]
  BY <1>1 DEF Ids
<1> HIDE DEF r
<1>5. \A u \in r.reads : u \in Ids /\ objs[u].kind \in ReadKinds(r.kind)
  BY <1>2, <1>3 DEF WellKept
<1> QED BY <1>1, <1>3, <1>4, <1>5, OneField

(* Every step of a program keeps the invariant.                            *)
LEMMA StepNInv == NInv /\ [NNext]_nvars => NInv'
<1> SUFFICES ASSUME NInv, [NNext]_nvars PROVE NInv'
  OBVIOUS
<1>1. CASE UNCHANGED objs
  BY <1>1 DEF NInv, WellKept, Accounted, OneParty, LostBox, Wholes, ModelKept, Owned,
              Freed, Ids
<1>2. ASSUME NEW t \in Threads, LoadModel(t) PROVE NInv'
  BY <1>2, ReadsNothing DEF LoadModel, Kinds
<1>3. ASSUME NEW t \in Threads, NEW m \in Ids, NewContext(t, m) PROVE NInv'
  BY <1>3, ReadsModel DEF NewContext
<1>4. ASSUME NEW m \in Ids, LoraAdapterInit(m) PROVE NInv'
  BY <1>4, LoraStep
<1>5. ASSUME NEW c \in Ids,
             LoraAdapterRemove(c) \/ \E l \in Ids : LoraAdapterSet(c, l)
      PROVE  NInv'
  BY <1>5, AdapterStep
<1>6. ASSUME NewSampler \/ NewBitmap \/ OpenGguf PROVE NInv'
  BY <1>6, ReadsNothing DEF NewSampler, NewBitmap, OpenGguf, Kinds
<1>7. ASSUME NEW m \in Ids, NewDry(m) PROVE NInv'
  BY <1>7, ReadsNothing DEF NewDry, Kinds
<1>8. ASSUME NEW m \in Ids, NewGrammar(m) \/ MtmdInit(m) PROVE NInv'
  BY <1>8, ReadsModel DEF NewGrammar, MtmdInit
<1>9. ASSUME NEW m \in Ids, NEW null \in BOOLEAN, NewLlg(m, null) PROVE NInv'
  BY <1>9, LlgStep
<1>10. ASSUME NEW S \in SUBSET Ids, Chain(S) PROVE NInv'
  BY <1>10, ChainStep
<1>11. ASSUME NEW b \in Ids, CloneBitmap(b) PROVE NInv'
  BY <1>11, CloneStep
<1>12. ASSUME NEW x \in Ids, NEW ok \in BOOLEAN, Tokenize(x, ok) PROVE NInv'
  BY <1>12, TokenizeStep
<1>13. ASSUME NEW p \in Ids, (\E c \in Ids : GetChunk(c, p)) \/ DropView(p) PROVE NInv'
  BY <1>13, ViewStep
<1>14. ASSUME NEW p \in Ids, CopyChunk(p) PROVE NInv'
  BY <1>14, ReadsNothing DEF CopyChunk, Kinds
<1>15. ASSUME NEW o \in Ids, DropOwner(o) PROVE NInv'
  BY <1>15, DropStep
<1> QED BY <1>1, <1>2, <1>3, <1>4, <1>5, <1>6, <1>7, <1>8, <1>9, <1>10, <1>11, <1>12,
           <1>13, <1>14, <1>15 DEF NNext, TokenStep, nvars

(* So it holds whatever a program makes, moves and drops.                  *)
LEMMA SpecNInv == NSpec => []NInv
BY NInvInit, StepNInv, PTL DEF NSpec

(* However a program makes, moves, shares and drops objects, each of them  *)
(* has one party that will free it, or was freed once; the clones of a     *)
(* bitmap and the box that C refused are the exceptions the property names *)
(* (sampling.rs:114, mtmd.rs:349, llguidance_sampler.rs:176).              *)
THEOREM FreedOnce == NSpec => []OneFreeEach
<1>1. NInv => OneFreeEach
  <2> SUFFICES ASSUME NInv, NEW o \in Ids
               PROVE  objs[o].owners + Cardinality(Wholes(o)) + objs[o].frees
                        = IF LostBox(o) THEN 0 ELSE 1 + objs[o].clones
    BY DEF OneFreeEach
  <2>1. Accounted(o) /\ WellKept(o)
    BY DEF NInv
  <2>2. /\ objs[o].owners \in Nat /\ objs[o].frees \in Nat /\ objs[o].clones \in Nat
    BY ObjFields
  <2>3. Cardinality({}) = 0 /\ \A w : Cardinality({w}) = 1
    BY FS_EmptySet, FS_Singleton
  <2>4. CASE objs[o].kind = "bitmap"
    <3>1. Wholes(o) = {}
      BY <2>4, PartOf DEF Wholes
    <3>2. ~LostBox(o)
      BY <2>4 DEF LostBox
    <3> QED BY <2>1, <2>2, <2>3, <2>4, <3>1, <3>2 DEF Accounted
  <2>5. CASE LostBox(o)
    <3>1. Wholes(o) = {}
      BY <2>5 DEF Wholes, LostBox
    <3> QED BY <2>1, <2>2, <2>3, <2>5, <3>1 DEF Accounted
  <2>6. CASE objs[o].kind # "bitmap" /\ ~LostBox(o)
    <3>1. objs[o].clones = 0
      BY <2>1, <2>2, <2>6 DEF WellKept
    <3>2. OneParty(o)
      BY <2>1, <2>6 DEF Accounted
    <3>3. objs[o].owners + Cardinality(Wholes(o)) + objs[o].frees = 1
      <4>1. CASE Wholes(o) = {} /\ objs[o].owners + objs[o].frees = 1
        BY <2>2, <2>3, <4>1
      <4>2. ASSUME NEW w, Wholes(o) = {w}, objs[o].owners = 0, objs[o].frees = 0
            PROVE  objs[o].owners + Cardinality(Wholes(o)) + objs[o].frees = 1
        BY <2>3, <4>2
      <4> QED BY <3>2, <4>1, <4>2 DEF OneParty
    <3> QED BY <2>2, <2>6, <3>1, <3>3
  <2> QED BY <2>4, <2>5, <2>6
<1> QED BY <1>1, SpecNInv, PTL

(* What a value may find freed under it is one of the pairs that have no   *)
(* lifetime between them, and nothing else (context.rs:29).                *)
THEOREM StaleOnlyThere == NSpec => []StaleOnlyWhereNoLifetime
<1>1. NInv => StaleOnlyWhereNoLifetime
  <2> SUFFICES ASSUME NInv, NEW w \in Ids, objs[w].owners + objs[w].views > 0,
                      NEW o \in Within(w), NEW u \in objs[o].reads \cup {o}, Freed(u)
               PROVE  <<objs[o].kind, objs[u].kind>> \in NoLifetime
    BY DEF StaleOnlyWhereNoLifetime
  <2>1. o \in Ids /\ WellKept(o) /\ WellKept(w)
    BY WithinObject DEF NInv
  <2>2. u \in objs[o].reads => objs[u].kind \in ReadKinds(objs[o].kind)
    BY <2>1 DEF WellKept
  <2>3. CASE objs[w].kind \in {"bitmap", "lora", "chunk"}
    <3>1. o = w
      BY <2>3, BitmapAlone
    <3> QED BY <2>2, <2>3, <3>1 DEF ReadKinds, NoLifetime
  <2>4. CASE objs[w].kind \notin {"bitmap", "lora", "chunk"}
    <3>1. objs[w].owners > 0
      BY <2>1, <2>4, ObjFields DEF WellKept
    <3>2. ~Freed(w)
      BY <2>4, <3>1, OwnerIsTheParty DEF Freed
    <3>3. ~Freed(o)
      BY <3>2, WithinLive
    <3>4. u \in objs[o].reads
      BY <3>3
    <3>5. CASE objs[o].kind = "context"
      <4>1. o = w
        BY <2>1, <3>5, WithinObject, PartOf
      <4>2. objs[u].kind # "model"
        BY <3>1, <3>4, <3>5, <4>1 DEF NInv, ModelKept, Owned
      <4> QED BY <2>2, <3>4, <3>5, <4>2 DEF ReadKinds, NoLifetime
    <3>6. CASE objs[o].kind # "context"
      BY <2>2, <3>4, <3>6 DEF ReadKinds, NoLifetime
    <3> QED BY <3>5, <3>6
  <2> QED BY <2>3, <2>4
<1> QED BY <1>1, SpecNInv, PTL

-----------------------------------------------------------------------------
(* The parameters a model is loaded with.  The first entry of a vector is  *)
(* the only one a call looks at, and no call that returned leaves it       *)
(* empty; so a vector has one of three forms, and a pointer is there just  *)
(* when the entry it leads to was followed by an empty one.                *)
KvForm ==
  \/ kv_overrides.entries = <<Null>> /\ kv_ptr = Null /\ given = <<>>
  \/ \E k \in LongKeys : kv_overrides.entries = <<k>> /\ kv_ptr = Null /\ given = <<>>
  \/ \E k \in Keys : /\ kv_overrides.entries = <<k, Null>>
                     /\ kv_ptr = kv_overrides.buffer /\ given = <<k>>

BuftForm ==
  \/ buft_overrides.entries = <<Null>> /\ buft_ptr = Null
  \/ \E k \in Keys : /\ buft_overrides.entries = <<k, Null>>
                     /\ buft_ptr = buft_overrides.buffer

PInv == ParamsTypeOK /\ KvForm /\ BuftForm

(* The defaults: an empty entry each, and no pointer.                      *)
LEMMA ParamsInitInv == ParamsInit => PInv
<1> SUFFICES ASSUME ParamsInit PROVE PInv
  OBVIOUS
<1>1. \A S : <<Null>> \in Seq(S \cup {Null}) /\ <<>> \in Seq(S)
  OBVIOUS
<1>2. ParamsTypeOK
  BY <1>1 DEF ParamsInit, ParamsTypeOK, Vector, LoadModes
<1> QED BY <1>2 DEF ParamsInit, PInv, KvForm, BuftForm

(* What the first call makes of a vector with one empty entry: the entry   *)
(* is set, and, if the key fits, an empty one is put behind it.            *)
LEMMA SetFirst ==
  ASSUME NEW S, NEW vec \in Vector(S), vec.entries = <<Null>>, NEW k \in S
  PROVE  [vec EXCEPT !.entries[1] = k] = [buffer |-> vec.buffer, entries |-> <<k>>]
<1>1. <<Null>> \in Seq(S \cup {Null}) /\ <<k>> \in Seq(S \cup {Null})
  OBVIOUS
<1>2. Len(<<Null>>) = 1 /\ Len(<<k>>) = 1 /\ <<k>>[1] = k
  OBVIOUS
<1>3. /\ [<<Null>> EXCEPT ![1] = k] \in Seq(S \cup {Null})
      /\ Len([<<Null>> EXCEPT ![1] = k]) = 1
      /\ [<<Null>> EXCEPT ![1] = k][1] = k
  BY <1>1, <1>2, ExceptSeq
<1>4. [<<Null>> EXCEPT ![1] = k] = <<k>>
  BY <1>1, <1>2, <1>3, SeqEqual
<1>5. vec = [buffer |-> vec.buffer, entries |-> <<Null>>]
  BY DEF Vector
<1>6. \A b, e : [[buffer |-> b, entries |-> e] EXCEPT !.entries[1] = k]
                  = [buffer |-> b, entries |-> [e EXCEPT ![1] = k]]
  OBVIOUS
<1> QED BY <1>4, <1>5, <1>6

LEMMA PushFirst ==
  ASSUME NEW S, NEW vec \in Vector(S), vec.entries = <<Null>>, NEW k \in S
  PROVE  SetFirstAndPush(vec, k) = [buffer |-> vec.buffer + 1, entries |-> <<k, Null>>]
<1>1. [vec.entries EXCEPT ![1] = k] = <<k>>
  <2>1. [vec EXCEPT !.entries[1] = k].entries = [vec.entries EXCEPT ![1] = k]
    BY DEF Vector
  <2> QED BY <2>1, SetFirst
<1>2. <<k>> \in Seq(S \cup {Null}) /\ Null \in S \cup {Null} /\ Len(<<k>>) = 1
  OBVIOUS
<1>3. Append(<<k>>, Null) = <<k, Null>>
  <2>1. /\ Append(<<k>>, Null) \in Seq(S \cup {Null})
        /\ Len(Append(<<k>>, Null)) = 2
        /\ Append(<<k>>, Null)[1] = <<k>>[1] /\ Append(<<k>>, Null)[2] = Null
    BY <1>2, AppendProperties
  <2>2. <<k, Null>> \in Seq(S \cup {Null}) /\ Len(<<k, Null>>) = 2
    OBVIOUS
  <2>3. \A i \in 1 .. 2 : Append(<<k>>, Null)[i] = <<k, Null>>[i]
    BY <2>1
  <2> QED BY <2>1, <2>2, <2>3, SeqEqual
<1> QED BY <1>1, <1>3 DEF SetFirstAndPush

(* Both are vectors again.                                                 *)
LEMMA StillVectors ==
  ASSUME NEW S, NEW k \in S, NEW b \in Nat
  PROVE  /\ [buffer |-> b, entries |-> <<k>>] \in Vector(S)
         /\ [buffer |-> b + 1, entries |-> <<k, Null>>] \in Vector(S)
<1>1. <<k>> \in Seq(S \cup {Null}) /\ <<k, Null>> \in Seq(S \cup {Null})
  OBVIOUS
<1> QED BY <1>1 DEF Vector

(* Every call of the builder keeps the forms, also one that panics.        *)
LEMMA StepPInv == PInv /\ [ParamsNext]_paramsVars => PInv'
<1> SUFFICES ASSUME PInv, [ParamsNext]_paramsVars PROVE PInv'
  OBVIOUS
<1>1. ASSUME NEW key \in Keys \cup LongKeys, AppendKvOverride(key) PROVE PInv'
  <2>1. /\ kv_overrides \in Vector(Keys \cup LongKeys)
        /\ BuftForm' /\ UNCHANGED <<buft_overrides, buft_ptr, load_mode, no_alloc, devices,
                                    devices_ptr, alive>>
    BY <1>1 DEF AppendKvOverride, PInv, ParamsTypeOK, BuftForm, modes
  <2>2. CASE UNCHANGED <<kv_overrides, kv_ptr, given>> /\ Panic
    BY <2>1, <2>2 DEF PInv, ParamsTypeOK, KvForm, Panic
  <2>3. CASE kv_overrides.entries[1] = Null
    <3>1. kv_overrides.entries = <<Null>> /\ kv_ptr = Null /\ given = <<>>
      BY <2>3, ModelParamsAssumption DEF PInv, KvForm
    <3>2. CASE /\ key \in LongKeys /\ Panic /\ UNCHANGED <<kv_ptr, given>>
               /\ kv_overrides' = [kv_overrides EXCEPT !.entries[1] = key]
      <4>1. kv_overrides' \in Vector(Keys \cup LongKeys) /\ kv_overrides'.entries = <<key>>
        <5>1. kv_overrides' = [buffer |-> kv_overrides.buffer, entries |-> <<key>>]
          BY <2>1, <3>1, <3>2, SetFirst
        <5>2. kv_overrides.buffer \in Nat
          BY <2>1 DEF Vector
        <5> QED BY <5>1, <5>2, StillVectors
      <4>2. KvForm'
        BY <3>1, <3>2, <4>1 DEF KvForm
      <4> QED BY <2>1, <3>2, <4>1, <4>2 DEF PInv, ParamsTypeOK, Panic
    <3>3. CASE /\ key \in Keys /\ kv_overrides' = SetFirstAndPush(kv_overrides, key)
               /\ kv_ptr' = kv_overrides'.buffer /\ given' = Append(given, key)
               /\ UNCHANGED panicked
      <4>1. /\ kv_overrides' \in Vector(Keys \cup LongKeys)
            /\ kv_overrides'.entries = <<key, Null>>
        <5>1. kv_overrides'
                = [buffer |-> kv_overrides.buffer + 1, entries |-> <<key, Null>>]
          BY <2>1, <3>1, <3>3, PushFirst
        <5>2. kv_overrides.buffer \in Nat
          BY <2>1 DEF Vector
        <5> QED BY <5>1, <5>2, StillVectors
      <4>2. given' = <<key>> /\ given' \in Seq(Keys)
        BY <3>1, <3>3
      <4>3. KvForm' /\ kv_ptr' \in Nat
        BY <3>3, <4>1, <4>2 DEF KvForm, Vector
      <4> QED BY <2>1, <3>3, <4>1, <4>2, <4>3 DEF PInv, ParamsTypeOK
    <3> QED BY <1>1, <2>2, <2>3, <3>2, <3>3 DEF AppendKvOverride
  <2> QED BY <1>1, <2>2, <2>3 DEF AppendKvOverride
<1>2. ASSUME NEW pattern \in Keys, AddCpuBuftOverride(pattern) PROVE PInv'
  <2>1. /\ buft_overrides \in Vector(Keys)
        /\ KvForm' /\ UNCHANGED <<kv_overrides, kv_ptr, load_mode, no_alloc, devices,
                                  devices_ptr, given, alive>>
    BY <1>2 DEF AddCpuBuftOverride, PInv, ParamsTypeOK, KvForm, modes
  <2>2. CASE UNCHANGED <<buft_overrides, buft_ptr>> /\ Panic
    BY <2>1, <2>2 DEF PInv, ParamsTypeOK, BuftForm, Panic
  <2>3. CASE /\ buft_overrides.entries[1] = Null
             /\ buft_overrides' = SetFirstAndPush(buft_overrides, pattern)
             /\ buft_ptr' = buft_overrides'.buffer /\ UNCHANGED panicked
    <3>1. buft_overrides.entries = <<Null>>
      BY <2>3, ModelParamsAssumption DEF PInv, BuftForm
    <3>2. buft_overrides' \in Vector(Keys) /\ buft_overrides'.entries = <<pattern, Null>>
      <4>1. buft_overrides'
              = [buffer |-> buft_overrides.buffer + 1, entries |-> <<pattern, Null>>]
        BY <2>1, <2>3, <3>1, PushFirst
      <4>2. buft_overrides.buffer \in Nat
        BY <2>1 DEF Vector
      <4> QED BY <4>1, <4>2, StillVectors
    <3>3. BuftForm' /\ buft_ptr' \in Nat
      BY <2>3, <3>2 DEF BuftForm, Vector
    <3> QED BY <2>1, <2>3, <3>2, <3>3 DEF PInv, ParamsTypeOK
  <2> QED BY <1>2, <2>2, <2>3 DEF AddCpuBuftOverride
<1>3. ASSUME NEW indices \in IndexLists, WithDevices(indices) PROVE PInv'
  <2>1. KvForm' /\ BuftForm'
    BY <1>3 DEF WithDevices, PInv, KvForm, BuftForm, lists
  <2>2. UNCHANGED <<kv_overrides, kv_ptr, buft_overrides, buft_ptr, load_mode, no_alloc,
                    given, panicked>>
    BY <1>3 DEF WithDevices, lists, modes
  <2>3. CASE alive' = FALSE /\ UNCHANGED <<devices, devices_ptr>>
    BY <2>1, <2>2, <2>3 DEF PInv, ParamsTypeOK
  <2>4. CASE /\ devices' = DeviceArray(indices) /\ devices_ptr' = TRUE /\ UNCHANGED alive
             /\ \A i \in DOMAIN indices : indices[i] \in Devices
    <3>1. devices' \in [1 .. MaxDevices -> Devices \cup {Null}]
      BY <2>4 DEF DeviceArray
    <3> QED BY <2>1, <2>2, <2>4, <3>1 DEF PInv, ParamsTypeOK
  <2> QED BY <1>3, <2>3, <2>4 DEF WithDevices
<1>4. ASSUME NEW flag \in BOOLEAN,
             WithUseMmap(flag) \/ WithUseMlock(flag) \/ WithNoAlloc(flag)
      PROVE  PInv'
  <2>1. UNCHANGED <<lists, devices, devices_ptr, given, panicked, alive>>
    BY <1>4 DEF WithUseMmap, WithUseMlock, WithNoAlloc
  <2>2. \A f, g \in BOOLEAN : LoadModeFromFlags(f, g) \in LoadModes
    BY DEF LoadModeFromFlags, LoadModes
  <2>3. UseMmap(load_mode) \in BOOLEAN /\ UseMlock(load_mode) \in BOOLEAN
    BY DEF UseMmap, UseMlock
  <2>4. load_mode' \in LoadModes /\ no_alloc' \in BOOLEAN
    BY <1>4, <2>2, <2>3
       DEF WithUseMmap, WithUseMlock, WithNoAlloc, PInv, ParamsTypeOK
  <2> QED BY <2>1, <2>4 DEF PInv, ParamsTypeOK, KvForm, BuftForm, lists
<1>5. CASE UNCHANGED paramsVars
  BY <1>5 DEF paramsVars, lists, modes, PInv, ParamsTypeOK, KvForm, BuftForm
<1> QED BY <1>1, <1>2, <1>3, <1>4, <1>5 DEF ParamsNext

(* So it holds for every order of calls.                                   *)
LEMMA SpecPInv == ParamsSpec => []PInv
BY ParamsInitInv, StepPInv, PTL DEF ParamsSpec

(* The builder keeps its types, for any keys and devices and an array of   *)
(* any length: with_devices fills the array whole, and a panic in the      *)
(* middle of append_kv_override leaves a vector that is one.               *)
THEOREM BuilderTypes == ParamsSpec => []ParamsTypeOK
<1>1. PInv => ParamsTypeOK
  BY DEF PInv
<1> QED BY <1>1, SpecPInv, PTL

(* A pointer that is set leads to the buffer its vector is in, and the     *)
(* walk from it ends, however often the vectors moved and whatever calls   *)
(* panicked (params.rs:212-228).                                           *)
THEOREM WalksEnd == ParamsSpec => []VectorsWalkable
<1>1. PInv => VectorsWalkable
  <2> SUFFICES ASSUME PInv PROVE VectorsWalkable
    OBVIOUS
  <2>1. Walkable(kv_ptr, kv_overrides)
    BY DEF PInv, KvForm, Walkable
  <2>2. Walkable(buft_ptr, buft_overrides)
    BY DEF PInv, BuftForm, Walkable
  <2> QED BY <2>1, <2>2 DEF VectorsWalkable
<1> QED BY <1>1, SpecPInv, PTL

(* The sequence of the first element alone.                                *)
LEMMA FirstOf ==
  ASSUME NEW S, NEW s, s[1] \in S
  PROVE  SubSeq(s, 1, 1) = <<s[1]>>
<1>1. /\ SubSeq(s, 1, 1) \in Seq(S)
      /\ Len(SubSeq(s, 1, 1)) = 1
      /\ SubSeq(s, 1, 1)[1] = s[1]
  <2>1. \A i \in 1 .. 1 : s[i] \in S
    OBVIOUS
  <2>2. \A m, n \in Int :
          (\A i \in m .. n : s[i] \in S) =>
            /\ SubSeq(s, m, n) \in Seq(S)
            /\ Len(SubSeq(s, m, n)) = IF m <= n THEN n - m + 1 ELSE 0
            /\ \A i \in 1 .. n - m + 1 : SubSeq(s, m, n)[i] = s[m + i - 1]
    BY SubSeqProperties
  <2> QED BY <2>1, <2>2
<1>2. <<s[1]>> \in Seq(S) /\ Len(<<s[1]>>) = 1
  OBVIOUS
<1>3. \A i \in 1 .. 1 : SubSeq(s, 1, 1)[i] = <<s[1]>>[i]
  BY <1>1
<1> QED BY <1>1, <1>2, <1>3, SeqEqual

(* llama.cpp finds the overrides append_kv_override returned for, and only *)
(* those (params.rs:176-194).                                              *)
THEOREM OverridesFound == ParamsSpec => []OverridesAreTheGiven
<1>1. PInv => OverridesAreTheGiven
  <2> SUFFICES ASSUME PInv PROVE OverridesAreTheGiven
    OBVIOUS
  <2>1. CASE kv_ptr = Null /\ given = <<>>
    BY <2>1 DEF OverridesAreTheGiven
  <2>2. ASSUME NEW k \in Keys, kv_overrides.entries = <<k, Null>>,
               kv_ptr = kv_overrides.buffer, given = <<k>>
        PROVE  OverridesAreTheGiven
    <3>1. kv_ptr # Null
      BY <2>2, ModelParamsAssumption DEF PInv, ParamsTypeOK, Vector
    <3>2. {i \in DOMAIN kv_overrides.entries : kv_overrides.entries[i] = Null} = {2}
      BY <2>2, ModelParamsAssumption
    <3>3. (CHOOSE i \in {2} : \A j \in {2} : i <= j) = 2
      OBVIOUS
    <3>4. UpToNull(kv_overrides.entries) = SubSeq(<<k, Null>>, 1, 1)
      BY <2>2, <3>2, <3>3 DEF UpToNull
    <3>5. SubSeq(<<k, Null>>, 1, 1) = <<k>>
      BY FirstOf
    <3> QED BY <2>2, <3>1, <3>4, <3>5 DEF OverridesAreTheGiven
  <2> QED BY <2>1, <2>2 DEF PInv, KvForm
<1> QED BY <1>1, SpecPInv, PTL

(* Each setter of the load mode leaves its own flag as it was given and    *)
(* the other one as it was, though both are read from the mode and stored  *)
(* in it again (params.rs:389-399, 448-454).                               *)
THEOREM FlagsApart == ParamsSpec => FlagsAreIndependent
<1> DEFINE Apart ==
             /\ \A b \in BOOLEAN :
                  /\ WithUseMmap(b) => Flags' = <<b, Flags[2]>> /\ no_alloc' = no_alloc
                  /\ WithUseMlock(b) => Flags' = <<Flags[1], b>> /\ no_alloc' = no_alloc
                  /\ WithNoAlloc(b) => Flags' = <<Flags[1] /\ ~b, Flags[2]>> /\ no_alloc' = b
             /\ Flags' # Flags => \E b \in BOOLEAN :
                  WithUseMmap(b) \/ WithUseMlock(b) \/ WithNoAlloc(b)
<1>1. ASSUME PInv, ParamsNext
      PROVE  Apart
  <2>1. \A f, g \in BOOLEAN : /\ UseMmap(LoadModeFromFlags(f, g)) = f
                              /\ UseMlock(LoadModeFromFlags(f, g)) = g
    BY DEF LoadModeFromFlags, UseMmap, UseMlock
  <2>2. PICK mmap \in BOOLEAN, mlock \in BOOLEAN :
          mmap = UseMmap(load_mode) /\ mlock = UseMlock(load_mode)
    <3>1. UseMmap(load_mode) \in BOOLEAN /\ UseMlock(load_mode) \in BOOLEAN
      BY DEF UseMmap, UseMlock
    <3> QED BY <3>1, Zenon
  <2>3. Flags = <<mmap, mlock>>
    BY <2>2, Zenon DEF Flags
  <2>4. ASSUME NEW f \in BOOLEAN, NEW g \in BOOLEAN, load_mode' = LoadModeFromFlags(f, g)
        PROVE  Flags' = <<f, g>>
    <3>1. UseMmap(load_mode') = f /\ UseMlock(load_mode') = g
      BY <2>1, <2>4
    <3> QED BY <3>1, Zenon DEF Flags, UseMmap, UseMlock
  <2>5. load_mode' = load_mode => Flags' = Flags
    BY DEF Flags, UseMmap, UseMlock
  <2>6. ASSUME NEW b \in BOOLEAN, WithUseMmap(b)
        PROVE  Flags' = <<b, mlock>> /\ no_alloc' = no_alloc
    BY <2>2, <2>4, <2>6 DEF WithUseMmap
  <2>7. ASSUME NEW b \in BOOLEAN, WithUseMlock(b)
        PROVE  Flags' = <<mmap, b>> /\ no_alloc' = no_alloc
    BY <2>2, <2>4, <2>7 DEF WithUseMlock
  <2>8. ASSUME NEW b \in BOOLEAN, WithNoAlloc(b)
        PROVE  Flags' = <<mmap /\ ~b, mlock>> /\ no_alloc' = b
    <3>1. CASE b = TRUE
      <4>1. load_mode' = LoadModeFromFlags(FALSE, mlock) /\ no_alloc' = b
        BY <2>2, <2>8, <3>1 DEF WithNoAlloc
      <4>2. Flags' = <<FALSE, mlock>>
        BY <2>4, <4>1
      <4>3. (mmap /\ ~b) = FALSE
        BY <3>1
      <4> QED BY <4>1, <4>2, <4>3, Zenon
    <3>2. CASE b = FALSE
      <4>1. load_mode' = load_mode /\ no_alloc' = b
        BY <2>8, <3>2 DEF WithNoAlloc
      <4>2. (mmap /\ ~b) = mmap
        BY <2>2, <3>2
      <4> QED BY <2>3, <2>5, <4>1, <4>2, Zenon
    <3> QED BY <3>1, <3>2
  <2>9. Flags[1] = mmap /\ Flags[2] = mlock
    BY <2>3
  <2>10. \A b \in BOOLEAN :
           /\ WithUseMmap(b) => Flags' = <<b, Flags[2]>> /\ no_alloc' = no_alloc
           /\ WithUseMlock(b) => Flags' = <<Flags[1], b>> /\ no_alloc' = no_alloc
           /\ WithNoAlloc(b) => Flags' = <<Flags[1] /\ ~b, Flags[2]>> /\ no_alloc' = b
    BY <2>6, <2>7, <2>8, <2>9, Zenon
  <2>11. CASE \/ \E key \in Keys \cup LongKeys : AppendKvOverride(key)
              \/ \E pattern \in Keys : AddCpuBuftOverride(pattern)
              \/ \E indices \in IndexLists : WithDevices(indices)
    <3>1. load_mode' = load_mode
      BY <2>11 DEF AppendKvOverride, AddCpuBuftOverride, WithDevices, modes
    <3>2. Flags' = Flags
      BY <2>5, <3>1
    <3> QED BY <2>10, <3>2, Zenon
  <2>12. CASE \E flag \in BOOLEAN : WithUseMmap(flag) \/ WithUseMlock(flag)
                                    \/ WithNoAlloc(flag)
    BY <2>10, <2>12, Zenon
  <2> QED BY <1>1, <2>11, <2>12 DEF ParamsNext
<1>2. PInv /\ [ParamsNext]_paramsVars => [Apart]_paramsVars
  BY <1>1
<1> HIDE DEF Apart
<1>3. ParamsSpec => [][Apart]_paramsVars
  BY <1>2, SpecPInv, PTL DEF ParamsSpec
<1> QED BY <1>3 DEF Apart, FlagsAreIndependent

-----------------------------------------------------------------------------
(* Text out of tokens.  The decoder reads byte by byte, a recursive        *)
(* function: what it has done after i bytes is shown with the least i at   *)
(* which it would not have.                                                *)

(* A set of numbers has a least one: induction without an operator.        *)
LEMMA LeastNatural ==
  ASSUME NEW T, T \subseteq Nat, T # {}
  PROVE  \E x \in T : \A y \in T : ~(y < x)
<1> DEFINE R == OpToRel(<, Nat)
<1>1. IsWellFoundedOn(R, Nat)
  BY NatLessThanWellFounded
<1>2. \A x, y \in Nat : <<y, x>> \in R <=> y < x
  BY DEF OpToRel
<1> HIDE DEF R
<1>3. PICK x \in T : \A y \in T : ~(<<y, x>> \in R)
  BY <1>1, WFMin
<1> QED BY <1>2, <1>3

-----------------------------------------------------------------------------
(* The bytes of a text, one after the other.                               *)
LEMMA TextByte ==
  ASSUME IsText(text), NEW m \in 1 .. Len(text)
  PROVE  /\ text[m] \in Byte /\ text[m].part <= text[m].width
         /\ text[m].char \in Chars /\ text[m] # Nothing
         /\ AtBoundary(m - 1) => text[m].part = 1
         /\ ~AtBoundary(m - 1) => /\ Continues(text[m - 1], text[m])
                                  /\ m - 1 \in 1 .. Len(text)
                                  /\ text[m].part = text[m - 1].part + 1
                                  /\ text[m].width = text[m - 1].width
                                  /\ text[m].char = text[m - 1].char
<1>1. text \in Seq(Byte) /\ Len(text) \in Nat
  BY DEF IsText
<1>2. text[m] \in Byte /\ text[m].part <= text[m].width
  BY <1>1 DEF IsText
<1>3. text[m].char \in Chars
  BY DEF Chars
<1>4. text[m] # Nothing
  <2>1. text[m].char # 0 /\ Nothing.char = 0
    BY <1>2 DEF Byte, Nothing, Bad
  <2> QED BY <2>1
<1>5. \/ m > 1 /\ ~EndsChar(text[m - 1]) /\ Continues(text[m - 1], text[m])
      \/ /\ text[m].part = 1
         /\ IF m = 1 THEN text[m].char = 1
            ELSE EndsChar(text[m - 1]) /\ text[m].char = text[m - 1].char + 1
  BY DEF IsText
<1>6. m - 1 = 0 <=> m = 1
  OBVIOUS
<1>7. AtBoundary(m - 1) <=> m = 1 \/ EndsChar(text[m - 1])
  BY <1>6 DEF AtBoundary
<1>8. AtBoundary(m - 1) => text[m].part = 1
  BY <1>5, <1>7
<1>9. ASSUME ~AtBoundary(m - 1)
      PROVE  /\ Continues(text[m - 1], text[m])
             /\ m - 1 \in 1 .. Len(text)
             /\ text[m].part = text[m - 1].part + 1
             /\ text[m].width = text[m - 1].width
             /\ text[m].char = text[m - 1].char
  <2>1. Continues(text[m - 1], text[m]) /\ m - 1 \in 1 .. Len(text)
    BY <1>1, <1>5, <1>7, <1>9
  <2>2. text[m - 1] \in Byte
    BY <1>1, <2>1
  <2> QED BY <2>1, <2>2 DEF Continues, Byte
<1> QED BY <1>2, <1>3, <1>4, <1>8, <1>9

(* One more byte shows one more character if it is its last.               *)
LEMMA OneMoreByte ==
  ASSUME IsText(text), NEW m \in 1 .. Len(text)
  PROVE  /\ Complete(m) \in Nat /\ Complete(m - 1) \in Nat
         /\ EndsChar(text[m]) => /\ Complete(m) = Complete(m - 1) + 1
                                 /\ text[m].char = Complete(m)
                                 /\ Shown(m) = Append(Shown(m - 1), text[m].char)
         /\ ~EndsChar(text[m]) => Shown(m) = Shown(m - 1)
<1>1. text[m] \in Byte /\ m # 0 /\ (m - 1 = 0 <=> m = 1)
  BY TextByte
<1>2. m > 1 => m - 1 \in 1 .. Len(text) /\ text[m - 1] \in Byte
  <2>1. text \in Seq(Byte)
    BY DEF IsText
  <2> QED BY <2>1
<1>3. \/ m > 1 /\ ~EndsChar(text[m - 1]) /\ Continues(text[m - 1], text[m])
      \/ /\ text[m].part = 1
         /\ IF m = 1 THEN text[m].char = 1
            ELSE EndsChar(text[m - 1]) /\ text[m].char = text[m - 1].char + 1
  BY DEF IsText
<1>4. Complete(m) = IF EndsChar(text[m]) THEN text[m].char ELSE text[m].char - 1
  BY <1>1 DEF Complete
<1>5. Complete(m - 1) = text[m].char - 1
  <2>1. CASE m = 1
    BY <1>1, <1>3, <2>1 DEF Complete
  <2>2. CASE m > 1 /\ ~EndsChar(text[m - 1]) /\ Continues(text[m - 1], text[m])
    <3>1. text[m].char = text[m - 1].char
      BY <1>1, <1>2, <2>2 DEF Continues, Byte
    <3> QED BY <1>1, <2>2, <3>1 DEF Complete
  <2>3. CASE m > 1 /\ EndsChar(text[m - 1]) /\ text[m].char = text[m - 1].char + 1
    BY <1>1, <1>2, <2>3 DEF Complete, Byte
  <2> QED BY <1>1, <1>3, <2>1, <2>2, <2>3
<1>6. text[m].char \in Nat \ {0}
  BY <1>1 DEF Byte
<1>7. Complete(m) \in Nat /\ Complete(m - 1) \in Nat
  BY <1>4, <1>5, <1>6
<1>8. ASSUME EndsChar(text[m])
      PROVE  /\ Complete(m) = Complete(m - 1) + 1 /\ text[m].char = Complete(m)
             /\ Shown(m) = Append(Shown(m - 1), text[m].char)
  <2>1. Complete(m) = Complete(m - 1) + 1 /\ text[m].char = Complete(m)
    BY <1>4, <1>5, <1>6, <1>8
  <2>2. PICK c \in Nat : c = Complete(m - 1)
    BY <1>7
  <2>3. Shown(m - 1) = [k \in 1 .. c |-> k] /\ Shown(m) = [k \in 1 .. c + 1 |-> k]
    BY <2>1, <2>2 DEF Shown
  <2>4. [k \in 1 .. c + 1 |-> k] = Append([k \in 1 .. c |-> k], c + 1)
    OBVIOUS
  <2> QED BY <2>1, <2>2, <2>3, <2>4
<1>9. ASSUME ~EndsChar(text[m])
      PROVE  Shown(m) = Shown(m - 1)
  BY <1>4, <1>5, <1>9 DEF Shown
<1> QED BY <1>7, <1>8, <1>9

(* What is shown are characters of the text.                               *)
LEMMA ShownType ==
  ASSUME IsText(text), NEW n \in 0 .. Len(text)
  PROVE  Shown(n) \in Seq({Bad} \cup Chars)
<1> DEFINE V == {Bad} \cup Chars
           T == {k \in 0 .. Len(text) : Shown(k) \notin Seq(V)}
<1>0. Len(text) \in Nat
  BY DEF IsText
<1>1. T = {}
  <2> SUFFICES ASSUME T # {} PROVE FALSE
    OBVIOUS
  <2>1. PICK k \in T : \A j \in T : ~(j < k)
    <3>1. T \subseteq Nat
      BY <1>0
    <3> HIDE DEF T
    <3> QED BY <3>1, LeastNatural
  <2>2. k # 0
    <3>1. Shown(0) = [c \in 1 .. 0 |-> c]
      BY DEF Shown, Complete
    <3>2. Shown(0) = <<>>
      BY <3>1
    <3>3. <<>> \in Seq(V)
      OBVIOUS
    <3> HIDE DEF V
    <3> QED BY <3>2, <3>3
  <2>3. k \in 1 .. Len(text) /\ k - 1 \in 0 .. Len(text) /\ k - 1 < k
    BY <1>0, <2>2
  <2>4. Shown(k - 1) \in Seq(V)
    BY <2>1, <2>3
  <2>5. text[k].char \in V
    BY <2>3, TextByte
  <2>6. Shown(k) \in Seq(V)
    <3> HIDE DEF V
    <3>1. Shown(k) = Append(Shown(k - 1), text[k].char) \/ Shown(k) = Shown(k - 1)
      BY <2>3, OneMoreByte
    <3>2. Append(Shown(k - 1), text[k].char) \in Seq(V)
      BY <2>4, <2>5
    <3> QED BY <2>4, <3>1, <3>2
  <2> QED BY <2>6
<1> QED BY <1>1

(* A character that has begun before a boundary has ended there.           *)
LEMMA EndsBefore ==
  ASSUME IsText(text), NEW m \in 1 .. Len(text), NEW n \in 1 .. Len(text), m <= n,
         EndsChar(text[n])
  PROVE  text[m].width - text[m].part <= n - m
<1> DEFINE T == {d \in 0 .. n : n - d >= 1
                                /\ text[n - d].width - text[n - d].part > d}
<1>0. Len(text) \in Nat /\ \A k \in 1 .. Len(text) : text[k].width \in Nat /\ text[k].part \in Nat
  <2>1. \A k \in 1 .. Len(text) : text[k] \in Byte
    BY TextByte
  <2>2. Len(text) \in Nat
    BY DEF IsText
  <2>3. \A b \in Byte : b.width \in Nat /\ b.part \in Nat
    BY DEF Byte, Widest
  <2> QED BY <2>1, <2>2, <2>3
<1>1. T = {}
  <2> SUFFICES ASSUME T # {} PROVE FALSE
    OBVIOUS
  <2>1. PICK d \in T : \A j \in T : ~(j < d)
    <3>1. T \subseteq Nat
      BY <1>0
    <3> HIDE DEF T
    <3> QED BY <3>1, LeastNatural
  <2>2. d # 0
    BY <1>0 DEF EndsChar
  <2>3. d - 1 \in 0 .. n /\ d - 1 < d /\ n - (d - 1) = (n - d) + 1
        /\ n - d \in 1 .. Len(text) /\ (n - d) + 1 \in 1 .. Len(text)
        /\ ((n - d) + 1) - 1 = n - d /\ n - d # 0
    BY <1>0, <2>2
  <2>4. ~EndsChar(text[n - d])
    <3>1. text[n - d].width - text[n - d].part > d /\ d \in Nat
      BY <1>0
    <3>2. text[n - d].width \in Nat /\ text[n - d].part \in Nat
      BY <1>0, <2>3
    <3>3. text[n - d].width # text[n - d].part
      BY ONLY <3>1, <3>2
    <3> QED BY <3>3 DEF EndsChar
  <2>5. ~AtBoundary(n - d)
    BY <2>3, <2>4 DEF AtBoundary
  <2>6. PICK j \in 1 .. Len(text) : j = (n - d) + 1
    BY <2>3
  <2>7. text[j].part = text[n - d].part + 1 /\ text[j].width = text[n - d].width
    BY <2>3, <2>5, <2>6, TextByte
  <2>8. d - 1 \in T
    BY <1>0, <2>3, <2>6, <2>7
  <2> QED BY <2>1, <2>3, <2>8
<1>2. \A d \in 0 .. n : n - d >= 1 => ~(text[n - d].width - text[n - d].part > d)
  BY <1>1
<1>3. n - m \in 0 .. n /\ n - (n - m) = m /\ m >= 1
  BY <1>0
<1>4. ~(text[m].width - text[m].part > n - m)
  BY <1>2, <1>3
<1> QED BY <1>0, <1>3, <1>4

-----------------------------------------------------------------------------
(* Decode is its steps, byte by byte.                                      *)
LEMMA DecodeSteps ==
  ASSUME NEW d, NEW piece, NEW refuses, Len(piece) \in Nat
  PROVE  \E after : /\ after[0] = d
                    /\ \A i \in 1 .. Len(piece) :
                         after[i] = DecodeByte(after[i - 1], piece, i, refuses)
                    /\ Decode(d, piece, refuses) = after[Len(piece)]
<1> DEFINE Eq(f, n) == f = [i \in 0 .. n |->
                             IF i = 0 THEN d
                             ELSE DecodeByte(f[i - 1], piece, i, refuses)]
           T == {n \in Nat : ~ \E f : Eq(f, n)}
<1>1. T = {}
  <2> SUFFICES ASSUME T # {} PROVE FALSE
    OBVIOUS
  <2>1. PICK n \in T : \A j \in T : ~(j < n)
    <3>1. T \subseteq Nat
      OBVIOUS
    <3> HIDE DEF T
    <3> QED BY <3>1, LeastNatural
  <2>2. n # 0
    <3> DEFINE f == [i \in 0 .. 0 |-> d]
    <3>1. Eq(f, 0)
      <4>1. \A i \in 0 .. 0 : i = 0
        OBVIOUS
      <4> QED BY <4>1
    <3> QED BY <3>1
  <2>3. n \in Nat /\ n - 1 \in Nat /\ n - 1 < n
    BY <2>2
  <2>4. PICK f : Eq(f, n - 1)
    BY <2>1, <2>3
  <2> DEFINE g == [i \in 0 .. n |-> IF i = n THEN DecodeByte(f[n - 1], piece, n, refuses)
                                    ELSE f[i]]
  <2>5. ASSUME NEW i \in 0 .. n
        PROVE  g[i] = IF i = 0 THEN d ELSE DecodeByte(g[i - 1], piece, i, refuses)
    <3>1. CASE i = n
      <4>1. n - 1 \in 0 .. n /\ n - 1 # n
        BY <2>2, <2>3
      <4>2. g[n - 1] = f[n - 1]
        BY <4>1
      <4> QED BY <2>2, <3>1, <4>2
    <3>2. CASE i # n /\ i # 0
      <4>1. i \in 0 .. n - 1 /\ i - 1 \in 0 .. n /\ i - 1 # n
        BY <2>3, <3>2
      <4>2. g[i] = f[i] /\ g[i - 1] = f[i - 1]
        BY <3>2, <4>1
      <4>3. f[i] = DecodeByte(f[i - 1], piece, i, refuses)
        <5> HIDE DEF g
        <5> QED BY <2>4, <3>2, <4>1
      <4> QED BY <3>2, <4>2, <4>3
    <3>3. CASE i # n /\ i = 0
      <4>1. 0 \in 0 .. n - 1 /\ 0 \in 0 .. n /\ 0 # n
        BY <2>2, <2>3
      <4>2. g[0] = f[0] /\ f[0] = d
        BY <2>4, <4>1
      <4> QED BY <3>3, <4>2
    <3> QED BY <3>1, <3>2, <3>3
  <2>6. Eq(g, n)
    BY <2>5
  <2> QED BY <2>1, <2>6
<1>2. PICK after : Eq(after, Len(piece))
  BY <1>1
<1>3. Decode(d, piece, refuses)
        = (CHOOSE f : Eq(f, Len(piece)))[Len(piece)]
  BY DEF Decode
<1>4. PICK f : f = (CHOOSE g : Eq(g, Len(piece)))
  OBVIOUS
<1>5. Eq(f, Len(piece))
  <2> HIDE DEF Eq
  <2> QED BY <1>2, <1>4
<1>6. Decode(d, piece, refuses) = f[Len(piece)]
  BY <1>3, <1>4
<1>7. f[0] = d
  BY <1>5
<1>8. ASSUME NEW i \in 1 .. Len(piece)
      PROVE  f[i] = DecodeByte(f[i - 1], piece, i, refuses)
  BY <1>5
<1> QED BY <1>6, <1>7, <1>8

-----------------------------------------------------------------------------
(* What the decoder may keep after n bytes of the text, and its state.     *)
Kept(n) == {Nothing} \cup {text[k] : k \in {j \in 1 .. n : ~AtBoundary(j)}}

Decoders(n, i) == [keeps : Kept(n), written : Seq({Bad} \cup Chars), room : Nat,
                   read : 0 .. i, full : BOOLEAN]

(* A character is written, or there is no room for it.                     *)
LEMMA Writes ==
  ASSUME NEW n, NEW i \in Nat, NEW d \in Decoders(n, i), NEW refuses,
         NEW b, b.char \in {Bad} \cup Chars, b.width \in Nat,
         NEW e, e = Write(d, b, refuses)
  PROVE  /\ e \in Decoders(n, i) /\ e.read = d.read
         /\ IF b.width > d.room \/ (refuses /\ d.room < Widest) THEN e.full
            ELSE /\ e.keeps = Nothing /\ e.room = d.room - b.width
                 /\ e.written = Append(d.written, b.char) /\ e.full = d.full
<1> DEFINE V == {Bad} \cup Chars
<1>0. Nothing \in Kept(n)
  BY DEF Kept
<1>1. d.keeps \in Kept(n) /\ d.written \in Seq(V) /\ d.room \in Nat
      /\ d.read \in 0 .. i /\ d.full \in BOOLEAN
      /\ d = [keeps |-> d.keeps, written |-> d.written, room |-> d.room,
              read |-> d.read, full |-> d.full]
  BY DEF Decoders
<1>2. CASE b.width > d.room \/ (refuses /\ d.room < Widest)
  <2>1. e = [d EXCEPT !.full = TRUE]
    BY <1>2 DEF Write
  <2>2. e = [keeps |-> d.keeps, written |-> d.written, room |-> d.room,
             read |-> d.read, full |-> TRUE]
    BY <1>1, <2>1
  <2>3. e \in Decoders(n, i) /\ e.read = d.read /\ e.full = TRUE
    BY <1>1, <2>2 DEF Decoders
  <2> QED BY <1>2, <2>3
<1>3. CASE ~(b.width > d.room \/ (refuses /\ d.room < Widest))
  <2>1. e = [d EXCEPT !.written = Append(@, b.char), !.room = @ - b.width,
                      !.keeps = Nothing]
    BY <1>3 DEF Write
  <2>2. e = [keeps |-> Nothing, written |-> Append(d.written, b.char),
             room |-> d.room - b.width, read |-> d.read, full |-> d.full]
    BY <1>1, <2>1
  <2>3. Append(d.written, b.char) \in Seq(V)
    <3>1. b.char \in V
      OBVIOUS
    <3> HIDE DEF V
    <3> QED BY <1>1, <3>1
  <2>4. d.room - b.width \in Nat
    BY <1>1, <1>3
  <2> QED BY <1>0, <1>1, <1>3, <2>2, <2>3, <2>4 DEF Decoders
<1> QED BY <1>2, <1>3

(* A byte is kept, or refused.                                             *)
LEMMA Keeping ==
  ASSUME NEW n, NEW i \in Nat, NEW d \in Decoders(n, i), NEW refuses,
         NEW b \in Kept(n), NEW e, e = Keep(d, b, refuses)
  PROVE  /\ e \in Decoders(n, i) /\ e.read = d.read
         /\ IF refuses /\ d.room < Widest THEN e.full
            ELSE /\ e.keeps = b /\ e.room = d.room
                 /\ e.written = d.written /\ e.full = d.full
<1>1. d.keeps \in Kept(n) /\ d.written \in Seq({Bad} \cup Chars) /\ d.room \in Nat
      /\ d.read \in 0 .. i /\ d.full \in BOOLEAN
      /\ d = [keeps |-> d.keeps, written |-> d.written, room |-> d.room,
              read |-> d.read, full |-> d.full]
  BY DEF Decoders
<1>2. CASE refuses /\ d.room < Widest
  <2>1. e = [keeps |-> d.keeps, written |-> d.written, room |-> d.room,
             read |-> d.read, full |-> TRUE]
    BY <1>1, <1>2 DEF Keep
  <2>3. e \in Decoders(n, i) /\ e.read = d.read /\ e.full = TRUE
    BY <1>1, <2>1 DEF Decoders
  <2> QED BY <1>2, <2>3
<1>3. CASE ~(refuses /\ d.room < Widest)
  <2>1. e = [keeps |-> b, written |-> d.written, room |-> d.room,
             read |-> d.read, full |-> d.full]
    BY <1>1, <1>3 DEF Keep
  <2> QED BY <1>1, <1>3, <2>1 DEF Decoders
<1> QED BY <1>2, <1>3

(* Further on in the text, the decoder may keep more.                      *)
LEMMA LaterDecoders ==
  ASSUME NEW m \in Nat \ {0}, NEW i \in Nat \ {0}
  PROVE  Decoders(m - 1, i - 1) \subseteq Decoders(m, i - 1)
<1>1. Kept(m - 1) \subseteq Kept(m)
  BY DEF Kept
<1> HIDE DEF Kept
<1> QED BY <1>1 DEF Decoders

(* One byte of the text through the decoder.                               *)
LEMMA ByteRead ==
  ASSUME IsText(text), NEW m \in 1 .. Len(text), NEW i \in Nat \ {0},
         NEW d \in Decoders(m - 1, i - 1), ~d.full, NEW refuses, NEW whole,
         NEW e, e = ReadByte(d, text[m], refuses, whole)
  PROVE  e \in Decoders(m, i) /\ (e.full => e.read < i)
<1>1. text[m].char \in {Bad} \cup Chars /\ text[m].width \in Nat
  <2>1. text[m] \in Byte /\ text[m].char \in Chars
    BY TextByte
  <2> QED BY <2>1 DEF Byte, Widest
<1>2. m \in Nat \ {0} /\ i - 1 \in Nat
  BY DEF IsText
<1>3. d \in Decoders(m, i - 1)
  BY <1>2, LaterDecoders
<1>4. Nothing.char \in {Bad} \cup Chars /\ Nothing.width \in Nat
  BY DEF Nothing
<1> DEFINE f == CASE text[m].part # 1 /\ d.keeps = Nothing -> Write(d, Nothing, refuses)
                  [] EndsChar(text[m]) -> Write(d, text[m], refuses /\ ~whole)
                  [] OTHER -> Keep(d, text[m], refuses /\ ~whole)
<1>5. PICK r : r = (refuses /\ ~whole)
  OBVIOUS
<1>6. f \in Decoders(m, i - 1) /\ f.read = d.read
  <2>1. CASE text[m].part # 1 /\ d.keeps = Nothing
    <3>1. f = Write(d, Nothing, refuses) \/ f = Write(d, text[m], r)
      BY <1>5, <2>1
    <3> HIDE DEF f
    <3> QED BY <1>1, <1>2, <1>3, <1>4, <3>1, Writes
  <2>2. CASE ~(text[m].part # 1 /\ d.keeps = Nothing) /\ EndsChar(text[m])
    <3>1. f = Write(d, text[m], r)
      BY <1>5, <2>2
    <3> HIDE DEF f
    <3> QED BY <1>1, <1>2, <1>3, <3>1, Writes
  <2>3. CASE ~(text[m].part # 1 /\ d.keeps = Nothing) /\ ~EndsChar(text[m])
    <3>1. f = Keep(d, text[m], r)
      BY <1>5, <2>3
    <3>2. text[m] \in Kept(m)
      <4>1. m \in 1 .. m /\ ~AtBoundary(m)
        BY <1>2, <2>3 DEF AtBoundary
      <4> QED BY <4>1 DEF Kept
    <3> HIDE DEF f
    <3> QED BY <1>2, <1>3, <3>1, <3>2, Keeping
  <2> QED BY <2>1, <2>2, <2>3
<1>7. e = IF f.full THEN f ELSE [f EXCEPT !.read = @ + 1]
  BY DEF ReadByte
<1>8. d.read \in 0 .. i - 1
  BY <1>3 DEF Decoders
<1> HIDE DEF f
<1>9. CASE f.full
  BY <1>6, <1>7, <1>8, <1>9 DEF Decoders
<1>10. CASE ~f.full
  <2>1. f.keeps \in Kept(m) /\ f.written \in Seq({Bad} \cup Chars) /\ f.room \in Nat
        /\ f.full = FALSE
        /\ f = [keeps |-> f.keeps, written |-> f.written, room |-> f.room,
                read |-> f.read, full |-> f.full]
    BY <1>6, <1>10 DEF Decoders
  <2>2. e = [keeps |-> f.keeps, written |-> f.written, room |-> f.room,
             read |-> f.read + 1, full |-> FALSE]
    <3>1. e = [f EXCEPT !.read = @ + 1]
      BY <1>7, <1>10
    <3> QED BY ONLY <2>1, <3>1
  <2>3. f.read + 1 \in 0 .. i
    BY <1>6, <1>8
  <2>4. e \in Decoders(m, i)
    BY <2>1, <2>2, <2>3 DEF Decoders
  <2>5. e.full = FALSE
    BY ONLY <2>2
  <2> QED BY <2>4, <2>5
<1> QED BY <1>9, <1>10

(* The same byte after what may be unfinished before it.                   *)
LEMMA ByteDecoded ==
  ASSUME IsText(text), NEW m \in 1 .. Len(text), NEW i \in Nat \ {0},
         NEW d \in Decoders(m - 1, i - 1), NEW refuses, NEW piece, piece[i] = text[m],
         NEW e, e = DecodeByte(d, piece, i, refuses)
  PROVE  e \in Decoders(m, i) /\ (e.full => e.read < i)
<1>1. m \in Nat \ {0} /\ i - 1 \in Nat
  BY DEF IsText
<1>2. d \in Decoders(m, i - 1)
  BY <1>1, LaterDecoders
<1>3. PICK free : free = IF d.full THEN d ELSE Interrupt(d, text[m], refuses)
  OBVIOUS
<1>4. PICK whole : whole = (/\ i - text[m].part + 1 >= 1
                            /\ i - text[m].part + 1 + text[m].width - 1 <= Len(piece)
                            /\ text[m].width <= free.room)
  OBVIOUS
<1>5. e = IF free.full THEN free ELSE ReadByte(free, text[m], refuses, whole)
  BY <1>3, <1>4 DEF DecodeByte
<1>6. free \in Decoders(m - 1, i - 1)
  <2>1. free = d \/ free = Write(d, Nothing, refuses)
    BY <1>3 DEF Interrupt
  <2>2. Nothing.char \in {Bad} \cup Chars /\ Nothing.width \in Nat
    BY DEF Nothing
  <2> QED BY <1>1, <2>1, <2>2, Writes
<1>7. CASE free.full
  <2>1. e = free
    BY <1>5, <1>7
  <2>2. free \in Decoders(m, i - 1)
    BY <1>1, <1>6, LaterDecoders
  <2>3. Decoders(m, i - 1) \subseteq Decoders(m, i) /\ \A f \in Decoders(m, i - 1) : f.read < i
    BY <1>1 DEF Decoders
  <2> QED BY <2>1, <2>2, <2>3
<1>8. CASE ~free.full
  <2>1. e = ReadByte(free, text[m], refuses, whole)
    BY <1>5, <1>8
  <2> QED BY <1>6, <1>8, <2>1, ByteRead
<1> QED BY <1>7, <1>8

(* What the decoder keeps when it has read the first n bytes.              *)
Unfinished(n) == IF AtBoundary(n) THEN Nothing ELSE text[n]

(* It has read i bytes from at on, given room for capacity.                *)
HasRead(d, i, capacity) ==
  /\ d.full = FALSE /\ d.read = i
  /\ d.keeps = Unfinished(at + i)
  /\ d.room = capacity - Unfinished(at).part - i + Unfinished(at + i).part
  /\ Unfinished(at + i).part <= Unfinished(at).part + i
  /\ out \o d.written = Shown(at + i)

(* A byte goes on with what is unfinished before it.                       *)
LEMMA UnfinishedByte ==
  ASSUME IsText(text), NEW m \in 1 .. Len(text)
  PROVE  /\ Unfinished(m - 1).part \in 0 .. 3
         /\ text[m].part = Unfinished(m - 1).part + 1
         /\ text[m].width \in 1 .. 4 /\ text[m].part <= text[m].width
         /\ AtBoundary(m) <=> EndsChar(text[m])
         /\ Unfinished(m) = IF EndsChar(text[m]) THEN Nothing ELSE text[m]
         /\ Unfinished(m - 1) = Nothing => text[m].part = 1
         /\ Unfinished(m - 1) # Nothing => Continues(Unfinished(m - 1), text[m])
<1>1. text[m] \in Byte /\ text[m].part <= text[m].width /\ m # 0
  BY TextByte
<1>2. AtBoundary(m) <=> EndsChar(text[m])
  BY <1>1 DEF AtBoundary
<1>3. CASE AtBoundary(m - 1)
  <2>1. Unfinished(m - 1) = Nothing /\ Nothing.part = 0
    BY <1>3 DEF Unfinished, Nothing
  <2>2. text[m].part = 1
    BY <1>3, TextByte
  <2> QED BY <1>1, <1>2, <2>1, <2>2 DEF Unfinished, Byte, Widest
<1>4. CASE ~AtBoundary(m - 1)
  <2>1. /\ Continues(text[m - 1], text[m]) /\ m - 1 \in 1 .. Len(text)
        /\ text[m].part = text[m - 1].part + 1
    BY <1>4, TextByte
  <2>2. text[m - 1] # Nothing /\ text[m - 1] \in Byte
    <3>1. PICK k \in 1 .. Len(text) : k = m - 1
      BY <2>1
    <3>2. text[k] # Nothing /\ text[k] \in Byte
      BY TextByte
    <3> QED BY <3>1, <3>2
  <2>3. Unfinished(m - 1) = text[m - 1]
    BY <1>4 DEF Unfinished
  <2>4. text[m - 1].part \in 1 .. 4 /\ text[m].width \in 1 .. 4
    BY <1>1, <2>2 DEF Byte, Widest
  <2>5. text[m - 1].part \in 0 .. 3
    BY <1>1, <2>1, <2>4
  <2> QED BY <1>1, <1>2, <2>1, <2>2, <2>3, <2>4, <2>5 DEF Unfinished
<1> QED BY <1>3, <1>4

(* The next byte is read and the text goes on, unless the room is too      *)
(* small; it is large enough when the character has room and there is room *)
(* for any character or this one lies within the piece.                    *)
LEMMA NextByte ==
  ASSUME IsText(text), at \in 0 .. Len(text), out \in Seq({Bad} \cup Chars),
         NEW i \in 1 .. Len(text) - at, NEW capacity \in Nat,
         NEW d \in Decoders(at + i - 1, i - 1), HasRead(d, i - 1, capacity),
         NEW refuses, NEW piece, piece[i] = text[at + i],
         NEW e, e = DecodeByte(d, piece, i, refuses)
  PROVE  /\ e.full \/ HasRead(e, i, capacity)
         /\ /\ text[at + i].width <= d.room
            /\ \/ Widest <= d.room
               \/ /\ text[at + i].part <= i
                  /\ i - text[at + i].part + text[at + i].width <= Len(piece)
            => HasRead(e, i, capacity)
<1> DEFINE m == at + i
           b == text[m]
<1>0. m \in 1 .. Len(text) /\ i \in Nat \ {0} /\ m - 1 = at + i - 1 /\ at \in Nat
      /\ m \in Nat \ {0} /\ at + (i - 1) = m - 1 /\ i - 1 \in Nat
  BY DEF IsText
<1>1. /\ Unfinished(m - 1).part \in 0 .. 3
      /\ b.part = Unfinished(m - 1).part + 1
      /\ b.width \in 1 .. 4 /\ b.part <= b.width
      /\ AtBoundary(m) <=> EndsChar(b)
      /\ Unfinished(m) = IF EndsChar(b) THEN Nothing ELSE b
      /\ Unfinished(m - 1) = Nothing => b.part = 1
      /\ Unfinished(m - 1) # Nothing => Continues(Unfinished(m - 1), b)
  BY <1>0, UnfinishedByte
<1>2. d.full = FALSE /\ d.read = i - 1 /\ d.keeps = Unfinished(m - 1)
      /\ d.room = capacity - Unfinished(at).part - (i - 1) + Unfinished(m - 1).part
      /\ Unfinished(m - 1).part <= Unfinished(at).part + (i - 1)
      /\ out \o d.written = Shown(m - 1)
  BY <1>0 DEF HasRead
<1>3. Interrupt(d, b, refuses) = d
  BY <1>1, <1>2 DEF Interrupt
<1>4. PICK whole : whole = (/\ i - b.part + 1 >= 1
                            /\ i - b.part + 1 + b.width - 1 <= Len(piece)
                            /\ b.width <= d.room)
  OBVIOUS
<1>5. e = ReadByte(d, b, refuses, whole)
  BY <1>2, <1>3, <1>4 DEF DecodeByte
<1>6. PICK r : r = (refuses /\ ~whole)
  OBVIOUS
<1>7. PICK f : f = IF EndsChar(b) THEN Write(d, b, r) ELSE Keep(d, b, r)
  OBVIOUS
<1>8. ~(b.part # 1 /\ d.keeps = Nothing)
  BY <1>1, <1>2
<1>9. e = IF f.full THEN f ELSE [f EXCEPT !.read = @ + 1]
  BY <1>5, <1>6, <1>7, <1>8 DEF ReadByte
<1>10. d \in Decoders(m, i - 1)
  BY <1>0, LaterDecoders
<1>11. Unfinished(at).part \in Nat
  <2>1. CASE at = 0
    BY <2>1 DEF Unfinished, AtBoundary, Nothing
  <2>2. CASE at # 0
    <3>1. at \in 1 .. Len(text)
      BY <1>0, <2>2 DEF IsText
    <3>2. text[at].part \in 1 .. 4
      BY <3>1, TextByte DEF Byte, Widest
    <3> QED BY <3>2 DEF Unfinished, Nothing
  <2> QED BY <2>1, <2>2
<1>12. b.char \in {Bad} \cup Chars /\ b.width \in Nat
  <2>1. b.char \in Chars
    BY <1>0, TextByte
  <2> QED BY <1>1, <2>1
<1>a. PICK u \in 0 .. 3, v \in Nat, p \in 1 .. 4, w \in 1 .. 4, ro \in Nat :
        /\ u = Unfinished(m - 1).part /\ v = Unfinished(at).part
        /\ p = b.part /\ w = b.width /\ ro = d.room
  <2>1. d.room \in Nat
    BY <1>10 DEF Decoders
  <2>2. b.part \in 1 .. 4
    BY <1>1
  <2> HIDE DEF b, m
  <2> QED BY <1>1, <1>11, <2>1, <2>2
<1>b. /\ p = u + 1 /\ p <= w /\ u <= v + (i - 1)
      /\ ro = capacity - v - (i - 1) + u
  BY <1>1, <1>2, <1>a
<1> DEFINE tight == (EndsChar(b) /\ b.width > d.room) \/ (r /\ d.room < Widest)
<1>13. /\ f \in Decoders(m, i - 1) /\ f.read = d.read
       /\ tight => f.full
  <2>1. CASE EndsChar(b)
    <3>1. f = Write(d, b, r)
      BY <1>7, <2>1
    <3> QED BY <1>0, <1>10, <1>12, <2>1, <3>1, Writes
  <2>2. CASE ~EndsChar(b)
    <3>1. f = Keep(d, b, r)
      BY <1>7, <2>2
    <3>2. b \in Kept(m)
      <4>1. m \in 1 .. m /\ ~AtBoundary(m)
        BY <1>0, <1>1, <2>2
      <4> QED BY <4>1 DEF Kept
    <3> QED BY <1>0, <1>10, <2>2, <3>1, <3>2, Keeping
  <2> QED BY <2>1, <2>2
<1>14. ASSUME ~tight
       PROVE  /\ f.full = FALSE /\ f.keeps = Unfinished(m)
              /\ f.room = capacity - Unfinished(at).part - i + Unfinished(m).part
              /\ out \o f.written = Shown(m)
  <2>1. CASE EndsChar(b)
    <3>1. f = Write(d, b, r)
      BY <1>7, <2>1
    <3>2. /\ f.keeps = Nothing /\ f.room = d.room - b.width
          /\ f.written = Append(d.written, b.char) /\ f.full = d.full
      <4>1. ~(b.width > d.room \/ (r /\ d.room < Widest))
        BY ONLY <1>14, <2>1 DEF tight
      <4>2. i - 1 \in Nat /\ d \in Decoders(m, i - 1)
        BY <1>0, <1>10
      <4> HIDE DEF b, m
      <4> QED BY <1>12, <3>1, <4>1, <4>2, Writes
    <3>3. f.full = FALSE
      BY <1>2, <3>2
    <3>4. Nothing.part = 0 /\ b.part = b.width
      BY <2>1 DEF Nothing, EndsChar
    <3>5. f.room = capacity - Unfinished(at).part - i + 0
      <4>1. p = w /\ f.room = ro - w
        BY <1>a, <3>2, <3>4
      <4>2. ro - w = capacity - v - i + 0
        BY ONLY <1>0, <1>b, <4>1
      <4> QED BY <1>a, <4>1, <4>2
    <3>6. out \o f.written = Append(out \o d.written, b.char)
      <4> DEFINE V == {Bad} \cup Chars
      <4>1. d.written \in Seq(V) /\ out \in Seq(V) /\ b.char \in V
        BY <1>10, <1>12 DEF Decoders
      <4> HIDE DEF V
      <4>2. PICK s \in Seq(V), c \in V : s = d.written /\ c = b.char
        BY <4>1
      <4>3. out \o Append(s, c) = Append(out \o s, c)
        BY <4>1
      <4> QED BY <3>2, <4>2, <4>3
    <3>7. Shown(m) = Append(Shown(m - 1), b.char)
      BY <1>0, <2>1, OneMoreByte
    <3> QED BY <1>1, <1>2, <2>1, <3>2, <3>3, <3>4, <3>5, <3>6, <3>7
  <2>2. CASE ~EndsChar(b)
    <3>1. f = Keep(d, b, r)
      BY <1>7, <2>2
    <3>2. b \in Kept(m)
      <4>1. m \in 1 .. m /\ ~AtBoundary(m)
        BY <1>0, <1>1, <2>2
      <4> QED BY <4>1 DEF Kept
    <3>3. /\ f.keeps = b /\ f.room = d.room
          /\ f.written = d.written /\ f.full = d.full
      BY <1>0, <1>10, <1>14, <2>2, <3>1, <3>2, Keeping
    <3>4. f.full = FALSE
      BY <1>2, <3>3
    <3>5. f.room = capacity - Unfinished(at).part - i + b.part
      <4>1. ro = capacity - v - i + p
        BY ONLY <1>0, <1>b
      <4> QED BY <1>a, <3>3, <4>1
    <3>6. Shown(m) = Shown(m - 1)
      BY <1>0, <2>2, OneMoreByte
    <3> QED BY <1>1, <1>2, <2>2, <3>3, <3>4, <3>5, <3>6
  <2> QED BY <2>1, <2>2
<1>15. tight => e.full
  BY <1>9, <1>13
<1>16. ASSUME ~tight
       PROVE  HasRead(e, i, capacity)
  <2>1. e = [f EXCEPT !.read = @ + 1]
    BY <1>9, <1>14, <1>16
  <2>2. /\ e.read = f.read + 1 /\ e.full = f.full /\ e.keeps = f.keeps
        /\ e.room = f.room /\ e.written = f.written
    BY <1>13, <2>1 DEF Decoders
  <2>3. e.read = i
    <3>1. e.read = (i - 1) + 1
      BY <1>2, <1>13, <2>2
    <3> QED BY ONLY <1>0, <3>1
  <2>4. Unfinished(m).part <= Unfinished(at).part + i
    <3>1. p <= v + i /\ 0 <= v + i
      BY ONLY <1>0, <1>b
    <3> QED BY <1>1, <1>a, <3>1 DEF Nothing
  <2> HIDE DEF tight
  <2> QED BY <1>14, <1>16, <2>2, <2>3, <2>4 DEF HasRead
<1>17. ASSUME /\ b.width <= d.room
              /\ \/ Widest <= d.room
                 \/ b.part <= i /\ i - b.part + b.width <= Len(piece)
       PROVE  ~tight
  <2>1. w <= ro
    BY <1>17, <1>a
  <2>2. ~(b.width > d.room)
    BY <1>a, <2>1
  <2>3. CASE Widest <= d.room
    <3>1. ~(d.room < Widest)
      BY <1>a, <2>3 DEF Widest
    <3> QED BY <2>2, <3>1
  <2>4. CASE b.part <= i /\ i - b.part + b.width <= Len(piece)
    <3>1. p <= i /\ i - p + w <= Len(piece)
      BY <1>a, <2>4
    <3>2. i - p + 1 >= 1 /\ i - p + 1 + w - 1 = i - p + w
      BY ONLY <1>0, <3>1
    <3>3. i - p + 1 + w - 1 <= Len(piece)
      BY <3>1, <3>2
    <3>4. whole
      BY <1>4, <1>17, <1>a, <3>2, <3>3
    <3> QED BY <1>6, <2>2, <3>4
  <2> QED BY <1>17, <2>3, <2>4
<1> HIDE DEF tight
<1> QED BY <1>15, <1>16, <1>17

(* A token's bytes are those of the text.                                  *)
LEMMA TakenBytes ==
  ASSUME IsText(text), at \in 0 .. Len(text), NEW n \in 0 .. Len(text) - at
  PROVE  /\ Len(Taken(n)) = n /\ n \in Nat /\ at + n \in 0 .. Len(text) /\ at \in Nat
         /\ \A i \in 1 .. n : /\ Taken(n)[i] = text[at + i] /\ at + i \in 1 .. Len(text)
                              /\ i \in 1 .. Len(text) - at
                              /\ i - 1 \in 0 .. n /\ i \in Nat \ {0} /\ i - 1 < i
                              /\ at + (i - 1) = at + i - 1
<1>1. text \in Seq(Byte) /\ Len(text) \in Nat
  BY DEF IsText
<1>2. at + 1 \in 1 .. Len(text) + 1 /\ at + n \in at .. Len(text) /\ n \in Nat
  BY <1>1
<1>3. Len(Taken(n)) = n
  BY <1>1, <1>2 DEF Taken
<1>4. \A i \in 1 .. n : Taken(n)[i] = text[at + i]
  BY <1>1, <1>2 DEF Taken
<1> QED BY <1>1, <1>2, <1>3, <1>4

(* What the decoder is when it has seen a token.                           *)
LEMMA TokenDecoded ==
  ASSUME IsText(text), at \in 0 .. Len(text), NEW n \in 0 .. Len(text) - at,
         NEW keeps \in Kept(at), NEW capacity \in Nat, NEW refuses,
         NEW e, e = Decode(Decoder(keeps, capacity), Taken(n), refuses)
  PROVE  e \in Decoders(at + n, n) /\ (e.full => e.read < n)
<1>1. PICK d : d = Decoder(keeps, capacity)
  OBVIOUS
<1>2. PICK piece : piece = Taken(n)
  OBVIOUS
<1>3. /\ Len(piece) = n /\ n \in Nat /\ at \in Nat
      /\ \A i \in 1 .. n : /\ piece[i] = text[at + i] /\ at + i \in 1 .. Len(text)
                           /\ i - 1 \in 0 .. n /\ i \in Nat \ {0} /\ i - 1 < i
                           /\ at + (i - 1) = at + i - 1
  BY <1>2, TakenBytes
<1>4. PICK after : /\ after[0] = d
                   /\ \A i \in 1 .. n : after[i] = DecodeByte(after[i - 1], piece, i, refuses)
                   /\ e = after[n]
  BY <1>1, <1>2, <1>3, DecodeSteps
<1> DEFINE Typed(i) == after[i] \in Decoders(at + i, i) /\ (after[i].full => after[i].read < i)
           T == {i \in 0 .. n : ~Typed(i)}
<1>5. T = {}
  <2> SUFFICES ASSUME T # {} PROVE FALSE
    OBVIOUS
  <2>1. PICK i \in T : \A j \in T : ~(j < i)
    <3>1. T \subseteq Nat
      OBVIOUS
    <3> HIDE DEF T
    <3> QED BY <3>1, LeastNatural
  <2>2. Typed(0)
    <3>1. d = [keeps |-> keeps, written |-> <<>>, room |-> capacity, read |-> 0, full |-> FALSE]
      BY <1>1 DEF Decoder
    <3>2. <<>> \in Seq({Bad} \cup Chars)
      OBVIOUS
    <3>3. at + 0 = at
      BY <1>3
    <3>4. d \in Decoders(at + 0, 0) /\ d.full = FALSE
      BY <3>1, <3>2, <3>3 DEF Decoders
    <3> QED BY <1>4, <3>4
  <2>3. i \in 1 .. n
    BY <2>1, <2>2
  <2>4. Typed(i - 1)
    BY <1>3, <2>1, <2>3
  <2>5. after[i - 1] \in Decoders(at + i - 1, i - 1)
    BY <1>3, <2>3, <2>4
  <2>6. after[i] = DecodeByte(after[i - 1], piece, i, refuses)
    BY <1>4, <2>3
  <2>7. Typed(i)
    <3>1. PICK m \in 1 .. Len(text) : m = at + i
      BY <1>3, <2>3
    <3>g. PICK g : g = after[i - 1]
      OBVIOUS
    <3>f. PICK f : f = after[i]
      OBVIOUS
    <3>2. g \in Decoders(m - 1, i - 1) /\ i \in Nat \ {0}
      BY <1>3, <2>3, <2>5, <3>1, <3>g
    <3>3. f = DecodeByte(g, piece, i, refuses) /\ piece[i] = text[m]
      BY <1>3, <2>3, <2>6, <3>1, <3>g, <3>f
    <3>4. f \in Decoders(m, i) /\ (f.full => f.read < i)
      BY <3>2, <3>3, ByteDecoded
    <3> QED BY <3>1, <3>f, <3>4
  <2> QED BY <2>1, <2>7
<1>6. Typed(n)
  BY <1>3, <1>5
<1> QED BY <1>4, <1>6

(* A decoder that is where the text is, reads the token, unless its room   *)
(* is too small; it is not in a string with room for what is unfinished,   *)
(* the token and any character more, nor, between whole characters, in one *)
(* as large as the token.                                                  *)
LEMMA TokenRead ==
  ASSUME IsText(text), at \in 0 .. Len(text), NEW n \in 0 .. Len(text) - at,
         out \in Seq({Bad} \cup Chars), out = Shown(at),
         NEW capacity \in Nat, NEW refuses,
         NEW e, e = Decode(Decoder(Unfinished(at), capacity), Taken(n), refuses)
  PROVE  /\ e.full \/ HasRead(e, n, capacity)
         /\ \/ n + 2 * (Widest - 1) <= capacity
            \/ n <= capacity /\ AtBoundary(at) /\ AtBoundary(at + n)
            => HasRead(e, n, capacity)
<1>1. PICK d : d = Decoder(Unfinished(at), capacity)
  OBVIOUS
<1>2. PICK piece : piece = Taken(n)
  OBVIOUS
<1>3. /\ Len(piece) = n /\ n \in Nat /\ at \in Nat /\ at + n \in 0 .. Len(text)
      /\ \A i \in 1 .. n : /\ piece[i] = text[at + i] /\ at + i \in 1 .. Len(text)
                           /\ i \in 1 .. Len(text) - at
                           /\ i - 1 \in 0 .. n /\ i \in Nat \ {0} /\ i - 1 < i
                           /\ at + (i - 1) = at + i - 1
  BY <1>2, TakenBytes
<1>4. PICK after : /\ after[0] = d
                   /\ \A i \in 1 .. n : after[i] = DecodeByte(after[i - 1], piece, i, refuses)
                   /\ e = after[n]
  BY <1>1, <1>2, <1>3, DecodeSteps
<1>5. Unfinished(at) \in Kept(at) /\ Unfinished(at).part \in 0 .. 3
  <2>1. CASE AtBoundary(at)
    BY <2>1 DEF Unfinished, Kept, Nothing
  <2>2. CASE ~AtBoundary(at)
    <3>1. at \in 1 .. Len(text) /\ at \in 1 .. at /\ ~EndsChar(text[at])
      BY <1>3, <2>2 DEF AtBoundary
    <3>2. text[at].part \in 1 .. 4 /\ text[at].part <= text[at].width
          /\ text[at].width \in 1 .. 4
      BY <3>1, TextByte DEF Byte, Widest
    <3>3. text[at].part # text[at].width
      BY <3>1 DEF EndsChar
    <3>4. Unfinished(at) = text[at]
      BY <2>2 DEF Unfinished
    <3>5. text[at] \in Kept(at)
      BY <2>2, <3>1 DEF Kept
    <3> QED BY <3>2, <3>3, <3>4, <3>5
  <2> QED BY <2>1, <2>2
<1> DEFINE Enough == \/ n + 2 * (Widest - 1) <= capacity
                     \/ n <= capacity /\ AtBoundary(at) /\ AtBoundary(at + n)
           Read(i) == /\ after[i] \in Decoders(at + i, i)
                      /\ \/ HasRead(after[i], i, capacity)
                         \/ after[i].full /\ ~Enough
           T == {i \in 0 .. n : ~Read(i)}
<1>6. T = {}
  <2> SUFFICES ASSUME T # {} PROVE FALSE
    OBVIOUS
  <2>1. PICK i \in T : \A j \in T : ~(j < i)
    <3>1. T \subseteq Nat
      OBVIOUS
    <3> HIDE DEF T
    <3> QED BY <3>1, LeastNatural
  <2>2. Read(0)
    <3>1. d = [keeps |-> Unfinished(at), written |-> <<>>, room |-> capacity,
               read |-> 0, full |-> FALSE]
      BY <1>1 DEF Decoder
    <3>2. <<>> \in Seq({Bad} \cup Chars)
      OBVIOUS
    <3>3. at + 0 = at
      BY <1>3
    <3>4. d \in Decoders(at + 0, 0)
      BY <1>5, <3>1, <3>2, <3>3 DEF Decoders
    <3>5. out \o <<>> = out
      OBVIOUS
    <3>6. capacity - Unfinished(at).part - 0 + Unfinished(at).part = capacity
          /\ Unfinished(at).part <= Unfinished(at).part + 0
      BY <1>5
    <3>7. HasRead(d, 0, capacity)
      BY <3>1, <3>3, <3>5, <3>6 DEF HasRead
    <3> QED BY <1>4, <3>4, <3>7
  <2>3. i \in 1 .. n
    BY <2>1, <2>2
  <2>4. Read(i - 1) /\ at + (i - 1) = at + i - 1
    BY <1>3, <2>1, <2>3
  <2>5. after[i - 1] \in Decoders(at + i - 1, i - 1)
    BY <2>4
  <2>6. after[i] = DecodeByte(after[i - 1], piece, i, refuses)
    BY <1>4, <2>3
  <2>7. after[i] \in Decoders(at + i, i)
    <3>1. PICK m \in 1 .. Len(text) : m = at + i
      BY <1>3, <2>3
    <3>g. PICK g : g = after[i - 1]
      OBVIOUS
    <3>f. PICK f : f = after[i]
      OBVIOUS
    <3>2. g \in Decoders(m - 1, i - 1) /\ i \in Nat \ {0}
      BY <1>3, <2>3, <2>5, <3>1, <3>g
    <3>3. f = DecodeByte(g, piece, i, refuses) /\ piece[i] = text[m]
      BY <1>3, <2>3, <2>6, <3>1, <3>g, <3>f
    <3>4. f \in Decoders(m, i)
      BY <3>2, <3>3, ByteDecoded
    <3> QED BY <3>1, <3>f, <3>4
  <2>8. CASE after[i - 1].full /\ ~Enough
    <3>1. after[i] = after[i - 1]
      BY <2>6, <2>8 DEF DecodeByte
    <3> HIDE DEF Enough
    <3> QED BY <2>1, <2>7, <2>8, <3>1
  <2>9. CASE HasRead(after[i - 1], i - 1, capacity)
    <3>1. /\ after[i].full \/ HasRead(after[i], i, capacity)
          /\ /\ text[at + i].width <= after[i - 1].room
             /\ \/ Widest <= after[i - 1].room
                \/ /\ text[at + i].part <= i
                   /\ i - text[at + i].part + text[at + i].width <= Len(piece)
             => HasRead(after[i], i, capacity)
      BY <1>3, <2>3, <2>5, <2>6, <2>9, NextByte
    <3>2. ASSUME Enough PROVE HasRead(after[i], i, capacity)
      <4>1. PICK m \in 1 .. Len(text), p \in 1 .. 4, w \in 1 .. 4, u \in 0 .. 3, v \in 0 .. 3 :
               /\ m = at + i /\ p = text[m].part /\ w = text[m].width
               /\ u = Unfinished(m - 1).part /\ v = Unfinished(at).part
        <5>1. PICK m \in 1 .. Len(text) : m = at + i
          BY <1>3, <2>3
        <5>2. text[m].part \in 1 .. 4 /\ text[m].width \in 1 .. 4
              /\ Unfinished(m - 1).part \in 0 .. 3
          BY TextByte, UnfinishedByte DEF Byte, Widest
        <5> QED BY <1>5, <5>1, <5>2
      <4>2. p = u + 1 /\ p <= w
        BY <4>1, UnfinishedByte
      <4>t. /\ p \in 1 .. 4 /\ w \in 1 .. 4 /\ u \in 0 .. 3 /\ v \in 0 .. 3
            /\ capacity \in Nat /\ i \in 1 .. n /\ n \in Nat
        BY <1>3, <2>3, <4>1
      <4>3. m - 1 = at + (i - 1)
        BY <1>3, <2>3, <4>1
      <4>4. after[i - 1].room = capacity - v - (i - 1) + u /\ u <= v + (i - 1)
        BY <2>9, <4>1, <4>3 DEF HasRead
      <4>5. CASE n + 2 * (Widest - 1) <= capacity
        <5>1. n + 6 <= capacity /\ i <= n /\ i \in Nat /\ n \in Nat
          BY <1>3, <2>3, <4>5 DEF Widest
        <5>2. capacity - v - (i - 1) + u >= 4
          BY ONLY <4>t, <5>1
        <5>3. PICK r \in Nat : r = capacity - v - (i - 1) + u
          BY <4>t, <5>2
        <5>4. after[i - 1].room = r /\ w <= r /\ 4 <= r
          BY <4>t, <4>4, <5>2, <5>3
        <5>5. w <= after[i - 1].room /\ Widest <= after[i - 1].room
          BY <5>4 DEF Widest
        <5> QED BY <3>1, <4>1, <5>5
      <4>6. CASE n <= capacity /\ AtBoundary(at) /\ AtBoundary(at + n)
        <5>1. v = 0
          BY <4>1, <4>6 DEF Unfinished, Nothing
        <5>2. PICK k \in 1 .. Len(text) : k = at + n /\ m <= k
          BY <1>3, <2>3, <4>1
        <5>3. EndsChar(text[k])
          BY <4>6, <5>2 DEF AtBoundary
        <5>4. w - p <= k - m
          BY <4>1, <5>2, <5>3, EndsBefore
        <5>5. k - m = n - i /\ i \in 1 .. n /\ n \in Nat
          BY <1>3, <2>3, <4>1, <5>2
        <5>6. /\ w <= capacity - v - (i - 1) + u
              /\ p <= i /\ i - p + w <= n
          <6>1. n <= capacity /\ u <= v + (i - 1) /\ w - p <= n - i
            BY <4>4, <4>6, <5>4, <5>5
          <6> QED BY ONLY <4>t, <4>2, <5>1, <6>1
        <5>7. w <= after[i - 1].room /\ p <= i /\ i - p + w <= Len(piece)
          BY <1>3, <4>4, <5>6
        <5> QED BY <3>1, <4>1, <5>7
      <4> QED BY <3>2, <4>5, <4>6
    <3> HIDE DEF Enough
    <3> QED BY <2>1, <2>7, <3>1, <3>2
  <2> QED BY <2>4, <2>8, <2>9
<1>7. Read(n)
  BY <1>3, <1>6
<1> HIDE DEF Enough
<1> QED BY <1>4, <1>7 DEF Enough

-----------------------------------------------------------------------------
(* A token of any length is told, by its bytes or as unknown.              *)
LEMMA PieceTold ==
  ASSUME NEW n \in Nat
  PROVE  /\ PieceOf(n) \in {"ok", "unknown"} /\ (PieceOf(n) = "ok" => n # 0)
         /\ TokenToPieceBytes(n, Piece).status \in {"ok", "unknown", "short"}
BY BufferAssumption DEF PieceOf, AskTwice, TokenToPieceBytes, AllOrMinus, Ok, Err

(* Every call gives what C has.                                            *)
LEMMA AllGiven ==
  \A o \in Outcomes : GivenInFull(o)
<1> DEFINE Has == 0 .. Longest
           row(f, n, o) == [call |-> f, has |-> n, out |-> o]
<1>0. Has \subseteq Nat /\ {0, 1} \subseteq Nat /\ Piece \in Nat \ {0}
      /\ MetaBuffer \in Nat \ {0} /\ FewTokens \in Nat \ {0}
  BY BufferAssumption
<1>1. ASSUME NEW o \in Outcomes
      PROVE  \/ \E n \in Has : o = row("again", n, AskTwice(n))
             \/ \E n \in Has, s \in Has : o = row("once", n, TokenToPieceBytes(n, s))
             \/ \E s \in Has : o = row("hidden", 0, TokenToBytesWithSize(0, s, "hidden"))
             \/ \E s \in Has : o = row("newline", 1, TokenToBytesWithSize(1, s, "newline"))
             \/ \E n \in Has, s \in Has : o = row("once", n, TokenToBytesWithSize(n, s, "text"))
             \/ \E n \in Has, b \in Has, bos \in {0, 1} : o = row("again", n, StrToToken(n, b, bos))
             \/ \E n \in Has \cup {NotThere} : o = row("again", n, ExtractMetaString(n))
             \/ \E n \in Has \cup {NotThere}, l \in Has :
                  o = row("again", n, ApplyChatTemplate(n, 2 * l))
  BY DEF Outcomes
<1>2. ASSUME NEW n \in Nat PROVE GivenInFull(row("again", n, AskTwice(n)))
  BY <1>0 DEF AskTwice, TokenToPieceBytes, AllOrMinus, Ok, Err, GivenInFull
<1>3. ASSUME NEW n \in Nat, NEW s \in Nat
      PROVE  GivenInFull(row("once", n, TokenToPieceBytes(n, s)))
  BY DEF TokenToPieceBytes, AllOrMinus, Ok, Err, GivenInFull
<1>4. ASSUME NEW s \in Nat
      PROVE  /\ GivenInFull(row("hidden", 0, TokenToBytesWithSize(0, s, "hidden")))
             /\ GivenInFull(row("newline", 1, TokenToBytesWithSize(1, s, "newline")))
  BY DEF TokenToBytesWithSize, Ok, GivenInFull
<1>5. ASSUME NEW n \in Nat, NEW s \in Nat
      PROVE  GivenInFull(row("once", n, TokenToBytesWithSize(n, s, "text")))
  <2>1. TokenToBytesWithSize(n, s, "text") = TokenToPieceBytes(n, s)
    BY DEF TokenToBytesWithSize
  <2> QED BY <1>3, <2>1
<1>6. ASSUME NEW n \in Nat, NEW b \in Nat, NEW bos \in Nat
      PROVE  GivenInFull(row("again", n, StrToToken(n, b, bos)))
  <2>1. PICK size \in Int : size = Most(FewTokens, b \div 2 + bos)
    BY <1>0 DEF Most
  <2>2. StrToToken(n, b, bos) = Ok(n, n)
    BY <2>1 DEF StrToToken, AllOrMinus
  <2> QED BY <2>2 DEF Ok, GivenInFull
<1>7. ASSUME NEW n \in Nat \cup {NotThere}
      PROVE  GivenInFull(row("again", n, ExtractMetaString(n)))
  BY <1>0 DEF ExtractMetaString, CutWithNul, MetaFits, Least, NotThere, Ok, Err, GivenInFull
<1>8. ASSUME NEW n \in Nat \cup {NotThere}, NEW s \in Nat
      PROVE  GivenInFull(row("again", n, ApplyChatTemplate(n, s)))
  BY DEF ApplyChatTemplate, Cut, Least, NotThere, Ok, Err, GivenInFull
<1>9. \A l \in Has : 2 * l \in Nat
  BY <1>0
<1>10. \A n \in Has \cup {NotThere} : n \in Nat \cup {NotThere}
  BY <1>0
<1> HIDE DEF Has, row
<1> QED BY <1>0, <1>1, <1>2, <1>3, <1>4, <1>5, <1>6, <1>7, <1>8, <1>9, <1>10

-----------------------------------------------------------------------------
(* While nothing is lost the decoder is where the tokens are; the tokens   *)
(* so far end at the last cut, and only tokens_to_str ends.                *)
InStep ==
  method \in {"piece", "loop"} /\ status = "running" /\ dropped = {} =>
    pending = Unfinished(at) /\ out = Shown(at)

TextInv ==
  /\ TextTypeOK
  /\ at = 0 \/ at \in cuts
  /\ InStep
  /\ method # "whole" => status \in {"running", "unknown"}
  /\ method = "ask" => at = 0 /\ out = <<>>
  /\ LoseNothing /\ WholeOrError

LEMMA TextKnown ==
  ASSUME TextTypeOK
  PROVE  /\ IsText(text) /\ Len(text) \in Nat /\ at \in 0 .. Len(text) /\ at \in Nat
         /\ pending \in Kept(at)
<1>1. IsText(text)
  BY TokenTextAssumption DEF TextTypeOK
<1>2. Len(text) \in Nat /\ at \in 0 .. Len(text) /\ at \in Nat
  BY <1>1 DEF TextTypeOK, IsText
<1>3. pending \in Kept(at)
  BY DEF TextTypeOK, Kept
<1> QED BY <1>1, <1>2, <1>3

LEMMA KeptIsTyped ==
  ASSUME NEW n \in Nat, NEW k \in Kept(n)
  PROVE  k = Nothing \/ \E i \in 1 .. n : k = text[i] /\ ~AtBoundary(i)
BY DEF Kept

LEMMA TextStarts ==
  ASSUME TextInit
  PROVE  TextInv
<1>1. Shown(0) = <<>> /\ Unfinished(0) = Nothing /\ AtBoundary(0)
  <2>1. Shown(0) = [c \in 1 .. 0 |-> c]
    BY DEF Shown, Complete
  <2>2. Shown(0) = <<>>
    BY <2>1
  <2> QED BY <2>2 DEF Unfinished, AtBoundary
<1>2. TextTypeOK
  <2>1. IsText(text)
    BY TokenTextAssumption DEF TextInit
  <2>2. Len(text) \in Nat
    BY <2>1 DEF IsText
  <2>3. <<>> \in Seq({Bad} \cup Chars)
    OBVIOUS
  <2> QED BY <2>2, <2>3 DEF TextInit, TextTypeOK
<1>3. InStep
  BY <1>1 DEF TextInit, InStep
<1> QED BY <1>2, <1>3 DEF TextInit, TextInv, LoseNothing, WholeOrError

(* A token through the decoder.                                            *)
LEMMA DecodedToken ==
  ASSUME TextInv, NEW n \in Nat \ {0}, NEW capacity \in Nat, NEW refuses,
         method \in {"piece", "loop"}, Take(n), DecodeInto(n, capacity, pending, refuses)
  PROVE  /\ TextTypeOK' /\ InStep' /\ at' \in cuts'
         /\ /\ dropped = {}
            /\ \/ n + 2 * (Widest - 1) <= capacity
               \/ n <= capacity /\ AtBoundary(at) /\ AtBoundary(at + n)
            => dropped' = {}
<1> DEFINE e == Decode(Decoder(pending, capacity), Taken(n), refuses)
           V == {Bad} \cup Chars
<1>1. /\ TextTypeOK /\ IsText(text) /\ Len(text) \in Nat /\ at \in 0 .. Len(text)
      /\ at \in Nat /\ pending \in Kept(at) /\ status = "running"
  BY TextKnown DEF TextInv, Take
<1>2. /\ n \in 0 .. Len(text) - at /\ at' = at + n /\ cuts' = cuts \cup {at + n}
      /\ text' = text /\ method' = method /\ asked' = asked /\ status' = status
      /\ pending' = e.keeps /\ out' = out \o e.written
      /\ dropped' = dropped \cup (at + e.read + 1 .. at + n)
  BY <1>1 DEF Take, DecodeInto
<1>3. PICK f : f = e
  OBVIOUS
<1> HIDE DEF e
<1>4. f \in Decoders(at + n, n) /\ (f.full => f.read < n)
  BY <1>1, <1>2, <1>3, TokenDecoded DEF e
<1>5. f.keeps \in Kept(at + n) /\ f.written \in Seq(V) /\ f.read \in 0 .. n
  BY <1>4 DEF Decoders
<1>6. TextTypeOK'
  <2>1. at + n \in 0 .. Len(text) /\ at + n \in Nat
    BY <1>1, <1>2
  <2>2. pending' = Nothing \/ \E i \in 1 .. at + n : pending' = text[i] /\ ~AtBoundary(i)
    BY <1>2, <1>3, <1>5, <2>1, KeptIsTyped
  <2>3. pending' = Nothing \/ \E i \in 1 .. at' : pending' = text'[i] /\ ~AtBoundary(i)'
    BY <1>2, <2>2 DEF AtBoundary
  <2>4. out' \in Seq({Bad} \cup Chars')
    <3>1. out \in Seq(V)
      BY <1>1 DEF TextTypeOK
    <3>2. Chars' = Chars
      BY <1>2 DEF Chars
    <3>3. out \o f.written \in Seq(V)
      <4> HIDE DEF V
      <4> QED BY <1>5, <3>1
    <3> QED BY <1>2, <1>3, <3>2, <3>3
  <2>5. cuts' \subseteq 1 .. at'
    <3>1. cuts \subseteq 1 .. at /\ 1 .. at \subseteq 1 .. at + n /\ at + n \in 1 .. at + n
      BY <1>1 DEF TextTypeOK
    <3> QED BY <1>2, <3>1
  <2>6. dropped' \subseteq 1 .. at'
    <3>1. PICK r \in 0 .. n : r = f.read
      BY <1>5
    <3>2. dropped \subseteq 1 .. at /\ 1 .. at \subseteq 1 .. at + n
          /\ at + r + 1 .. at + n \subseteq 1 .. at + n
      BY <1>1 DEF TextTypeOK
    <3> QED BY <1>2, <1>3, <3>1, <3>2
  <2> QED BY <1>1, <1>2, <2>1, <2>3, <2>4, <2>5, <2>6 DEF TextTypeOK
<1>7. ASSUME dropped = {}
      PROVE  /\ f.full \/ HasRead(f, n, capacity)
             /\ \/ n + 2 * (Widest - 1) <= capacity
                \/ n <= capacity /\ AtBoundary(at) /\ AtBoundary(at + n)
                => HasRead(f, n, capacity)
  <2>1. pending = Unfinished(at) /\ out = Shown(at) /\ out \in Seq(V)
    BY <1>1, <1>7 DEF TextInv, InStep, TextTypeOK
  <2>2. f = Decode(Decoder(Unfinished(at), capacity), Taken(n), refuses)
    BY <1>3, <2>1 DEF e
  <2> QED BY <1>1, <1>2, <2>1, <2>2, TokenRead
<1>8. HasRead(f, n, capacity) => /\ f.keeps = Unfinished(at + n)
                                 /\ out \o f.written = Shown(at + n)
                                 /\ f.read = n
  BY DEF HasRead
<1>9. InStep'
  <2> SUFFICES ASSUME dropped' = {}
               PROVE  pending' = Unfinished(at)' /\ out' = Shown(at)'
    BY DEF InStep
  <2>1. dropped = {} /\ ~(f.read < n)
    <3>1. PICK r \in 0 .. n : r = f.read
      BY <1>5
    <3>2. at + r + 1 .. at + n = {}
      BY <1>2, <1>3, <3>1
    <3>3. ~(r < n)
      <4> SUFFICES ASSUME r < n PROVE FALSE
        OBVIOUS
      <4>1. at + n \in at + r + 1 .. at + n
        BY <1>1
      <4> QED BY <3>2, <4>1
    <3> QED BY <1>2, <3>1, <3>3
  <2>2. HasRead(f, n, capacity)
    BY <1>4, <1>7, <2>1
  <2>3. Unfinished(at)' = Unfinished(at + n) /\ Shown(at)' = Shown(at + n)
    BY <1>2 DEF Unfinished, AtBoundary, Shown, Complete
  <2> QED BY <1>2, <1>3, <1>8, <2>2, <2>3
<1>10. ASSUME /\ dropped = {}
              /\ \/ n + 2 * (Widest - 1) <= capacity
                 \/ n <= capacity /\ AtBoundary(at) /\ AtBoundary(at + n)
       PROVE  dropped' = {}
  <2>1. f.read = n
    BY <1>7, <1>8, <1>10
  <2>2. at + n + 1 .. at + n = {}
    BY <1>1
  <2> QED BY <1>2, <1>3, <1>10, <2>1, <2>2
<1>11. at' \in cuts'
  BY <1>2
<1> QED BY <1>6, <1>9, <1>10, <1>11

(* One more cut: a token that ends there, and the others as they were.     *)
LEMMA OneMoreCut ==
  ASSUME TextInv, NEW n \in Nat, Take(n)
  PROVE  /\ (\A k \in cuts' : AtBoundary(k)')
              => /\ \A k \in cuts : AtBoundary(k)
                 /\ AtBoundary(at) /\ (n # 0 => AtBoundary(at + n))
         /\ Tokens \subseteq Tokens'
         /\ n # 0 => <<at, at + n>> \in Tokens'
<1>1. /\ text' = text /\ at \in Nat /\ cuts \subseteq 1 .. at /\ (at = 0 \/ at \in cuts)
      /\ cuts' = IF n = 0 THEN cuts ELSE cuts \cup {at + n}
  BY TextKnown DEF TextInv, TextTypeOK, Take
<1>2. \A k : AtBoundary(k)' <=> AtBoundary(k)
  BY <1>1 DEF AtBoundary
<1>3. (\A k \in cuts' : AtBoundary(k)')
        => /\ \A k \in cuts : AtBoundary(k)
           /\ AtBoundary(at) /\ (n # 0 => AtBoundary(at + n))
  <2>1. AtBoundary(0)
    BY DEF AtBoundary
  <2> QED BY <1>1, <1>2, <2>1
<1>4. \A k \in cuts : k \in Nat /\ k <= at
  BY <1>1
<1>5. Tokens \subseteq Tokens'
  <2> SUFFICES ASSUME NEW t \in Tokens
               PROVE  t \in Tokens'
    OBVIOUS
  <2>1. /\ t \in (cuts \cup {0}) \X cuts /\ t[1] < t[2]
        /\ \A k \in cuts : k <= t[1] \/ t[2] <= k
    BY DEF Tokens
  <2>2. t[2] \in cuts
    BY <2>1
  <2>3. \A k \in cuts' : k <= t[1] \/ t[2] <= k
    <3>1. t[2] <= at + n
      <4>1. PICK z \in cuts : z = t[2]
        BY <2>2
      <4>2. z <= at + n
        BY <1>1, <1>4
      <4> QED BY <4>1, <4>2
    <3> QED BY <1>1, <2>1, <3>1
  <2>4. t \in (cuts' \cup {0}) \X cuts'
    BY <1>1, <2>1
  <2> QED BY <2>1, <2>3, <2>4 DEF Tokens
<1>6. ASSUME n # 0
      PROVE  <<at, at + n>> \in Tokens'
  <2>1. <<at, at + n>> \in (cuts' \cup {0}) \X cuts'
    BY <1>1, <1>6
  <2>2. at < at + n /\ \A k \in cuts' : k <= at \/ at + n <= k
    BY <1>1, <1>4, <1>6
  <2> QED BY <2>1, <2>2 DEF Tokens
<1> QED BY <1>3, <1>5, <1>6

(* A token that no decoder sees.                                           *)
LEMMA CutStep ==
  ASSUME TextInv, NEW n \in Nat, Take(n), UNCHANGED <<pending, out, dropped>>,
         status' \in {"running", "unknown", "short"}
  PROVE  TextTypeOK' /\ (at' = 0 \/ at' \in cuts') /\ LoseNothing'
<1>1. /\ TextTypeOK /\ IsText(text) /\ Len(text) \in Nat /\ at \in 0 .. Len(text)
      /\ at \in Nat /\ cuts \subseteq 1 .. at /\ (at = 0 \/ at \in cuts)
  BY TextKnown DEF TextInv, TextTypeOK
<1>2. /\ n <= Len(text) - at /\ at' = at + n
      /\ cuts' = IF n = 0 THEN cuts ELSE cuts \cup {at + n}
      /\ text' = text /\ method' = method /\ asked' = asked
      /\ pending' = pending /\ out' = out /\ dropped' = dropped
  BY DEF Take
<1>3. at + n \in 0 .. Len(text) /\ 1 .. at \subseteq 1 .. at + n
      /\ (n # 0 => at + n \in 1 .. at + n) /\ (n = 0 => at + n = at)
  BY <1>1, <1>2
<1>4. TextTypeOK'
  <2>1. pending' = Nothing \/ \E i \in 1 .. at' : pending' = text'[i] /\ ~AtBoundary(i)'
    <3>1. pending = Nothing \/ \E i \in 1 .. at : pending = text[i] /\ ~AtBoundary(i)
      BY <1>1 DEF TextTypeOK
    <3> QED BY <1>2, <1>3, <3>1 DEF AtBoundary
  <2>2. Chars' = Chars
    BY <1>2 DEF Chars
  <2>3. cuts' \subseteq 1 .. at' /\ dropped' \subseteq 1 .. at'
    <3>1. dropped \subseteq 1 .. at
      BY <1>1 DEF TextTypeOK
    <3> QED BY <1>1, <1>2, <1>3, <3>1
  <2> QED BY <1>1, <1>2, <1>3, <2>1, <2>2, <2>3 DEF TextTypeOK
<1>5. at' = 0 \/ at' \in cuts'
  BY <1>1, <1>2, <1>3
<1>6. LoseNothing'
  <2>1. CASE dropped = {}
    BY <1>2, <2>1 DEF LoseNothing
  <2>2. CASE dropped # {}
    <3>1. /\ (\A k \in cuts' : AtBoundary(k)') => \A k \in cuts : AtBoundary(k)
          /\ Tokens \subseteq Tokens'
      BY OneMoreCut
    <3>2. LoseNothing
      BY DEF TextInv
    <3> QED BY <1>2, <2>2, <3>1, <3>2 DEF LoseNothing
  <2> QED BY <2>1, <2>2
<1> QED BY <1>4, <1>5, <1>6

(* A decoded token, where the string is large enough for it if what the    *)
(* property asks of the tokens is so.                                      *)
LEMMA DecodedStep ==
  ASSUME TextInv, NEW n \in Nat \ {0}, NEW capacity \in Nat, NEW refuses,
         method \in {"piece", "loop"}, Take(n), DecodeInto(n, capacity, pending, refuses),
         method = "piece" => n <= capacity, method = "loop" => capacity = Room
  PROVE  TextInv'
<1>1. /\ TextTypeOK' /\ InStep' /\ at' \in cuts'
      /\ /\ dropped = {}
         /\ \/ n + 2 * (Widest - 1) <= capacity
            \/ n <= capacity /\ AtBoundary(at) /\ AtBoundary(at + n)
         => dropped' = {}
  BY DecodedToken
<1>2. /\ (\A k \in cuts' : AtBoundary(k)')
            => (\A k \in cuts : AtBoundary(k)) /\ AtBoundary(at) /\ AtBoundary(at + n)
      /\ Tokens \subseteq Tokens' /\ <<at, at + n>> \in Tokens'
  BY OneMoreCut
<1>3. method' = method /\ status' = "running" /\ at \in Nat
  BY TextKnown DEF Take, DecodeInto, TextInv
<1>4. LoseNothing
  BY DEF TextInv
<1>5. ASSUME method = "piece", \A k \in cuts' : AtBoundary(k)'
      PROVE  dropped' = {}
  <2>1. dropped = {}
    BY <1>2, <1>4, <1>5 DEF LoseNothing
  <2> QED BY <1>1, <1>2, <1>5, <2>1
<1>6. ASSUME method = "loop",
             \A t \in Tokens' : t[2] - t[1] + 2 * (Widest - 1) <= Room
      PROVE  dropped' = {}
  <2>1. dropped = {}
    BY <1>2, <1>4, <1>6 DEF LoseNothing
  <2>2. (at + n) - at + 2 * (Widest - 1) <= Room
    <3>1. PICK t \in Tokens' : t = <<at, at + n>>
      BY <1>2
    <3>2. t[1] = at /\ t[2] = at + n
      BY <3>1
    <3> QED BY <1>6, <3>2
  <2>3. n + 2 * (Widest - 1) <= capacity
    <3>1. (at + n) - at = n
      BY <1>3
    <3> QED BY <1>6, <2>2, <3>1
  <2> QED BY <1>1, <2>1, <2>3
<1>7. LoseNothing'
  BY <1>3, <1>5, <1>6 DEF LoseNothing
<1>8. WholeOrError'
  BY <1>3 DEF WholeOrError
<1> QED BY <1>1, <1>3, <1>7, <1>8 DEF TextInv

(* Each way to take a token keeps the invariant, and the ends do.          *)
LEMMA TextGoesOn ==
  ASSUME TextInv, [TextNext]_textVars
  PROVE  TextInv'
<1>0. /\ TextTypeOK /\ IsText(text) /\ at \in 0 .. Len(text) /\ at \in Nat
      /\ Len(text) \in Nat /\ (at = 0 \/ at \in cuts) /\ InStep /\ LoseNothing
      /\ WholeOrError /\ (method # "whole" => status \in {"running", "unknown"})
      /\ (method = "ask" => at = 0 /\ out = <<>>)
  BY TextKnown DEF TextInv
<1>1. \A n \in 0 .. MaxPiece : n \in Nat
  BY TokenTextAssumption
<1>2. ASSUME NEW n \in Nat, Take(n), Fail(PieceOf(n)), PieceOf(n) # "ok",
             method \in {"piece", "loop"}
      PROVE  TextInv'
  <2>1. status' = "unknown" /\ method' = method /\ UNCHANGED <<pending, out, dropped>>
    BY <1>2, PieceTold DEF Fail, Take
  <2>2. TextTypeOK' /\ (at' = 0 \/ at' \in cuts') /\ LoseNothing'
    BY <1>2, <2>1, CutStep
  <2> QED BY <1>2, <2>1, <2>2 DEF TextInv, InStep, WholeOrError
<1>3. ASSUME NEW n \in 0 .. MaxPiece, NEW refuses \in Refusals, TokenToPiece(n, refuses)
      PROVE  TextInv'
  <2>1. n \in Nat /\ method = "piece" /\ Take(n)
    BY <1>1, <1>3 DEF TokenToPiece
  <2>2. CASE PieceOf(n) = "ok"
    <3>1. DecodeInto(n, n, pending, refuses) /\ n \in Nat \ {0}
      BY <1>3, <2>1, <2>2, PieceTold DEF TokenToPiece
    <3> QED BY <2>1, <3>1, DecodedStep
  <2>3. CASE PieceOf(n) # "ok"
    BY <1>2, <1>3, <2>1, <2>3 DEF TokenToPiece
  <2> QED BY <2>2, <2>3
<1>4. ASSUME NEW n \in 0 .. MaxPiece, NEW refuses \in Refusals, LoopDecodes(n, refuses)
      PROVE  TextInv'
  <2>1. n \in Nat /\ method = "loop" /\ Take(n)
    BY <1>1, <1>4 DEF LoopDecodes
  <2>2. CASE PieceOf(n) = "ok"
    <3>1. DecodeInto(n, Room, pending, refuses) /\ n \in Nat \ {0} /\ Room \in Nat
      BY <1>4, <2>1, <2>2, PieceTold, TokenTextAssumption DEF LoopDecodes
    <3> QED BY <2>1, <3>1, DecodedStep
  <2>3. CASE PieceOf(n) # "ok"
    BY <1>2, <1>4, <2>1, <2>3 DEF LoopDecodes
  <2> QED BY <2>2, <2>3
<1>5. ASSUME NEW n \in 0 .. MaxPiece, AppendBytes(n)
      PROVE  TextInv'
  <2>1. n \in Nat /\ method = "whole" /\ method' = "whole" /\ status = "running" /\ Take(n)
    BY <1>1, <1>5 DEF AppendBytes, Take
  <2>2. UNCHANGED <<pending, out, dropped>> /\ status' \in {"running", "unknown", "short"}
    BY <1>5, <2>1, PieceTold DEF AppendBytes, Fail
  <2>3. TextTypeOK' /\ (at' = 0 \/ at' \in cuts') /\ LoseNothing'
    BY <2>1, <2>2, CutStep
  <2> QED BY <2>1, <2>2, <2>3 DEF TextInv, InStep, WholeOrError
<1>6. ASSUME FromUtf8
      PROVE  TextInv'
  <2>1. /\ method = "whole" /\ method' = "whole" /\ text' = text /\ at' = at /\ cuts' = cuts
        /\ pending' = pending /\ dropped' = dropped /\ asked' = asked
        /\ \/ out' = Shown(at) /\ status' = "ok" /\ AtBoundary(at)
           \/ out' = out /\ status' = "not_utf8"
    BY <1>6 DEF FromUtf8
  <2>2. Shown(at)' = Shown(at) /\ AtBoundary(at)' = AtBoundary(at) /\ Chars' = Chars
    BY <2>1 DEF Shown, Complete, AtBoundary, Chars
  <2>3. out' \in Seq({Bad} \cup Chars)
    BY <1>0, <2>1, ShownType DEF TextTypeOK
  <2>4. TextTypeOK'
    BY <1>0, <2>1, <2>2, <2>3 DEF TextTypeOK, AtBoundary
  <2>5. LoseNothing' /\ InStep' /\ WholeOrError'
    BY <2>1, <2>2 DEF LoseNothing, InStep, WholeOrError
  <2> QED BY <1>0, <2>1, <2>4, <2>5 DEF TextInv
<1>7. ASSUME Ask
      PROVE  TextInv'
  <2>1. /\ method = "ask" /\ method' = "ask" /\ text' = text /\ at' = at /\ cuts' = cuts
        /\ pending' = pending /\ dropped' = dropped /\ out' = out /\ status' = status
        /\ asked' \subseteq Outcomes
    BY <1>7 DEF Ask
  <2>2. TextTypeOK'
    BY <1>0, <2>1 DEF TextTypeOK, Chars, AtBoundary
  <2>3. LoseNothing' /\ InStep' /\ WholeOrError'
    BY <2>1 DEF LoseNothing, InStep, WholeOrError
  <2> QED BY <1>0, <2>1, <2>2, <2>3 DEF TextInv
<1>8. ASSUME UNCHANGED textVars
      PROVE  TextInv'
  BY <1>8 DEF TextInv, textVars, TextTypeOK, Chars, AtBoundary, InStep, Unfinished, Shown,
              Complete, LoseNothing, Tokens, WholeOrError
<1> QED BY <1>3, <1>4, <1>5, <1>6, <1>7, <1>8 DEF TextNext

LEMMA TextAlways ==
  TextSpec => []TextInv
<1>1. TextInit => TextInv
  BY TextStarts
<1>2. TextInv /\ [TextNext]_textVars => TextInv'
  BY TextGoesOn
<1> QED BY <1>1, <1>2, PTL DEF TextSpec

(* The bytes, the string and the decoder are always of their kinds, and a  *)
(* decoder keeps only what is unfinished.                                  *)
THEOREM TextTypes ==
  TextSpec => []TextTypeOK
<1>1. TextInv => TextTypeOK
  BY DEF TextInv
<1> QED BY <1>1, TextAlways, PTL

(* However a text is cut into tokens, the pieces put together are the text *)
(* of their bytes as long as every byte was read (model.rs:422-423).       *)
THEOREM PiecesAreTheText ==
  TextSpec => []TextIsTheBytes
<1>1. TextInv => TextIsTheBytes
  <2> SUFFICES ASSUME TextInv, status \in {"running", "ok"}, method # "whole", dropped = {}
               PROVE  out = Shown(at)
    BY DEF TextIsTheBytes
  <2>1. status = "running"
    BY DEF TextInv
  <2>2. CASE method = "ask"
    <3>1. Shown(0) = [c \in 1 .. 0 |-> c]
      BY DEF Shown, Complete
    <3>2. Shown(0) = <<>>
      BY <3>1
    <3> QED BY <2>2, <3>2 DEF TextInv
  <2>3. CASE method # "ask"
    <3>1. method \in {"piece", "loop"}
      BY <2>3, TokenTextAssumption DEF TextInv, TextTypeOK
    <3> QED BY <2>1, <3>1 DEF TextInv, InStep
  <2> QED BY <2>2, <2>3
<1> QED BY <1>1, TextAlways, PTL

(* token_to_piece loses no byte of tokens that end between characters, nor *)
(* the loops of tokens six bytes shorter than their string.                *)
THEOREM NoByteIsLost ==
  TextSpec => []LoseNothing
<1>1. TextInv => LoseNothing
  BY DEF TextInv
<1> QED BY <1>1, TextAlways, PTL

(* tokens_to_str gives all of the text or an error (model.rs:326).         *)
THEOREM AllOrAnError ==
  TextSpec => []WholeOrError
<1>1. TextInv => WholeOrError
  BY DEF TextInv
<1> QED BY <1>1, TextAlways, PTL

(* A buffer of any size leads to all that C has, whichever way C tells the *)
(* size, and no token is too long but for tokens_to_str.                   *)
THEOREM AnySizeIsGiven ==
  TextSpec => []AnyLength
<1>1. TextInv => AnyLength
  BY AllGiven DEF TextInv, TextTypeOK, AnyLength
<1> QED BY <1>1, TextAlways, PTL
=============================================================================
