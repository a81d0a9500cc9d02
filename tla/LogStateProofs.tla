---------------------------- MODULE LogStateProofs ----------------------------
(***************************************************************************)
(* Proofs about LogState for any number of threads and messages.  The flag *)
(* is_buffering is only a hint: it is stored after the mutex is released   *)
(* and swapped before it is taken.  The invariant says which thread covers *)
(* for the flag while it lags behind the buffer (IInv).  PlaceInv says     *)
(* where each message is, OrderInv what order the messages of a thread are *)
(* in as long as it alone has logged.                                      *)
(***************************************************************************)
EXTENDS LogState, FiniteSetTheorems, SequenceTheorems, TLAPS

(* The mutex: a thread at cont_flush is the one inside it, and while it is *)
(* there the buffer stays empty.                                           *)
MutexInv ==
  /\ \A t \in Threads : pc[t] = "cont_flush" <=> lock = t
  /\ lock # None => buffered = None

(* Which messages reach which method.                                      *)
RouteInv ==
  \A t \in Threads :
    /\ pc[t] = "cont" => msg[t].level = "CONT"
    /\ pc[t] \in {"part", "part_flag", "part_level", "line", "line_take",
                  "line_level", "line_emit"} => msg[t].level # "CONT"

IInv == TypeOK /\ MutexInv /\ RouteInv /\ BufferWillBeFlushed

LEMMA InitIInv == Init => IInv
<1> SUFFICES ASSUME Init PROVE IInv
  OBVIOUS
<1>1. TypeOK
  <2>1. buffered = None /\ pc = [t \in Threads |-> "idle"] /\ calls = 0
    BY DEF Init
  <2>2. calls \in 0 .. MaxCalls
    BY <2>1, LogAssumption
  <2> QED BY <2>1, <2>2 DEF Init, TypeOK, StoredLevels, Places
<1>2. MutexInv /\ RouteInv
  BY LogAssumption DEF Init, MutexInv, RouteInv
<1>3. BufferWillBeFlushed
  BY DEF Init, BufferWillBeFlushed
<1> QED BY <1>1, <1>2, <1>3 DEF IInv

(* Messages, texts and buffers the actions build.                          *)
LEMMA SingleText ==
  ASSUME NEW m \in Message
  PROVE  <<m>> \in Text /\ <<m>> # <<>> /\ Head(<<m>>) = m
BY DEF Text

LEMMA JoinedText ==
  ASSUME NEW text \in Text, text # <<>>, NEW m \in Message
  PROVE  /\ Append(text, m) \in Text
         /\ Append(text, m) # <<>>
         /\ Head(Append(text, m)) = Head(text)
BY AppendProperties, HeadTailAppend DEF Text

LEMMA StepTypeOK ==
  ASSUME IInv, [Next]_vars
  PROVE  TypeOK'
<1> USE LogAssumption DEF IInv, TypeOK, RouteInv, Goto, At
<1>1. ASSUME NEW t \in Threads, NEW level \in Levels, NEW nl \in BOOLEAN,
             Call(t, level, nl)
      PROVE  TypeOK'
  <2>1. [id |-> calls + 1, level |-> level, nl |-> nl] \in Message
    BY DEF Message
  <2>2. calls' \in 0 .. MaxCalls
    BY <1>1 DEF Call
  <2>3. pc' \in [Threads -> Places] /\ panicked' \in BOOLEAN
    BY <1>1 DEF Call, Places
  <2>4. /\ DOMAIN msg' = Threads
        /\ \A u \in Threads : pc'[u] # "idle" => msg'[u] \in Message
    BY <1>1, <2>1 DEF Call
  <2>5. \A u \in Threads : pc'[u] = "cont_flush" => taken'[u] \in Buffer
    BY <1>1 DEF Call
  <2> QED BY <1>1, <2>2, <2>3, <2>4, <2>5 DEF Call
<1>2. ASSUME NEW t \in Threads, Disabled(t)
      PROVE  TypeOK'
  <2>1. msg[t] \in Message
    BY <1>2 DEF Disabled
  <2>2. previous_level' \in StoredLevels
    BY <1>2, <2>1 DEF Disabled, StoredLevels, Message
  <2> QED BY <1>2, <2>2 DEF Disabled, Places
<1>3. ASSUME NEW t \in Threads, ContAppend(t)
      PROVE  TypeOK'
  <2> DEFINE joined == [buffered EXCEPT !.text = Append(@, msg[t])]
  <2>1. msg[t] \in Message /\ buffered \in Buffer /\ buffered.text \in Text
        /\ buffered.text # <<>>
    BY <1>3 DEF ContAppend, Buffer
  <2>2. joined \in Buffer /\ joined.text # <<>>
    BY <2>1, JoinedText DEF Buffer
  <2>3. CASE msg[t].nl
    BY <1>3, <2>2, <2>3 DEF ContAppend, Places
  <2>4. CASE ~msg[t].nl
    BY <1>3, <2>2, <2>4 DEF ContAppend, Places
  <2> QED BY <2>3, <2>4
<1>4. ASSUME NEW t \in Threads, ContOrphan(t)
      PROVE  TypeOK'
  <2>1. msg[t] \in Message
    BY <1>4 DEF ContOrphan
  <2>2. buffered' \in Buffer /\ buffered'.text # <<>>
    BY <1>4, <2>1, SingleText DEF ContOrphan, Buffer
  <2> QED BY <1>4, <2>2 DEF ContOrphan, Places
<1>5. ASSUME NEW t \in Threads, ContFlush(t)
      PROVE  TypeOK'
  BY <1>5 DEF ContFlush, Places
<1>6. ASSUME NEW t \in Threads, PartReplace(t)
      PROVE  TypeOK'
  <2>1. msg[t] \in Message /\ msg[t].level \in StoredLevels
    BY <1>6 DEF PartReplace, Message, StoredLevels
  <2>2. buffered' \in Buffer /\ buffered'.text # <<>>
    BY <1>6, <2>1, SingleText DEF PartReplace, Buffer
  <2> QED BY <1>6, <2>2 DEF PartReplace, Places
<1>7. ASSUME NEW t \in Threads, PartFlag(t)
      PROVE  TypeOK'
  BY <1>7 DEF PartFlag, Places
<1>8. ASSUME NEW t \in Threads, PartLevel(t) \/ LineLevel(t)
      PROVE  TypeOK'
  <2>1. msg[t] \in Message /\ msg[t].level \in StoredLevels
    BY <1>8 DEF PartLevel, LineLevel, StoreLevel, Message, StoredLevels
  <2> QED BY <1>8, <2>1 DEF PartLevel, LineLevel, StoreLevel, Places
<1>9. ASSUME NEW t \in Threads, LineSwap(t)
      PROVE  TypeOK'
  BY <1>9 DEF LineSwap, Places
<1>10. ASSUME NEW t \in Threads, LineTake(t)
       PROVE  TypeOK'
  BY <1>10 DEF LineTake, Places
<1>11. ASSUME NEW t \in Threads, LineEmit(t)
       PROVE  TypeOK'
  BY <1>11 DEF LineEmit, Places
<1>12. CASE UNCHANGED vars
  BY <1>12 DEF vars
<1> QED BY <1>1, <1>2, <1>3, <1>4, <1>5, <1>6, <1>7, <1>8, <1>9, <1>10, <1>11,
           <1>12 DEF Next, Step

LEMMA StepMutexRoute ==
  ASSUME IInv, [Next]_vars
  PROVE  MutexInv' /\ RouteInv'
<1> USE LogAssumption DEF IInv, TypeOK, MutexInv, RouteInv, Goto, At
<1>1. ASSUME NEW t \in Threads, NEW level \in Levels, NEW nl \in BOOLEAN,
             Call(t, level, nl)
      PROVE  MutexInv' /\ RouteInv'
  <2>1. \A u \in Threads : u # t => pc'[u] = pc[u] /\ msg'[u] = msg[u]
    BY <1>1 DEF Call
  <2>2. pc[t] = "idle" /\ pc'[t] # "cont_flush"
    BY <1>1 DEF Call
  <2>3. msg'[t].level = level
    BY <1>1 DEF Call
  <2>4. /\ pc'[t] = "cont" => level = "CONT"
        /\ pc'[t] \in {"part", "line"} => level # "CONT"
        /\ pc'[t] \in {"idle", "disabled", "cont", "part", "line"}
    BY <1>1 DEF Call
  <2> QED BY <1>1, <2>1, <2>2, <2>3, <2>4 DEF Call
<1>2. ASSUME NEW t \in Threads, ContAppend(t)
      PROVE  MutexInv' /\ RouteInv'
  <2>1. CASE msg[t].nl
    BY <1>2, <2>1 DEF ContAppend
  <2>2. CASE ~msg[t].nl
    BY <1>2, <2>2 DEF ContAppend
  <2> QED BY <2>1, <2>2
<1>3. ASSUME NEW t \in Threads, ContFlush(t)
      PROVE  MutexInv' /\ RouteInv'
  BY <1>3 DEF ContFlush
<1>4. ASSUME NEW t \in Threads,
             Disabled(t) \/ ContOrphan(t) \/ PartReplace(t) \/ PartFlag(t)
               \/ PartLevel(t) \/ LineSwap(t) \/ LineTake(t) \/ LineLevel(t)
               \/ LineEmit(t)
      PROVE  MutexInv' /\ RouteInv'
  <2>1. /\ UNCHANGED <<lock, msg>>
        /\ lock # None => UNCHANGED buffered
        /\ \A u \in Threads : u # t => pc'[u] = pc[u]
        /\ pc[t] # "cont_flush" /\ pc'[t] # "cont_flush" /\ pc'[t] # "cont"
        /\ pc'[t] # "idle" => pc[t] \in {"part", "part_flag", "part_level",
                               "line", "line_take", "line_level", "line_emit"}
    BY <1>4 DEF Disabled, ContOrphan, PartReplace, PartFlag, PartLevel, LineSwap,
                LineTake, LineLevel, LineEmit, StoreLevel
  <2> QED BY <2>1
<1>5. CASE UNCHANGED vars
  BY <1>5 DEF vars
<1> QED BY <1>1, <1>2, <1>3, <1>4, <1>5 DEF Next, Step

LEMMA StepFlushed ==
  ASSUME IInv, [Next]_vars
  PROVE  BufferWillBeFlushed'
<1> DEFINE Covers(u) == pc[u] \in {"part_flag", "line_take"}
<1> USE LogAssumption DEF IInv, TypeOK, MutexInv, RouteInv, Goto, At,
                          BufferWillBeFlushed, IsOrphan
<1>1. ASSUME NEW t \in Threads, NEW level \in Levels, NEW nl \in BOOLEAN,
             Call(t, level, nl)
      PROVE  BufferWillBeFlushed'
  <2>1. \A u \in Threads : Covers(u) => pc'[u] = pc[u]
    BY <1>1 DEF Call
  <2> QED BY <1>1, <2>1 DEF Call
<1>2. ASSUME NEW t \in Threads, ContAppend(t)
      PROVE  BufferWillBeFlushed'
  <2>1. \A u \in Threads : Covers(u) => pc'[u] = pc[u]
    BY <1>2 DEF ContAppend
  <2>2. CASE msg[t].nl
    BY <1>2, <2>2 DEF ContAppend
  <2>3. CASE ~msg[t].nl
    <3>1. msg[t] \in Message /\ buffered \in Buffer /\ buffered.text \in Text
          /\ buffered.text # <<>>
      BY <1>2 DEF ContAppend, Buffer
    <3>2. buffered'.text = Append(buffered.text, msg[t])
      BY <1>2, <2>3, <3>1 DEF ContAppend, Buffer
    <3>3. Head(buffered'.text) = Head(buffered.text)
      BY <3>1, <3>2, JoinedText
    <3> QED BY <1>2, <2>1, <2>3, <3>3 DEF ContAppend
  <2> QED BY <2>2, <2>3
<1>3. ASSUME NEW t \in Threads, ContOrphan(t)
      PROVE  BufferWillBeFlushed'
  <2>1. Head(buffered'.text) = msg[t] /\ msg[t].level = "CONT"
    BY <1>3, SingleText DEF ContOrphan
  <2> QED BY <2>1
<1>4. ASSUME NEW t \in Threads, ContFlush(t)
      PROVE  BufferWillBeFlushed'
  BY <1>4 DEF ContFlush
<1>5. ASSUME NEW t \in Threads, PartReplace(t)
      PROVE  BufferWillBeFlushed'
  BY <1>5 DEF PartReplace
<1>6. ASSUME NEW t \in Threads, PartFlag(t)
      PROVE  BufferWillBeFlushed'
  BY <1>6 DEF PartFlag
<1>7. ASSUME NEW t \in Threads, LineSwap(t)
      PROVE  BufferWillBeFlushed'
  <2>1. CASE is_buffering
    BY <1>7, <2>1 DEF LineSwap
  <2>2. CASE ~is_buffering
    <3>1. \A u \in Threads : Covers(u) => pc'[u] = pc[u]
      BY <1>7 DEF LineSwap
    <3> QED BY <1>7, <2>2, <3>1 DEF LineSwap
  <2> QED BY <2>1, <2>2
<1>8. ASSUME NEW t \in Threads, LineTake(t)
      PROVE  BufferWillBeFlushed'
  BY <1>8 DEF LineTake
<1>9. ASSUME NEW t \in Threads,
             Disabled(t) \/ PartLevel(t) \/ LineLevel(t) \/ LineEmit(t)
      PROVE  BufferWillBeFlushed'
  <2>1. /\ UNCHANGED <<buffered, is_buffering>>
        /\ \A u \in Threads : Covers(u) => pc'[u] = pc[u]
    BY <1>9 DEF Disabled, PartLevel, LineLevel, LineEmit, StoreLevel
  <2> QED BY <2>1
<1>10. CASE UNCHANGED vars
  BY <1>10 DEF vars
<1> QED BY <1>1, <1>2, <1>3, <1>4, <1>5, <1>6, <1>7, <1>8, <1>9, <1>10
        DEF Next, Step

LEMMA SpecIInv == Spec => []IInv
<1>1. IInv /\ [Next]_vars => IInv'
  BY StepTypeOK, StepMutexRoute, StepFlushed DEF IInv
<1> QED BY InitIInv, <1>1, PTL DEF Spec

(* The variables keep their types; in particular the level a CONT stands   *)
(* for is never CONT itself, which meta_for_level could not answer.        *)
THEOREM TypeCorrect == Spec => []TypeOK
<1>1. IInv => TypeOK
  BY DEF IInv
<1> QED BY <1>1, SpecIInv, PTL

(* However the mutex and the atomics interleave, a text that was begun     *)
(* properly is never left behind with nobody to flush it.                  *)
THEOREM BufferFlushed == Spec => []BufferWillBeFlushed
<1>1. IInv => BufferWillBeFlushed
  BY DEF IInv
<1> QED BY <1>1, SpecIInv, PTL

-----------------------------------------------------------------------------
(* Where a message is.  A message that was logged is in one of five kinds  *)
(* of place, in one place of that kind, and in none of the others; one     *)
(* that is still to come is nowhere.                                       *)
One(E, B, T, H, D) ==
  \/ (\E at : E = {at}) /\ B = {} /\ T = {} /\ H = {} /\ ~D
  \/ E = {} /\ (\E at : B = {at}) /\ T = {} /\ H = {} /\ ~D
  \/ E = {} /\ B = {} /\ (\E at : T = {at}) /\ H = {} /\ ~D
  \/ E = {} /\ B = {} /\ T = {} /\ (\E at : H = {at}) /\ ~D
  \/ E = {} /\ B = {} /\ T = {} /\ H = {} /\ D

Nowhere(E, B, T, H, D) == E = {} /\ B = {} /\ T = {} /\ H = {} /\ ~D

OnePlace(id) ==
  One(EmittedAt(id), BufferedAt(id), TakenAt(id), InHand(id), id \in dropped)
NoPlace(id) ==
  Nowhere(EmittedAt(id), BufferedAt(id), TakenAt(id), InHand(id), id \in dropped)

PlaceInv ==
  /\ emitted \in Seq(Buffer)
  /\ ~panicked => /\ \A id \in 1 .. calls : OnePlace(id)
                  /\ \A id \in Nat : id > calls => NoPlace(id)

(* What a new text contributes to the places of a message.                 *)
LEMMA InSingle ==
  ASSUME NEW m, NEW id
  PROVE  InText(<<m>>, id) = IF m.id = id THEN {1} ELSE {}
<1>1. DOMAIN <<m>> = {1} /\ <<m>>[1] = m
  OBVIOUS
<1> QED BY <1>1 DEF InText

LEMMA InAppend ==
  ASSUME NEW text \in Text, NEW m \in Message, NEW id
  PROVE  InText(Append(text, m), id)
           = InText(text, id) \cup (IF m.id = id THEN {Len(text) + 1} ELSE {})
<1>1. /\ DOMAIN text = 1 .. Len(text) /\ Len(text) \in Nat
      /\ DOMAIN Append(text, m) = 1 .. Len(text) + 1
      /\ \A k \in 1 .. Len(text) : Append(text, m)[k] = text[k]
      /\ Append(text, m)[Len(text) + 1] = m
  BY DEF Text
<1> QED BY <1>1 DEF InText

LEMMA EmitMore ==
  ASSUME emitted \in Seq(Buffer), NEW level \in StoredLevels, NEW text \in Text,
         Emit(level, text), NEW id
  PROVE  /\ emitted' \in Seq(Buffer)
         /\ EmittedAt(id)'
              = EmittedAt(id) \cup ({Len(emitted) + 1} \X InText(text, id))
<1> DEFINE n == Len(emitted) + 1
<1>1. [level |-> level, text |-> text] \in Buffer
  BY DEF Buffer
<1>2. PICK e \in Buffer : e = [level |-> level, text |-> text]
  BY <1>1
<1>3. /\ emitted' \in Seq(Buffer) /\ DOMAIN emitted = 1 .. Len(emitted)
      /\ Len(emitted) \in Nat
      /\ DOMAIN emitted' = DOMAIN emitted \cup {n}
      /\ \A i \in DOMAIN emitted : emitted'[i] = emitted[i]
      /\ emitted'[n] = e /\ e.text = text
  BY <1>2 DEF Emit
<1> HIDE DEF n
<1>4. EmittedAt(id)' = UNION {{i} \X InText(emitted'[i].text, id) : i \in DOMAIN emitted'}
  BY DEF EmittedAt, InText
<1>5. EmittedAt(id) = UNION {{i} \X InText(emitted[i].text, id) : i \in DOMAIN emitted}
  BY DEF EmittedAt
<1>6. EmittedAt(id)' = EmittedAt(id) \cup ({n} \X InText(text, id))
  BY <1>3, <1>4, <1>5
<1> QED BY <1>3, <1>6 DEF n

HandPlaces == {"disabled", "cont", "part", "line", "line_take", "line_level", "line_emit"}

(* A thread that leaves a place where it has its message in hand, or       *)
(* comes to one.                                                           *)
LEMMA HandStep ==
  ASSUME pc \in [Threads -> Places], msg' = msg,
         NEW t \in Threads, NEW p, Goto(t, p), NEW id
  PROVE  /\ t \in InHand(id) <=> pc[t] \in HandPlaces /\ msg[t].id = id
         /\ InHand(id)'
              = (InHand(id) \ {t})
                  \cup (IF p \in HandPlaces /\ msg[t].id = id THEN {t} ELSE {})
BY DEF InHand, HandPlaces, Goto

(* Only the thread inside the mutex has taken a text out.                  *)
LEMMA TakenByOne ==
  ASSUME MutexInv, NEW id
  PROVE  /\ lock = None => TakenAt(id) = {}
         /\ \A t \in Threads : lock = t =>
              TakenAt(id) = {t} \X InText(taken[t].text, id)
<1>1. ASSUME lock = None PROVE TakenAt(id) = {}
  BY <1>1, LogAssumption DEF MutexInv, TakenAt
<1>2. ASSUME NEW t \in Threads, lock = t
      PROVE  TakenAt(id) = {t} \X InText(taken[t].text, id)
  <2>1. {u \in Threads : pc[u] = "cont_flush"} = {t}
    BY <1>2 DEF MutexInv
  <2> QED BY <2>1 DEF TakenAt
<1> QED BY <1>1, <1>2

(* A set of places that is moved as a whole stays as large as it was.      *)
LEMMA MovedSet ==
  ASSUME NEW B, NEW n
  PROVE  /\ {n} \X B = {} <=> B = {}
         /\ (\E at : {n} \X B = {at}) <=> (\E at : B = {at})
<1>1. \A j \in B : <<n, j>> \in {n} \X B
  OBVIOUS
<1>2. \A at \in {n} \X B : \E j \in B : at = <<n, j>>
  OBVIOUS
<1>3. \A i, j : <<n, i>> = <<n, j>> => i = j
  OBVIOUS
<1>4. {n} \X B = {} <=> B = {}
  BY <1>1, <1>2
<1>5. ASSUME NEW at, B = {at} PROVE {n} \X B = {<<n, at>>}
  BY <1>5
<1>6. ASSUME NEW at, {n} \X B = {at} PROVE \E j : B = {j}
  <2>1. PICK j \in B : at = <<n, j>>
    BY <1>2, <1>6
  <2>2. \A i \in B : i = j
    BY <1>1, <1>3, <1>6, <2>1
  <2> QED BY <2>1, <2>2
<1> QED BY <1>4, <1>5, <1>6

(* What each step may do to the places of one message.                     *)
Same(id) ==
  /\ EmittedAt(id)' = EmittedAt(id) /\ BufferedAt(id)' = BufferedAt(id)
  /\ TakenAt(id)' = TakenAt(id) /\ InHand(id)' = InHand(id)
  /\ id \in dropped' <=> id \in dropped

Keeps(id) == (OnePlace(id) => OnePlace(id)') /\ (NoPlace(id) => NoPlace(id)')

(* Nothing; ...                                                            *)
LEMMA SameKeeps == ASSUME NEW id, Same(id) PROVE Keeps(id)
BY DEF Same, Keeps, OnePlace, NoPlace

(* ... it is emitted with the buffered text; ...                           *)
LEMMA EmittedKeeps ==
  ASSUME NEW id, NEW n,
         EmittedAt(id)' = EmittedAt(id) \cup ({n} \X BufferedAt(id)),
         BufferedAt(id)' = {}, TakenAt(id)' = TakenAt(id), InHand(id)' = InHand(id),
         id \in dropped' <=> id \in dropped
  PROVE  Keeps(id)
<1>1. PICK X : X = {n} \X BufferedAt(id)
  OBVIOUS
<1>2. /\ X = {} <=> BufferedAt(id) = {}
      /\ (\E at : X = {at}) <=> (\E at : BufferedAt(id) = {at})
  <2>1. {n} \X BufferedAt(id) = {} <=> BufferedAt(id) = {}
    BY ONLY MovedSet
  <2>2. (\E at : {n} \X BufferedAt(id) = {at}) <=> (\E at : BufferedAt(id) = {at})
    BY ONLY MovedSet
  <2> QED BY <1>1, <2>1, <2>2, Zenon
<1>3. EmittedAt(id)' = EmittedAt(id) \cup X
  BY <1>1
<1>4. /\ EmittedAt(id) = {} => EmittedAt(id)' = X
      /\ X = {} => EmittedAt(id)' = EmittedAt(id)
  BY <1>3
<1>5. NoPlace(id) => NoPlace(id)'
  BY <1>2, <1>4 DEF NoPlace, Nowhere
<1>6. OnePlace(id) => OnePlace(id)'
  <2>1. CASE X = {}
    BY <1>2, <1>4, <2>1 DEF OnePlace, One
  <2>2. CASE X # {}
    BY <1>2, <1>4, <2>2 DEF OnePlace, One
  <2> QED BY <2>1, <2>2
<1> QED BY <1>5, <1>6 DEF Keeps

(* ... with the text that was taken out; ...                               *)
LEMMA FlushedKeeps ==
  ASSUME NEW id, NEW n, NEW k, NEW B, TakenAt(id) = {k} \X B,
         EmittedAt(id)' = EmittedAt(id) \cup ({n} \X B),
         BufferedAt(id)' = BufferedAt(id), TakenAt(id)' = {}, InHand(id)' = InHand(id),
         id \in dropped' <=> id \in dropped
  PROVE  Keeps(id)
<1>1. PICK X : X = {n} \X B
  OBVIOUS
<1>2. /\ X = {} <=> TakenAt(id) = {}
      /\ (\E at : X = {at}) <=> (\E at : TakenAt(id) = {at})
  <2>1. /\ {n} \X B = {} <=> B = {}
        /\ (\E at : {n} \X B = {at}) <=> (\E at : B = {at})
    BY ONLY MovedSet
  <2>2. /\ {k} \X B = {} <=> B = {}
        /\ (\E at : {k} \X B = {at}) <=> (\E at : B = {at})
    BY ONLY MovedSet
  <2> QED BY <1>1, <2>1, <2>2, Zenon
<1>3. EmittedAt(id)' = EmittedAt(id) \cup X
  BY <1>1
<1>4. /\ EmittedAt(id) = {} => EmittedAt(id)' = X
      /\ X = {} => EmittedAt(id)' = EmittedAt(id)
  BY <1>3
<1>5. NoPlace(id) => NoPlace(id)'
  BY <1>2, <1>4 DEF NoPlace, Nowhere
<1>6. OnePlace(id) => OnePlace(id)'
  <2>1. CASE X = {}
    BY <1>2, <1>4, <2>1 DEF OnePlace, One
  <2>2. CASE X # {}
    BY <1>2, <1>4, <2>2 DEF OnePlace, One
  <2> QED BY <2>1, <2>2
<1> QED BY <1>5, <1>6 DEF Keeps

(* ... it is taken out with the buffered text; ...                         *)
LEMMA TakenKeeps ==
  ASSUME NEW id, NEW k, TakenAt(id) = {}, TakenAt(id)' = {k} \X BufferedAt(id),
         EmittedAt(id)' = EmittedAt(id), BufferedAt(id)' = {}, InHand(id)' = InHand(id),
         id \in dropped' <=> id \in dropped
  PROVE  Keeps(id)
<1>1. /\ TakenAt(id)' = {} <=> BufferedAt(id) = {}
      /\ (\E at : TakenAt(id)' = {at}) <=> (\E at : BufferedAt(id) = {at})
  <2>1. {k} \X BufferedAt(id) = {} <=> BufferedAt(id) = {}
    BY ONLY MovedSet
  <2>2. (\E at : {k} \X BufferedAt(id) = {at}) <=> (\E at : BufferedAt(id) = {at})
    BY ONLY MovedSet
  <2> QED BY <2>1, <2>2, Zenon
<1>2. NoPlace(id) => NoPlace(id)'
  BY <1>1 DEF NoPlace, Nowhere
<1>3. OnePlace(id) => OnePlace(id)'
  BY <1>1 DEF OnePlace, One
<1> QED BY <1>2, <1>3 DEF Keeps

(* ... or it goes from a thread's hand, where it alone was, to one of the  *)
(* other kinds of places.                                                  *)
LEMMA HandKeeps ==
  ASSUME NEW id, NEW t \in InHand(id), InHand(id)' = InHand(id) \ {t},
         OnePlace(id) =>
           \/ /\ EmittedAt(id) = {} => \E at : EmittedAt(id)' = {at}
              /\ BufferedAt(id) = {} => BufferedAt(id)' = {}
              /\ TakenAt(id) = {} => TakenAt(id)' = {}
              /\ id \in dropped' <=> id \in dropped
           \/ /\ EmittedAt(id)' = EmittedAt(id)
              /\ BufferedAt(id) = {} => \E at : BufferedAt(id)' = {at}
              /\ TakenAt(id) = {} => TakenAt(id)' = {}
              /\ id \in dropped' <=> id \in dropped
           \/ /\ EmittedAt(id)' = EmittedAt(id)
              /\ BufferedAt(id) = {} => BufferedAt(id)' = {} /\ \E at : TakenAt(id)' = {at}
              /\ id \in dropped' <=> id \in dropped
           \/ /\ EmittedAt(id)' = EmittedAt(id) /\ BufferedAt(id)' = BufferedAt(id)
              /\ TakenAt(id)' = TakenAt(id) /\ id \in dropped'
  PROVE  Keeps(id)
<1>1. InHand(id) # {}
  OBVIOUS
<1>2. ~NoPlace(id)
  BY <1>1 DEF NoPlace, Nowhere
<1>3. ASSUME OnePlace(id) PROVE OnePlace(id)'
  <2>1. /\ \E at : InHand(id) = {at}
        /\ EmittedAt(id) = {} /\ BufferedAt(id) = {} /\ TakenAt(id) = {}
        /\ id \notin dropped
    BY <1>1, <1>3 DEF OnePlace, One
  <2>2. InHand(id)' = {}
    BY <2>1
  <2> QED BY <1>3, <2>1, <2>2 DEF OnePlace, One
<1> QED BY <1>2, <1>3 DEF Keeps

(* The buffered text, if there is one, is emitted.                         *)
LEMMA EmitBuffered ==
  ASSUME TypeOK, emitted \in Seq(Buffer),
         IF buffered # None THEN Emit(buffered.level, buffered.text) ELSE UNCHANGED emitted
  PROVE  /\ emitted' \in Seq(Buffer)
         /\ \A id : EmittedAt(id)' = EmittedAt(id)
                      \cup ({Len(emitted) + 1} \X BufferedAt(id))
<1>1. CASE buffered = None
  <2>1. \A id : BufferedAt(id) = {} /\ EmittedAt(id)' = EmittedAt(id)
    BY <1>1 DEF BufferedAt, EmittedAt, InText
  <2>2. \A n : {n} \X {} = {}
    OBVIOUS
  <2> QED BY <1>1, <2>1, <2>2
<1>2. CASE buffered # None
  <2>1. buffered.level \in StoredLevels /\ buffered.text \in Text
    BY <1>2 DEF TypeOK, Buffer
  <2>2. \A id : BufferedAt(id) = InText(buffered.text, id)
    BY <1>2 DEF BufferedAt
  <2>3. Emit(buffered.level, buffered.text)
    BY <1>2
  <2>4. emitted' \in Seq(Buffer)
    BY <2>1, <2>3, EmitMore
  <2>5. ASSUME NEW id
        PROVE  EmittedAt(id)' = EmittedAt(id)
                 \cup ({Len(emitted) + 1} \X BufferedAt(id))
    BY <2>1, <2>2, <2>3, EmitMore
  <2> QED BY <2>4, <2>5
<1> QED BY <1>1, <1>2

LEMMA CallPlaces ==
  ASSUME IInv, PlaceInv, NEW t \in Threads, NEW level \in Levels, NEW nl \in BOOLEAN,
         Call(t, level, nl)
  PROVE  PlaceInv'
<1>1. calls \in Nat /\ calls' = calls + 1 /\ ~panicked /\ pc[t] = "idle"
  BY LogAssumption DEF Call, At, IInv, TypeOK
<1>2. SUFFICES ASSUME ~panicked'
               PROVE  /\ \A id \in 1 .. calls' : OnePlace(id)'
                      /\ \A id \in Nat : id > calls' => NoPlace(id)'
  BY DEF PlaceInv, Call
<1>3. /\ pc \in [Threads -> Places] /\ DOMAIN msg = Threads
      /\ \A u \in Threads : u # t => pc'[u] = pc[u] /\ msg'[u] = msg[u]
      /\ pc'[t] \in {"disabled", "cont", "part", "line"}
      /\ msg'[t].id = calls + 1
  BY <1>2 DEF Call, IInv, TypeOK, Goto
<1>4. ASSUME NEW id
      PROVE  /\ EmittedAt(id)' = EmittedAt(id) /\ BufferedAt(id)' = BufferedAt(id)
             /\ TakenAt(id)' = TakenAt(id)
             /\ (id \in dropped' <=> id \in dropped)
             /\ InHand(id)' = InHand(id) \cup (IF id = calls + 1 THEN {t} ELSE {})
  <2>1. EmittedAt(id)' = EmittedAt(id) /\ BufferedAt(id)' = BufferedAt(id)
    BY DEF Call, EmittedAt, BufferedAt, InText
  <2>2. TakenAt(id)' = TakenAt(id)
    <3>1. {u \in Threads : pc'[u] = "cont_flush"} = {u \in Threads : pc[u] = "cont_flush"}
      BY <1>1, <1>3
    <3>2. taken' = taken
      BY DEF Call
    <3> QED BY <3>1, <3>2 DEF TakenAt, InText
  <2>3. InHand(id)' = InHand(id) \cup (IF id = calls + 1 THEN {t} ELSE {})
    BY <1>1, <1>3 DEF InHand
  <2>4. dropped' = dropped
    BY DEF Call
  <2> QED BY <2>1, <2>2, <2>3, <2>4
<1>5. ASSUME NEW id \in 1 .. calls' PROVE OnePlace(id)'
  <2>1. CASE id = calls + 1
    <3>1. NoPlace(id)
      BY <1>1, <2>1 DEF PlaceInv
    <3>2. InHand(id)' = {t}
      BY <1>4, <2>1, <3>1 DEF NoPlace, Nowhere
    <3> QED BY <1>4, <3>1, <3>2 DEF NoPlace, Nowhere, OnePlace, One
  <2>2. CASE id # calls + 1
    <3>1. OnePlace(id)
      BY <1>1, <2>2 DEF PlaceInv
    <3>2. InHand(id)' = InHand(id)
      BY <1>4, <2>2
    <3> QED BY <1>4, <3>1, <3>2 DEF OnePlace, One
  <2> QED BY <2>1, <2>2
<1>6. ASSUME NEW id \in Nat, id > calls' PROVE NoPlace(id)'
  <2>1. NoPlace(id) /\ id # calls + 1
    BY <1>1, <1>6 DEF PlaceInv
  <2>2. InHand(id)' = InHand(id)
    BY <1>4, <2>1
  <2> QED BY <1>4, <2>1, <2>2 DEF NoPlace, Nowhere
<1> QED BY <1>5, <1>6

(* Steps that log no new message: it is enough that each message keeps its *)
(* place, or moves.                                                        *)
LEMMA KeptPlaces ==
  ASSUME PlaceInv, emitted' \in Seq(Buffer), UNCHANGED <<calls, panicked>>,
         \A id : Keeps(id)
  PROVE  PlaceInv'
BY DEF PlaceInv, Keeps

LEMMA DisabledPlaces ==
  ASSUME IInv, NEW t \in Threads, Disabled(t), NEW id
  PROVE  Keeps(id)
<1>1. /\ pc \in [Threads -> Places] /\ msg' = msg /\ Goto(t, "idle")
      /\ pc[t] = "disabled" /\ (id \in dropped' <=> id \in dropped \/ msg[t].id = id)
  BY DEF Disabled, At, IInv, TypeOK
<1>2. /\ EmittedAt(id)' = EmittedAt(id) /\ BufferedAt(id)' = BufferedAt(id)
      /\ TakenAt(id)' = TakenAt(id)
  BY <1>1 DEF Disabled, EmittedAt, BufferedAt, TakenAt, InText, Goto
<1>3. InHand(id)' = InHand(id) \ {t} /\ (t \in InHand(id) <=> msg[t].id = id)
  BY <1>1, HandStep DEF HandPlaces
<1>4. CASE msg[t].id = id
  BY <1>1, <1>2, <1>3, <1>4, HandKeeps
<1>5. CASE msg[t].id # id
  <2>1. Same(id)
    BY <1>1, <1>2, <1>3, <1>5 DEF Same
  <2> QED BY <2>1, SameKeeps
<1> QED BY <1>4, <1>5

LEMMA ContAppendPlaces ==
  ASSUME IInv, NEW t \in Threads, ContAppend(t), NEW id
  PROVE  Keeps(id)
<1> DEFINE joined == [buffered EXCEPT !.text = Append(@, msg[t])]
           B == BufferedAt(id)
           Plus == IF msg[t].id = id THEN {Len(buffered.text) + 1} ELSE {}
<1>1. /\ pc \in [Threads -> Places] /\ msg' = msg /\ msg[t] \in Message
      /\ pc[t] = "cont" /\ lock = None /\ buffered # None /\ buffered \in Buffer
      /\ buffered.text \in Text /\ DOMAIN taken = Threads /\ MutexInv
      /\ emitted' = emitted /\ dropped' = dropped
  BY DEF ContAppend, At, IInv, TypeOK, Buffer
<1>2. joined.text = Append(buffered.text, msg[t]) /\ joined \in Buffer
  <2>1. Append(buffered.text, msg[t]) \in Text
    BY <1>1 DEF Text
  <2> QED BY <1>1, <2>1 DEF Buffer
<1>3. InText(joined.text, id) = B \cup Plus
  BY <1>1, <1>2, InAppend DEF BufferedAt
<1>4. EmittedAt(id)' = EmittedAt(id)
  BY <1>1 DEF EmittedAt, InText
<1>5. TakenAt(id) = {}
  BY <1>1, TakenByOne
<1>6. ASSUME NEW p \in {"idle", "cont_flush"}, Goto(t, p)
      PROVE  InHand(id)' = InHand(id) \ {t} /\ (t \in InHand(id) <=> msg[t].id = id)
  BY <1>1, <1>6, HandStep DEF HandPlaces
<1> HIDE DEF joined
<1>7. CASE msg[t].nl
  <2>1. /\ buffered' = None /\ taken' = [taken EXCEPT ![t] = joined]
        /\ Goto(t, "cont_flush")
    BY <1>7 DEF ContAppend, joined
  <2>2. BufferedAt(id)' = {}
    BY <2>1 DEF BufferedAt
  <2>3. TakenAt(id)' = {t} \X (B \cup Plus)
    <3>1. {u \in Threads : pc'[u] = "cont_flush"} = {t}
      BY <1>1, <2>1, LogAssumption DEF MutexInv, Goto
    <3>2. taken'[t] = joined
      BY <1>1, <2>1
    <3>3. TakenAt(id)' = {t} \X InText(joined.text, id)
      BY <3>1, <3>2 DEF TakenAt, InText
    <3> QED BY <1>3, <3>3
  <2>4. InHand(id)' = InHand(id) \ {t} /\ (t \in InHand(id) <=> msg[t].id = id)
    BY <1>6, <2>1
  <2>5. CASE msg[t].id = id
    <3>1. B = {} => B \cup Plus = {Len(buffered.text) + 1}
      BY <2>5
    <3>2. \A at : {t} \X {at} = {<<t, at>>}
      OBVIOUS
    <3>3. B = {} => TakenAt(id)' = {<<t, Len(buffered.text) + 1>>}
      BY <2>3, <3>1, <3>2
    <3> QED BY <1>1, <1>4, <2>2, <2>4, <2>5, <3>3, HandKeeps
  <2>6. CASE msg[t].id # id
    <3>1. B \cup Plus = B /\ InHand(id)' = InHand(id)
      BY <2>4, <2>6
    <3>2. TakenAt(id)' = {t} \X BufferedAt(id)
      BY <2>3, <3>1
    <3> QED BY <1>1, <1>4, <1>5, <2>2, <3>1, <3>2, TakenKeeps
  <2> QED BY <2>5, <2>6
<1>8. CASE ~msg[t].nl
  <2>1. buffered' = joined /\ taken' = taken /\ Goto(t, "idle")
    BY <1>8 DEF ContAppend, joined
  <2>2. BufferedAt(id)' = B \cup Plus
    <3>1. joined # None
      BY <1>2, NoneAssumption
    <3> QED BY <1>3, <2>1, <3>1 DEF BufferedAt, InText
  <2>3. TakenAt(id)' = {}
    <3>1. {u \in Threads : pc'[u] = "cont_flush"} = {}
      BY <1>1, <2>1, LogAssumption DEF MutexInv, Goto
    <3> QED BY <3>1 DEF TakenAt
  <2>4. InHand(id)' = InHand(id) \ {t} /\ (t \in InHand(id) <=> msg[t].id = id)
    BY <1>6, <2>1
  <2>5. CASE msg[t].id = id
    <3>1. B = {} => BufferedAt(id)' = {Len(buffered.text) + 1}
      BY <2>2, <2>5
    <3> QED BY <1>1, <1>4, <2>3, <2>4, <2>5, <3>1, HandKeeps
  <2>6. CASE msg[t].id # id
    <3>1. Same(id)
      BY <1>1, <1>4, <1>5, <2>2, <2>3, <2>4, <2>6 DEF Same
    <3> QED BY <3>1, SameKeeps
  <2> QED BY <2>5, <2>6
<1> QED BY <1>7, <1>8

LEMMA ContOrphanPlaces ==
  ASSUME IInv, NEW t \in Threads, ContOrphan(t), NEW id
  PROVE  Keeps(id)
<1>1. /\ pc \in [Threads -> Places] /\ msg' = msg /\ msg[t] \in Message
      /\ pc[t] = "cont" /\ lock = None /\ buffered = None /\ Goto(t, "idle")
      /\ emitted' = emitted /\ dropped' = dropped /\ taken' = taken
      /\ previous_level \in StoredLevels
      /\ buffered' = [level |-> previous_level, text |-> <<msg[t]>>]
  BY DEF ContOrphan, At, IInv, TypeOK
<1>2. BufferedAt(id) = {}
  BY <1>1 DEF BufferedAt
<1>3. BufferedAt(id)' = IF msg[t].id = id THEN {1} ELSE {}
  <2>1. buffered' \in Buffer
    BY <1>1, SingleText DEF Buffer
  <2>2. buffered' # None /\ buffered'.text = <<msg[t]>>
    BY <1>1, <2>1, NoneAssumption
  <2>3. InText(<<msg[t]>>, id) = IF msg[t].id = id THEN {1} ELSE {}
    BY InSingle
  <2> QED BY <2>2, <2>3 DEF BufferedAt, InText
<1>4. EmittedAt(id)' = EmittedAt(id) /\ TakenAt(id)' = TakenAt(id)
  BY <1>1 DEF EmittedAt, TakenAt, InText, Goto
<1>5. InHand(id)' = InHand(id) \ {t} /\ (t \in InHand(id) <=> msg[t].id = id)
  BY <1>1, HandStep DEF HandPlaces
<1>6. CASE msg[t].id = id
  BY <1>1, <1>2, <1>3, <1>4, <1>5, <1>6, HandKeeps
<1>7. CASE msg[t].id # id
  <2>1. Same(id)
    BY <1>1, <1>2, <1>3, <1>4, <1>5, <1>7 DEF Same
  <2> QED BY <2>1, SameKeeps
<1> QED BY <1>6, <1>7

LEMMA ContFlushPlaces ==
  ASSUME IInv, emitted \in Seq(Buffer), NEW t \in Threads, ContFlush(t)
  PROVE  emitted' \in Seq(Buffer) /\ \A id : Keeps(id)
<1>1. /\ pc \in [Threads -> Places] /\ msg' = msg /\ pc[t] = "cont_flush"
      /\ lock = t /\ MutexInv /\ buffered' = buffered /\ dropped' = dropped
      /\ Goto(t, "idle") /\ Emit(taken[t].level, taken[t].text)
      /\ taken[t].level \in StoredLevels /\ taken[t].text \in Text
  BY DEF ContFlush, At, IInv, TypeOK, Buffer, MutexInv
<1>2. emitted' \in Seq(Buffer)
  BY <1>1, EmitMore
<1>3. ASSUME NEW id PROVE Keeps(id)
  <2>1. EmittedAt(id)' = EmittedAt(id)
                           \cup ({Len(emitted) + 1} \X InText(taken[t].text, id))
    BY <1>1, EmitMore
  <2>2. TakenAt(id) = {t} \X InText(taken[t].text, id)
    BY <1>1, TakenByOne
  <2>3. TakenAt(id)' = {}
    <3>1. {u \in Threads : pc'[u] = "cont_flush"} = {}
      BY <1>1, LogAssumption DEF MutexInv, Goto
    <3> QED BY <3>1 DEF TakenAt
  <2>4. BufferedAt(id)' = BufferedAt(id)
    BY <1>1 DEF BufferedAt, InText
  <2>5. InHand(id)' = InHand(id)
    <3>1. t \notin InHand(id)
      BY <1>1 DEF InHand
    <3>2. InHand(id)' = InHand(id) \ {t}
      BY <1>1, HandStep DEF HandPlaces
    <3> QED BY <3>1, <3>2
  <2> QED BY <1>1, <2>1, <2>2, <2>3, <2>4, <2>5, FlushedKeeps
<1> QED BY <1>2, <1>3

LEMMA PartReplacePlaces ==
  ASSUME IInv, emitted \in Seq(Buffer), NEW t \in Threads, PartReplace(t)
  PROVE  emitted' \in Seq(Buffer) /\ \A id : Keeps(id)
<1>1. /\ pc \in [Threads -> Places] /\ msg' = msg /\ pc[t] = "part"
      /\ msg[t] \in Message /\ msg[t].level # "CONT" /\ TypeOK
      /\ dropped' = dropped /\ taken' = taken /\ Goto(t, "part_flag")
      /\ buffered' = [level |-> msg[t].level, text |-> <<msg[t]>>]
  BY DEF PartReplace, At, IInv, TypeOK, RouteInv
<1>2. /\ emitted' \in Seq(Buffer)
      /\ \A id : EmittedAt(id)' = EmittedAt(id)
                   \cup ({Len(emitted) + 1} \X BufferedAt(id))
  BY <1>1, EmitBuffered DEF PartReplace
<1>3. ASSUME NEW id PROVE Keeps(id)
  <2>1. BufferedAt(id)' = IF msg[t].id = id THEN {1} ELSE {}
    <3>1. buffered' \in Buffer
      BY <1>1, SingleText DEF Buffer, Message, StoredLevels
    <3>2. buffered' # None /\ buffered'.text = <<msg[t]>>
      BY <1>1, <3>1, NoneAssumption
    <3>3. InText(<<msg[t]>>, id) = IF msg[t].id = id THEN {1} ELSE {}
      BY InSingle
    <3> QED BY <3>2, <3>3 DEF BufferedAt, InText
  <2>2. TakenAt(id)' = TakenAt(id)
    BY <1>1 DEF TakenAt, InText, Goto
  <2>3. InHand(id)' = InHand(id) \ {t} /\ (t \in InHand(id) <=> msg[t].id = id)
    BY <1>1, HandStep DEF HandPlaces
  <2>4. CASE msg[t].id = id
    <3>1. BufferedAt(id) = {} => EmittedAt(id)' = EmittedAt(id)
      <4>1. {Len(emitted) + 1} \X {} = {} /\ EmittedAt(id) \cup {} = EmittedAt(id)
        OBVIOUS
      <4> QED BY <1>2, <4>1
    <3>2. OnePlace(id) => BufferedAt(id) = {}
      <4>1. InHand(id) # {}
        BY <2>3, <2>4
      <4> QED BY <4>1 DEF OnePlace, One
    <3> QED BY <1>1, <2>1, <2>2, <2>3, <2>4, <3>1, <3>2, HandKeeps
  <2>5. CASE msg[t].id # id
    <3>1. InHand(id)' = InHand(id) /\ BufferedAt(id)' = {}
      BY <2>1, <2>3, <2>5
    <3> QED BY <1>1, <1>2, <2>2, <3>1, EmittedKeeps
  <2> QED BY <2>4, <2>5
<1> QED BY <1>2, <1>3

LEMMA LineTakePlaces ==
  ASSUME IInv, emitted \in Seq(Buffer), NEW t \in Threads, LineTake(t)
  PROVE  emitted' \in Seq(Buffer) /\ \A id : Keeps(id)
<1>1. /\ pc \in [Threads -> Places] /\ msg' = msg /\ pc[t] = "line_take" /\ TypeOK
      /\ dropped' = dropped /\ taken' = taken /\ Goto(t, "line_level")
      /\ buffered' = None
  BY DEF LineTake, At, IInv, TypeOK
<1>2. /\ emitted' \in Seq(Buffer)
      /\ \A id : EmittedAt(id)' = EmittedAt(id)
                   \cup ({Len(emitted) + 1} \X BufferedAt(id))
  BY <1>1, EmitBuffered DEF LineTake
<1>3. ASSUME NEW id PROVE Keeps(id)
  <2>1. BufferedAt(id)' = {}
    BY <1>1 DEF BufferedAt
  <2>2. TakenAt(id)' = TakenAt(id)
    BY <1>1 DEF TakenAt, InText, Goto
  <2>3. InHand(id)' = InHand(id)
    <3>1. /\ t \in InHand(id) <=> msg[t].id = id
          /\ InHand(id)' = (InHand(id) \ {t})
                             \cup (IF msg[t].id = id THEN {t} ELSE {})
      BY <1>1, HandStep DEF HandPlaces
    <3> QED BY <3>1
  <2> QED BY <1>1, <1>2, <2>1, <2>2, <2>3, EmittedKeeps
<1> QED BY <1>2, <1>3

LEMMA LineEmitPlaces ==
  ASSUME IInv, emitted \in Seq(Buffer), NEW t \in Threads, LineEmit(t)
  PROVE  emitted' \in Seq(Buffer) /\ \A id : Keeps(id)
<1>1. /\ pc \in [Threads -> Places] /\ msg' = msg /\ pc[t] = "line_emit"
      /\ msg[t] \in Message /\ msg[t].level \in StoredLevels
      /\ dropped' = dropped /\ taken' = taken /\ buffered' = buffered
      /\ Goto(t, "idle") /\ Emit(msg[t].level, <<msg[t]>>)
  BY DEF LineEmit, At, IInv, TypeOK, RouteInv, Message, StoredLevels
<1>2. <<msg[t]>> \in Text
  BY <1>1, SingleText
<1>3. emitted' \in Seq(Buffer)
  BY <1>1, <1>2, EmitMore
<1>4. ASSUME NEW id PROVE Keeps(id)
  <2>1. EmittedAt(id)' = EmittedAt(id)
          \cup ({Len(emitted) + 1} \X (IF msg[t].id = id THEN {1} ELSE {}))
    <3>1. EmittedAt(id)' = EmittedAt(id)
                             \cup ({Len(emitted) + 1} \X InText(<<msg[t]>>, id))
      BY <1>1, <1>2, EmitMore
    <3> QED BY <3>1, InSingle
  <2>2. TakenAt(id)' = TakenAt(id) /\ BufferedAt(id)' = BufferedAt(id)
    BY <1>1 DEF TakenAt, BufferedAt, InText, Goto
  <2>3. InHand(id)' = InHand(id) \ {t} /\ (t \in InHand(id) <=> msg[t].id = id)
    BY <1>1, HandStep DEF HandPlaces
  <2>4. CASE msg[t].id = id
    <3>1. {Len(emitted) + 1} \X {1} = {<<Len(emitted) + 1, 1>>}
      OBVIOUS
    <3>2. EmittedAt(id) = {} => EmittedAt(id)' = {<<Len(emitted) + 1, 1>>}
      BY <2>1, <2>4, <3>1
    <3> QED BY <1>1, <2>2, <2>3, <2>4, <3>2, HandKeeps
  <2>5. CASE msg[t].id # id
    <3>1. {Len(emitted) + 1} \X {} = {}
      OBVIOUS
    <3>2. Same(id)
      BY <1>1, <2>1, <2>2, <2>3, <2>5, <3>1 DEF Same
    <3> QED BY <3>2, SameKeeps
  <2> QED BY <2>4, <2>5
<1> QED BY <1>3, <1>4

(* The atomics move nothing.                                               *)
LEMMA AtomicPlaces ==
  ASSUME IInv, NEW t \in Threads,
         PartFlag(t) \/ PartLevel(t) \/ LineSwap(t) \/ LineLevel(t), NEW id
  PROVE  Keeps(id)
<1>1. /\ pc \in [Threads -> Places] /\ msg' = msg /\ taken' = taken
      /\ dropped' = dropped /\ buffered' = buffered /\ emitted' = emitted
  BY DEF PartFlag, PartLevel, LineSwap, LineLevel, StoreLevel, IInv, TypeOK
<1>2. PICK p : /\ Goto(t, p) /\ pc[t] # "cont_flush" /\ p # "cont_flush"
               /\ p \in HandPlaces <=> pc[t] \in HandPlaces
  BY DEF PartFlag, PartLevel, LineSwap, LineLevel, StoreLevel, At, HandPlaces
<1>3. EmittedAt(id)' = EmittedAt(id) /\ BufferedAt(id)' = BufferedAt(id)
  BY <1>1 DEF EmittedAt, BufferedAt, InText
<1>4. TakenAt(id)' = TakenAt(id)
  BY <1>1, <1>2 DEF TakenAt, InText, Goto
<1>5. InHand(id)' = InHand(id)
  BY <1>1, <1>2, HandStep
<1>6. Same(id)
  BY <1>1, <1>3, <1>4, <1>5 DEF Same
<1> QED BY <1>6, SameKeeps

LEMMA InitPlaces == Init => PlaceInv
<1> SUFFICES ASSUME Init PROVE PlaceInv
  OBVIOUS
<1>1. emitted = <<>> /\ calls = 0 /\ emitted \in Seq(Buffer)
  BY DEF Init
<1>2. ASSUME NEW id PROVE NoPlace(id)
  <2>1. EmittedAt(id) = {}
    BY <1>1 DEF EmittedAt
  <2>2. BufferedAt(id) = {} /\ TakenAt(id) = {} /\ InHand(id) = {}
    BY DEF Init, BufferedAt, TakenAt, InHand
  <2> QED BY <2>1, <2>2 DEF Init, NoPlace, Nowhere
<1> QED BY <1>1, <1>2 DEF PlaceInv

LEMMA StepPlaces == ASSUME IInv, PlaceInv, [Next]_vars PROVE PlaceInv'
<1>1. emitted \in Seq(Buffer)
  BY DEF PlaceInv
<1>2. ASSUME NEW t \in Threads, NEW level \in Levels, NEW nl \in BOOLEAN,
             Call(t, level, nl)
      PROVE  PlaceInv'
  BY <1>2, CallPlaces
<1>3. ASSUME NEW t \in Threads, Step(t) PROVE PlaceInv'
  <2>1. UNCHANGED <<calls, panicked>>
    BY <1>3 DEF Step, Disabled, ContAppend, ContOrphan, ContFlush, PartReplace, PartFlag,
                PartLevel, LineSwap, LineTake, LineLevel, LineEmit, StoreLevel
  <2>2. CASE Disabled(t)
    <3>1. emitted' = emitted
      BY <2>2 DEF Disabled
    <3> QED BY <1>1, <2>1, <2>2, <3>1, DisabledPlaces, KeptPlaces
  <2>3. CASE ContAppend(t)
    <3>1. emitted' = emitted
      BY <2>3 DEF ContAppend
    <3> QED BY <1>1, <2>1, <2>3, <3>1, ContAppendPlaces, KeptPlaces
  <2>4. CASE ContOrphan(t)
    <3>1. emitted' = emitted
      BY <2>4 DEF ContOrphan
    <3> QED BY <1>1, <2>1, <2>4, <3>1, ContOrphanPlaces, KeptPlaces
  <2>5. CASE ContFlush(t)
    BY <1>1, <2>1, <2>5, ContFlushPlaces, KeptPlaces
  <2>6. CASE PartReplace(t)
    BY <1>1, <2>1, <2>6, PartReplacePlaces, KeptPlaces
  <2>7. CASE LineTake(t)
    BY <1>1, <2>1, <2>7, LineTakePlaces, KeptPlaces
  <2>8. CASE LineEmit(t)
    BY <1>1, <2>1, <2>8, LineEmitPlaces, KeptPlaces
  <2>9. CASE PartFlag(t) \/ PartLevel(t) \/ LineSwap(t) \/ LineLevel(t)
    <3>1. emitted' = emitted
      BY <2>9 DEF PartFlag, PartLevel, LineSwap, LineLevel, StoreLevel
    <3> QED BY <1>1, <2>1, <2>9, <3>1, AtomicPlaces, KeptPlaces
  <2> QED BY <1>3, <2>2, <2>3, <2>4, <2>5, <2>6, <2>7, <2>8, <2>9 DEF Step
<1>4. CASE UNCHANGED vars
  <2>1. emitted' \in Seq(Buffer) /\ UNCHANGED <<calls, panicked>>
    BY <1>1, <1>4 DEF vars
  <2>2. ASSUME NEW id PROVE Same(id)
    BY <1>4 DEF vars, Same, EmittedAt, BufferedAt, TakenAt, InHand, InText
  <2>3. \A id : Keeps(id)
    BY <2>2, SameKeeps
  <2> QED BY <2>1, <2>3, KeptPlaces
<1> QED BY <1>2, <1>3, <1>4 DEF Next

LEMMA SpecPlaces == Spec => []PlaceInv
<1>1. IInv /\ PlaceInv /\ [Next]_vars => PlaceInv'
  BY StepPlaces
<1> QED BY InitPlaces, <1>1, SpecIInv, PTL DEF Spec

(* No message is lost between the mutex and the atomics, and none is       *)
(* emitted twice, for any number of threads (log.rs:159-253).              *)
THEOREM NothingLostOrTwice == Spec => []EachMessageOnce
<1>1. PlaceInv => EachMessageOnce
  <2> SUFFICES ASSUME PlaceInv, ~panicked, NEW id \in 1 .. calls
               PROVE  Cardinality(EmittedAt(id)) + Cardinality(BufferedAt(id))
                        + Cardinality(TakenAt(id)) + Cardinality(InHand(id))
                        + (IF id \in dropped THEN 1 ELSE 0) = 1
    BY DEF EachMessageOnce
  <2>1. Cardinality({}) = 0 /\ \A at : Cardinality({at}) = 1
    BY FS_EmptySet, FS_Singleton
  <2>2. One(EmittedAt(id), BufferedAt(id), TakenAt(id), InHand(id), id \in dropped)
    BY DEF PlaceInv, OnePlace
  <2>3. CASE id \in dropped
    <3>1. /\ EmittedAt(id) = {} /\ BufferedAt(id) = {} /\ TakenAt(id) = {}
          /\ InHand(id) = {}
      BY <2>2, <2>3 DEF One
    <3> QED BY <2>1, <2>3, <3>1
  <2>4. CASE id \notin dropped
    <3>1. CASE \E at : EmittedAt(id) = {at}
      <4>1. /\ Cardinality(EmittedAt(id)) = 1 /\ BufferedAt(id) = {}
            /\ TakenAt(id) = {} /\ InHand(id) = {}
        BY <2>1, <2>2, <3>1 DEF One
      <4> QED BY <2>1, <2>4, <4>1
    <3>2. CASE \E at : BufferedAt(id) = {at}
      <4>1. /\ Cardinality(BufferedAt(id)) = 1 /\ EmittedAt(id) = {}
            /\ TakenAt(id) = {} /\ InHand(id) = {}
        BY <2>1, <2>2, <3>2 DEF One
      <4> QED BY <2>1, <2>4, <4>1
    <3>3. CASE \E at : TakenAt(id) = {at}
      <4>1. /\ Cardinality(TakenAt(id)) = 1 /\ EmittedAt(id) = {}
            /\ BufferedAt(id) = {} /\ InHand(id) = {}
        BY <2>1, <2>2, <3>3 DEF One
      <4> QED BY <2>1, <2>4, <4>1
    <3>4. CASE \E at : InHand(id) = {at}
      <4>1. /\ Cardinality(InHand(id)) = 1 /\ EmittedAt(id) = {}
            /\ BufferedAt(id) = {} /\ TakenAt(id) = {}
        BY <2>1, <2>2, <3>4 DEF One
      <4> QED BY <2>1, <2>4, <4>1
    <3> QED BY <2>2, <2>4, <3>1, <3>2, <3>3, <3>4 DEF One
  <2> QED BY <2>3, <2>4
<1> QED BY <1>1, SpecPlaces, PTL

-----------------------------------------------------------------------------
(* One thread alone: no other has ever logged.                             *)
Alone == \A t, u \in Threads : msg[t] # None /\ msg[u] # None => t = u

Consecutive(text) ==
  \A k \in 1 .. Len(text) - 1 : text[k + 1].id = text[k].id + 1
LastId(text) == text[Len(text)].id

(* A buffered text that was begun by a message of its own.                 *)
Proper == buffered # None /\ ~IsOrphan(buffered.text)

(* Everything emitted was begun before message n.                          *)
EmittedBefore(n) ==
  \A i \in 1 .. Len(emitted) :
    ~IsOrphan(emitted[i].text) => Head(emitted[i].text).id \in 0 .. n - 1

(* A text that may be emitted next: it is whole, and begins after all that *)
(* were emitted.                                                           *)
Fits(text) ==
  ~IsOrphan(text) => /\ Consecutive(text)
                     /\ Head(text).id \in 0 .. calls
                     /\ EmittedBefore(Head(text).id)

EmittedInOrder ==
  /\ \A i \in 1 .. Len(emitted) :
       ~IsOrphan(emitted[i].text) => Consecutive(emitted[i].text)
  /\ \A i, j \in 1 .. Len(emitted) :
       i < j /\ ~IsOrphan(emitted[i].text) /\ ~IsOrphan(emitted[j].text)
         => Head(emitted[i].text).id < Head(emitted[j].text).id
  /\ EmittedBefore(calls + 1)

(* What the one thread knows at each place.                                *)
ThreadInOrder(t) ==
  /\ pc[t] # "idle" => msg[t].id = calls
  /\ pc[t] = "disabled" => EffectiveLevel(msg[t].level) \notin EnabledLevels
  /\ pc[t] \in {"disabled", "cont", "part", "line", "line_take"} =>
       /\ EmittedBefore(calls)
       /\ Proper => Head(buffered.text).id < calls
  /\ pc[t] \in {"line_level", "line_emit"} => EmittedBefore(calls) /\ ~Proper
  /\ pc[t] = "cont" /\ Proper => LastId(buffered.text) = calls - 1
  /\ pc[t] \in {"part_flag", "part_level"} /\ Proper => LastId(buffered.text) = calls
  /\ pc[t] = "cont_flush" => Fits(taken[t].text)

(* Between two messages: the next CONT that is enabled continues the last  *)
(* message.                                                                *)
IdleInOrder ==
  (\A t \in Threads : pc[t] = "idle") /\ Proper /\ previous_level \in EnabledLevels
    => LastId(buffered.text) = calls

InOrder ==
  /\ EmittedInOrder
  /\ buffered # None => Fits(buffered.text)
  /\ \A t \in Threads : ThreadInOrder(t)
  /\ IdleInOrder

OrderInv == Alone => EmittedInOrder /\ (~panicked => InOrder)

-----------------------------------------------------------------------------
(* As long as one thread alone has logged, the others are idle and stay    *)
(* so.                                                                     *)
LEMMA OthersIdle ==
  ASSUME TypeOK, Alone, NEW t \in Threads, pc[t] # "idle",
         NEW u \in Threads, u # t
  PROVE  pc[u] = "idle"
<1>1. msg[t] # None
  BY NoneAssumption DEF TypeOK
<1>2. pc[u] # "idle" => msg[u] # None
  BY NoneAssumption DEF TypeOK
<1> QED BY <1>1, <1>2 DEF Alone

LEMMA WasAlone ==
  ASSUME TypeOK, [Next]_vars, Alone'
  PROVE  Alone
<1>1. ASSUME NEW t \in Threads, NEW level \in Levels, NEW nl \in BOOLEAN,
             Call(t, level, nl)
      PROVE  Alone
  <2>1. [id |-> calls + 1, level |-> level, nl |-> nl] \in Message
    BY LogAssumption DEF TypeOK, Message
  <2>2. /\ msg'[t] # None
        /\ \A u \in Threads : u # t => msg'[u] = msg[u]
    BY <1>1, <2>1, NoneAssumption DEF Call, TypeOK
  <2> QED BY <2>2 DEF Alone
<1>2. ASSUME NEW t \in Threads, Step(t) PROVE Alone
  <2>1. msg' = msg
    BY <1>2 DEF Step, Disabled, ContAppend, ContOrphan, ContFlush, PartReplace, PartFlag,
                PartLevel, LineSwap, LineTake, LineLevel, LineEmit, StoreLevel
  <2> QED BY <2>1 DEF Alone
<1>3. CASE UNCHANGED vars
  BY <1>3 DEF vars, Alone
<1> QED BY <1>1, <1>2, <1>3 DEF Next

-----------------------------------------------------------------------------
(* Texts and their order.                                                  *)
LEMMA EmittedBeforeMore ==
  ASSUME NEW m \in Nat, NEW n \in Nat, m <= n, EmittedBefore(m)
  PROVE  EmittedBefore(n)
BY DEF EmittedBefore

LEMMA FirstMessage ==
  ASSUME NEW text \in Text, text # <<>>
  PROVE  Head(text) \in Message /\ Head(text).id \in Nat
<1>1. Head(text) \in Message
  BY HeadTailProperties DEF Text
<1> QED BY <1>1 DEF Message

LEMMA SingleConsecutive ==
  ASSUME NEW m
  PROVE  Consecutive(<<m>>) /\ LastId(<<m>>) = m.id /\ Head(<<m>>) = m
<1>1. Len(<<m>>) = 1 /\ <<m>>[1] = m /\ Head(<<m>>) = m
  OBVIOUS
<1> QED BY <1>1 DEF Consecutive, LastId

LEMMA AppendConsecutive ==
  ASSUME NEW text \in Text, text # <<>>, NEW m \in Message
  PROVE  /\ LastId(Append(text, m)) = m.id
         /\ Consecutive(text) /\ m.id = LastId(text) + 1
              => Consecutive(Append(text, m))
<1>1. /\ Len(text) \in Nat /\ Len(Append(text, m)) = Len(text) + 1
      /\ \A k \in 1 .. Len(text) : Append(text, m)[k] = text[k]
      /\ Append(text, m)[Len(text) + 1] = m
  BY DEF Text
<1>2. LastId(Append(text, m)) = m.id
  BY <1>1 DEF LastId
<1>3. ASSUME Consecutive(text), m.id = LastId(text) + 1,
             NEW k \in 1 .. Len(Append(text, m)) - 1
      PROVE  Append(text, m)[k + 1].id = Append(text, m)[k].id + 1
  <2>1. CASE k = Len(text)
    <3>1. k \in 1 .. Len(text)
      BY <1>1, <1>3
    <3> QED BY <1>1, <1>3, <2>1, <3>1 DEF LastId
  <2>2. CASE k # Len(text)
    <3>1. k \in 1 .. Len(text) /\ k + 1 \in 1 .. Len(text) /\ k \in 1 .. Len(text) - 1
      BY <1>1, <1>3, <2>2
    <3>2. Append(text, m)[k + 1] = text[k + 1] /\ Append(text, m)[k] = text[k]
      BY <1>1, <3>1
    <3> QED BY <1>3, <3>1, <3>2 DEF Consecutive
  <2> QED BY <2>1, <2>2
<1>4. Consecutive(text) /\ m.id = LastId(text) + 1 => Consecutive(Append(text, m))
  BY <1>3 DEF Consecutive
<1> QED BY <1>2, <1>4

(* Emitting a text that fits keeps the order.                              *)
LEMMA EmitInOrder ==
  ASSUME emitted \in Seq(Buffer), calls \in Nat, calls' = calls, EmittedInOrder,
         NEW level \in StoredLevels, NEW text \in Text,
         Emit(level, text), Fits(text)
  PROVE  /\ EmittedInOrder'
         /\ \A n \in Nat : EmittedBefore(n) /\ (~IsOrphan(text) => Head(text).id < n)
                             => EmittedBefore(n)'
<1>1. [level |-> level, text |-> text] \in Buffer
  BY DEF Buffer
<1>2. PICK e \in Buffer : e = [level |-> level, text |-> text]
  BY <1>1
<1>3. PICK n \in Nat : n = Len(emitted)
  OBVIOUS
<1>4. /\ Len(emitted') = n + 1
      /\ \A i \in 1 .. n : emitted'[i] = emitted[i]
      /\ emitted'[n + 1] = e /\ e.text = text
  BY <1>2, <1>3 DEF Emit
<1>5. ~IsOrphan(text) => Head(text).id \in Nat
  BY DEF Fits
<1>6. \A i \in 1 .. n + 1 : i \in 1 .. n \/ i = n + 1
  OBVIOUS
<1>7. ASSUME NEW i \in 1 .. n + 1, ~IsOrphan(emitted'[i].text)
      PROVE  Consecutive(emitted'[i].text)
  BY <1>3, <1>4, <1>6, <1>7 DEF Fits, EmittedInOrder
<1>8. ASSUME NEW i \in 1 .. n + 1, NEW j \in 1 .. n + 1, i < j,
             ~IsOrphan(emitted'[i].text), ~IsOrphan(emitted'[j].text)
      PROVE  Head(emitted'[i].text).id < Head(emitted'[j].text).id
  <2>1. i \in 1 .. n /\ emitted'[i] = emitted[i]
    BY <1>4, <1>8
  <2>2. CASE j = n + 1
    <3>1. EmittedBefore(Head(text).id) /\ emitted'[j].text = text
      BY <1>4, <1>8, <2>2 DEF Fits
    <3>2. ~IsOrphan(text)
      BY <1>8, <3>1
    <3>3. Head(emitted[i].text).id \in 0 .. Head(text).id - 1
      BY <1>3, <1>8, <2>1, <3>1 DEF EmittedBefore
    <3> QED BY <1>5, <2>1, <3>1, <3>2, <3>3
  <2>3. CASE j # n + 1
    <3>1. j \in 1 .. n /\ emitted'[j] = emitted[j]
      BY <1>4, <1>6, <2>3
    <3> QED BY <1>3, <1>8, <2>1, <3>1 DEF EmittedInOrder
  <2> QED BY <2>2, <2>3
<1>9. ASSUME NEW k \in Nat, EmittedBefore(k), ~IsOrphan(text) => Head(text).id < k
      PROVE  EmittedBefore(k)'
  <2>1. ASSUME NEW i \in 1 .. n + 1, ~IsOrphan(emitted'[i].text)
        PROVE  Head(emitted'[i].text).id \in 0 .. k - 1
    <3>1. CASE i \in 1 .. n
      BY <1>3, <1>4, <1>9, <2>1, <3>1 DEF EmittedBefore
    <3>2. CASE i = n + 1
      BY <1>4, <1>5, <1>9, <2>1, <3>2
    <3> QED BY <1>6, <3>1, <3>2
  <2> QED BY <1>4, <2>1 DEF EmittedBefore, IsOrphan
<1>10. EmittedBefore(calls + 1)'
  <2>1. EmittedBefore(calls + 1) /\ (~IsOrphan(text) => Head(text).id < calls + 1)
    BY <1>5 DEF EmittedInOrder, Fits
  <2>2. PICK k \in Nat : k = calls + 1 /\ k = calls' + 1
    OBVIOUS
  <2>3. EmittedBefore(k)'
    BY <1>9, <2>1, <2>2
  <2> QED BY <2>2, <2>3 DEF EmittedBefore
<1>11. EmittedInOrder'
  BY <1>4, <1>7, <1>8, <1>10 DEF EmittedInOrder, Consecutive, IsOrphan
<1> QED BY <1>9, <1>11

(* The buffered text, if there is one, is emitted.                         *)
LEMMA EmitBufferedInOrder ==
  ASSUME TypeOK, emitted \in Seq(Buffer), calls \in Nat, calls' = calls, EmittedInOrder,
         buffered # None => Fits(buffered.text),
         IF buffered # None THEN Emit(buffered.level, buffered.text) ELSE UNCHANGED emitted,
         EmittedBefore(calls), Proper => Head(buffered.text).id < calls
  PROVE  EmittedInOrder' /\ EmittedBefore(calls)'
<1>1. CASE buffered = None
  BY <1>1 DEF EmittedInOrder, EmittedBefore, Consecutive, IsOrphan
<1>2. CASE buffered # None
  <2>1. buffered.level \in StoredLevels /\ buffered.text \in Text /\ buffered.text # <<>>
    BY <1>2 DEF TypeOK, Buffer
  <2>2. Emit(buffered.level, buffered.text) /\ Fits(buffered.text)
    BY <1>2
  <2>3. /\ EmittedInOrder'
        /\ EmittedBefore(calls) /\ (~IsOrphan(buffered.text) => Head(buffered.text).id < calls)
             => EmittedBefore(calls)'
    <3>1. PICK k \in Nat : k = calls /\ k = calls'
      OBVIOUS
    <3>2. /\ EmittedInOrder'
          /\ EmittedBefore(k) /\ (~IsOrphan(buffered.text) => Head(buffered.text).id < k)
               => EmittedBefore(k)'
      BY <2>1, <2>2, EmitInOrder
    <3> QED BY <3>1, <3>2 DEF EmittedBefore
  <2> QED BY <1>2, <2>3 DEF Proper
<1> QED BY <1>1, <1>2

-----------------------------------------------------------------------------
(* A step of one thread alone: the others are and stay idle.               *)
OneStep(t) ==
  /\ IInv /\ emitted \in Seq(Buffer) /\ InOrder /\ ~panicked
  /\ \A u \in Threads : u # t => pc[u] = "idle" /\ pc'[u] = "idle"

LEMMA OneThread ==
  ASSUME NEW t \in Threads,
         \A u \in Threads : u # t => pc[u] = "idle" /\ pc'[u] = "idle"
  PROVE  /\ ThreadInOrder(t)' => \A u \in Threads : ThreadInOrder(u)'
         /\ pc'[t] # "idle" => IdleInOrder'
<1>1. ASSUME NEW u \in Threads, u # t PROVE ThreadInOrder(u)'
  BY <1>1 DEF ThreadInOrder
<1> QED BY <1>1 DEF IdleInOrder

LEMMA CallKeepsEmitted ==
  ASSUME NEW t, NEW level, NEW nl, Call(t, level, nl), calls \in Nat, EmittedInOrder
  PROVE  EmittedInOrder'
<1>1. emitted' = emitted /\ calls' = calls + 1
  BY DEF Call
<1>2. PICK k \in Nat : k = calls + 1 + 1 /\ k = calls' + 1
  BY <1>1
<1>3. EmittedBefore(k)
  BY <1>2, EmittedBeforeMore DEF EmittedInOrder
<1> QED BY <1>1, <1>2, <1>3 DEF EmittedInOrder, EmittedBefore, Consecutive, IsOrphan

LEMMA CallInOrder ==
  ASSUME NEW t \in Threads, OneStep(t), NEW level \in Levels, NEW nl \in BOOLEAN,
         Call(t, level, nl), ~panicked'
  PROVE  InOrder'
<1>1. /\ calls \in Nat /\ calls' = calls + 1 /\ \A u \in Threads : pc[u] = "idle"
      /\ pc \in [Threads -> Places] /\ DOMAIN msg = Threads
      /\ emitted' = emitted /\ buffered' = buffered /\ previous_level' = previous_level
  BY LogAssumption DEF Call, At, OneStep, IInv, TypeOK
<1>2. /\ msg'[t].id = calls + 1 /\ msg'[t].level = level
      /\ pc'[t] \in {"disabled", "cont", "part", "line"}
      /\ pc'[t] = "disabled" <=> EffectiveLevel(level) \notin EnabledLevels
      /\ pc'[t] = "cont" => level = "CONT"
  BY <1>1 DEF Call, Goto, OneStep
<1>3. EmittedInOrder /\ IdleInOrder /\ (buffered # None => Fits(buffered.text))
  BY DEF OneStep, InOrder
<1>4. EmittedBefore(calls + 1)
  BY <1>3 DEF EmittedInOrder
<1>5. EmittedInOrder'
  BY <1>1, <1>3, CallKeepsEmitted
<1>6. ASSUME buffered # None PROVE Fits(buffered.text)'
  <2>1. ~IsOrphan(buffered.text) => Head(buffered.text).id \in Nat
    <3>1. buffered.text \in Text /\ buffered.text # <<>>
      BY <1>6 DEF OneStep, IInv, TypeOK, Buffer
    <3> QED BY <3>1, FirstMessage
  <2> QED BY <1>1, <1>3, <1>6, <2>1 DEF Fits, EmittedBefore, Consecutive, IsOrphan
<1>7. ThreadInOrder(t)'
  <2>1. EmittedBefore(calls)'
    BY <1>1, <1>4 DEF EmittedBefore, IsOrphan
  <2>2. Proper => /\ Head(buffered.text).id \in Nat
                  /\ Head(buffered.text).id <= calls
    <3>1. Proper => Head(buffered.text).id \in Nat
      <4>1. Proper => buffered.text \in Text /\ buffered.text # <<>>
        BY DEF Proper, OneStep, IInv, TypeOK, Buffer
      <4> QED BY <4>1, FirstMessage
    <3> QED BY <1>3, <3>1 DEF Proper, Fits
  <2>3. Proper' <=> Proper
    BY <1>1 DEF Proper, IsOrphan
  <2>4. ASSUME pc'[t] = "cont", Proper PROVE LastId(buffered.text) = calls
    <3>1. previous_level \in EnabledLevels
      BY <1>2, <2>4 DEF EffectiveLevel
    <3> QED BY <1>1, <1>3, <2>4, <3>1 DEF IdleInOrder
  <2>5. pc'[t] = "disabled" => EffectiveLevel(msg[t].level)' \notin EnabledLevels
    BY <1>1, <1>2 DEF EffectiveLevel
  <2>6. /\ Proper' => Head(buffered.text)'.id < calls'
        /\ pc'[t] = "cont" /\ Proper' => LastId(buffered.text)' = calls' - 1
    BY <1>1, <2>2, <2>3, <2>4 DEF LastId
  <2> QED BY <1>1, <1>2, <2>1, <2>5, <2>6 DEF ThreadInOrder
<1>8. (\A u \in Threads : ThreadInOrder(u)') /\ IdleInOrder'
  BY <1>2, <1>7, OneThread DEF OneStep
<1> QED BY <1>1, <1>5, <1>6, <1>8 DEF InOrder

LEMMA DisabledInOrder ==
  ASSUME NEW t \in Threads, OneStep(t), Disabled(t)
  PROVE  InOrder'
<1>1. /\ pc[t] = "disabled" /\ pc'[t] = "idle" /\ calls' = calls
      /\ emitted' = emitted /\ buffered' = buffered /\ msg' = msg
  BY DEF Disabled, At, Goto, OneStep, IInv, TypeOK
<1>2. previous_level' \notin EnabledLevels
  <2>1. EffectiveLevel(msg[t].level) \notin EnabledLevels
    BY <1>1 DEF OneStep, InOrder, ThreadInOrder
  <2> QED BY <2>1 DEF Disabled, EffectiveLevel
<1>3. EmittedInOrder' /\ (buffered' # None => Fits(buffered.text)')
  BY <1>1 DEF OneStep, InOrder, EmittedInOrder, EmittedBefore, Consecutive, IsOrphan, Fits
<1>4. IdleInOrder'
  BY <1>2 DEF IdleInOrder
<1>5. ThreadInOrder(t)'
  BY <1>1 DEF ThreadInOrder
<1>6. \A u \in Threads : ThreadInOrder(u)'
  BY <1>5, OneThread DEF OneStep
<1> QED BY <1>3, <1>4, <1>6 DEF InOrder

LEMMA ContAppendInOrder ==
  ASSUME NEW t \in Threads, OneStep(t), ContAppend(t)
  PROVE  InOrder'
<1>1. /\ pc[t] = "cont" /\ calls' = calls /\ emitted' = emitted /\ msg' = msg
      /\ pc \in [Threads -> Places] /\ DOMAIN taken = Threads /\ calls \in Nat
      /\ msg[t] \in Message /\ buffered # None /\ buffered \in Buffer
      /\ buffered.text \in Text /\ buffered.text # <<>>
  BY LogAssumption DEF ContAppend, At, OneStep, IInv, TypeOK, Buffer
<1>2. /\ msg[t].id = calls
      /\ Proper => /\ Head(buffered.text).id < calls
                   /\ LastId(buffered.text) = calls - 1
                   /\ Fits(buffered.text)
  BY <1>1 DEF OneStep, InOrder, ThreadInOrder
<1>3. PICK joined : joined = [buffered EXCEPT !.text = Append(@, msg[t])]
  OBVIOUS
<1>4. PICK text \in Text : text = Append(buffered.text, msg[t])
  BY <1>1, JoinedText
<1>5. /\ joined.text = text /\ joined \in Buffer /\ joined # None
      /\ Head(text) = Head(buffered.text) /\ LastId(text) = calls
  <2>1. joined.text = text /\ joined \in Buffer
    BY <1>1, <1>3, <1>4 DEF Buffer
  <2>2. Head(text) = Head(buffered.text)
    BY <1>1, <1>4, JoinedText
  <2>3. LastId(text) = calls
    BY <1>1, <1>2, <1>4, AppendConsecutive
  <2> QED BY <2>1, <2>2, <2>3, NoneAssumption
<1>6. Fits(text)'
  <2>1. SUFFICES ASSUME ~IsOrphan(text)
                 PROVE  /\ Consecutive(text) /\ Head(text).id \in 0 .. calls
                        /\ EmittedBefore(Head(text).id)
    BY <1>1 DEF Fits, Consecutive, IsOrphan, EmittedBefore
  <2>2. Proper
    BY <1>1, <1>5, <2>1 DEF Proper, IsOrphan
  <2>3. Consecutive(buffered.text) /\ msg[t].id = LastId(buffered.text) + 1
    BY <1>1, <1>2, <2>2 DEF Fits, Proper
  <2>4. Consecutive(text)
    BY <1>1, <1>4, <2>3, AppendConsecutive
  <2>5. Head(text).id \in Nat
    BY <1>1, <1>5, FirstMessage
  <2> QED BY <1>1, <1>2, <1>5, <2>2, <2>4, <2>5 DEF Fits, Proper
<1>7. EmittedInOrder'
  BY <1>1 DEF OneStep, InOrder, EmittedInOrder, EmittedBefore, Consecutive, IsOrphan
<1>8. CASE msg[t].nl
  <2>1. buffered' = None /\ taken'[t] = joined /\ pc'[t] = "cont_flush"
    BY <1>1, <1>3, <1>8 DEF ContAppend, Goto
  <2>2. Fits(taken[t].text)'
    BY <1>5, <1>6, <2>1
  <2>3. ThreadInOrder(t)'
    BY <1>1, <1>2, <2>1, <2>2 DEF ThreadInOrder
  <2>4. (\A u \in Threads : ThreadInOrder(u)') /\ IdleInOrder'
    BY <2>1, <2>3, OneThread DEF OneStep
  <2> QED BY <1>7, <2>1, <2>4 DEF InOrder
<1>9. CASE ~msg[t].nl
  <2>1. buffered' = joined /\ pc'[t] = "idle"
    BY <1>1, <1>3, <1>9 DEF ContAppend, Goto
  <2>2. Fits(buffered.text)' /\ LastId(buffered.text)' = calls'
    BY <1>1, <1>5, <1>6, <2>1 DEF LastId
  <2>3. ThreadInOrder(t)'
    BY <2>1 DEF ThreadInOrder
  <2>4. \A u \in Threads : ThreadInOrder(u)'
    BY <2>3, OneThread DEF OneStep
  <2>5. IdleInOrder'
    BY <2>2 DEF IdleInOrder
  <2> QED BY <1>7, <2>2, <2>4, <2>5 DEF InOrder
<1> QED BY <1>8, <1>9

LEMMA ContOrphanInOrder ==
  ASSUME NEW t \in Threads, OneStep(t), ContOrphan(t)
  PROVE  InOrder'
<1>1. /\ pc'[t] = "idle" /\ calls' = calls /\ emitted' = emitted
      /\ msg[t] \in Message /\ msg[t].level = "CONT"
      /\ buffered' = [level |-> previous_level, text |-> <<msg[t]>>]
  BY DEF ContOrphan, At, Goto, OneStep, IInv, TypeOK, RouteInv
<1>2. buffered'.text = <<msg[t]>> /\ IsOrphan(<<msg[t]>>)
  BY <1>1, SingleText DEF IsOrphan
<1>3. EmittedInOrder'
  BY <1>1 DEF OneStep, InOrder, EmittedInOrder, EmittedBefore, Consecutive, IsOrphan
<1>4. ThreadInOrder(t)'
  BY <1>1 DEF ThreadInOrder
<1>5. \A u \in Threads : ThreadInOrder(u)'
  BY <1>4, OneThread DEF OneStep
<1> QED BY <1>2, <1>3, <1>5 DEF InOrder, Fits, IdleInOrder, Proper, IsOrphan

LEMMA ContFlushInOrder ==
  ASSUME NEW t \in Threads, OneStep(t), ContFlush(t)
  PROVE  InOrder'
<1>1. /\ pc[t] = "cont_flush" /\ pc'[t] = "idle" /\ calls' = calls /\ calls \in Nat
      /\ lock = t /\ buffered = None /\ buffered' = None
      /\ taken[t].level \in StoredLevels /\ taken[t].text \in Text
      /\ Emit(taken[t].level, taken[t].text) /\ emitted \in Seq(Buffer)
  BY LogAssumption DEF ContFlush, At, Goto, OneStep, IInv, TypeOK, MutexInv, Buffer
<1>2. EmittedInOrder /\ Fits(taken[t].text)
  BY <1>1 DEF OneStep, InOrder, ThreadInOrder
<1>3. EmittedInOrder'
  BY <1>1, <1>2, EmitInOrder
<1>4. ThreadInOrder(t)'
  BY <1>1 DEF ThreadInOrder
<1>5. \A u \in Threads : ThreadInOrder(u)'
  BY <1>4, OneThread DEF OneStep
<1> QED BY <1>1, <1>3, <1>5 DEF InOrder, IdleInOrder, Proper

LEMMA PartReplaceInOrder ==
  ASSUME NEW t \in Threads, OneStep(t), PartReplace(t)
  PROVE  InOrder'
<1>1. /\ pc[t] = "part" /\ pc'[t] = "part_flag" /\ calls' = calls /\ calls \in Nat
      /\ msg' = msg /\ emitted \in Seq(Buffer) /\ msg[t] \in Message /\ TypeOK
      /\ buffered' = [level |-> msg[t].level, text |-> <<msg[t]>>]
  BY LogAssumption DEF PartReplace, At, Goto, OneStep, IInv, TypeOK
<1>2. /\ EmittedInOrder /\ (buffered # None => Fits(buffered.text))
      /\ msg[t].id = calls /\ EmittedBefore(calls)
      /\ Proper => Head(buffered.text).id < calls
  BY <1>1 DEF OneStep, InOrder, ThreadInOrder
<1>3. EmittedInOrder' /\ EmittedBefore(calls)'
  BY <1>1, <1>2, EmitBufferedInOrder DEF PartReplace
<1>4. PICK text : text = <<msg[t]>>
  OBVIOUS
<1>5. /\ buffered'.text = text /\ Consecutive(text) /\ LastId(text) = calls
      /\ Head(text).id = calls
  BY <1>1, <1>2, <1>4, SingleConsecutive
<1>6. Fits(buffered.text)'
  BY <1>1, <1>3, <1>5 DEF Fits, Consecutive, EmittedBefore, IsOrphan
<1>7. ThreadInOrder(t)'
  BY <1>1, <1>2, <1>5 DEF ThreadInOrder, LastId
<1>8. (\A u \in Threads : ThreadInOrder(u)') /\ IdleInOrder'
  BY <1>1, <1>7, OneThread DEF OneStep
<1> QED BY <1>3, <1>6, <1>8 DEF InOrder

(* Steps that touch neither the buffer nor what was emitted.               *)
LEMMA AtomicInOrder ==
  ASSUME NEW t \in Threads, OneStep(t),
         PartFlag(t) \/ PartLevel(t) \/ LineSwap(t) \/ LineLevel(t)
  PROVE  InOrder'
<1>1. /\ calls' = calls /\ emitted' = emitted /\ msg' = msg /\ buffered' = buffered
      /\ pc \in [Threads -> Places]
  BY DEF PartFlag, PartLevel, LineSwap, LineLevel, StoreLevel, OneStep, IInv, TypeOK
<1>2. EmittedInOrder' /\ (buffered' # None => Fits(buffered.text)')
  BY <1>1 DEF OneStep, InOrder, EmittedInOrder, EmittedBefore, Consecutive, IsOrphan, Fits
<1>3. /\ EmittedBefore(calls)' <=> EmittedBefore(calls)
      /\ Proper' <=> Proper
      /\ Head(buffered.text)' = Head(buffered.text)
      /\ LastId(buffered.text)' = LastId(buffered.text)
  BY <1>1 DEF EmittedBefore, Proper, IsOrphan, LastId
<1>4. ThreadInOrder(t)
  BY DEF OneStep, InOrder
<1>5. CASE PartFlag(t)
  <2>1. pc[t] = "part_flag" /\ pc'[t] = "part_level"
    BY <1>1, <1>5 DEF PartFlag, At, Goto
  <2>2. ThreadInOrder(t)'
    BY <1>1, <1>3, <1>4, <2>1 DEF ThreadInOrder
  <2> QED BY <1>2, <2>1, <2>2, OneThread DEF InOrder, OneStep
<1>6. CASE PartLevel(t)
  <2>1. pc[t] = "part_level" /\ pc'[t] = "idle"
    BY <1>1, <1>6 DEF PartLevel, StoreLevel, At, Goto
  <2>2. ThreadInOrder(t)'
    BY <2>1 DEF ThreadInOrder
  <2>3. \A u \in Threads : ThreadInOrder(u)'
    BY <2>2, OneThread DEF OneStep
  <2>4. Proper => LastId(buffered.text) = calls
    BY <1>4, <2>1 DEF ThreadInOrder
  <2>5. IdleInOrder'
    BY <1>1, <1>3, <2>4 DEF IdleInOrder
  <2> QED BY <1>2, <2>3, <2>5 DEF InOrder
<1>7. CASE LineSwap(t)
  <2>1. pc[t] = "line" /\ pc'[t] = IF is_buffering THEN "line_take" ELSE "line_level"
    BY <1>1, <1>7 DEF LineSwap, At, Goto
  <2>2. ~is_buffering => ~Proper
    <3>1. \A u \in Threads : pc[u] \notin {"part_flag", "line_take"}
      BY <2>1 DEF OneStep
    <3> QED BY <3>1 DEF OneStep, IInv, BufferWillBeFlushed, Proper
  <2>3. ThreadInOrder(t)'
    BY <1>1, <1>3, <1>4, <2>1, <2>2 DEF ThreadInOrder
  <2> QED BY <1>2, <2>1, <2>3, OneThread DEF InOrder, OneStep
<1>8. CASE LineLevel(t)
  <2>1. pc[t] = "line_level" /\ pc'[t] = "line_emit"
    BY <1>1, <1>8 DEF LineLevel, StoreLevel, At, Goto
  <2>2. ThreadInOrder(t)'
    BY <1>1, <1>3, <1>4, <2>1 DEF ThreadInOrder
  <2> QED BY <1>2, <2>1, <2>2, OneThread DEF InOrder, OneStep
<1> QED BY <1>5, <1>6, <1>7, <1>8

LEMMA LineTakeInOrder ==
  ASSUME NEW t \in Threads, OneStep(t), LineTake(t)
  PROVE  InOrder'
<1>1. /\ pc[t] = "line_take" /\ pc'[t] = "line_level" /\ calls' = calls /\ calls \in Nat
      /\ msg' = msg /\ emitted \in Seq(Buffer) /\ TypeOK /\ buffered' = None
  BY LogAssumption DEF LineTake, At, Goto, OneStep, IInv, TypeOK
<1>2. /\ EmittedInOrder /\ (buffered # None => Fits(buffered.text))
      /\ msg[t].id = calls /\ EmittedBefore(calls)
      /\ Proper => Head(buffered.text).id < calls
  BY <1>1 DEF OneStep, InOrder, ThreadInOrder
<1>3. EmittedInOrder' /\ EmittedBefore(calls)'
  BY <1>1, <1>2, EmitBufferedInOrder DEF LineTake
<1>4. ThreadInOrder(t)'
  BY <1>1, <1>2, <1>3 DEF ThreadInOrder, Proper
<1>5. (\A u \in Threads : ThreadInOrder(u)') /\ IdleInOrder'
  BY <1>1, <1>4, OneThread DEF OneStep
<1> QED BY <1>1, <1>3, <1>5 DEF InOrder

LEMMA LineEmitInOrder ==
  ASSUME NEW t \in Threads, OneStep(t), LineEmit(t)
  PROVE  InOrder'
<1>1. /\ pc[t] = "line_emit" /\ pc'[t] = "idle" /\ calls' = calls /\ calls \in Nat
      /\ emitted \in Seq(Buffer) /\ msg[t] \in Message /\ buffered' = buffered
      /\ msg[t].level \in StoredLevels /\ Emit(msg[t].level, <<msg[t]>>)
  BY LogAssumption DEF LineEmit, At, Goto, OneStep, IInv, TypeOK, RouteInv, Message,
                       StoredLevels
<1>2. EmittedInOrder /\ msg[t].id = calls /\ EmittedBefore(calls) /\ ~Proper
  BY <1>1 DEF OneStep, InOrder, ThreadInOrder
<1>3. PICK text \in Text : text = <<msg[t]>> /\ text # <<>>
  BY <1>1, SingleText
<1>4. Fits(text)
  BY <1>2, <1>3, <1>1, SingleConsecutive DEF Fits
<1>5. EmittedInOrder'
  BY <1>1, <1>2, <1>3, <1>4, EmitInOrder
<1>6. ThreadInOrder(t)'
  BY <1>1 DEF ThreadInOrder
<1>7. \A u \in Threads : ThreadInOrder(u)'
  BY <1>6, OneThread DEF OneStep
<1>8. ~Proper' /\ (buffered' # None => IsOrphan(buffered'.text))
  BY <1>1, <1>2 DEF Proper, IsOrphan
<1> QED BY <1>5, <1>7, <1>8 DEF InOrder, IdleInOrder, Fits, IsOrphan

LEMMA InitOrder == Init => OrderInv
<1> SUFFICES ASSUME Init PROVE InOrder
  BY DEF OrderInv, InOrder
<1>1. emitted = <<>> /\ Len(emitted) = 0 /\ buffered = None
  BY DEF Init
<1>2. EmittedInOrder
  BY <1>1 DEF EmittedInOrder, EmittedBefore
<1>3. \A t \in Threads : ThreadInOrder(t)
  BY DEF Init, ThreadInOrder
<1> QED BY <1>1, <1>2, <1>3 DEF InOrder, IdleInOrder, Proper

LEMMA StepOrder ==
  ASSUME IInv, PlaceInv, OrderInv, TypeOK', [Next]_vars
  PROVE  OrderInv'
<1> SUFFICES ASSUME Alone' PROVE EmittedInOrder' /\ (~panicked' => InOrder')
  BY DEF OrderInv
<1>1. TypeOK /\ emitted \in Seq(Buffer)
  BY DEF IInv, PlaceInv
<1>2. Alone
  BY <1>1, WasAlone
<1>3. EmittedInOrder /\ (~panicked => InOrder)
  BY <1>2 DEF OrderInv
<1>4. ASSUME NEW t \in Threads, NEW level \in Levels, NEW nl \in BOOLEAN,
             Call(t, level, nl)
      PROVE  EmittedInOrder' /\ (~panicked' => InOrder')
  <2>1. calls \in Nat
    BY <1>1, LogAssumption DEF TypeOK
  <2>2. EmittedInOrder'
    BY <1>3, <1>4, <2>1, CallKeepsEmitted
  <2>3. ASSUME ~panicked' PROVE InOrder'
    <3>1. /\ ~panicked /\ pc[t] = "idle" /\ msg'[t] # None
          /\ \A u \in Threads : u # t => pc'[u] = pc[u] /\ msg'[u] = msg[u]
      <4>1. [id |-> calls + 1, level |-> level, nl |-> nl] \in Message
        BY <2>1 DEF Message
      <4> QED BY <1>1, <1>4, <2>3, <4>1, NoneAssumption DEF Call, At, Goto, TypeOK
    <3>2. ASSUME NEW u \in Threads, u # t PROVE pc[u] = "idle" /\ pc'[u] = "idle"
      <4>1. msg[u] = None
        BY <3>1, <3>2 DEF Alone
      <4> QED BY <1>1, <3>1, <3>2, <4>1, NoneAssumption DEF TypeOK
    <3>3. OneStep(t)
      BY <1>1, <1>3, <3>1, <3>2 DEF OneStep
    <3> QED BY <1>4, <2>3, <3>3, CallInOrder
  <2> QED BY <2>2, <2>3
<1>5. ASSUME NEW t \in Threads, Step(t)
      PROVE  EmittedInOrder' /\ (~panicked' => InOrder')
  <2>1. /\ ~panicked /\ pc[t] # "idle" /\ \A u \in Threads : u # t => pc'[u] = pc[u]
    BY <1>1, <1>5 DEF Step, Disabled, ContAppend, ContOrphan, ContFlush, PartReplace, PartFlag,
                PartLevel, LineSwap, LineTake, LineLevel, LineEmit, StoreLevel, At, Goto, TypeOK
  <2>2. \A u \in Threads : u # t => pc[u] = "idle"
    BY <1>1, <1>2, <2>1, OthersIdle
  <2>3. OneStep(t)
    BY <1>1, <1>3, <2>1, <2>2 DEF OneStep
  <2>4. InOrder'
    BY <1>5, <2>3, DisabledInOrder, ContAppendInOrder, ContOrphanInOrder,
       ContFlushInOrder, PartReplaceInOrder, AtomicInOrder, LineTakeInOrder,
       LineEmitInOrder DEF Step
  <2> QED BY <2>4 DEF InOrder
<1>6. CASE UNCHANGED vars
  <2>1. EmittedInOrder'
    BY <1>3, <1>6 DEF vars, EmittedInOrder, EmittedBefore, Consecutive, IsOrphan
  <2>2. InOrder => \A t \in Threads : ThreadInOrder(t)'
    BY <1>6 DEF vars, InOrder, EmittedBefore, Consecutive, IsOrphan, Fits, ThreadInOrder,
                Proper, LastId, EffectiveLevel
  <2>3. InOrder => IdleInOrder' /\ (buffered' # None => Fits(buffered.text)')
    BY <1>6 DEF vars, InOrder, EmittedBefore, Consecutive, IsOrphan, Fits, IdleInOrder,
                Proper, LastId
  <2> QED BY <1>3, <1>6, <2>1, <2>2, <2>3 DEF vars, InOrder
<1> QED BY <1>4, <1>5, <1>6 DEF Next

(* Only finitely many threads have logged.                                 *)
FinitelyMany == IsFiniteSet({t \in Threads : msg[t] # None})

LEMMA StepFinitely == ASSUME IInv, FinitelyMany, [Next]_vars PROVE FinitelyMany'
<1>1. ASSUME NEW t \in Threads, msg' = [msg EXCEPT ![t] = msg'[t]]
      PROVE  FinitelyMany'
  <2>1. {u \in Threads : msg'[u] # None} \subseteq {u \in Threads : msg[u] # None} \cup {t}
    BY <1>1 DEF IInv, TypeOK
  <2>2. IsFiniteSet({u \in Threads : msg[u] # None} \cup {t})
    BY FS_AddElement DEF FinitelyMany
  <2> QED BY <2>1, <2>2, FS_Subset DEF FinitelyMany
<1>2. ASSUME NEW t \in Threads, NEW level \in Levels, NEW nl \in BOOLEAN,
             Call(t, level, nl)
      PROVE  FinitelyMany'
  <2>1. msg' = [msg EXCEPT ![t] = msg'[t]]
    BY <1>2 DEF Call, IInv, TypeOK
  <2> QED BY <1>1, <2>1
<1>3. ASSUME msg' = msg PROVE FinitelyMany'
  BY <1>3 DEF FinitelyMany
<1>4. ASSUME NEW t \in Threads, Step(t) PROVE msg' = msg
  BY <1>4 DEF Step, Disabled, ContAppend, ContOrphan, ContFlush, PartReplace, PartFlag,
              PartLevel, LineSwap, LineTake, LineLevel, LineEmit, StoreLevel
<1> QED BY <1>2, <1>3, <1>4 DEF Next, vars

LEMMA SpecOrder == Spec => [](OrderInv /\ FinitelyMany)
<1>1. Init => OrderInv /\ FinitelyMany
  <2>1. Init => {t \in Threads : msg[t] # None} = {}
    BY DEF Init
  <2> QED BY <2>1, InitOrder, FS_EmptySet DEF FinitelyMany
<1>2. IInv /\ IInv' /\ PlaceInv /\ OrderInv /\ FinitelyMany /\ [Next]_vars
        => OrderInv' /\ FinitelyMany'
  BY StepOrder, StepFinitely DEF IInv
<1> QED BY <1>1, <1>2, SpecIInv, SpecPlaces, PTL DEF Spec

(* While one thread alone has logged, its messages come out in the order   *)
(* it logged them and a CONT is only ever joined to the message right      *)
(* before it, for any number of messages (log.rs:158-159).                 *)
THEOREM OneThreadInOrder == Spec => []LinesInOrder
<1>1. OrderInv /\ FinitelyMany => LinesInOrder
  <2> SUFFICES ASSUME OrderInv, FinitelyMany,
                      Cardinality({t \in Threads : msg[t] # None}) <= 1
               PROVE  EmittedInOrder
    BY DEF LinesInOrder, EmittedInOrder, Consecutive
  <2>1. Alone
    <3> SUFFICES ASSUME NEW t \in Threads, NEW u \in Threads,
                        msg[t] # None, msg[u] # None, t # u
                 PROVE  FALSE
      BY DEF Alone
    <3>1. /\ {t, u} \subseteq {w \in Threads : msg[w] # None}
          /\ IsFiniteSet({t, u}) /\ Cardinality({t, u}) = 2
      <4>1. IsFiniteSet({t}) /\ Cardinality({t}) = 1 /\ {t} \cup {u} = {t, u} /\ u \notin {t}
        BY FS_Singleton
      <4>2. IsFiniteSet({t, u}) /\ Cardinality({t, u}) = 2
        BY <4>1, FS_AddElement
      <4> QED BY <4>2
    <3>2. Cardinality({t, u}) <= Cardinality({w \in Threads : msg[w] # None})
      BY <3>1, FS_Subset DEF FinitelyMany
    <3>3. Cardinality({w \in Threads : msg[w] # None}) \in Nat
      BY FS_CardinalityType DEF FinitelyMany
    <3> QED BY <3>1, <3>2, <3>3
  <2> QED BY <2>1 DEF OrderInv
<1> QED BY <1>1, SpecOrder, PTL
=============================================================================
