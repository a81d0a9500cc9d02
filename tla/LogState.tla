------------------------------- MODULE LogState -------------------------------
(***************************************************************************)
(* The redirection of llama.cpp's log to tracing: logs_to_trace            *)
(* (qllama/src/lib.rs) and the State it is given (qllama/src/log.rs).      *)
(* llama.cpp calls it from any thread.  A message without a newline is     *)
(* buffered until its CONT messages, or the next message, complete it.     *)
(* The buffer is behind a mutex; two atomics beside it let the common case *)
(* avoid the mutex, and their accesses are steps of their own.             *)
(*                                                                         *)
(* A message is its number, level and whether it ends with a newline; a    *)
(* text is the sequence of the messages it was put together from.          *)
(***************************************************************************)
EXTENDS Integers, Sequences, FiniteSets

CONSTANTS
  Threads,        \* threads llama.cpp logs from
  Levels,         \* levels llama.cpp uses
  EnabledLevels,  \* levels the tracing subscriber wants
  MaxCalls,       \* bound on the messages logged
  None            \* no buffered text, no lock holder

TracingLevels == {"DEBUG", "INFO", "WARN", "ERROR"}

ASSUME LogAssumption ==
  /\ Levels \subseteq TracingLevels \cup {"NONE", "CONT"}
  /\ EnabledLevels \subseteq TracingLevels
  /\ MaxCalls \in Nat
  /\ None \notin Threads

VARIABLES
  buffered,        \* State.buffered: a level and a text, or None
  previous_level,  \* State.previous_level
  is_buffering,    \* State.is_buffering
  lock,            \* the thread inside the mutex of buffered, or None
  pc,              \* where each thread is
  msg,             \* the message each thread is logging
  taken,           \* the buffered text a thread has taken out
  emitted,         \* history: texts given to tracing, in order
  dropped,         \* history: messages of disabled levels
  calls,           \* messages logged so far
  panicked         \* a panic crossed extern "C": the process is gone

vars == <<buffered, previous_level, is_buffering, lock, pc, msg, taken,
          emitted, dropped, calls, panicked>>

Message == [id : Nat, level : Levels, nl : BOOLEAN]
Text == Seq(Message)
StoredLevels == (Levels \ {"CONT"}) \cup {"NONE"}
Buffer == [level : StoredLevels, text : Text]

(* None is the absence of a message and of a buffered text.                *)
ASSUME NoneAssumption == None \notin Message /\ None \notin Buffer

Places == {"idle", "disabled", "cont", "cont_flush", "part", "part_flag",
           "part_level", "line", "line_take", "line_level", "line_emit"}

(* A CONT is never what the next CONT is resolved to.                      *)
TypeOK ==
  /\ buffered # None => buffered \in Buffer /\ buffered.text # <<>>
  /\ previous_level \in StoredLevels
  /\ is_buffering \in BOOLEAN
  /\ lock \in Threads \cup {None}
  /\ pc \in [Threads -> Places]
  /\ DOMAIN msg = Threads
  /\ \A t \in Threads : pc[t] # "idle" => msg[t] \in Message
  /\ DOMAIN taken = Threads
  /\ \A t \in Threads : pc[t] = "cont_flush" => taken[t] \in Buffer
  /\ calls \in 0 .. MaxCalls
  /\ panicked \in BOOLEAN

Init ==
  /\ buffered = None
  /\ previous_level = "NONE"
  /\ is_buffering = FALSE
  /\ lock = None
  /\ pc = [t \in Threads |-> "idle"]
  /\ msg = [t \in Threads |-> None]
  /\ taken = [t \in Threads |-> None]
  /\ emitted = <<>>
  /\ dropped = {}
  /\ calls = 0
  /\ panicked = FALSE

(* Nothing runs any more after a panic.                                    *)
At(t, place) == ~panicked /\ pc[t] = place

Goto(t, place) == pc' = [pc EXCEPT ![t] = place]
Emit(level, text) == emitted' = Append(emitted, [level |-> level, text |-> text])

-----------------------------------------------------------------------------
(* logs_to_trace, up to its choice of a method.  is_enabled_for_level asks *)
(* for the level of a CONT by previous_level, and meta_for_level panics    *)
(* for a level tracing does not have.                                      *)
EffectiveLevel(level) == IF level = "CONT" THEN previous_level ELSE level

Call(t, level, nl) ==
  /\ At(t, "idle")
  /\ calls < MaxCalls
  /\ calls' = calls + 1
  /\ msg' = [msg EXCEPT ![t] = [id |-> calls + 1, level |-> level, nl |-> nl]]
  /\ IF EffectiveLevel(level) \notin TracingLevels
     THEN panicked' = TRUE /\ UNCHANGED pc
     ELSE /\ UNCHANGED panicked
          /\ Goto(t, CASE EffectiveLevel(level) \notin EnabledLevels -> "disabled"
                       [] OTHER -> CASE level = "CONT" -> "cont"
                                     [] level # "CONT" /\ nl -> "line"
                                     [] OTHER -> "part")
  /\ UNCHANGED <<buffered, previous_level, is_buffering, lock, taken, emitted,
                 dropped>>

(* Mutant: the level of a disabled message is stored, whatever it is.      *)
DisabledStoresCont(t) ==
  /\ At(t, "disabled")
  /\ previous_level' = msg[t].level
  /\ dropped' = dropped \cup {msg[t].id}
  /\ Goto(t, "idle")
  /\ UNCHANGED <<buffered, is_buffering, lock, msg, taken, emitted, calls,
                 panicked>>

(* update_previous_level_for_disabled_log.                                 *)
Disabled(t) ==
  /\ At(t, "disabled")
  /\ previous_level' = IF msg[t].level # "CONT" THEN msg[t].level
                                                ELSE previous_level
  /\ dropped' = dropped \cup {msg[t].id}
  /\ Goto(t, "idle")
  /\ UNCHANGED <<buffered, is_buffering, lock, msg, taken, emitted, calls,
                 panicked>>

-----------------------------------------------------------------------------
(* cont_buffered_log: the text is taken out and put back longer; if it is  *)
(* complete now, the thread keeps the lock to store the flag and emit.     *)
(* Without a buffered text the message is buffered at the previous level,  *)
(* and the flag stays as it is.                                            *)
ContAppend(t) ==
  /\ At(t, "cont")
  /\ lock = None
  /\ buffered # None
  /\ LET joined == [buffered EXCEPT !.text = Append(@, msg[t])]
     IN IF msg[t].nl
        THEN /\ buffered' = None
             /\ taken' = [taken EXCEPT ![t] = joined]
             /\ lock' = t
             /\ Goto(t, "cont_flush")
        ELSE /\ buffered' = joined
             /\ Goto(t, "idle")
             /\ UNCHANGED <<taken, lock>>
  /\ UNCHANGED <<previous_level, is_buffering, msg, emitted, dropped, calls,
                 panicked>>

ContOrphan(t) ==
  /\ At(t, "cont")
  /\ lock = None
  /\ buffered = None
  /\ buffered' = [level |-> previous_level, text |-> <<msg[t]>>]
  /\ Goto(t, "idle")
  /\ UNCHANGED <<previous_level, is_buffering, lock, msg, taken, emitted,
                 dropped, calls, panicked>>

ContFlush(t) ==
  /\ At(t, "cont_flush")
  /\ is_buffering' = FALSE
  /\ Emit(taken[t].level, taken[t].text)
  /\ lock' = None
  /\ Goto(t, "idle")
  /\ UNCHANGED <<buffered, previous_level, msg, taken, dropped, calls, panicked>>

-----------------------------------------------------------------------------
(* Mutant: buffer_non_cont overwrites what was buffered.                   *)
PartOverwrites(t) ==
  /\ At(t, "part")
  /\ lock = None
  /\ buffered' = [level |-> msg[t].level, text |-> <<msg[t]>>]
  /\ Goto(t, "part_flag")
  /\ UNCHANGED <<previous_level, is_buffering, lock, msg, taken, emitted,
                 dropped, calls, panicked>>

(* buffer_non_cont: replace under the lock, emitting what was there; then, *)
(* outside the lock, one atomic after the other.                           *)
PartReplace(t) ==
  /\ At(t, "part")
  /\ lock = None
  /\ buffered' = [level |-> msg[t].level, text |-> <<msg[t]>>]
  /\ IF buffered # None THEN Emit(buffered.level, buffered.text)
                        ELSE UNCHANGED emitted
  /\ Goto(t, "part_flag")
  /\ UNCHANGED <<previous_level, is_buffering, lock, msg, taken, dropped, calls,
                 panicked>>

(* Mutant: buffer_non_cont forgets the flag.                               *)
PartFlagForgotten(t) ==
  /\ At(t, "part_flag")
  /\ Goto(t, "part_level")
  /\ UNCHANGED <<buffered, previous_level, is_buffering, lock, msg, taken,
                 emitted, dropped, calls, panicked>>

PartFlag(t) ==
  /\ At(t, "part_flag")
  /\ is_buffering' = TRUE
  /\ Goto(t, "part_level")
  /\ UNCHANGED <<buffered, previous_level, lock, msg, taken, emitted, dropped,
                 calls, panicked>>

StoreLevel(t, from, to) ==
  /\ At(t, from)
  /\ previous_level' = msg[t].level
  /\ Goto(t, to)
  /\ UNCHANGED <<buffered, is_buffering, lock, msg, taken, emitted, dropped,
                 calls, panicked>>

PartLevel(t) == StoreLevel(t, "part_level", "idle")

-----------------------------------------------------------------------------
(* Mutant: a complete line does not look for a buffered text.              *)
LineIgnoresBuffer(t) ==
  /\ At(t, "line")
  /\ Goto(t, "line_level")
  /\ UNCHANGED <<buffered, previous_level, is_buffering, lock, msg, taken,
                 emitted, dropped, calls, panicked>>

(* emit_non_cont_line: the flag is swapped without the lock; whoever finds *)
(* it set takes the buffered text out and emits it first.                  *)
LineSwap(t) ==
  /\ At(t, "line")
  /\ is_buffering' = FALSE
  /\ Goto(t, IF is_buffering THEN "line_take" ELSE "line_level")
  /\ UNCHANGED <<buffered, previous_level, lock, msg, taken, emitted, dropped,
                 calls, panicked>>

(* Mutant: the guard of the mutex is not dropped.                          *)
LineTakeKeepsLock(t) ==
  /\ At(t, "line_take")
  /\ lock = None
  /\ lock' = t
  /\ buffered' = None
  /\ IF buffered # None THEN Emit(buffered.level, buffered.text)
                        ELSE UNCHANGED emitted
  /\ Goto(t, "line_level")
  /\ UNCHANGED <<previous_level, is_buffering, msg, taken, dropped, calls,
                 panicked>>

LineTake(t) ==
  /\ At(t, "line_take")
  /\ lock = None
  /\ buffered' = None
  /\ IF buffered # None THEN Emit(buffered.level, buffered.text)
                        ELSE UNCHANGED emitted
  /\ Goto(t, "line_level")
  /\ UNCHANGED <<previous_level, is_buffering, lock, msg, taken, dropped, calls,
                 panicked>>

LineLevel(t) == StoreLevel(t, "line_level", "line_emit")

LineEmit(t) ==
  /\ At(t, "line_emit")
  /\ Emit(msg[t].level, <<msg[t]>>)
  /\ Goto(t, "idle")
  /\ UNCHANGED <<buffered, previous_level, is_buffering, lock, msg, taken,
                 dropped, calls, panicked>>

-----------------------------------------------------------------------------
Step(t) ==
  \/ Disabled(t)
  \/ ContAppend(t) \/ ContOrphan(t) \/ ContFlush(t)
  \/ PartReplace(t) \/ PartFlag(t) \/ PartLevel(t)
  \/ LineSwap(t) \/ LineTake(t) \/ LineLevel(t) \/ LineEmit(t)

Next ==
  \E t \in Threads :
    \/ \E level \in Levels, nl \in BOOLEAN : Call(t, level, nl)
    \/ Step(t)

Spec == Init /\ [][Next]_vars

(* Every thread that is inside logs_to_trace keeps running: the code has   *)
(* no wait but the mutex, and holds that for a bounded number of steps.    *)
FairSpec == Spec /\ \A t \in Threads : WF_vars(Step(t))

-----------------------------------------------------------------------------
(* Where the message with a number is at the moment.                       *)
InText(text, id) == {j \in DOMAIN text : text[j].id = id}

EmittedAt(id) ==
  UNION {{i} \X InText(emitted[i].text, id) : i \in DOMAIN emitted}
BufferedAt(id) == IF buffered = None THEN {} ELSE InText(buffered.text, id)
TakenAt(id) ==
  UNION {{t} \X InText(taken[t].text, id) :
           t \in {u \in Threads : pc[u] = "cont_flush"}}
InHand(id) ==
  {t \in Threads :
     /\ pc[t] \in {"disabled", "cont", "part", "line", "line_take",
                   "line_level", "line_emit"}
     /\ msg[t].id = id}

(* No message is lost and none is emitted twice, whatever the threads do   *)
(* between the mutex and the atomics (log.rs:159-253): each message is in  *)
(* exactly one place, once.                                                *)
EachMessageOnce ==
  ~panicked =>
    \A id \in 1 .. calls :
      Cardinality(EmittedAt(id)) + Cardinality(BufferedAt(id))
        + Cardinality(TakenAt(id)) + Cardinality(InHand(id))
        + (IF id \in dropped THEN 1 ELSE 0) = 1

(* A text that starts with a CONT message had nothing to continue.         *)
IsOrphan(text) == Head(text).level = "CONT"

(* A text that was begun by a message without a newline does not get stuck *)
(* behind the lock-free flag: the flag is set, or a thread is on its way   *)
(* to set it, or to take the text out (log.rs:191-209, 217-226).           *)
BufferWillBeFlushed ==
  buffered # None /\ ~IsOrphan(buffered.text) =>
    is_buffering \/ \E t \in Threads : pc[t] \in {"part_flag", "line_take"}

(* As long as one thread alone has logged, its messages come out in the    *)
(* order it logged them, and a CONT is only ever joined to the message     *)
(* right before it (log.rs:158-159).  Texts that begin with a CONT are     *)
(* left out: with is_buffering unset, a complete line overtakes them       *)
(* (log.rs:175), though "we have to buffer until the next message comes in *)
(* to know how to flush it" (lib.rs:601-602).                              *)
LinesInOrder ==
  Cardinality({t \in Threads : msg[t] # None}) <= 1 =>
    /\ \A i \in 1 .. Len(emitted) :
         LET text == emitted[i].text
         IN ~IsOrphan(text) => \A k \in 1 .. Len(text) - 1 :
                                 text[k + 1].id = text[k].id + 1
    /\ \A i, j \in 1 .. Len(emitted) :
         i < j /\ ~IsOrphan(emitted[i].text) /\ ~IsOrphan(emitted[j].text)
           => Head(emitted[i].text).id < Head(emitted[j].text).id

(* Every call of logs_to_trace returns.                                    *)
EveryCallReturns == \A t \in Threads : pc[t] # "idle" ~> pc[t] = "idle" \/ panicked
=============================================================================
