----------------------------- MODULE LlamaBackend -----------------------------
(***************************************************************************)
(* LlamaBackend (qllama/src/llama_backend.rs): a token that exists at most *)
(* once in the process, guarded by a static atomic flag.  init and         *)
(* init_numa swap the flag and then call C; Drop swaps it back and then    *)
(* calls C.  The two halves are separate steps: another thread may run     *)
(* between the flag and the C call.                                        *)
(***************************************************************************)
EXTENDS Integers, FiniteSets

CONSTANTS
  Threads,    \* threads that call init, init_numa and drop
  InitKinds   \* which of "init" and "init_numa" they call

ASSUME BackendAssumption == InitKinds \subseteq {"init", "init_numa"}

VARIABLES
  initialized,  \* LLAMA_BACKEND_INITIALIZED
  pc,           \* where each thread is
  kind,         \* the constructor each thread called last
  refused,      \* the thread's last constructor returned an error
  native        \* llama_backend_init was called and not yet undone in C

vars == <<initialized, pc, kind, refused, native>>

Init ==
  /\ initialized = FALSE
  /\ pc = [t \in Threads |-> "idle"]
  /\ kind = [t \in Threads |-> "init"]
  /\ refused = [t \in Threads |-> FALSE]
  /\ native = FALSE

Goto(t, place) == pc' = [pc EXCEPT ![t] = place]

-----------------------------------------------------------------------------
(* Mutant: the flag is stored without looking at its old value.            *)
MarkInitBlindly(t, k) ==
  /\ pc[t] = "idle"
  /\ initialized' = TRUE
  /\ Goto(t, "marked")
  /\ kind' = [kind EXCEPT ![t] = k]
  /\ refused' = [refused EXCEPT ![t] = FALSE]
  /\ UNCHANGED native

(* mark_init succeeds: compare_exchange(false, true).                      *)
MarkInit(t, k) ==
  /\ pc[t] = "idle"
  /\ ~initialized
  /\ initialized' = TRUE
  /\ Goto(t, "marked")
  /\ kind' = [kind EXCEPT ![t] = k]
  /\ refused' = [refused EXCEPT ![t] = FALSE]
  /\ UNCHANGED native

(* mark_init fails: the constructor returns BackendAlreadyInitialized.     *)
InitRefused(t, k) ==
  /\ pc[t] = "idle"
  /\ initialized
  /\ kind' = [kind EXCEPT ![t] = k]
  /\ refused' = [refused EXCEPT ![t] = TRUE]
  /\ UNCHANGED <<initialized, pc, native>>

(* The C call after mark_init, and the token is returned.  init calls      *)
(* llama_backend_init; init_numa calls llama_numa_init and nothing else.   *)
FinishInit(t) ==
  /\ pc[t] = "marked"
  /\ native' = (native \/ kind[t] = "init")
  /\ Goto(t, "holding")
  /\ UNCHANGED <<initialized, kind, refused>>

(* Mutant: Drop leaves the flag set.                                       *)
DropKeepsFlag(t) ==
  /\ pc[t] = "holding"
  /\ Goto(t, IF initialized THEN "freeing" ELSE "unreachable")
  /\ UNCHANGED <<initialized, kind, refused, native>>

(* Drop: compare_exchange(true, false), or the unreachable! arm.           *)
DropToken(t) ==
  /\ pc[t] = "holding"
  /\ initialized' = FALSE
  /\ Goto(t, IF initialized THEN "freeing" ELSE "unreachable")
  /\ UNCHANGED <<kind, refused, native>>

(* The rest of Drop: llama_backend_free.                                   *)
FinishDrop(t) ==
  /\ pc[t] = "freeing"
  /\ native' = FALSE
  /\ Goto(t, "idle")
  /\ UNCHANGED <<initialized, kind, refused>>

Next ==
  \E t \in Threads :
    \/ \E k \in InitKinds : MarkInit(t, k) \/ InitRefused(t, k)
    \/ FinishInit(t)
    \/ DropToken(t)
    \/ FinishDrop(t)

Spec == Init /\ [][Next]_vars

-----------------------------------------------------------------------------
(* A thread owns the flag from its swap in mark_init to its swap in Drop.  *)
Owns(t) == pc[t] \in {"marked", "holding"}

(* The types, and with them that no thread ever takes the unreachable! arm *)
(* of Drop (llama_backend.rs:176): "unreachable" is not a place.           *)
TypeOK ==
  /\ initialized \in BOOLEAN
  /\ pc \in [Threads -> {"idle", "marked", "holding", "freeing"}]
  /\ kind \in [Threads -> {"init", "init_numa"}]
  /\ refused \in [Threads -> BOOLEAN]
  /\ native \in BOOLEAN

(* "the llama backend can only be initialized once" (llama_backend.rs:38): *)
(* no two threads hold, or are about to be given, a token.                 *)
AtMostOneToken == \A t, u \in Threads : Owns(t) /\ Owns(u) => t = u

(* "can be initialized again after being dropped" (llama_backend.rs:165):  *)
(* a constructor is refused only while somebody owns the flag.             *)
RefusedOnlyWhileOwned == initialized => \E t \in Threads : Owns(t)
=============================================================================
