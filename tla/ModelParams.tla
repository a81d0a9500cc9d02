------------------------------ MODULE ModelParams ------------------------------
(***************************************************************************)
(* LlamaModelParams (qllama/src/model/params.rs): the builder of the C     *)
(* struct that llama.cpp loads a model with.  The struct points into two   *)
(* vectors and an array the builder owns; llama.cpp, and the iterator of   *)
(* kv_overrides.rs, read each of them up to its first empty entry.         *)
(*                                                                         *)
(* A vector is its entries and the number of the heap buffer they are in,  *)
(* a pointer the number of the buffer it was taken from.  A panic may be   *)
(* caught, and the builder used again.                                     *)
(***************************************************************************)
EXTENDS Integers, Sequences

CONSTANTS
  Keys,        \* keys and patterns that fit, none empty
  LongKeys,    \* keys without room for their final nul
  Devices,     \* devices ggml has
  MaxDevices,  \* LLAMA_CPP_MAX_DEVICES, the length of the array
  Null

ASSUME ModelParamsAssumption ==
  /\ MaxDevices \in Nat \ {0}
  /\ Null \notin Keys \cup LongKeys \cup Devices
  /\ Null \notin Nat   \* a null pointer is no buffer's address

VARIABLES
  kv_overrides,    \* the vector of overrides; Null is an entry with no key
  kv_ptr,          \* params.kv_overrides
  buft_overrides,  \* the vector of buffer types
  buft_ptr,        \* params.tensor_buft_overrides
  devices,         \* the array of devices
  devices_ptr,     \* whether params.devices points to it
  load_mode,       \* params.load_mode
  no_alloc,        \* params.no_alloc
  given,           \* history: the keys append_kv_override returned for
  panicked,        \* history: a call panicked
  alive            \* the builder has not been consumed by a failing call

lists == <<kv_overrides, kv_ptr, buft_overrides, buft_ptr>>
modes == <<load_mode, no_alloc>>
paramsVars == <<lists, modes, devices, devices_ptr, given, panicked, alive>>

LoadModes == {"AUTO", "NONE", "MMAP", "MLOCK", "MMAP_MLOCK"}
Vector(entries) == [buffer : Nat, entries : Seq(entries \cup {Null})]

ParamsTypeOK ==
  /\ kv_overrides \in Vector(Keys \cup LongKeys)
  /\ kv_ptr \in Nat \cup {Null}
  /\ buft_overrides \in Vector(Keys)
  /\ buft_ptr \in Nat \cup {Null}
  /\ devices \in [1 .. MaxDevices -> Devices \cup {Null}]
  /\ devices_ptr \in BOOLEAN
  /\ load_mode \in LoadModes
  /\ no_alloc \in BOOLEAN
  /\ given \in Seq(Keys)
  /\ panicked \in BOOLEAN
  /\ alive \in BOOLEAN

(* Default: one empty entry in each vector, and no pointer to it yet.      *)
ParamsInit ==
  /\ kv_overrides = [buffer |-> 0, entries |-> <<Null>>]
  /\ kv_ptr = Null
  /\ buft_overrides = [buffer |-> 0, entries |-> <<Null>>]
  /\ buft_ptr = Null
  /\ devices = [i \in 1 .. MaxDevices |-> Null]
  /\ devices_ptr = FALSE
  /\ load_mode = "AUTO"
  /\ no_alloc = FALSE
  /\ given = <<>>
  /\ panicked = FALSE
  /\ alive = TRUE

-----------------------------------------------------------------------------
(* Mutant: the terminating entry is not pushed.                            *)
SetFirstOnly(vec, entry) == [vec EXCEPT !.entries[1] = entry]

(* What a push leaves: the vector may move.                                *)
SetFirstAndPush(vec, entry) ==
  [buffer |-> vec.buffer + 1,
   entries |-> Append([vec.entries EXCEPT ![1] = entry], Null)]

Panic == panicked' = TRUE

(* Mutant: an entry that is set is overwritten.                            *)
AppendKvOverrideUnasserted(key) ==
  /\ alive /\ key \in Keys
  /\ kv_overrides' = SetFirstAndPush(kv_overrides, key)
  /\ kv_ptr' = kv_overrides'.buffer
  /\ given' = IF Len(given) < 2 THEN Append(given, key) ELSE given
  /\ UNCHANGED <<buft_overrides, buft_ptr, modes, devices, devices_ptr, panicked,
                 alive>>

(* Mutant: a key that leaves no room for its nul is taken.                 *)
AppendKvOverrideUnterminated(key) ==
  /\ alive
  /\ \/ /\ kv_overrides.entries[1] # Null
        /\ Panic
        /\ UNCHANGED <<kv_overrides, kv_ptr, given>>
     \/ /\ kv_overrides.entries[1] = Null
        /\ kv_overrides' = SetFirstAndPush(kv_overrides, key)
        /\ kv_ptr' = kv_overrides'.buffer
        /\ given' = Append(given, key)
        /\ UNCHANGED panicked
  /\ UNCHANGED <<buft_overrides, buft_ptr, modes, devices, devices_ptr, alive>>

(* append_kv_override writes the FIRST entry and asserts that it is empty. *)
(* A long key is written until it does not fit.                            *)
AppendKvOverride(key) ==
  /\ alive
  /\ \/ /\ kv_overrides.entries[1] # Null
        /\ Panic
        /\ UNCHANGED <<kv_overrides, kv_ptr, given>>
     \/ /\ kv_overrides.entries[1] = Null /\ key \in LongKeys
        /\ kv_overrides' = [kv_overrides EXCEPT !.entries[1] = key]
        /\ Panic
        /\ UNCHANGED <<kv_ptr, given>>
     \/ /\ kv_overrides.entries[1] = Null /\ key \in Keys
        /\ kv_overrides' = SetFirstAndPush(kv_overrides, key)
        /\ kv_ptr' = kv_overrides'.buffer
        /\ given' = Append(given, key)
        /\ UNCHANGED panicked
  /\ UNCHANGED <<buft_overrides, buft_ptr, modes, devices, devices_ptr, alive>>

(* add_cpu_buft_override, and add_cpu_moe_override with its pattern: the   *)
(* pattern is kept by pointer, whatever its length.                        *)
AddCpuBuftOverride(pattern) ==
  /\ alive
  /\ \/ /\ buft_overrides.entries[1] # Null
        /\ Panic
        /\ UNCHANGED <<buft_overrides, buft_ptr>>
     \/ /\ buft_overrides.entries[1] = Null
        /\ buft_overrides' = SetFirstAndPush(buft_overrides, pattern)
        /\ buft_ptr' = buft_overrides'.buffer
        /\ UNCHANGED panicked
  /\ UNCHANGED <<kv_overrides, kv_ptr, modes, devices, devices_ptr, given, alive>>

-----------------------------------------------------------------------------
(* The array with_devices fills after clearing it.                         *)
DeviceArray(indices) ==
  [i \in 1 .. MaxDevices |-> IF i \in DOMAIN indices THEN indices[i] ELSE Null]

(* with_devices.  A refused list consumes the builder.                     *)
WithDevices(indices) ==
  /\ alive
  /\ IF Len(indices) > MaxDevices \/ \E i \in DOMAIN indices : indices[i] \notin Devices
     THEN alive' = FALSE /\ UNCHANGED <<devices, devices_ptr>>
     ELSE /\ devices' = DeviceArray(indices)
          /\ devices_ptr' = TRUE
          /\ UNCHANGED alive
  /\ UNCHANGED <<lists, modes, given, panicked>>

-----------------------------------------------------------------------------
UseMmap(mode) == mode \in {"AUTO", "MMAP", "MMAP_MLOCK"}
UseMlock(mode) == mode \in {"MLOCK", "MMAP_MLOCK"}

LoadModeFromFlags(use_mmap, use_mlock) ==
  CASE ~use_mmap /\ ~use_mlock -> "NONE"
    [] use_mmap /\ ~use_mlock  -> "MMAP"
    [] ~use_mmap /\ use_mlock  -> "MLOCK"
    [] OTHER                   -> "MMAP_MLOCK"

(* Mutant: the other flag is not read back from the mode.                  *)
WithUseMlockOnly(use_mlock) ==
  /\ alive
  /\ load_mode' = LoadModeFromFlags(FALSE, use_mlock)
  /\ UNCHANGED <<lists, no_alloc, devices, devices_ptr, given, panicked, alive>>

(* with_use_mmap and with_use_mlock: the flag that is not given is decoded *)
(* from the mode it is stored in.                                          *)
WithUseMmap(use_mmap) ==
  /\ alive
  /\ load_mode' = LoadModeFromFlags(use_mmap, UseMlock(load_mode))
  /\ UNCHANGED <<lists, no_alloc, devices, devices_ptr, given, panicked, alive>>

WithUseMlock(use_mlock) ==
  /\ alive
  /\ load_mode' = LoadModeFromFlags(UseMmap(load_mode), use_mlock)
  /\ UNCHANGED <<lists, no_alloc, devices, devices_ptr, given, panicked, alive>>

(* with_no_alloc goes through with_use_mmap.                               *)
WithNoAlloc(flag) ==
  /\ alive
  /\ no_alloc' = flag
  /\ load_mode' = IF flag THEN LoadModeFromFlags(FALSE, UseMlock(load_mode))
                          ELSE load_mode
  /\ UNCHANGED <<lists, devices, devices_ptr, given, panicked, alive>>

-----------------------------------------------------------------------------
(* Indices a caller may give: valid ones, and one there is no device for.  *)
IndexLists ==
  UNION {[1 .. n -> Devices \cup {Null}] : n \in 0 .. MaxDevices + 1}

ParamsNext ==
  \/ \E key \in Keys \cup LongKeys : AppendKvOverride(key)
  \/ \E pattern \in Keys : AddCpuBuftOverride(pattern)
  \/ \E indices \in IndexLists : WithDevices(indices)
  \/ \E flag \in BOOLEAN : WithUseMmap(flag) \/ WithUseMlock(flag)
                             \/ WithNoAlloc(flag)

ParamsSpec == ParamsInit /\ [][ParamsNext]_paramsVars

-----------------------------------------------------------------------------
(* llama.cpp and the iterator of kv_overrides.rs:107-131 walk a vector up  *)
(* to its empty entry: whenever the struct has a pointer, it is to the     *)
(* buffer the vector is in now, and there is an empty entry to stop at,    *)
(* also after a caught panic (params.rs:212-228).                          *)
Walkable(ptr, vec) ==
  ptr # Null => ptr = vec.buffer /\ Null \in {vec.entries[i] : i \in DOMAIN vec.entries}

VectorsWalkable ==
  Walkable(kv_ptr, kv_overrides) /\ Walkable(buft_ptr, buft_overrides)

(* What llama.cpp finds is what append_kv_override was given and returned  *)
(* for, in that order (params.rs:176-194).                                 *)
UpToNull(entries) ==
  LET Stops == {i \in DOMAIN entries : entries[i] = Null}
  IN SubSeq(entries, 1, (CHOOSE i \in Stops : \A j \in Stops : i <= j) - 1)

OverridesAreTheGiven ==
  (IF kv_ptr = Null THEN <<>> ELSE UpToNull(kv_overrides.entries)) = given

(* The two flags are independent although one mode, with a value for       *)
(* neither, stores both: after each setter its own flag reads as what was  *)
(* given, and the other as before; with_no_alloc takes use_mmap away when  *)
(* it is given true, and no other call touches a flag                      *)
(* (params.rs:124-133, 301-322, 389-399, 446-454).  So with_use_mmap(true) *)
(* after with_no_alloc(true) leaves both, which params.rs:446 excludes.    *)
Flags == <<UseMmap(load_mode), UseMlock(load_mode)>>

FlagsAreIndependent ==
  [][/\ \A b \in BOOLEAN :
          /\ WithUseMmap(b) => Flags' = <<b, Flags[2]>> /\ no_alloc' = no_alloc
          /\ WithUseMlock(b) => Flags' = <<Flags[1], b>> /\ no_alloc' = no_alloc
          /\ WithNoAlloc(b) => Flags' = <<Flags[1] /\ ~b, Flags[2]>> /\ no_alloc' = b
     /\ Flags' # Flags => \E b \in BOOLEAN :
          WithUseMmap(b) \/ WithUseMlock(b) \/ WithNoAlloc(b)]_paramsVars
=============================================================================
