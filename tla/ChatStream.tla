------------------------------- MODULE ChatStream -------------------------------
(***************************************************************************)
(* The streaming parser of chat responses: ChatParseStateOaicompat::update *)
(* (qllama/src/openai.rs) and the C++ behind it (wrapper_oai.cpp).  C++    *)
(* appends the new text to all the text so far, parses it again, and       *)
(* copies the message and the differences to the last message into blocks  *)
(* of malloc; Rust turns each difference into JSON and frees the blocks.   *)
(* The parser state lives across calls, so what a failing call has done to *)
(* it matters to the next one.                                             *)
(*                                                                         *)
(* A text given to update is known by its position among them, and becomes *)
(* content or a tool call of the message.  common_chat_parse is external:  *)
(* it may throw, and the message it finds may stop short of the end, and   *)
(* of what the last message showed.  So is compute_diffs: it may throw,    *)
(* and of a message that shows no more than the last one it finds nothing  *)
(* to tell.  The new message has been kept by then.                        *)
(***************************************************************************)
EXTENDS Integers, Sequences, FiniteSets, TextOrder

CONSTANT MaxUpdates   \* bound on the calls of update

ASSUME ChatStreamAssumption == MaxUpdates \in Nat

Kinds == {"content", "call"}
Positions == 1 .. MaxUpdates

VARIABLES
  generated,   \* state->generated_text: the kind of each text
  visible,     \* state->chat_msg: how many of them it shows
  prv,         \* msg_prv_copy, in the same way
  diffs,       \* what compute_diffs returned
  pc,          \* where the call is
  index,       \* the field, tool call, diff or conversion it is at
  string,      \* the string of the diff it is at
  out_msg,     \* the fields of out_msg that are not null
  heap,        \* the blocks this call allocated and has not freed
  deltas,      \* what the diffs Rust has converted hold, by kind
  delivered,   \* history: the texts whose deltas a call returned, by kind
  lost,        \* history: texts of the message that a failing call took in
  cut,         \* history: what was left when the message last showed less
  before,      \* history: what was delivered by then
  leaked,      \* history: blocks a call left behind
  unconverted, \* history: a diff could not be converted
  invalid      \* history: a block was freed that was not allocated

parser == <<generated, visible>>
native == <<prv, diffs, string, out_msg, heap, invalid>>
history == <<delivered, lost, cut, before, leaked, unconverted>>
streamVars == <<parser, native, pc, index, deltas, history>>

Diff == [kind : Kinds, texts : Seq(Positions)]

StreamTypeOK ==
  /\ generated \in Seq(Kinds) /\ Len(generated) <= MaxUpdates
  /\ visible \in 0 .. Len(generated)
  /\ prv \in 0 .. Len(generated)
  /\ diffs \in Seq(Diff)
  /\ pc \in {"idle", "parse", "fields", "calls", "diffs", "strings", "convert",
             "dropped"}
  /\ index \in Nat /\ string \in Nat
  /\ out_msg \in SUBSET {"role", "content", "calls"}
  /\ heap \in SUBSET ({"role", "content", "calls", "diffs"} \X Nat \X Nat)
  /\ deltas \in [Kinds -> Seq(Positions)]
  /\ delivered \in [Kinds -> Seq(Positions)]
  /\ lost \in SUBSET Positions
  /\ cut \in 0 .. MaxUpdates
  /\ before \in [Kinds -> Seq(Positions)]
  /\ leaked \in Nat
  /\ unconverted \in BOOLEAN
  /\ invalid \in BOOLEAN
  /\ pc = "strings" => index \in DOMAIN diffs

StreamInit ==
  /\ generated = <<>>
  /\ visible = 0 /\ prv = 0
  /\ diffs = <<>>
  /\ pc = "idle"
  /\ index = 0 /\ string = 0
  /\ out_msg = {}
  /\ heap = {}
  /\ deltas = [k \in Kinds |-> <<>>]
  /\ delivered = [k \in Kinds |-> <<>>]
  /\ lost = {}
  /\ cut = 0
  /\ before = [k \in Kinds |-> <<>>]
  /\ leaked = 0
  /\ unconverted = FALSE
  /\ invalid = FALSE

-----------------------------------------------------------------------------
(* The message, and what the differences to an older one are: one for all  *)
(* of the new content, and one for each new tool call.                     *)
Of(kind, texts) == {p \in texts : generated[p] = kind}
Shown(kind, n) == Of(kind, 1 .. n)
NCalls == Cardinality(Shown("call", visible))
HasContent == Shown("content", visible) # {}

ComputeDiffs(n) ==
  LET content == Of("content", visible + 1 .. n)
      calls == InOrder(Of("call", visible + 1 .. n))
  IN (IF content = {} THEN <<>>
      ELSE <<[kind |-> "content", texts |-> InOrder(content)]>>)
     \o [i \in DOMAIN calls |-> [kind |-> "call", texts |-> <<calls[i]>>]]

(* The strings of a diff: the content, or name, arguments and id.          *)
NStrings(diff) == IF diff.kind = "content" THEN 1 ELSE 3

-----------------------------------------------------------------------------
(* Blocks.  Block i, j of "diffs" is string j of diff i, block i of "calls" *)
(* the strings of tool call i; number 0 is the array itself.               *)
FieldBlocks(f) ==
  IF f = "calls" THEN {<<"calls", i, 0>> : i \in 0 .. NCalls} ELSE {<<f, 0, 0>>}

MsgBlocks == UNION {FieldBlocks(f) : f \in out_msg}

(* What diff_free frees of an array when it is told that count diffs in it *)
(* are set up: all strings of those before the one at hand.                *)
DiffBlocks(count) ==
  {<<"diffs", 0, 0>>}
    \cup UNION {{<<"diffs", i, j>> : j \in 1 .. NStrings(diffs[i])} :
                  i \in 1 .. count}

StringsSoFar == {<<"diffs", index, j>> : j \in 1 .. string - 1}

Free(blocks) ==
  /\ heap' = heap \ blocks
  /\ invalid' = (invalid \/ ~(blocks \subseteq heap))

-----------------------------------------------------------------------------
(* Returning from update: what is told to the caller, and what is missed   *)
(* of the texts the message shows since.  If it shows fewer than before,   *)
(* the others are as if they had never been told.                          *)
Returns(told, missed) ==
  /\ pc' = "idle"
  /\ delivered' = told
  /\ lost' = (lost \cup missed) \cap (1 .. visible')
  /\ IF visible' < prv THEN cut' = visible' /\ before' = told
                       ELSE UNCHANGED <<cut, before>>

(* An error ends the call where it is found: what the call has not freed   *)
(* by then nobody frees, and what the message shows by then will not be a  *)
(* difference to it any more.                                              *)
ReturnError(left) ==
  /\ Returns(delivered, prv + 1 .. visible')
  /\ leaked' = leaked + Cardinality(left)

(* C++ frees out_msg, and more, and returns an error status.               *)
Fail(more) ==
  /\ Free(MsgBlocks \cup more)
  /\ out_msg' = {}
  /\ ReturnError(heap')
  /\ UNCHANGED <<generated, prv, diffs, index, string, deltas, unconverted>>

(* Mutant: what an earlier call converted is returned again.               *)
UpdateKeepsDeltas(kind) ==
  /\ pc = "idle"
  /\ Len(generated) < MaxUpdates
  /\ generated' = Append(generated, kind)
  /\ prv' = visible
  /\ diffs' = <<>>
  /\ out_msg' = {}
  /\ heap' = {}
  /\ pc' = "parse"
  /\ UNCHANGED <<visible, index, string, invalid, deltas, history>>

(* The text is appended before it is known whether it can be parsed.  (One *)
(* with a NUL inside is refused before C++ is called; nothing changes.)    *)
Update(kind) ==
  /\ pc = "idle"
  /\ Len(generated) < MaxUpdates
  /\ generated' = Append(generated, kind)
  /\ prv' = visible
  /\ diffs' = <<>>
  /\ out_msg' = {}
  /\ heap' = {}
  /\ deltas' = [k \in Kinds |-> <<>>]
  /\ pc' = "parse"
  /\ UNCHANGED <<visible, index, string, invalid, history>>

ParseThrows == pc = "parse" /\ UNCHANGED visible /\ Fail({})

(* An empty message is ignored.                                            *)
ParseEmpty ==
  /\ pc = "parse"
  /\ pc' = "fields"
  /\ index' = 1
  /\ UNCHANGED <<parser, native, deltas, history>>

(* The new message shows the first n texts, which may be fewer than the    *)
(* last one did; it is kept before the diffs are computed.                 *)
ParseShows(n) ==
  /\ pc = "parse"
  /\ n > 0
  /\ visible' = n
  /\ diffs' = ComputeDiffs(n)
  /\ pc' = "fields"
  /\ index' = 1
  /\ UNCHANGED <<generated, prv, string, out_msg, heap, invalid, deltas, history>>

DiffsThrow(n) ==
  /\ pc = "parse"
  /\ n > 0
  /\ visible' = n
  /\ Fail({})

-----------------------------------------------------------------------------
(* fill_chat_msg: the strings of the message, then its tool calls.         *)
(* Reasoning counts as content; the message of a response has no parts and *)
(* is not the answer of a tool.                                            *)
MsgFields == <<"role">> \o (IF HasContent THEN <<"content">> ELSE <<>>)

CopyField ==
  /\ pc = "fields" /\ index <= Len(MsgFields)
  /\ heap' = heap \cup {<<MsgFields[index], 0, 0>>}
  /\ out_msg' = out_msg \cup {MsgFields[index]}
  /\ index' = index + 1
  /\ UNCHANGED <<parser, prv, diffs, string, invalid, pc, deltas, history>>

CopyFieldFails ==
  /\ pc = "fields" /\ index <= Len(MsgFields)
  /\ UNCHANGED visible
  /\ Fail({})

NewCalls ==
  /\ pc = "fields" /\ index = Len(MsgFields) + 1
  /\ IF NCalls = 0
     THEN pc' = "diffs" /\ UNCHANGED heap
     ELSE pc' = "calls" /\ heap' = heap \cup {<<"calls", 0, 0>>}
  /\ index' = 1
  /\ UNCHANGED <<parser, prv, diffs, string, out_msg, invalid, deltas, history>>

NewCallsFails ==
  /\ pc = "fields" /\ index = Len(MsgFields) + 1
  /\ NCalls > 0
  /\ UNCHANGED visible
  /\ Fail({})

CopyCall ==
  /\ pc = "calls" /\ index <= NCalls
  /\ heap' = heap \cup {<<"calls", index, 0>>}
  /\ index' = index + 1
  /\ UNCHANGED <<parser, prv, diffs, string, out_msg, invalid, pc, deltas, history>>

(* The array is not in out_msg yet: the callee frees it.                   *)
CopyCallFails ==
  /\ pc = "calls" /\ index <= NCalls
  /\ UNCHANGED visible
  /\ Fail({<<"calls", i, 0>> : i \in 0 .. index - 1})

PublishCalls ==
  /\ pc = "calls" /\ index = NCalls + 1
  /\ out_msg' = out_msg \cup {"calls"}
  /\ pc' = "diffs"
  /\ UNCHANGED <<parser, prv, diffs, string, heap, invalid, index, deltas, history>>

-----------------------------------------------------------------------------
(* The array of diffs.                                                     *)
NewDiffs ==
  /\ pc = "diffs"
  /\ index' = 1
  /\ IF diffs = <<>>
     THEN pc' = "convert" /\ UNCHANGED <<string, heap>>
     ELSE /\ heap' = heap \cup {<<"diffs", 0, 0>>}
          /\ string' = 1
          /\ pc' = "strings"
  /\ UNCHANGED <<parser, prv, diffs, out_msg, invalid, deltas, history>>

NewDiffsFails ==
  /\ pc = "diffs" /\ diffs # <<>>
  /\ UNCHANGED visible
  /\ Fail({})

(* Each string of each diff; the last one of the last diff publishes them. *)
CopyString ==
  /\ pc = "strings"
  /\ heap' = heap \cup {<<"diffs", index, string>>}
  /\ IF string < NStrings(diffs[index])
     THEN string' = string + 1 /\ UNCHANGED <<pc, index>>
     ELSE /\ string' = 1
          /\ IF index < Len(diffs) THEN index' = index + 1 /\ UNCHANGED pc
                                   ELSE index' = 1 /\ pc' = "convert"
  /\ UNCHANGED <<parser, prv, diffs, out_msg, invalid, deltas, history>>

(* Mutant: all diffs are taken to be set up.                               *)
CopyStringFailsFreesAll ==
  /\ pc = "strings"
  /\ UNCHANGED visible
  /\ Fail(DiffBlocks(Len(diffs)))

(* The diffs up to the one at hand are freed; the rest of the array was    *)
(* never written.                                                          *)
CopyStringFails ==
  /\ pc = "strings"
  /\ UNCHANGED visible
  /\ Fail(DiffBlocks(index - 1) \cup StringsSoFar)

-----------------------------------------------------------------------------
(* Rust.                                                                   *)
Convert ==
  /\ pc = "convert" /\ index <= Len(diffs)
  /\ deltas' = [deltas EXCEPT ![diffs[index].kind] = @ \o diffs[index].texts]
  /\ index' = index + 1
  /\ UNCHANGED <<parser, native, pc, history>>

(* Mutant: what was converted before is returned.                          *)
ConvertFailsTellsSome ==
  /\ pc = "convert" /\ index <= Len(diffs)
  /\ UNCHANGED <<parser, native, index, deltas>>
  /\ unconverted' = TRUE
  /\ Returns([k \in Kinds |-> delivered[k] \o deltas[k]], prv + 1 .. visible)
  /\ leaked' = leaked + Cardinality(heap)

(* The JSON string is freed, or was not allocated; the rest is left.       *)
ConvertFails ==
  /\ pc = "convert" /\ index <= Len(diffs)
  /\ UNCHANGED <<parser, native, index, deltas>>
  /\ unconverted' = TRUE
  /\ ReturnError(heap)

(* Mutant: the diffs are not freed.                                        *)
FreeMsgOnly ==
  /\ pc = "convert" /\ index = Len(diffs) + 1
  /\ UNCHANGED <<parser, prv, diffs, string, index, deltas, unconverted>>
  /\ Free(MsgBlocks)
  /\ out_msg' = {}
  /\ Returns([k \in Kinds |-> delivered[k] \o deltas[k]], {})
  /\ leaked' = leaked + Cardinality(heap')

(* Both are freed, and the deltas returned.                                *)
FreeAndReturn ==
  /\ pc = "convert" /\ index = Len(diffs) + 1
  /\ UNCHANGED <<parser, prv, diffs, string, index, deltas, unconverted>>
  /\ Free(MsgBlocks \cup (IF diffs = <<>> THEN {} ELSE DiffBlocks(Len(diffs))))
  /\ out_msg' = {}
  /\ Returns([k \in Kinds |-> delivered[k] \o deltas[k]], {})
  /\ leaked' = leaked + Cardinality(heap')

(* Dropping the state: no call is running then.                            *)
Drop ==
  /\ pc = "idle"
  /\ pc' = "dropped"
  /\ UNCHANGED <<parser, native, index, deltas, history>>

-----------------------------------------------------------------------------
StreamNext ==
  \/ \E kind \in Kinds : Update(kind)
  \/ ParseThrows \/ ParseEmpty
  \/ \E n \in 1 .. Len(generated) : ParseShows(n) \/ DiffsThrow(n)
  \/ CopyField \/ CopyFieldFails
  \/ NewCalls \/ NewCallsFails \/ CopyCall \/ CopyCallFails \/ PublishCalls
  \/ NewDiffs \/ NewDiffsFails \/ CopyString \/ CopyStringFails
  \/ Convert \/ ConvertFails \/ FreeAndReturn
  \/ Drop

StreamSpec == StreamInit /\ [][StreamNext]_streamVars

-----------------------------------------------------------------------------
(* What the calls have told when the message shows n texts.                *)
Told(kind, n) == before[kind] \o InOrder(Of(kind, cut + 1 .. n) \ lost)

(* Between calls, the deltas returned so far put together are the message  *)
(* the parser keeps, in order and without a text given twice; a text is    *)
(* missing only if the call in which the message came to show it failed    *)
(* (openai.rs:69-101, wrapper_oai.cpp:575-593).  A call that fails before  *)
(* the message is kept loses nothing: the next one delivers its text.  If  *)
(* the message came to show less, this is so from what was left of it: the *)
(* texts it does not show any more are told once more if it shows them     *)
(* again, and no others are.                                               *)
DeltasAreTheMessage ==
  pc = "idle" => \A k \in Kinds : delivered[k] = Told(k, visible)

(* A call leaves blocks behind only if one of its diffs could not be       *)
(* converted: the early returns of openai.rs:91-98 skip the frees below    *)
(* them, the many error paths of C++ (wrapper_oai.cpp:589-666) free all.   *)
LeaksOnlyUnconverted == leaked > 0 => unconverted

(* No error path frees a string of a diff that was never written, or a     *)
(* block twice (wrapper_oai.cpp:610-657, 912-926).                         *)
OnlyLiveBlocks == ~invalid

(* What a call makes the message show counts when the call returns; until  *)
(* then the message shows what it is compared with.                        *)
Running == pc \notin {"idle", "dropped"}
ShownAtReturn == IF Running THEN prv ELSE visible

Promise ==
  INSTANCE StreamInOrder WITH given <- generated, shown <- ShownAtReturn,
                              told <- delivered, missed <- lost, calling <- Running

(* Whatever fails in it, a call of update returns all of the new texts or  *)
(* none, and what it made the message show is not returned later unless    *)
(* the message has stopped showing it (openai.rs:69-101,                   *)
(* wrapper_oai.cpp:575-593).                                               *)
ImplementsStreamInOrder == Promise!Spec
=============================================================================
