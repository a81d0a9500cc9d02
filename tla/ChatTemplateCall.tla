---------------------------- MODULE ChatTemplateCall ----------------------------
(***************************************************************************)
(* One call of apply_chat_template_oaicompat, or of its older sibling      *)
(* apply_chat_template_with_tools_oaicompat (qllama/src/model.rs), with    *)
(* the C++ function behind it (qllama-sys/wrapper_oai.cpp).  C++ copies    *)
(* what it rendered, field by field, into blocks of malloc that the result *)
(* struct points to; Rust converts the fields to Strings, field by field,  *)
(* and gives the struct back to C++ to be freed.  Each copy may fail, each *)
(* conversion may fail, and both sides free.                               *)
(*                                                                         *)
(* A field is the sequence of the texts in it: at most one for a string.   *)
(* A block is known by what it holds: item 0 of a field is the string      *)
(* itself, or the array of pointers to the items.                          *)
(***************************************************************************)
EXTENDS Integers, Sequences

CONSTANT
  Contents   \* what the template may render: a sequence of texts per field

Strings == {"prompt", "grammar", "parser", "generation_prompt"}
Arrays == {"grammar_triggers", "preserved_tokens", "additional_stops"}
Fields == Strings \cup Arrays

(* The order in which both sides go through the fields.                    *)
FieldOrder == <<"prompt", "grammar", "parser", "generation_prompt",
                "grammar_triggers", "preserved_tokens", "additional_stops">>
NFields == 7

(* "bad" is a text that is not UTF-8, or a trigger of an unknown type (with *)
(* a value that is not empty); "nul" is a text with a NUL byte inside.     *)
Texts == {"text", "empty", "bad", "nul"}

(* What CStr::from_ptr finds of a text that llama_rs_dup_string copied in  *)
(* full: it ends at the first NUL.                                         *)
CStrings == (Texts \ {"nul"}) \cup {"cut"}
FromPtr(text) == IF text = "nul" THEN "cut" ELSE text
FromPtrs(texts) == [i \in DOMAIN texts |-> FromPtr(texts[i])]

ASSUME ChatTemplateAssumption ==
  /\ Contents \subseteq [Fields -> Seq(Texts)]
  /\ \A c \in Contents : Len(c["prompt"]) = 1
  /\ \A c \in Contents, f \in Strings : Len(c[f]) <= 1

VARIABLES
  sibling,    \* which of the two functions is called
  content,    \* what the template renders
  pc,         \* where the call is
  field,      \* the field it is at
  item,       \* the item of the field
  heap,       \* the blocks allocated and not freed
  out,        \* the fields of raw_result that are not null
  null_items, \* items whose pointer is null
  rc,         \* the status C++ returned
  result,     \* the fields of the ChatTemplateResult
  outcome,    \* what the call returned
  invalid,    \* history: a block was freed or read that was not allocated
  lost        \* history: the strings whose copy failed

given == <<sibling, content>>
vars == <<given, pc, field, item, heap, out, null_items, rc, result, outcome,
          invalid, lost>>

Blocks == Fields \X Nat

TypeOK ==
  /\ sibling \in {"with_tools", "oaicompat"}
  /\ content \in Contents
  /\ pc \in {"start", "render", "copy", "items", "convert", "free", "returned"}
  /\ field \in 1 .. NFields + 1
  /\ item \in Nat
  /\ pc = "items" => /\ field <= NFields /\ FieldOrder[field] \in Arrays
                     /\ item \in 1 .. Len(content[FieldOrder[field]]) + 1
  /\ heap \in SUBSET Blocks
  /\ out \in SUBSET Fields
  /\ null_items \in SUBSET Blocks
  /\ rc \in {"none", "ok", "alloc", "exception"}
  /\ result \in [Fields -> Seq(CStrings)]
  /\ outcome \in {"none", "ok", "nul_error", "ffi_error", "convert_error"}
  /\ invalid \in BOOLEAN
  /\ lost \in SUBSET Strings

Init ==
  /\ sibling \in {"with_tools", "oaicompat"}
  /\ content \in Contents
  /\ pc = "start"
  /\ field = 1
  /\ item = 0
  /\ heap = {}
  /\ out = {}
  /\ null_items = {}
  /\ rc = "none"
  /\ result = [f \in Fields |-> <<>>]
  /\ outcome = "none"
  /\ invalid = FALSE
  /\ lost = {}

f_at == FieldOrder[field]
rustVars == <<result, outcome>>

-----------------------------------------------------------------------------
(* Freeing.  A null pointer may be freed.                                  *)

ItemBlocks(f, n) == {<<f, i>> : i \in 1 .. n} \ null_items

(* What a field that is not null points to.                                *)
FieldBlocks(f) ==
  {<<f, 0>>} \cup (IF f \in Arrays THEN ItemBlocks(f, Len(content[f])) ELSE {})

Reachable == UNION {FieldBlocks(f) : f \in out}

Free(blocks) ==
  /\ heap' = heap \ blocks
  /\ invalid' = (invalid \/ ~(blocks \subseteq heap))

(* Mutant: the pointers are not set to null after they are freed.          *)
ResultFreeKeepsPointers(more) == Free(more \cup Reachable) /\ UNCHANGED out

(* llama_rs_chat_template_result_free, after a callee freed more.          *)
ResultFree(more) == Free(more \cup Reachable) /\ out' = {}

-----------------------------------------------------------------------------
(* A CString with a NUL inside: C++ is not called.                         *)
RefuseArgument ==
  /\ pc = "start"
  /\ outcome' = "nul_error"
  /\ pc' = "returned"
  /\ UNCHANGED <<given, field, item, heap, out, null_items, rc, result, invalid,
                 lost>>

CallNative ==
  /\ pc = "start"
  /\ out' = {}
  /\ pc' = "render"
  /\ UNCHANGED <<given, field, item, heap, null_items, rc, rustVars, invalid, lost>>

(* Every return of C++ goes on with the first conversion.                  *)
Return(status) == rc' = status /\ pc' = "convert" /\ field' = 1

FailNative(status, more) ==
  /\ ResultFree(more)
  /\ Return(status)
  /\ UNCHANGED <<given, item, null_items, rustVars, lost>>

(* Parsing the JSON arguments or the template, or rendering it, throws.    *)
Throw == pc = "render" /\ FailNative("exception", {})

Render ==
  /\ pc = "render"
  /\ pc' = "copy"
  /\ UNCHANGED <<given, field, item, heap, out, null_items, rc, rustVars, invalid,
                 lost>>

(* Nobody looks at the result of llama_rs_dup_string here: a field whose   *)
(* copy failed is null, as is one that was empty.                          *)
CopyString ==
  /\ pc = "copy" /\ field <= NFields /\ f_at \in Strings
  /\ \/ /\ content[f_at] = <<>>
        /\ UNCHANGED <<heap, out, lost>>
     \/ /\ content[f_at] # <<>>
        /\ heap' = heap \cup {<<f_at, 0>>}
        /\ out' = out \cup {f_at}
        /\ UNCHANGED lost
     \/ /\ content[f_at] # <<>>
        /\ lost' = lost \cup {f_at}
        /\ UNCHANGED <<heap, out>>
  /\ field' = field + 1
  /\ UNCHANGED <<given, pc, item, null_items, rc, rustVars, invalid>>

-----------------------------------------------------------------------------
(* dup_trigger_array and dup_string_array.                                 *)
SkipArray ==
  /\ pc = "copy" /\ field <= NFields /\ f_at \in Arrays
  /\ content[f_at] = <<>>
  /\ field' = field + 1
  /\ UNCHANGED <<given, pc, item, heap, out, null_items, rc, rustVars, invalid,
                 lost>>

NewArray ==
  /\ pc = "copy" /\ field <= NFields /\ f_at \in Arrays
  /\ content[f_at] # <<>>
  /\ heap' = heap \cup {<<f_at, 0>>}
  /\ item' = 1
  /\ pc' = "items"
  /\ UNCHANGED <<given, field, out, null_items, rc, rustVars, invalid, lost>>

NewArrayFails ==
  /\ pc = "copy" /\ field <= NFields /\ f_at \in Arrays
  /\ content[f_at] # <<>>
  /\ FailNative("alloc", {})

(* Mutant: the loop runs once more than there are items.                   *)
CopyItemOnePast ==
  /\ pc = "items" /\ item <= Len(content[f_at]) + 1
  /\ heap' = heap \cup {<<f_at, item>>}
  /\ item' = item + 1
  /\ UNCHANGED <<given, pc, field, out, null_items, rc, rustVars, invalid, lost>>

CopyItem ==
  /\ pc = "items" /\ item <= Len(content[f_at])
  /\ heap' = heap \cup {<<f_at, item>>}
  /\ item' = item + 1
  /\ UNCHANGED <<given, pc, field, out, null_items, rc, rustVars, invalid, lost>>

(* Mutant: the copy of a trigger is not looked at.                         *)
NullAllowedForTriggers == f_at = "grammar_triggers"

(* The value of a trigger may be null if it is empty; strings may not.     *)
NullAllowed == f_at = "grammar_triggers" /\ content[f_at][item] = "empty"

CopyItemNull ==
  /\ pc = "items" /\ item <= Len(content[f_at])
  /\ NullAllowed
  /\ null_items' = null_items \cup {<<f_at, item>>}
  /\ item' = item + 1
  /\ UNCHANGED <<given, pc, field, heap, out, rc, rustVars, invalid, lost>>

(* Mutant: the items copied so far are not freed.                          *)
CopyItemFailsKeepsItems ==
  /\ pc = "items" /\ item <= Len(content[f_at])
  /\ ~NullAllowed
  /\ FailNative("alloc", {<<f_at, 0>>})

(* The items copied so far and the array are freed by the callee, the      *)
(* other fields by its caller.                                             *)
CopyItemFails ==
  /\ pc = "items" /\ item <= Len(content[f_at])
  /\ ~NullAllowed
  /\ FailNative("alloc", {<<f_at, 0>>} \cup ItemBlocks(f_at, item - 1))

PublishArray ==
  /\ pc = "items" /\ item = Len(content[f_at]) + 1
  /\ out' = out \cup {f_at}
  /\ field' = field + 1
  /\ pc' = "copy"
  /\ UNCHANGED <<given, item, heap, null_items, rc, rustVars, invalid, lost>>

(* Only a missing prompt is noticed.                                       *)
EndCopy ==
  /\ pc = "copy" /\ field = NFields + 1
  /\ IF "prompt" \notin out
     THEN FailNative("alloc", {})
     ELSE /\ Return("ok")
          /\ UNCHANGED <<given, item, heap, out, null_items, rustVars, invalid,
                         lost>>

-----------------------------------------------------------------------------
(* Rust.  The conversions are in a closure: each of its returns reaches    *)
(* the free below it.                                                      *)
LeaveClosure(what) ==
  /\ outcome' = what
  /\ pc' = "free"
  /\ UNCHANGED <<given, field, item, heap, out, null_items, rc, lost>>

NativeFailed ==
  /\ pc = "convert" /\ rc # "ok"
  /\ LeaveClosure("ffi_error")
  /\ UNCHANGED <<result, invalid>>

ReadField == invalid' = (invalid \/ (f_at \in out /\ ~(FieldBlocks(f_at) \subseteq heap)))

(* The texts Rust reads; an item without a pointer reads as empty.         *)
ReadTexts ==
  IF f_at \notin out THEN <<>>
  ELSE [i \in DOMAIN content[f_at] |->
          IF <<f_at, i>> \in null_items THEN "empty" ELSE FromPtr(content[f_at][i])]

HasNullItem == f_at \in out /\ \E i \in DOMAIN content[f_at] : <<f_at, i>> \in null_items
HasBadText == \E i \in DOMAIN ReadTexts : ReadTexts[i] = "bad"

(* A prompt that is not there, a text that is not UTF-8, a trigger of an   *)
(* unknown type; for one of the siblings, a trigger without a value.       *)
Unconvertible ==
  \/ f_at = "prompt" /\ f_at \notin out
  \/ HasBadText
  \/ sibling = "with_tools" /\ HasNullItem

ConvertFails ==
  /\ pc = "convert" /\ rc = "ok" /\ field <= NFields
  /\ Unconvertible
  /\ LeaveClosure("convert_error")
  /\ ReadField
  /\ UNCHANGED result

Convert ==
  /\ pc = "convert" /\ rc = "ok" /\ field <= NFields
  /\ ~Unconvertible
  /\ ReadField
  /\ result' = [result EXCEPT ![f_at] = ReadTexts]
  /\ field' = field + 1
  /\ UNCHANGED <<given, pc, item, heap, out, null_items, rc, outcome, lost>>

EndConvert ==
  /\ pc = "convert" /\ rc = "ok" /\ field = NFields + 1
  /\ LeaveClosure("ok")
  /\ UNCHANGED <<result, invalid>>

FreeAndReturn ==
  /\ pc = "free"
  /\ ResultFree({})
  /\ pc' = "returned"
  /\ UNCHANGED <<given, field, item, null_items, rc, rustVars, lost>>

-----------------------------------------------------------------------------
Next ==
  \/ RefuseArgument \/ CallNative
  \/ Throw \/ Render
  \/ CopyString
  \/ SkipArray \/ NewArray \/ NewArrayFails
  \/ CopyItem \/ CopyItemNull \/ CopyItemFails \/ PublishArray
  \/ EndCopy
  \/ NativeFailed \/ ConvertFails \/ Convert \/ EndConvert
  \/ FreeAndReturn

Spec == Init /\ [][Next]_vars

-----------------------------------------------------------------------------
(* Whatever fails on either side, a call leaves nothing allocated          *)
(* (wrapper_oai.cpp:400-446, model.rs:1211-1344).                          *)
NothingLeftBehind == pc = "returned" => heap = {}

(* Both sides free after an error, and neither frees or reads a block that *)
(* is not allocated any more (wrapper_common.cpp:32-78).                   *)
OnlyLiveBlocks == ~invalid

(* A result is all of what the template rendered, up to the first NUL of   *)
(* each text, and all of it UTF-8, except that an optional string is       *)
(* missing if its copy failed: the arrays and the prompt are checked, the  *)
(* other strings are not (wrapper_oai.cpp:401-441, model.rs:1211-1342).    *)
ResultIsTheRendered ==
  outcome = "ok" =>
    \A f \in Fields :
      /\ \A i \in DOMAIN result[f] : result[f][i] # "bad"
      /\ result[f] # FromPtrs(content[f]) =>
           f \in {"grammar", "parser", "generation_prompt"} \cap lost
=============================================================================
