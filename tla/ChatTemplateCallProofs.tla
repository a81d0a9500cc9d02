------------------------- MODULE ChatTemplateCallProofs -------------------------
(***************************************************************************)
(* No call of the chat template functions leaks, or frees or reads a block *)
(* that is not allocated, whatever the template renders and wherever an    *)
(* allocation or a conversion fails.                                       *)
(*                                                                         *)
(* The invariant that carries this says what is allocated at each moment:  *)
(* what raw_result points to, and the array that is under construction.    *)
(* It holds because the field under construction is never one that is      *)
(* already published, for which both sides' order of the fields is needed. *)
(***************************************************************************)
EXTENDS ChatTemplateCall, TLAPS

(* The blocks of the array that is being copied.                           *)
Partial ==
  IF pc = "items" THEN {<<f_at, 0>>} \cup ItemBlocks(f_at, item - 1) ELSE {}

HeapIsLive == heap = Reachable \cup Partial

(* Only fields before the one at hand are published or have null items.    *)
Before == {FieldOrder[i] : i \in 1 .. field - 1}

OrderInv ==
  /\ pc \in {"start", "render", "returned"} => out = {}
  /\ pc \in {"start", "render"} => null_items = {}
  /\ pc \in {"copy", "items"} =>
       /\ out \subseteq Before
       /\ \A b \in null_items :
            \/ b[1] \in Before
            \/ pc = "items" /\ b[1] = f_at /\ b[2] < item

IInv == TypeOK /\ HeapIsLive /\ OrderInv /\ OnlyLiveBlocks

-----------------------------------------------------------------------------
(* The fields are in the order, and each of them once.                     *)
LEMMA FieldsInOrder ==
  /\ NFields = 7
  /\ \A i \in 1 .. 7 : FieldOrder[i] \in Fields
  /\ \A i, j \in 1 .. 7 : FieldOrder[i] = FieldOrder[j] => i = j
BY DEF NFields, FieldOrder, Fields, Strings, Arrays

(* A field is not among those before it.                                   *)
LEMMA NotBefore ==
  ASSUME TypeOK, field <= NFields
  PROVE  /\ f_at \in Fields
         /\ f_at \notin Before
<1>1. field \in 1 .. 7
  BY FieldsInOrder DEF TypeOK
<1>2. f_at \in Fields
  BY <1>1, FieldsInOrder DEF f_at
<1>3. ASSUME NEW i \in 1 .. field - 1 PROVE FieldOrder[i] # FieldOrder[field]
  BY <1>1, FieldsInOrder
<1> QED
  BY <1>2, <1>3 DEF f_at, Before

(* What C++ does after a failure keeps the types.                          *)
LEMMA FailKeepsTypes ==
  ASSUME TypeOK, NEW status \in {"ok", "alloc", "exception"}, NEW more,
         FailNative(status, more)
  PROVE  TypeOK'
BY DEF TypeOK, FailNative, ResultFree, Free, Return, rustVars, given, NFields

(* What is read from a field is a sequence of strings.                     *)
LEMMA ReadTextsType ==
  ASSUME TypeOK, f_at \in Fields
  PROVE  ReadTexts \in Seq(CStrings)
<1>1. content[f_at] \in Seq(Texts)
  BY ChatTemplateAssumption DEF TypeOK
<1> DEFINE n == Len(content[f_at])
<1>2. n \in Nat /\ DOMAIN content[f_at] = 1 .. n
  BY <1>1
<1>3. ASSUME NEW i \in 1 .. n PROVE content[f_at][i] \in Texts
  BY <1>1, <1>2, <1>3
<1>4. [i \in 1 .. n |-> IF <<f_at, i>> \in null_items THEN "empty"
                        ELSE FromPtr(content[f_at][i])] \in [1 .. n -> CStrings]
  BY <1>3 DEF Texts, CStrings, FromPtr
<1>5. CASE f_at \in out
  BY <1>2, <1>4, <1>5 DEF ReadTexts
<1>6. CASE f_at \notin out
  BY <1>6 DEF ReadTexts
<1> QED
  BY <1>5, <1>6

(* The type invariant is inductive.                                        *)
LEMMA TypeInductive == TypeOK /\ [Next]_vars => TypeOK'
<1> SUFFICES ASSUME TypeOK, [Next]_vars PROVE TypeOK'
  OBVIOUS
<1>1. CASE RefuseArgument
  BY <1>1 DEF TypeOK, RefuseArgument, given
<1>2. CASE CallNative
  BY <1>2 DEF TypeOK, CallNative, rustVars, given
<1>3. CASE Throw
  BY <1>3, FailKeepsTypes DEF Throw
<1>4. CASE Render
  BY <1>4 DEF TypeOK, Render, rustVars, given
<1>5. CASE CopyString
  <2>1. f_at \in Strings /\ f_at \in Fields /\ <<f_at, 0>> \in Blocks
    BY <1>5 DEF CopyString, Fields, Blocks
  <2>2. field' \in 1 .. NFields + 1
    BY <1>5 DEF CopyString, TypeOK, NFields
  <2> QED
    BY <1>5, <2>1, <2>2 DEF TypeOK, CopyString, rustVars, given
<1>6. CASE SkipArray
  BY <1>6 DEF TypeOK, SkipArray, rustVars, given, NFields
<1>7. CASE NewArray
  <2>1. f_at \in Arrays /\ f_at \in Fields /\ <<f_at, 0>> \in Blocks
    BY <1>7 DEF NewArray, Fields, Blocks
  <2>2. Len(content[f_at]) \in Nat
    BY <2>1, ChatTemplateAssumption DEF TypeOK
  <2>3. 1 \in 1 .. Len(content[f_at]) + 1
    BY <2>2
  <2> QED
    BY <1>7, <2>1, <2>3 DEF TypeOK, NewArray, rustVars, given, f_at
<1>8. CASE NewArrayFails
  BY <1>8, FailKeepsTypes DEF NewArrayFails
<1>9. CASE CopyItem
  <2>1. field <= NFields /\ f_at \in Arrays /\ f_at \in Fields
    BY <1>9 DEF CopyItem, TypeOK, f_at, Fields
  <2>2. Len(content[f_at]) \in Nat
    BY <2>1, ChatTemplateAssumption DEF TypeOK
  <2>3. item \in Nat /\ <<f_at, item>> \in Blocks
    BY <2>1 DEF TypeOK, Blocks
  <2>4. item + 1 \in 1 .. Len(content[f_at]) + 1
    BY <1>9, <2>2, <2>3 DEF CopyItem
  <2>5. /\ field' <= NFields /\ FieldOrder[field'] \in Arrays
        /\ item' \in 1 .. Len(content'[FieldOrder[field']]) + 1
        /\ item' \in Nat
    BY <1>9, <2>1, <2>3, <2>4 DEF CopyItem, given, f_at
  <2>6. heap' \in SUBSET Blocks /\ null_items' \in SUBSET Blocks
    BY <1>9, <2>3 DEF CopyItem, TypeOK
  <2> QED
    BY <1>9, <2>5, <2>6 DEF TypeOK, CopyItem, rustVars, given
<1>10. CASE CopyItemNull
  <2>1. field <= NFields /\ f_at \in Arrays /\ f_at \in Fields
    BY <1>10 DEF CopyItemNull, TypeOK, f_at, Fields
  <2>2. Len(content[f_at]) \in Nat
    BY <2>1, ChatTemplateAssumption DEF TypeOK
  <2>3. item \in Nat /\ <<f_at, item>> \in Blocks
    BY <2>1 DEF TypeOK, Blocks
  <2>4. item + 1 \in 1 .. Len(content[f_at]) + 1
    BY <1>10, <2>2, <2>3 DEF CopyItemNull
  <2>5. /\ field' <= NFields /\ FieldOrder[field'] \in Arrays
        /\ item' \in 1 .. Len(content'[FieldOrder[field']]) + 1
        /\ item' \in Nat
    BY <1>10, <2>1, <2>3, <2>4 DEF CopyItemNull, given, f_at
  <2>6. heap' \in SUBSET Blocks /\ null_items' \in SUBSET Blocks
    BY <1>10, <2>3 DEF CopyItemNull, TypeOK
  <2> QED
    BY <1>10, <2>5, <2>6 DEF TypeOK, CopyItemNull, rustVars, given
<1>11. CASE CopyItemFails
  BY <1>11, FailKeepsTypes DEF CopyItemFails
<1>12. CASE PublishArray
  <2>1. field <= NFields /\ f_at \in Fields
    BY <1>12 DEF PublishArray, TypeOK, f_at, Fields
  <2> QED
    BY <1>12, <2>1 DEF TypeOK, PublishArray, rustVars, given, NFields
<1>13. CASE EndCopy
  <2>1. CASE "prompt" \notin out
    BY <1>13, <2>1, FailKeepsTypes DEF EndCopy
  <2>2. CASE "prompt" \in out
    BY <1>13, <2>2 DEF EndCopy, TypeOK, Return, rustVars, given, NFields
  <2> QED
    BY <2>1, <2>2
<1>14. CASE NativeFailed
  BY <1>14 DEF TypeOK, NativeFailed, LeaveClosure, given
<1>15. CASE ConvertFails
  BY <1>15 DEF TypeOK, ConvertFails, LeaveClosure, ReadField, given
<1>16. CASE Convert
  <2>1. field <= NFields /\ f_at \in Fields
    BY <1>16, NotBefore DEF Convert
  <2>2. ReadTexts \in Seq(CStrings)
    BY <2>1, ReadTextsType
  <2>3. result' \in [Fields -> Seq(CStrings)]
    BY <1>16, <2>1, <2>2 DEF Convert, TypeOK
  <2> QED
    BY <1>16, <2>3 DEF TypeOK, Convert, ReadField, given, NFields
<1>17. CASE EndConvert
  BY <1>17 DEF TypeOK, EndConvert, LeaveClosure, given
<1>18. CASE FreeAndReturn
  BY <1>18 DEF TypeOK, FreeAndReturn, ResultFree, Free, rustVars, given
<1>19. CASE UNCHANGED vars
  BY <1>19 DEF TypeOK, vars, given
<1> QED
  BY <1>1, <1>2, <1>3, <1>4, <1>5, <1>6, <1>7, <1>8, <1>9, <1>10, <1>11, <1>12,
     <1>13, <1>14, <1>15, <1>16, <1>17, <1>18, <1>19 DEF Next

-----------------------------------------------------------------------------
(* What is published does not change while out, content and the null items *)
(* stay as they are.                                                       *)
LEMMA ReachableFrame ==
  ASSUME out' = out, content' = content, null_items' = null_items
  PROVE  Reachable' = Reachable
<1>1. ASSUME NEW f PROVE FieldBlocks(f)' = FieldBlocks(f)
  BY DEF FieldBlocks, ItemBlocks
<1> QED
  BY <1>1 DEF Reachable

LEMMA BeforeGrows ==
  ASSUME TypeOK, field <= NFields, field' = field + 1
  PROVE  Before' = Before \cup {f_at}
<1>1. field \in Nat /\ field >= 1
  BY DEF TypeOK
<1>2. 1 .. field' - 1 = (1 .. field - 1) \cup {field}
  BY <1>1
<1> QED
  BY <1>2 DEF Before, f_at

(* A failure in C++ frees everything that is allocated, and nothing else,  *)
(* if what the callee frees is the array under construction.               *)
LEMMA FailFreesAll ==
  ASSUME HeapIsLive, OnlyLiveBlocks, NEW status, FailNative(status, Partial)
  PROVE  HeapIsLive' /\ OrderInv' /\ OnlyLiveBlocks'
<1>1. heap' = {} /\ invalid' = FALSE /\ out' = {} /\ pc' = "convert"
  BY DEF HeapIsLive, OnlyLiveBlocks, FailNative, ResultFree, Free, Return
<1>2. Reachable' = {} /\ Partial' = {}
  BY <1>1 DEF Reachable, Partial
<1> QED
  BY <1>1, <1>2 DEF HeapIsLive, OrderInv, OnlyLiveBlocks

(* The next item is not known to be null yet.                              *)
LEMMA ItemNotNull ==
  ASSUME TypeOK, OrderInv, pc = "items"
  PROVE  /\ <<f_at, item>> \notin null_items
         /\ f_at \notin out
         /\ item \in Nat /\ item >= 1
<1>1. field <= NFields /\ item \in Nat /\ item >= 1
  BY ChatTemplateAssumption DEF TypeOK
<1>2. f_at \notin Before
  BY <1>1, NotBefore
<1>3. <<f_at, item>>[1] = f_at /\ <<f_at, item>>[2] = item
  OBVIOUS
<1>4. ~(item < item)
  BY <1>1
<1> QED
  BY <1>1, <1>2, <1>3, <1>4 DEF OrderInv

-----------------------------------------------------------------------------
LEMMA InvInit == Init => IInv
<1> SUFFICES ASSUME Init PROVE IInv
  OBVIOUS
<1>1. TypeOK
  <2>1. result \in [Fields -> Seq(CStrings)]
    BY DEF Init
  <2>2. field \in 1 .. NFields + 1 /\ item \in Nat /\ pc # "items"
    BY DEF Init, NFields
  <2>3. pc \in {"start", "render", "copy", "items", "convert", "free", "returned"}
    BY DEF Init
  <2> QED
    BY <2>1, <2>2, <2>3 DEF Init, TypeOK
<1>2. Reachable = {} /\ Partial = {}
  BY DEF Init, Reachable, Partial
<1> QED
  BY <1>1, <1>2 DEF Init, IInv, HeapIsLive, OrderInv, OnlyLiveBlocks

(* Each step keeps the account of the heap.                                *)
LEMMA InvNext == IInv /\ [Next]_vars => IInv'
<1> SUFFICES ASSUME IInv, [Next]_vars PROVE IInv'
  OBVIOUS
<1> USE DEF IInv
<1>0. TypeOK'
  BY TypeInductive
<1> SUFFICES HeapIsLive' /\ OrderInv' /\ OnlyLiveBlocks'
  BY <1>0
<1>1. CASE RefuseArgument
  BY <1>1, ReachableFrame DEF RefuseArgument, HeapIsLive, OrderInv, OnlyLiveBlocks,
     Partial, given
<1>2. CASE CallNative
  <2>1. out = {} /\ out' = {}
    BY <1>2 DEF CallNative, OrderInv
  <2> QED
    BY <1>2, <2>1, ReachableFrame DEF CallNative, HeapIsLive, OrderInv,
       OnlyLiveBlocks, Partial, given
<1>3. CASE Throw
  <2>1. Partial = {}
    BY <1>3 DEF Throw, Partial
  <2> QED
    BY <1>3, <2>1, FailFreesAll DEF Throw
<1>4. CASE Render
  <2>1. out' = {} /\ null_items' = {}
    BY <1>4 DEF Render, OrderInv
  <2> QED
    BY <1>4, <2>1, ReachableFrame DEF Render, HeapIsLive, OrderInv, OnlyLiveBlocks,
       Partial, given
<1>5. CASE CopyString
  <2>1. Before' = Before \cup {f_at}
    BY <1>5, BeforeGrows DEF CopyString
  <2>2. Partial = {} /\ Partial' = {}
    BY <1>5 DEF CopyString, Partial
  <2>3. OrderInv'
    BY <1>5, <2>1 DEF CopyString, OrderInv
  <2>4. OnlyLiveBlocks'
    BY <1>5 DEF CopyString, OnlyLiveBlocks
  <2>5. CASE out' = out /\ heap' = heap
    BY <1>5, <2>2, <2>3, <2>4, <2>5, ReachableFrame DEF CopyString, HeapIsLive, given
  <2>6. CASE out' = out \cup {f_at} /\ heap' = heap \cup {<<f_at, 0>>}
    <3>1. ASSUME NEW f PROVE FieldBlocks(f)' = FieldBlocks(f)
      BY <1>5 DEF CopyString, given, FieldBlocks, ItemBlocks
    <3>2. f_at \notin Arrays
      BY <1>5 DEF CopyString, Strings, Arrays
    <3>3. FieldBlocks(f_at) = {<<f_at, 0>>}
      BY <3>2 DEF FieldBlocks
    <3>4. Reachable' = Reachable \cup FieldBlocks(f_at)
      BY <2>6, <3>1 DEF Reachable
    <3> QED
      BY <2>2, <2>3, <2>4, <2>6, <3>3, <3>4 DEF HeapIsLive
  <2> QED
    BY <1>5, <2>5, <2>6 DEF CopyString
<1>6. CASE SkipArray
  <2>1. Before' = Before \cup {f_at}
    BY <1>6, BeforeGrows DEF SkipArray
  <2> QED
    BY <1>6, <2>1, ReachableFrame DEF SkipArray, HeapIsLive, OrderInv, OnlyLiveBlocks,
       Partial, given
<1>7. CASE NewArray
  <2>1. Before' = Before /\ f_at' = f_at
    BY <1>7 DEF NewArray, Before, f_at
  <2>2. ItemBlocks(f_at, item - 1)' = {}
    <3>1. item' - 1 = 0 /\ 1 .. 0 = {}
      BY <1>7 DEF NewArray
    <3> QED
      BY <3>1 DEF ItemBlocks
  <2>3. Partial = {} /\ Partial' = {<<f_at, 0>>}
    BY <1>7, <2>1, <2>2 DEF NewArray, Partial
  <2> QED
    BY <1>7, <2>1, <2>3, ReachableFrame DEF NewArray, HeapIsLive, OrderInv,
       OnlyLiveBlocks, given
<1>8. CASE NewArrayFails
  <2>1. Partial = {}
    BY <1>8 DEF NewArrayFails, Partial
  <2> QED
    BY <1>8, <2>1, FailFreesAll DEF NewArrayFails
<1>9. CASE CopyItem
  <2>1. Before' = Before /\ f_at' = f_at
    BY <1>9 DEF CopyItem, Before, f_at
  <2>2. /\ <<f_at, item>> \notin null_items
        /\ item \in Nat /\ item >= 1
    BY <1>9, ItemNotNull DEF CopyItem
  <2>3. ItemBlocks(f_at, item - 1)' = ItemBlocks(f_at, item - 1) \cup {<<f_at, item>>}
    <3>1. item' - 1 = item /\ 1 .. item = (1 .. item - 1) \cup {item}
      BY <1>9, <2>2 DEF CopyItem
    <3> QED
      BY <1>9, <2>1, <2>2, <3>1 DEF CopyItem, ItemBlocks
  <2>4. Partial' = Partial \cup {<<f_at, item>>}
    BY <1>9, <2>1, <2>3 DEF CopyItem, Partial
  <2>5. OrderInv'
    <3>1. ASSUME NEW b \in null_items', b[1] = f_at, b[2] < item
          PROVE  b[2] < item'
      <4>1. b[2] \in Nat
        BY <1>9, <3>1 DEF CopyItem, TypeOK, Blocks
      <4> QED
        BY <1>9, <2>2, <3>1, <4>1 DEF CopyItem
    <3> QED
      BY <1>9, <2>1, <3>1 DEF CopyItem, OrderInv
  <2> QED
    BY <1>9, <2>4, <2>5, ReachableFrame DEF CopyItem, HeapIsLive, OnlyLiveBlocks, given
<1>10. CASE CopyItemNull
  <2>1. Before' = Before /\ f_at' = f_at
    BY <1>10 DEF CopyItemNull, Before, f_at
  <2>2. /\ f_at \notin out
        /\ item \in Nat /\ item >= 1
    BY <1>10, ItemNotNull DEF CopyItemNull
  <2>3. ItemBlocks(f_at, item - 1)' = ItemBlocks(f_at, item - 1)
    <3>1. item' - 1 = item /\ 1 .. item = (1 .. item - 1) \cup {item}
      BY <1>10, <2>2 DEF CopyItemNull
    <3>2. ASSUME NEW i \in 1 .. item - 1 PROVE <<f_at, i>> # <<f_at, item>>
      BY <2>2
    <3> QED
      BY <1>10, <2>1, <3>1, <3>2 DEF CopyItemNull, ItemBlocks
  <2>4. Partial' = Partial
    BY <1>10, <2>1, <2>3 DEF CopyItemNull, Partial
  <2>5. ASSUME NEW f \in out PROVE FieldBlocks(f)' = FieldBlocks(f)
    <3>1. f # f_at
      BY <2>2
    <3> QED
      BY <1>10, <3>1 DEF CopyItemNull, given, FieldBlocks, ItemBlocks
  <2>6. Reachable' = Reachable
    BY <1>10, <2>5 DEF CopyItemNull, Reachable
  <2>7. OrderInv'
    <3>1. ASSUME NEW b \in null_items, b[1] = f_at, b[2] < item
          PROVE  b[2] < item'
      <4>1. b[2] \in Nat
        BY <3>1 DEF TypeOK, Blocks
      <4> QED
        BY <1>10, <2>2, <3>1, <4>1 DEF CopyItemNull
    <3>2. /\ <<f_at, item>>[1] = f_at /\ <<f_at, item>>[2] = item
          /\ item < item'
      BY <1>10, <2>2 DEF CopyItemNull
    <3> QED
      BY <1>10, <2>1, <3>1, <3>2 DEF CopyItemNull, OrderInv
  <2> QED
    BY <1>10, <2>4, <2>6, <2>7 DEF CopyItemNull, HeapIsLive, OnlyLiveBlocks
<1>11. CASE CopyItemFails
  <2>1. Partial = {<<f_at, 0>>} \cup ItemBlocks(f_at, item - 1)
    BY <1>11 DEF CopyItemFails, Partial
  <2> QED
    BY <1>11, <2>1, FailFreesAll DEF CopyItemFails
<1>12. CASE PublishArray
  <2>1. field <= NFields /\ f_at \in Arrays
    BY <1>12 DEF PublishArray, TypeOK, f_at
  <2>2. Before' = Before \cup {f_at}
    BY <1>12, <2>1, BeforeGrows DEF PublishArray
  <2>3. item - 1 = Len(content[f_at])
    <3>1. content[f_at] \in Seq(Texts)
      BY <2>1, ChatTemplateAssumption DEF TypeOK, Fields
    <3>2. Len(content[f_at]) \in Nat
      BY <3>1
    <3> QED
      BY <1>12, <3>2 DEF PublishArray
  <2>4. Partial = FieldBlocks(f_at) /\ Partial' = {}
    BY <1>12, <2>1, <2>3 DEF PublishArray, Partial, FieldBlocks
  <2>5. ASSUME NEW f PROVE FieldBlocks(f)' = FieldBlocks(f)
    BY <1>12 DEF PublishArray, given, FieldBlocks, ItemBlocks
  <2>6. Reachable' = Reachable \cup FieldBlocks(f_at)
    BY <1>12, <2>5 DEF PublishArray, Reachable
  <2>7. OrderInv'
    BY <1>12, <2>2 DEF PublishArray, OrderInv
  <2> QED
    BY <1>12, <2>4, <2>6, <2>7 DEF PublishArray, HeapIsLive, OnlyLiveBlocks
<1>13. CASE EndCopy
  <2>1. Partial = {}
    BY <1>13 DEF EndCopy, Partial
  <2>2. CASE "prompt" \notin out
    BY <1>13, <2>1, <2>2, FailFreesAll DEF EndCopy
  <2>3. CASE "prompt" \in out
    BY <1>13, <2>1, <2>3, ReachableFrame DEF EndCopy, Return, HeapIsLive, OrderInv,
       OnlyLiveBlocks, Partial, given
  <2> QED
    BY <2>2, <2>3
<1>14. CASE NativeFailed
  BY <1>14, ReachableFrame DEF NativeFailed, LeaveClosure, HeapIsLive, OrderInv,
     OnlyLiveBlocks, Partial, given
<1>15. CASE ConvertFails
  <2>1. f_at \in out => FieldBlocks(f_at) \subseteq heap
    BY DEF HeapIsLive, Reachable
  <2> QED
    BY <1>15, <2>1, ReachableFrame DEF ConvertFails, ReadField, LeaveClosure,
       HeapIsLive, OrderInv, OnlyLiveBlocks, Partial, given
<1>16. CASE Convert
  <2>1. f_at \in out => FieldBlocks(f_at) \subseteq heap
    BY DEF HeapIsLive, Reachable
  <2> QED
    BY <1>16, <2>1, ReachableFrame DEF Convert, ReadField, HeapIsLive, OrderInv,
       OnlyLiveBlocks, Partial, given
<1>17. CASE EndConvert
  BY <1>17, ReachableFrame DEF EndConvert, LeaveClosure, HeapIsLive, OrderInv,
     OnlyLiveBlocks, Partial, given
<1>18. CASE FreeAndReturn
  <2>1. heap = Reachable
    BY <1>18 DEF FreeAndReturn, HeapIsLive, Partial
  <2>2. heap' = {} /\ invalid' = FALSE /\ out' = {} /\ pc' = "returned"
    BY <1>18, <2>1 DEF FreeAndReturn, ResultFree, Free, OnlyLiveBlocks
  <2>3. Reachable' = {} /\ Partial' = {}
    BY <2>2 DEF Reachable, Partial
  <2> QED
    BY <2>2, <2>3 DEF HeapIsLive, OrderInv, OnlyLiveBlocks
<1>19. CASE UNCHANGED vars
  <2>1. Before' = Before /\ f_at' = f_at /\ Partial' = Partial
    BY <1>19 DEF vars, given, Before, f_at, Partial, ItemBlocks
  <2>2. Reachable' = Reachable
    BY <1>19, ReachableFrame DEF vars, given
  <2> QED
    BY <1>19, <2>1, <2>2 DEF vars, given, HeapIsLive, OrderInv, OnlyLiveBlocks
<1> QED
  BY <1>1, <1>2, <1>3, <1>4, <1>5, <1>6, <1>7, <1>8, <1>9, <1>10, <1>11, <1>12,
     <1>13, <1>14, <1>15, <1>16, <1>17, <1>18, <1>19 DEF Next

LEMMA Invariant == Spec => []IInv
<1>1. Init => IInv
  BY InvInit
<1>2. IInv /\ [Next]_vars => IInv'
  BY InvNext
<1> QED
  BY <1>1, <1>2, PTL DEF Spec

-----------------------------------------------------------------------------
(* The types are right in every state of the call.                         *)
THEOREM TypeCorrect == Spec => []TypeOK
BY Invariant, PTL DEF IInv

(* No call leaves a block allocated, wherever it fails.                    *)
THEOREM CallsDoNotLeak == Spec => []NothingLeftBehind
<1>1. IInv => NothingLeftBehind
  <2> SUFFICES ASSUME IInv, pc = "returned" PROVE heap = {}
    BY DEF NothingLeftBehind
  <2>1. Reachable = {} /\ Partial = {}
    BY DEF IInv, OrderInv, Reachable, Partial
  <2> QED
    BY <2>1 DEF IInv, HeapIsLive
<1> QED
  BY Invariant, <1>1, PTL

(* No block is freed twice, or read after it was freed.                    *)
THEOREM FreesAreOnce == Spec => []OnlyLiveBlocks
BY Invariant, PTL DEF IInv

-----------------------------------------------------------------------------
(* What an Ok result holds.  Three more facts carry it: a pointer that is  *)
(* null stands for an empty text; a field that is not published was empty, *)
(* or is a string whose copy failed; and what has been converted is right. *)
Optional == {"grammar", "parser", "generation_prompt"}

NullsAreEmpty ==
  \A b \in null_items : b[1] \in Fields /\ content[b[1]][b[2]] = "empty"

Kept(f) == f \notin out => content[f] = <<>> \/ f \in lost

KeptInv ==
  /\ pc \in {"start", "render"} => field = 1
  /\ pc \in {"copy", "items"} => \A i \in 1 .. field - 1 : Kept(FieldOrder[i])
  /\ pc = "convert" /\ rc = "ok" => \A f \in Fields : Kept(f)

Right(f) ==
  /\ \A i \in DOMAIN result[f] : result[f][i] # "bad"
  /\ result[f] # FromPtrs(content[f]) => f \in Optional \cap lost

RightInv ==
  /\ pc = "convert" /\ rc = "ok" => \A i \in 1 .. field - 1 : Right(FieldOrder[i])
  /\ outcome = "ok" => \A f \in Fields : Right(f)
  /\ outcome # "none" => pc \in {"free", "returned"}

ResultInv == NullsAreEmpty /\ KeptInv /\ RightInv

(* Every field is somewhere in the order.                                  *)
LEMMA OrderIsComplete == \A f \in Fields : \E i \in 1 .. 7 : f = FieldOrder[i]
<1>1. /\ FieldOrder[1] = "prompt" /\ FieldOrder[2] = "grammar"
      /\ FieldOrder[3] = "parser" /\ FieldOrder[4] = "generation_prompt"
      /\ FieldOrder[5] = "grammar_triggers" /\ FieldOrder[6] = "preserved_tokens"
      /\ FieldOrder[7] = "additional_stops"
  BY DEF FieldOrder
<1> QED
  BY <1>1 DEF Fields, Strings, Arrays

(* A conversion that does not fail gives the text that was rendered, or    *)
(* nothing for an optional string whose copy failed.                       *)
LEMMA ConvertsRight ==
  ASSUME TypeOK, NullsAreEmpty, f_at \in Fields, Kept(f_at), ~Unconvertible
  PROVE  /\ \A i \in DOMAIN ReadTexts : ReadTexts[i] # "bad"
         /\ ReadTexts # FromPtrs(content[f_at]) => f_at \in Optional \cap lost
<1>1. \A i \in DOMAIN ReadTexts : ReadTexts[i] # "bad"
  BY DEF Unconvertible, HasBadText
<1>2. CASE f_at \in out
  <2>1. content[f_at] \in Seq(Texts)
    BY ChatTemplateAssumption DEF TypeOK
  <2>2. ASSUME NEW i \in DOMAIN content[f_at], <<f_at, i>> \in null_items
        PROVE  content[f_at][i] = "empty"
    <3>1. <<f_at, i>>[1] = f_at /\ <<f_at, i>>[2] = i
      OBVIOUS
    <3> QED
      BY <2>2, <3>1 DEF NullsAreEmpty
  <2>3. ReadTexts = FromPtrs(content[f_at])
    BY <1>2, <2>2 DEF ReadTexts, FromPtrs, FromPtr
  <2> QED
    BY <1>1, <2>3
<1>3. CASE f_at \notin out
  <2>1. ReadTexts = <<>>
    BY <1>3 DEF ReadTexts
  <2>2. f_at # "prompt"
    BY <1>3 DEF Unconvertible
  <2>3. ReadTexts # FromPtrs(content[f_at]) => f_at \in lost
    BY <1>3, <2>1 DEF Kept, FromPtrs
  <2>4. lost \subseteq Strings
    BY DEF TypeOK
  <2> QED
    BY <1>1, <2>2, <2>3, <2>4 DEF Strings, Optional
<1> QED
  BY <1>2, <1>3

(* Null items only come from empty triggers.                               *)
LEMMA NullsNext ==
  ASSUME TypeOK, NullsAreEmpty, [Next]_vars
  PROVE  NullsAreEmpty'
<1>1. CASE CopyItemNull
  <2>1. content' = content /\ null_items' = null_items \cup {<<f_at, item>>}
    BY <1>1 DEF CopyItemNull, given
  <2>2. f_at \in Fields /\ content[f_at][item] = "empty"
    BY <1>1 DEF CopyItemNull, NullAllowed, Fields, Arrays
  <2>3. <<f_at, item>>[1] = f_at /\ <<f_at, item>>[2] = item
    OBVIOUS
  <2> QED
    BY <2>1, <2>2, <2>3 DEF NullsAreEmpty
<1>2. CASE ~CopyItemNull
  <2>1. content' = content /\ null_items' = null_items
    BY <1>2 DEF Next, vars, given, RefuseArgument, CallNative, Throw, Render,
       CopyString, SkipArray, NewArray, NewArrayFails, CopyItem, CopyItemFails,
       PublishArray, EndCopy, NativeFailed, ConvertFails, Convert, EndConvert,
       FreeAndReturn, FailNative, LeaveClosure
  <2> QED
    BY <2>1 DEF NullsAreEmpty
<1> QED
  BY <1>1, <1>2

(* The fields that have been copied were kept, or lost, or empty.          *)
LEMMA KeptNext ==
  ASSUME TypeOK, KeptInv, [Next]_vars
  PROVE  KeptInv'
<1>0. ASSUME out' = out, given' = given, lost' = lost, NEW f PROVE Kept(f)' <=> Kept(f)
  BY <1>0 DEF Kept, given
<1>1. CASE RefuseArgument
  BY <1>1 DEF RefuseArgument, KeptInv
<1>2. CASE CallNative
  BY <1>2 DEF CallNative, KeptInv
<1>3. CASE \/ Throw \/ NewArrayFails \/ CopyItemFails
           \/ EndCopy /\ "prompt" \notin out
  <2>1. pc' = "convert" /\ rc' # "ok"
    BY <1>3 DEF Throw, NewArrayFails, CopyItemFails, EndCopy, FailNative, Return
  <2> QED
    BY <2>1 DEF KeptInv
<1>4. CASE Render
  <2>1. field' = 1 /\ pc' = "copy" /\ 1 .. 1 - 1 = {}
    BY <1>4 DEF Render, KeptInv
  <2> QED
    BY <2>1 DEF KeptInv
<1>5. CASE CopyString \/ SkipArray \/ PublishArray
  <2>1. field' = field + 1 /\ pc' = "copy" /\ pc \in {"copy", "items"} /\ given' = given
    BY <1>5 DEF CopyString, SkipArray, PublishArray, given
  <2>2. ASSUME NEW f, Kept(f) PROVE Kept(f)'
    BY <1>5, <2>2 DEF CopyString, SkipArray, PublishArray, Kept, given
  <2>3. ASSUME NEW f, f = f_at PROVE Kept(f)'
    BY <1>5, <2>3 DEF CopyString, SkipArray, PublishArray, Kept, given
  <2>4. ASSUME NEW i \in 1 .. field' - 1 PROVE Kept(FieldOrder[i])'
    <3>1. field \in Nat /\ i \in 1 .. field
      BY <2>1, <2>4 DEF TypeOK
    <3>2. CASE i = field
      BY <2>3, <3>2 DEF f_at
    <3>3. CASE i # field
      <4>1. i \in 1 .. field - 1
        BY <3>1, <3>3
      <4> QED
        BY <2>1, <2>2, <4>1 DEF KeptInv
    <3> QED
      BY <3>2, <3>3
  <2> QED
    BY <2>1, <2>4 DEF KeptInv
<1>6. CASE NewArray \/ CopyItem \/ CopyItemNull
  <2>1. /\ field' = field /\ pc' = "items" /\ pc \in {"copy", "items"}
        /\ out' = out /\ given' = given /\ lost' = lost
    BY <1>6 DEF NewArray, CopyItem, CopyItemNull, given
  <2> QED
    BY <1>0, <2>1 DEF KeptInv
<1>7. CASE EndCopy /\ "prompt" \in out
  <2>1. /\ field = 8 /\ pc = "copy" /\ pc' = "convert"
        /\ out' = out /\ given' = given /\ lost' = lost
    BY <1>7 DEF EndCopy, Return, NFields
  <2>2. \A i \in 1 .. 7 : Kept(FieldOrder[i])
    BY <2>1 DEF KeptInv
  <2>3. \A f \in Fields : Kept(f)
    BY <2>2, OrderIsComplete
  <2> QED
    BY <1>0, <2>1, <2>3 DEF KeptInv
<1>8. CASE NativeFailed \/ ConvertFails \/ EndConvert \/ FreeAndReturn
  <2>1. pc' \in {"free", "returned"}
    BY <1>8 DEF NativeFailed, ConvertFails, EndConvert, FreeAndReturn, LeaveClosure
  <2> QED
    BY <2>1 DEF KeptInv
<1>9. CASE Convert \/ UNCHANGED vars
  <2>1. /\ pc' = pc /\ rc' = rc /\ out' = out /\ given' = given /\ lost' = lost
        /\ pc = "convert" \/ field' = field
    BY <1>9 DEF Convert, vars, given
  <2> QED
    BY <1>0, <2>1 DEF KeptInv
<1> QED
  BY <1>1, <1>2, <1>3, <1>4, <1>5, <1>6, <1>7, <1>8, <1>9 DEF Next

(* What Rust has converted is right, and the result is what it converted.  *)
LEMMA RightNext ==
  ASSUME TypeOK, NullsAreEmpty, KeptInv, RightInv, [Next]_vars
  PROVE  RightInv'
<1>0. ASSUME result' = result, given' = given, lost' = lost, NEW f
      PROVE  Right(f)' <=> Right(f)
  BY <1>0 DEF Right, given
<1>1. CASE \/ RefuseArgument \/ CallNative \/ Throw \/ Render \/ CopyString
           \/ SkipArray \/ NewArray \/ NewArrayFails \/ CopyItem \/ CopyItemNull
           \/ CopyItemFails \/ PublishArray \/ EndCopy
  <2>1. pc \in {"start", "render", "copy", "items"}
    BY <1>1 DEF RefuseArgument, CallNative, Throw, Render, CopyString, SkipArray,
       NewArray, NewArrayFails, CopyItem, CopyItemNull, CopyItemFails, PublishArray,
       EndCopy
  <2>2. outcome = "none"
    BY <2>1 DEF RightInv, TypeOK
  <2>3. CASE RefuseArgument
    BY <2>3 DEF RefuseArgument, RightInv
  <2>4. CASE ~RefuseArgument
    <3>1. outcome' = "none"
      BY <1>1, <2>2, <2>4 DEF CallNative, Throw, Render, CopyString,
         SkipArray, NewArray, NewArrayFails, CopyItem, CopyItemNull, CopyItemFails,
         PublishArray, EndCopy, FailNative, rustVars
    <3>2. pc' = "convert" => field' = 1
      BY <1>1, <2>1, <2>4 DEF CallNative, Throw, Render, CopyString,
         SkipArray, NewArray, NewArrayFails, CopyItem, CopyItemNull, CopyItemFails,
         PublishArray, EndCopy, FailNative, Return
    <3>3. 1 .. 1 - 1 = {}
      OBVIOUS
    <3> QED
      BY <3>1, <3>2, <3>3 DEF RightInv
  <2> QED
    BY <2>3, <2>4
<1>2. CASE NativeFailed \/ ConvertFails
  BY <1>2 DEF NativeFailed, ConvertFails, LeaveClosure, RightInv
<1>3. CASE Convert
  <2>1. /\ field \in 1 .. 7 /\ f_at \in Fields /\ field' = field + 1
        /\ pc = "convert" /\ rc = "ok" /\ pc' = pc /\ outcome' = outcome
        /\ given' = given /\ lost' = lost
    BY <1>3, NotBefore DEF Convert, TypeOK, NFields
  <2>2. result' = [result EXCEPT ![f_at] = ReadTexts] /\ DOMAIN result = Fields
    BY <1>3 DEF Convert, TypeOK
  <2>3. Kept(f_at)
    BY <2>1 DEF KeptInv
  <2>4. /\ \A i \in DOMAIN ReadTexts : ReadTexts[i] # "bad"
        /\ ReadTexts # FromPtrs(content[f_at]) => f_at \in Optional \cap lost
    BY <1>3, <2>1, <2>3, ConvertsRight DEF Convert
  <2>5. result'[f_at] = ReadTexts
    BY <2>1, <2>2
  <2>6. content' = content
    BY <2>1 DEF given
  <2>7. ASSUME NEW i \in 1 .. field' - 1 PROVE Right(FieldOrder[i])'
    <3>1. CASE i = field
      <4>1. FieldOrder[i] = f_at
        BY <3>1 DEF f_at
      <4>2. /\ \A k \in DOMAIN result'[f_at] : result'[f_at][k] # "bad"
            /\ result'[f_at] # FromPtrs(content'[f_at]) => f_at \in Optional \cap lost'
        BY ONLY <2>1, <2>4, <2>5, <2>6, Zenon
      <4> QED
        BY <4>1, <4>2 DEF Right
    <3>2. CASE i # field
      <4>1. i \in 1 .. field - 1 /\ i \in 1 .. 7
        BY <2>1, <2>7, <3>2
      <4>2. FieldOrder[i] # f_at /\ FieldOrder[i] \in Fields
        BY <2>1, <3>2, <4>1, FieldsInOrder DEF f_at
      <4>3. result'[FieldOrder[i]] = result[FieldOrder[i]]
        BY <2>2, <4>2
      <4>4. Right(FieldOrder[i])
        BY <2>1, <4>1 DEF RightInv
      <4> QED
        BY <2>1, <2>6, <4>3, <4>4 DEF Right
    <3> QED
      BY <3>1, <3>2
  <2>8. outcome' = "none"
    BY <2>1 DEF RightInv, TypeOK
  <2> QED
    BY <2>7, <2>8 DEF RightInv
<1>4. CASE EndConvert
  <2>1. /\ pc = "convert" /\ rc = "ok" /\ field = 8 /\ pc' = "free"
        /\ result' = result /\ given' = given /\ lost' = lost
    BY <1>4 DEF EndConvert, LeaveClosure, NFields
  <2>2. \A i \in 1 .. 7 : Right(FieldOrder[i])
    BY <2>1 DEF RightInv
  <2>3. \A f \in Fields : Right(f)
    BY <2>2, OrderIsComplete
  <2> QED
    BY <1>0, <2>1, <2>3 DEF RightInv
<1>5. CASE FreeAndReturn \/ UNCHANGED vars
  <2>1. /\ pc' = "returned" \/ (pc' = pc /\ field' = field)
        /\ rc' = rc /\ outcome' = outcome
        /\ result' = result /\ given' = given /\ lost' = lost
    BY <1>5 DEF FreeAndReturn, vars, given, rustVars
  <2> QED
    BY <1>0, <2>1 DEF RightInv
<1> QED
  BY <1>1, <1>2, <1>3, <1>4, <1>5 DEF Next

(* A result is all of what was rendered, up to an optional string whose    *)
(* copy failed, and is valid UTF-8.                                        *)
THEOREM ResultsAreRendered == Spec => []ResultIsTheRendered
<1>1. Init => ResultInv
  BY DEF Init, ResultInv, NullsAreEmpty, KeptInv, RightInv
<1>2. IInv /\ ResultInv /\ [Next]_vars => ResultInv'
  BY NullsNext, KeptNext, RightNext DEF IInv, ResultInv
<1>3. ResultInv => ResultIsTheRendered
  BY DEF ResultInv, RightInv, Right, Optional, ResultIsTheRendered
<1> QED
  BY Invariant, <1>1, <1>2, <1>3, PTL DEF Spec
=============================================================================
