----------------------------- MODULE StreamInOrder -----------------------------
(***************************************************************************)
(* What a caller of ChatParseStateOaicompat::update counts on              *)
(* (qllama/src/openai.rs): each call is given one more text and either     *)
(* returns all that the message shows and did not show before, or fails    *)
(* and returns none of it; there is no call that returns a part.  Either   *)
(* may leave a message that shows less.  A text is returned again, and a   *)
(* missed one at all, only if the message has stopped showing it and then  *)
(* shows it once more.                                                     *)
(***************************************************************************)
EXTENDS TextOrder, Sequences

CONSTANTS
  Kinds,       \* what a text can be part of
  MaxUpdates   \* bound on the calls

VARIABLES
  given,     \* the kind of each text
  shown,     \* how many of them the message showed when the last call ended
  told,      \* the texts that were returned, by kind
  missed,    \* the texts of the message that were not when it came to show them
  calling    \* a call is running

vars == <<given, shown, told, missed, calling>>

New(kind) == {p \in shown + 1 .. shown' : given[p] = kind}

Init ==
  /\ given = <<>>
  /\ shown = 0
  /\ told = [k \in Kinds |-> <<>>]
  /\ missed = {}
  /\ calling = FALSE

Call ==
  /\ ~calling /\ calling' = TRUE
  /\ Len(given) < MaxUpdates
  /\ \E kind \in Kinds : given' = Append(given, kind)
  /\ UNCHANGED <<shown, told, missed>>

End == calling /\ calling' = FALSE /\ shown' \in 0 .. Len(given) /\ UNCHANGED given

Tell ==
  /\ End
  /\ told' = [k \in Kinds |-> told[k] \o InOrder(New(k))]
  /\ missed' = missed \cap (1 .. shown')

Miss ==
  /\ End
  /\ missed' = (missed \cup (shown + 1 .. shown')) \cap (1 .. shown')
  /\ UNCHANGED told

Next == Call \/ Tell \/ Miss

Spec == Init /\ [][Next]_vars
=============================================================================
