------------------------------ MODULE MCTokenText ------------------------------
(* Model checking TokenText.                                               *)
EXTENDS TokenText, SequencesExt

(* The bytes of the characters of these widths.                            *)
BytesOf(widths) ==
  FlattenSeq([c \in DOMAIN widths |->
                [p \in 1 .. widths[c] |-> [char |-> c, part |-> p, width |-> widths[c]]]])

MCTexts == {BytesOf(w) : w \in UNION {[1 .. n -> {1, 2, 4}] : n \in 1 .. 3}}
MCMethods == {"piece", "loop", "whole", "ask"}
MCRefusals == BOOLEAN
=============================================================================
