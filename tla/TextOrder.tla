------------------------------- MODULE TextOrder -------------------------------
(* The texts a parser was given are known by their positions; a message is *)
(* made of some of them, in their order.                                   *)
EXTENDS Integers, FiniteSets

(* The texts of a set, in the order in which they were given: the i-th is  *)
(* the one with i texts up to it.                                          *)
InOrder(S) ==
  [i \in 1 .. Cardinality(S) |->
     CHOOSE p \in S : Cardinality({q \in S : q <= p}) = i]
=============================================================================
