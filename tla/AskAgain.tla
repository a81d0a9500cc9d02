------------------------------- MODULE AskAgain -------------------------------
(***************************************************************************)
(* The functions of model.rs that lend a buffer to C and do not know yet   *)
(* how much it must hold: pieces and bytes of a token, str_to_token, the   *)
(* metadata strings and apply_chat_template.  C fills what fits and tells  *)
(* the size in one of three ways; Rust may ask again with that size.       *)
(*                                                                         *)
(* A call is what C has to give, n items (bytes, or tokens), NotThere if C *)
(* refuses, and what Rust makes of it: ok with a length, of which only     *)
(* wrote were filled by C, or the error.                                   *)
(***************************************************************************)
EXTENDS Integers

CONSTANTS
  Piece,      \* first buffer of token_to_piece and token_to_bytes: 8
  MetaBuffer, \* first buffer of extract_meta_string: 256
  FewTokens,  \* least buffer of str_to_token: 8
  Longest     \* bound on what C has to give

ASSUME BufferAssumption ==
  /\ Piece \in Nat \ {0} /\ MetaBuffer \in Nat \ {0} /\ FewTokens \in Nat \ {0}
  /\ Longest \in Nat

NotThere == -1

Ok(n, wrote) == [status |-> "ok", len |-> n, wrote |-> wrote]
Err(why) == [status |-> why, len |-> 0, wrote |-> 0]

Least(x, y) == IF x < y THEN x ELSE y
Most(x, y) == IF x < y THEN y ELSE x

(* llama_token_to_piece and llama_tokenize: nothing, and minus the size.   *)
AllOrMinus(n, size) == IF n > size THEN [told |-> -n, wrote |-> 0]
                                   ELSE [told |-> n, wrote |-> n]

(* snprintf: cut, with a NUL behind, and the size it had needed.           *)
CutWithNul(n, size) ==
  [told |-> n, wrote |-> IF n = NotThere THEN 0 ELSE Least(n, size - 1)]

(* llama_chat_apply_template: cut, without a NUL.                          *)
Cut(n, size) == [told |-> n, wrote |-> IF n = NotThere THEN 0 ELSE Least(n, size)]

-----------------------------------------------------------------------------
(* One try with the caller's size; 0 is a token without text.              *)
TokenToPieceBytes(n, size) ==
  LET c == AllOrMinus(n, size)
  IN CASE c.told = 0 -> Err("unknown")
       [] c.told < 0 -> Err("short")
       [] OTHER      -> Ok(c.told, c.wrote)

(* token_to_bytes, token_to_piece, token_to_str.                           *)
AskTwice(n) ==
  IF TokenToPieceBytes(n, Piece).status = "short" THEN TokenToPieceBytes(n, n)
                                                  ELSE TokenToPieceBytes(n, Piece)

(* The newline is itself whatever the size; tokens that show nothing are   *)
(* empty and not unknown.                                                  *)
TokenToBytesWithSize(n, size, kind) ==
  CASE kind = "newline" -> Ok(1, 1)
    [] kind = "hidden"  -> Ok(0, 0)
    [] OTHER            -> TokenToPieceBytes(n, size)

(* Mutant: a minus is made into a length by its absolute value.            *)
StrToTokenNoRetry(n, bytes, bos) ==
  LET c == AllOrMinus(n, Most(FewTokens, bytes \div 2 + bos))
  IN Ok(IF c.told < 0 THEN -c.told ELSE c.told, c.wrote)

(* The capacity of the vector is at least the estimate.                    *)
StrToToken(n, bytes, bos) ==
  LET c == AllOrMinus(n, Most(FewTokens, bytes \div 2 + bos))
      d == IF c.told < 0 THEN AllOrMinus(n, -c.told) ELSE c
  IN IF d.told < 0 THEN Err("panicked") ELSE Ok(d.told, d.wrote)

MetaFits(told, size) == told < size

ExtractMetaString(n) ==
  LET try(size) == CutWithNul(n, size)
      c == try(MetaBuffer)
      d == IF MetaFits(c.told, MetaBuffer) THEN c ELSE try(c.told + 1)
  IN IF n = NotThere THEN Err("refused") ELSE Ok(d.told, d.wrote)

(* size: twice the length of roles and contents.                           *)
ApplyChatTemplate(n, size) ==
  LET c == Cut(n, size)
      d == IF c.told > size THEN Cut(n, c.told) ELSE c
  IN IF c.told < 0 THEN Err("refused") ELSE Ok(d.told, d.wrote)

-----------------------------------------------------------------------------
(* Every outcome of the functions: which, what C had, what came out.       *)
Outcomes ==
  LET Has == 0 .. Longest
      row(f, n, o) == [call |-> f, has |-> n, out |-> o]
  IN UNION {
       {row("again", n, AskTwice(n)) : n \in Has},
       {row("once", n, TokenToPieceBytes(n, s)) : n \in Has, s \in Has},
       {row("hidden", 0, TokenToBytesWithSize(0, s, "hidden")) : s \in Has},
       {row("newline", 1, TokenToBytesWithSize(1, s, "newline")) : s \in Has},
       {row("once", n, TokenToBytesWithSize(n, s, "text")) : n \in Has, s \in Has},
       {row("again", n, StrToToken(n, b, bos)) : n \in Has, b \in Has, bos \in {0, 1}},
       {row("again", n, ExtractMetaString(n)) : n \in Has \cup {NotThere}},
       {row("again", n, ApplyChatTemplate(n, 2 * l)) : n \in Has \cup {NotThere}, l \in Has}}

(* Whoever asks again gets all of what C has, each item of the result      *)
(* written by C, and no more; only the calls of one try say that the       *)
(* buffer is short.  The three C conventions differ in what a size equal   *)
(* to the buffer means (model.rs:294, 380, 936, 1440).                     *)
GivenInFull(o) ==
  /\ o.out.status = "ok" => o.out.len = o.has /\ o.out.wrote = o.has
  /\ o.out.status \in {"short", "panicked"} => o.call = "once" /\ o.out.status = "short"
=============================================================================
