------------------------------- MODULE TokenText -------------------------------
(***************************************************************************)
(* From the tokens of a text back to the text: token_to_piece_bytes,       *)
(* token_to_bytes, token_to_piece and tokens_to_str of model.rs, and what  *)
(* the loops of server, tools and openai_stream do with the bytes.  How    *)
(* the bytes of one token are got from C is AskAgain, with the other       *)
(* functions that do so, each called once by Ask.                          *)
(*                                                                         *)
(* A text is the sequence of its bytes in UTF-8, each of which knows the   *)
(* character it is of, which part of it, and how wide that is.  It is cut  *)
(* into tokens anywhere, as a byte-level vocabulary does, and may end      *)
(* within a character.  Each token's bytes go through a decoder that keeps *)
(* the bytes of an unfinished character, into a string of a fixed          *)
(* capacity; what the decoder did not read for want of room is gone, as    *)
(* its result is ignored.                                                  *)
(*                                                                         *)
(* The decoder of encoding_rs is external.  It never writes beyond the     *)
(* capacity, copies whole characters as they are, and may refuse to read   *)
(* a byte of a character that is not whole in its input when fewer bytes   *)
(* are left than the widest character has.                                 *)
(***************************************************************************)
EXTENDS AskAgain, Sequences

CONSTANTS
  Texts,      \* sequences of bytes
  MaxPiece,   \* most bytes of a token
  Room,       \* capacity of the string of the loops, 32 in the code
  Refusals,   \* whether the decoder refuses early: a subset of BOOLEAN
  Methods     \* "piece": token_to_piece, "loop": the loops' own decoding,
              \* "whole": tokens_to_str, "ask": a call of AskAgain

Widest == 4
Bad == 0                 \* U+FFFD; the characters are 1, 2, ...
Nothing == [char |-> Bad, part |-> 0, width |-> 3]

Byte == [char : Nat \ {0}, part : 1 .. Widest, width : 1 .. Widest]
EndsChar(b) == b.part = b.width
Continues(b, c) == c = [b EXCEPT !.part = @ + 1]

(* The characters come one after the other, each from its first byte on.   *)
IsText(t) ==
  /\ t \in Seq(Byte)
  /\ \A i \in 1 .. Len(t) :
       /\ t[i].part <= t[i].width
       /\ \/ i > 1 /\ ~EndsChar(t[i - 1]) /\ Continues(t[i - 1], t[i])
          \/ /\ t[i].part = 1
             /\ IF i = 1 THEN t[i].char = 1
                ELSE EndsChar(t[i - 1]) /\ t[i].char = t[i - 1].char + 1

ASSUME TokenTextAssumption ==
  /\ \A t \in Texts : IsText(t)
  /\ MaxPiece \in Nat /\ Room \in Nat
  /\ Refusals \subseteq BOOLEAN
  /\ Methods \subseteq {"piece", "loop", "whole", "ask"}

VARIABLES
  text,      \* its bytes
  method,    \* how the tokens are turned to text
  at,        \* bytes in the tokens so far
  cuts,      \* where the tokens so far ended
  pending,   \* the decoder: the last byte of the unfinished character it has
  out,       \* the characters given out
  dropped,   \* the offsets of bytes the decoder did not read
  status,
  asked      \* the call of AskAgain, if one was made

textVars == <<text, method, at, cuts, pending, out, dropped, status, asked>>

Chars == {text[i].char : i \in 1 .. Len(text)}

(* How many characters are whole in the first n bytes, and which they are. *)
AtBoundary(n) == n = 0 \/ EndsChar(text[n])
Complete(n) == IF n = 0 THEN 0
               ELSE IF EndsChar(text[n]) THEN text[n].char ELSE text[n].char - 1
Shown(n) == [c \in 1 .. Complete(n) |-> c]

TextTypeOK ==
  /\ text \in Texts /\ method \in Methods
  /\ at \in 0 .. Len(text)
  /\ cuts \subseteq 1 .. at
  /\ pending = Nothing \/ \E i \in 1 .. at :
                            pending = text[i] /\ ~AtBoundary(i)
  /\ out \in Seq({Bad} \cup Chars)
  /\ dropped \subseteq 1 .. at
  /\ status \in {"running", "ok", "unknown", "short", "not_utf8"}
  /\ asked \subseteq Outcomes

TextInit ==
  /\ text \in Texts /\ method \in Methods
  /\ at = 0
  /\ cuts = {}
  /\ pending = Nothing
  /\ out = <<>>
  /\ dropped = {}
  /\ status = "running"
  /\ asked = {}

-----------------------------------------------------------------------------
(* Mutant: the size of the second try is taken as it was told, negative.   *)
PieceOfUnsigned(n) ==
  IF TokenToPieceBytes(n, Piece).status = "short" THEN "panicked"
                                                  ELSE AskTwice(n).status

PieceOf(n) == AskTwice(n).status

(* The decoder while it reads a piece: what it keeps and has written, the  *)
(* room that is left, how many bytes it has read, and whether it gave up.  *)
Decoder(keeps, room) ==
  [keeps |-> keeps, written |-> <<>>, room |-> room, read |-> 0, full |-> FALSE]

Write(d, b, refuses) ==
  IF b.width > d.room \/ (refuses /\ d.room < Widest)
  THEN [d EXCEPT !.full = TRUE]
  ELSE [d EXCEPT !.written = Append(@, b.char), !.room = @ - b.width,
                 !.keeps = Nothing]

Keep(d, b, refuses) ==
  IF refuses /\ d.room < Widest THEN [d EXCEPT !.full = TRUE]
                                ELSE [d EXCEPT !.keeps = b]

(* A byte that does not continue the unfinished character ends it: what is *)
(* written is U+FFFD, which is three bytes wide.                           *)
Interrupt(d, b, refuses) ==
  IF d.keeps # Nothing /\ ~Continues(d.keeps, b)
  THEN Write(d, Nothing, refuses) ELSE d

(* One byte of the piece, when nothing unfinished is in its way; whole     *)
(* says that its character lies within the piece.                          *)
ReadByte(d, b, refuses, whole) ==
  LET e == CASE b.part # 1 /\ d.keeps = Nothing -> Write(d, Nothing, refuses)
             [] EndsChar(b)                     -> Write(d, b, refuses /\ ~whole)
             [] OTHER                           -> Keep(d, b, refuses /\ ~whole)
  IN IF e.full THEN e ELSE [e EXCEPT !.read = @ + 1]

DecodeByte(d, piece, i, refuses) ==
  LET b == piece[i]
      from == i - b.part + 1
      free == IF d.full THEN d ELSE Interrupt(d, b, refuses)
      whole == /\ from >= 1 /\ from + b.width - 1 <= Len(piece)
               /\ b.width <= free.room
  IN IF free.full THEN free ELSE ReadByte(free, b, refuses, whole)

Decode(d, piece, refuses) ==
  LET after[i \in 0 .. Len(piece)] ==
        IF i = 0 THEN d ELSE DecodeByte(after[i - 1], piece, i, refuses)
  IN after[Len(piece)]

-----------------------------------------------------------------------------
Taken(n) == SubSeq(text, at + 1, at + n)

(* The next token of n bytes is cut from the text.                         *)
Take(n) ==
  /\ status = "running"
  /\ n <= Len(text) - at
  /\ at' = at + n
  /\ cuts' = IF n = 0 THEN cuts ELSE cuts \cup {at + n}
  /\ UNCHANGED <<text, method, asked>>

DecodeInto(n, capacity, keeps, refuses) ==
  LET d == Decode(Decoder(keeps, capacity), Taken(n), refuses)
  IN /\ pending' = d.keeps
     /\ out' = out \o d.written
     /\ dropped' = dropped \cup (at + d.read + 1 .. at + n)
     /\ UNCHANGED status

Fail(why) == status' = why /\ UNCHANGED <<pending, out, dropped>>

(* Mutant: each token has a decoder of its own, as in token_to_str.        *)
TokenToPieceAfresh(n, refuses) ==
  /\ method = "piece" /\ Take(n)
  /\ IF PieceOf(n) = "ok" THEN DecodeInto(n, n, Nothing, refuses)
                                  ELSE Fail(PieceOf(n))

(* token_to_piece: a string as large as the token's bytes.                 *)
TokenToPiece(n, refuses) ==
  /\ method = "piece" /\ Take(n)
  /\ IF PieceOf(n) = "ok" THEN DecodeInto(n, n, pending, refuses)
                                  ELSE Fail(PieceOf(n))

(* Mutant: a string as large as the token's bytes, as in token_to_piece.   *)
LoopDecodesTight(n, refuses) ==
  /\ method = "loop" /\ Take(n)
  /\ IF PieceOf(n) = "ok" THEN DecodeInto(n, n, pending, refuses)
                                  ELSE Fail(PieceOf(n))

(* The loops call token_to_bytes and decode into String::with_capacity(32).*)
LoopDecodes(n, refuses) ==
  /\ method = "loop" /\ Take(n)
  /\ IF PieceOf(n) = "ok" THEN DecodeInto(n, Room, pending, refuses)
                                  ELSE Fail(PieceOf(n))

(* tokens_to_str puts the bytes together, with no second try.              *)
AppendBytes(n) ==
  /\ method = "whole" /\ Take(n)
  /\ IF TokenToPieceBytes(n, Piece).status = "ok"
     THEN UNCHANGED <<pending, out, dropped, status>>
     ELSE Fail(TokenToPieceBytes(n, Piece).status)

(* Mutant: from_utf8_lossy.                                                *)
FromUtf8Lossy ==
  /\ method = "whole" /\ status = "running"
  /\ out' = Decode(Decoder(Nothing, 4 * Len(text)), SubSeq(text, 1, at),
                   FALSE).written
  /\ status' = "ok"
  /\ UNCHANGED <<text, method, at, cuts, pending, dropped, asked>>

(* String::from_utf8 takes the bytes only if they are whole characters.    *)
FromUtf8 ==
  /\ method = "whole" /\ status = "running"
  /\ IF AtBoundary(at)
     THEN out' = Shown(at) /\ status' = "ok"
     ELSE status' = "not_utf8" /\ UNCHANGED out
  /\ UNCHANGED <<text, method, at, cuts, pending, dropped, asked>>

(* One call of one of the functions that lend a buffer.                    *)
Ask ==
  /\ method = "ask" /\ asked = {}
  /\ \E o \in Outcomes : asked' = {o}
  /\ UNCHANGED <<text, method, at, cuts, pending, out, dropped, status>>

TextNext ==
  \/ \E n \in 0 .. MaxPiece, refuses \in Refusals : TokenToPiece(n, refuses)
  \/ \E n \in 0 .. MaxPiece, refuses \in Refusals : LoopDecodes(n, refuses)
  \/ \E n \in 0 .. MaxPiece : AppendBytes(n)
  \/ FromUtf8
  \/ Ask

TextSpec == TextInit /\ [][TextNext]_textVars

-----------------------------------------------------------------------------
(* As long as every byte was read, the text is that of the bytes, however  *)
(* they are cut into tokens (model.rs:422-423).                            *)
TextIsTheBytes ==
  status \in {"running", "ok"} /\ method # "whole" /\ dropped = {} =>
    out = Shown(at)

(* The tokens so far, by where they begin and end.                         *)
Tokens == {t \in (cuts \cup {0}) \X cuts :
             t[1] < t[2] /\ \A k \in cuts : k <= t[1] \/ t[2] <= k}

(* token_to_piece reads all of a token that is whole characters, if the    *)
(* tokens before it were: the capacity is what the bytes need (model.rs:   *)
(* 452-453).  The loops lose bytes only to a token too long for their      *)
(* string: up to three bytes of an unfinished character are written with   *)
(* it, and its last byte may be refused when fewer than four are left.     *)
(* With 32 bytes, no token of up to 26 is cut (server main.rs:475).        *)
LoseNothing ==
  /\ method = "piece" /\ (\A n \in cuts : AtBoundary(n)) => dropped = {}
  /\ method = "loop" /\ (\A t \in Tokens : t[2] - t[1] + 2 * (Widest - 1) <= Room)
       => dropped = {}

(* tokens_to_str gives all of the text, or an error if the tokens end      *)
(* within a character (model.rs:326).                                      *)
WholeOrError ==
  method = "whole" /\ status = "ok" => AtBoundary(at) /\ out = Shown(at)

(* A buffer of any size leads to the whole of what C has, and a token of   *)
(* any length to its bytes; tokens_to_str alone gives up on a long one.    *)
AnyLength ==
  /\ \A o \in asked : GivenInFull(o)
  /\ status = "short" => method = "whole"
=============================================================================
