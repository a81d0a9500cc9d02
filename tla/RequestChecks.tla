--------------------------- MODULE RequestChecks ---------------------------
(***************************************************************************)
(* What the server reads from the JSON of a chat completion request and    *)
(* what it refuses (run_chat_completion, extract_json_schema and           *)
(* parse_stop_sequences of examples/server/src/main.rs).                   *)
(*                                                                         *)
(* A field that is only passed on is its JSON type.  A number keeps its    *)
(* value: the server reads it at one width and cuts it to a narrower one.  *)
(* Fractions count in parts of One; an f32 holds the even counts, and a    *)
(* conversion takes the nearest (a tie goes to the multiple of 4).  That a *)
(* large f64 becomes an infinite f32 is not modelled.                      *)
(***************************************************************************)
EXTENDS Integers, Sequences

CONSTANTS
  I32Max, I64Max,   \* the largest i32 and i64
  One,              \* the number 1 in parts
  DefaultTokens     \* max_tokens of a request that gives none: 1024

U32Max == 2 * I32Max + 1
U64Max == 2 * I64Max + 1

ASSUME WidthAssumption ==
  /\ I32Max \in Nat /\ I64Max \in Nat /\ I64Max >= U32Max
  /\ One \in Nat \ {0} /\ One % 4 = 0
  /\ DefaultTokens \in 1 .. U32Max

JsonKinds == {"missing", "null", "bool", "number", "string", "array", "object"}

(* serde_json keeps an integer that fits i64 or u64, and reads all other   *)
(* numbers as f64; "other" is a value that is no number.                   *)
Number == [is : {"missing", "other"}, num : {0}]
            \cup [is : {"int"}, num : -(I64Max + 1) .. U64Max]
            \cup [is : {"float"}, num : Int]

(* fallback: the model has a chat template of its own (default_template).  *)
(* A "nul" is a string that holds a NUL.  response_format is an object     *)
(* without a type that is a string, one of another type, or one of type    *)
(* json_schema with (schema) or without (bare) a schema of kind schema.    *)
(* A stop of kind "mixed" is an array that does not hold strings only.     *)
Request ==
  [body : {"bytes", "text", "json"},
   fallback : BOOLEAN,
   chat_template : JsonKinds \cup {"nul"},
   messages : JsonKinds,
   tool_choice : JsonKinds,
   response_format : {"missing", "untyped", "text", "bare", "schema"},
   schema : JsonKinds \ {"missing"},
   json_schema : JsonKinds,
   grammar : JsonKinds,
   reasoning_format : JsonKinds,
   chat_template_kwargs : JsonKinds,
   stream : {"missing", "true", "false", "other"},
   max_tokens : Number,
   temperature : Number,
   top_p : Number,
   top_k : Number,
   stop : (JsonKinds \ {"array"}) \cup {"strings", "mixed"}]

-----------------------------------------------------------------------------
(* The numbers: as_u64, as_i64 and as_f64 with their default, then `as`.   *)

CutToU32(n) == n % (U32Max + 1)
CutToI32(n) == ((n + I32Max + 1) % (U32Max + 1)) - (I32Max + 1)
ToF32(v) == IF v % 2 = 0 THEN v ELSE IF v % 4 = 1 THEN v - 1 ELSE v + 1

IsNumber(n) == n.is \in {"int", "float"}
AsF64(n) == IF n.is = "int" THEN n.num * One ELSE n.num

MaxTokens(r) ==
  CutToU32(IF r.max_tokens.is = "int" /\ r.max_tokens.num >= 0
           THEN r.max_tokens.num ELSE DefaultTokens)
Fraction(n) == ToF32(IF IsNumber(n) THEN AsF64(n) ELSE One)
TopK(r) ==
  CutToI32(IF r.top_k.is = "int" /\ r.top_k.num <= I64Max THEN r.top_k.num ELSE 0)

Params(r) == [max_tokens |-> MaxTokens(r), temperature |-> Fraction(r.temperature),
              top_p |-> Fraction(r.top_p), top_k |-> TopK(r)]

-----------------------------------------------------------------------------
(* The checks in their order, each under the name of what it looks at.     *)
(* parse_stop_sequences is called much later and is not among them.        *)
Checks ==
  <<"body", "json", "chat_template", "template", "messages", "tool_choice",
    "response_format", "json_schema", "grammar", "reasoning_format",
    "chat_template_kwargs", "stream", "max_tokens", "temperature", "top_p", "top_k">>

TextOrNothing == {"missing", "null", "string"}
SchemaOrNothing == {"missing", "null", "string", "array", "object"}

(* Mutant: max_tokens is compared with zero before it is cut to 32 bits.   *)
RefusedUncut(r, check) ==
  CASE check = "max_tokens" -> r.max_tokens.is = "int" /\ r.max_tokens.num = 0
    [] check = "temperature" -> Fraction(r.temperature) < 0
    [] check = "top_p" -> ~(0 < Fraction(r.top_p) /\ Fraction(r.top_p) <= One)
    [] check = "top_k" -> TopK(r) < 0

RefusedNumber(r, check) ==
  CASE check = "max_tokens" -> MaxTokens(r) = 0
    [] check = "temperature" -> Fraction(r.temperature) < 0
    [] check = "top_p" -> ~(0 < Fraction(r.top_p) /\ Fraction(r.top_p) <= One)
    [] check = "top_k" -> TopK(r) < 0

Refused(r, check) ==
  CASE check = "body" -> r.body = "bytes"
    [] check = "json" -> r.body = "text"
    [] check = "chat_template" -> r.chat_template \notin TextOrNothing
    [] check = "template" -> r.chat_template \in {"missing", "null"} /\ ~r.fallback
    [] check = "messages" -> r.messages # "array"
    [] check = "tool_choice" -> r.tool_choice \notin TextOrNothing
    [] check = "response_format" ->
         \/ r.response_format \in {"untyped", "bare"}
         \/ r.response_format = "schema" /\ r.schema \notin SchemaOrNothing
    [] check = "json_schema" ->
         r.response_format = "missing" /\ r.json_schema \notin SchemaOrNothing
    [] check = "grammar" -> r.grammar \notin TextOrNothing
    [] check = "reasoning_format" -> r.reasoning_format \notin TextOrNothing
    [] check = "chat_template_kwargs" ->
         r.chat_template_kwargs \notin {"missing", "null", "array", "object"}
    [] check = "stream" -> r.stream = "true"
    [] check = "stop" -> r.stop \notin {"missing", "null", "string", "strings"}
    [] OTHER -> RefusedNumber(r, check)

-----------------------------------------------------------------------------
(* What the messages of the refusals ask for, about the values as the      *)
(* client wrote them; null is as good as nothing where the server says so. *)

NullOr(kinds) == {"missing", "null"} \cup kinds

NumberIs(n, P(_)) == n.is = "missing" \/ (IsNumber(n) /\ P(AsF64(n)))
Positive(v) == v > 0
NotNegative(v) == v >= 0
Probability(v) == 0 < v /\ v <= One

Keeps(r, rule) ==
  CASE rule = "body" -> r.body # "bytes"
    [] rule = "json" -> r.body # "text"
    [] rule = "chat_template" -> r.chat_template \in NullOr({"string"})
    [] rule = "template" -> r.chat_template \in NullOr({}) => r.fallback
    [] rule = "messages" -> r.messages = "array"
    [] rule = "tool_choice" -> r.tool_choice \in NullOr({"string"})
    [] rule = "response_format" ->
         \/ r.response_format \in {"missing", "text"}
         \/ r.response_format = "schema" /\ r.schema \in NullOr({"string", "object"})
    [] rule = "json_schema" ->
         r.response_format # "missing" \/ r.json_schema \in NullOr({"string", "object"})
    [] rule = "grammar" -> r.grammar \in NullOr({"string"})
    [] rule = "reasoning_format" -> r.reasoning_format \in NullOr({"string"})
    [] rule = "chat_template_kwargs" -> r.chat_template_kwargs \in NullOr({"object"})
    [] rule = "stream" -> r.stream # "true"
    [] rule = "max_tokens" -> NumberIs(r.max_tokens, Positive)
    [] rule = "temperature" -> NumberIs(r.temperature, NotNegative)
    [] rule = "top_p" -> NumberIs(r.top_p, Probability)
    [] rule = "top_k" -> NumberIs(r.top_k, NotNegative)
    [] rule = "stop" -> r.stop \in NullOr({"string", "strings"})

Rules == {Checks[i] : i \in DOMAIN Checks} \cup {"stop"}

(* A number the server uses as it was written.                             *)
Fits(n, values) == n.is = "missing" \/ (n.is = "int" /\ n.num \in values)
FitsF32(n) == n.is = "missing" \/ (IsNumber(n) /\ ToF32(AsF64(n)) = AsF64(n))

(* The rules on numbers that the server reads as other numbers, or takes   *)
(* for missing, and those on schemas: it lets an array pass for an object. *)
Overlooked(r) ==
  {rule \in Rules :
     CASE rule = "max_tokens" -> ~Fits(r.max_tokens, 0 .. U32Max)
       [] rule = "top_k" -> ~Fits(r.top_k, -(I32Max + 1) .. I32Max)
       [] rule = "temperature" -> ~FitsF32(r.temperature)
       [] rule = "top_p" -> ~FitsF32(r.top_p)
       [] rule = "response_format" -> r.response_format = "schema" /\ r.schema = "array"
       [] rule = "json_schema" -> r.response_format = "missing" /\ r.json_schema = "array"
       [] OTHER -> FALSE}
=============================================================================
