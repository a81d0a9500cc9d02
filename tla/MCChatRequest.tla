--------------------------- MODULE MCChatRequest ---------------------------
EXTENDS ChatRequest, TLC

CONSTANTS w1, w2, w3, a, b

(* A word of one token, a word of two, a text that cannot be tokenized.    *)
TokensOfMC == w1 :> <<a>> @@ w2 :> <<a, b>> @@ w3 :> None

NotGiven == [is |-> "missing", num |-> 0]

(* A request with messages alone, to a model that has a template.          *)
Plain ==
  [body |-> "json", fallback |-> TRUE, chat_template |-> "missing",
   messages |-> "array", tool_choice |-> "missing", response_format |-> "missing",
   schema |-> "object", json_schema |-> "missing", grammar |-> "missing",
   reasoning_format |-> "missing", chat_template_kwargs |-> "missing",
   stream |-> "missing", max_tokens |-> NotGiven, temperature |-> NotGiven,
   top_p |-> NotGiven, top_k |-> NotGiven, stop |-> "missing"]

(* What a client may write in each field, beside what Plain says.          *)
SomeKinds == {"null", "number", "string", "array", "object"}
SomeNumbers ==
  {[is |-> "other", num |-> 0]}
    \cup {[is |-> "int", num |-> n] : n \in {-4, -1, 0, 1, 2, 3, 4, 8, 15}}
    \cup {[is |-> "float", num |-> n] : n \in {-2, -1, 0, 1, 2, 4, 5, 7}}

Texts == {"chat_template", "messages", "tool_choice", "json_schema", "grammar",
          "reasoning_format", "chat_template_kwargs"}

With(r) ==
  {[r EXCEPT ![field] = kind] : field \in Texts, kind \in SomeKinds}
    \cup {[r EXCEPT ![field] = n] :
             field \in {"max_tokens", "temperature", "top_p", "top_k"}, n \in SomeNumbers}
    \cup {[r EXCEPT !.body = "bytes"], [r EXCEPT !.body = "text"],
          [r EXCEPT !.fallback = FALSE], [r EXCEPT !.chat_template = "nul"],
          [r EXCEPT !.messages = "missing"],
          [r EXCEPT !.stream = "true"], [r EXCEPT !.stream = "other"]}
    \cup {[r EXCEPT !.stop = kind] :
             kind \in {"null", "number", "string", "strings", "mixed"}}
    \cup {[r EXCEPT !.response_format = format, !.schema = kind] :
             format \in {"untyped", "text", "bare", "schema"}, kind \in SomeKinds}

(* Every request that differs from Plain in at most two fields.            *)
ManyRequests == {Plain} \cup With(Plain) \cup UNION {With(r) : r \in With(Plain)}

(* Sampled with temperature, greedy, and with a stop that cannot be read.  *)
FewRequests ==
  {Plain, [Plain EXCEPT !.temperature = [is |-> "int", num |-> 0]],
   [Plain EXCEPT !.stop = "mixed"]}

(* Any template for these and for the examples, no trigger for the others. *)
NoTriggers == {t \in Template : t.triggers = <<>> /\ t.preserved = {}}
RenderedMC(r) == IF r \in FewRequests \cup {None} THEN Template ELSE NoTriggers
=============================================================================
