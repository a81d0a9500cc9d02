-------------------------- MODULE MCChatTemplateCall --------------------------
(* Model checking ChatTemplateCall.                                        *)
EXTENDS ChatTemplateCall

(* Enough to tell a field from another, one item from the next, and every  *)
(* way a text can be converted.                                            *)

UpTo(n, texts) == UNION {[1 .. k -> texts] : k \in 0 .. n}

MCContents ==
  [prompt : {<<"text">>, <<"bad">>, <<"nul">>},
   grammar : {<<>>, <<"text">>, <<"bad">>},
   parser : {<<>>, <<"text">>},
   generation_prompt : {<<>>, <<"text">>},
   grammar_triggers : UpTo(2, {"text", "empty", "bad"}),
   preserved_tokens : {<<>>, <<"text">>},
   additional_stops : UpTo(2, {"text", "empty"})]
=============================================================================
