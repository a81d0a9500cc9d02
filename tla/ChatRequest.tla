----------------------------- MODULE ChatRequest -----------------------------
(***************************************************************************)
(* The life of one chat request around its generation loop: the checks of  *)
(* the server (RequestChecks), the prompt, the set-up of the sampler from  *)
(* what the chat template asked for, and the answer.  The                  *)
(* examples tools, tools_reasoning and openai_stream hold copies of the    *)
(* set-up which end in other ways; tools_reasoning may go round a second   *)
(* time with the answers of its mock tools.                                *)
(*                                                                         *)
(* The template renderer, the tokenizer and the parser are external: a     *)
(* template result is any value a caller may be given.  The loop itself is *)
(* GenerationLoop and one step here.                                       *)
(***************************************************************************)
EXTENDS RequestChecks, FiniteSets

CONSTANTS
  Programs,       \* which of the four programs run
  Requests,       \* what the server may be sent
  Rendered(_),    \* the templates that may come of each, or of no request
  Words,          \* texts of preserved tokens, trigger words and patterns
  Tokens,         \* token ids
  TokensOf,       \* the tokens of each word, or None if str_to_token fails
  QuotedDollar,   \* patterns whose last character is an escaped $
  None,
  MaxTriggers,    \* bound on the triggers of one template result
  MaxCalls        \* bound on the tool calls of one message

(* A trigger that is a token carries its id.                               *)
Trigger == [type : {"word", "pattern", "pattern_full"}, value : Words, token : {None}]
             \cup [type : {"token"}, value : {None}, token : Tokens]

(* grammar: absent, usable, without the text "root", or refused by C.  Its *)
(* strings were read as C strings: none holds a NUL.                       *)
Template ==
  [preserved : SUBSET Words,
   grammar : {"absent", "good", "rootless", "refused"},
   lazy : BOOLEAN,
   triggers : UNION {[1 .. n -> Trigger] : n \in 0 .. MaxTriggers}]

ASSUME RequestAssumption ==
  /\ Programs \subseteq {"server", "tools", "tools_reasoning", "openai_stream"}
  /\ TokensOf \in [Words -> Seq(Tokens) \cup {None}]
  /\ QuotedDollar \subseteq Words
  /\ Requests \subseteq Request
  /\ \A r \in Requests \cup {None} : Rendered(r) \subseteq Template
  /\ None \notin Tokens
  /\ MaxTriggers \in Nat /\ MaxCalls \in Nat

NoTemplate == [preserved |-> {}, grammar |-> "absent", lazy |-> FALSE,
               triggers |-> <<>>]

VARIABLES
  program,
  request,     \* what the server was sent
  at,          \* what comes next
  ctx,         \* a context was made and the prompt decoded
  params,      \* the numbers the sampler is built from
  result,      \* the ChatTemplateResult
  preserved,   \* tokens that are printed although they are special
  next,        \* the trigger to look at
  armed,       \* trigger_tokens and trigger_patterns so far
  chain,       \* the sampler
  answer,      \* how it ended: status, and the field it names
  round,       \* tools_reasoning: first or second generation
  calls,       \* tool calls in the assistant message of round 2
  replies      \* tool messages of round 2

vars == <<program, request, at, ctx, params, result, preserved, next, armed,
          chain, answer, round, calls, replies>>
setup == <<preserved, next, armed, chain>>
talk == <<round, calls, replies>>
input == <<program, request, params>>

Open == [status |-> "open", field |-> None]

(* The examples have no request and sample greedily.                       *)
Greedy == [max_tokens |-> DefaultTokens, temperature |-> 0, top_p |-> One, top_k |-> 0]

Init ==
  /\ program \in Programs
  /\ IF program = "server" THEN request \in Requests ELSE request = None
  /\ at = IF program = "server" THEN "request" ELSE "template"
  /\ ctx = FALSE
  /\ params = Greedy
  /\ result = NoTemplate
  /\ preserved = {}
  /\ next = 1
  /\ armed = [tokens |-> {}, patterns |-> {}]
  /\ chain = <<>>
  /\ answer = Open
  /\ round = 1 /\ calls = 0 /\ replies = 0

-----------------------------------------------------------------------------
Ends(status, field) ==
  /\ at' = "ended"
  /\ answer' = [status |-> status, field |-> field]

(* internal_error of the server, expect of the tools, `?` of openai_stream.*)
Failure == CASE program = "server" -> "500"
             [] program = "openai_stream" -> "error"
             [] OTHER -> "panic"

(* A check the examples write as panic!.                                   *)
Refusal == IF program = "server" THEN "500" ELSE "panic"

Fails ==
  /\ Ends(Failure, None)
  /\ UNCHANGED <<input, ctx, result, setup, talk>>

Goes(place) == at' = place /\ answer' = answer

-----------------------------------------------------------------------------
(* Up to OpenAIChatTemplateParams: the first check that fails ends it.     *)
ParseRequest ==
  /\ at = "request"
  /\ LET found == {i \in DOMAIN Checks : Refused(request, Checks[i])}
     IN \/ found = {} /\ params' = Params(request) /\ Goes("template")
        \/ \E i \in found : /\ \A j \in found : i <= j
                            /\ params' = params /\ Ends("400", Checks[i])
  /\ UNCHANGED <<program, request, ctx, result, setup, talk>>

(* C refuses an array of chat_template_kwargs (wrapper_oai.cpp:392).       *)
ApplyTemplate ==
  /\ at = "template"
  /\ \/ /\ program = "server" => request.chat_template_kwargs # "array"
        /\ result' \in Rendered(request)
        /\ Goes("prompt")
        /\ UNCHANGED <<input, ctx, setup, talk>>
     \/ Fails

(* str_to_token, new_context, add of every token, decode.                  *)
DecodePrompt ==
  /\ at = "prompt"
  /\ \/ ctx' = TRUE /\ Goes("preserved")
     \/ ctx' \in BOOLEAN /\ Ends(Failure, None)
  /\ UNCHANGED <<input, result, setup, talk>>

-----------------------------------------------------------------------------
(* The sampler.                                                            *)

Single(w) == TokensOf[w] # None /\ Len(TokensOf[w]) = 1

(* Strings of several tokens are passed over.                              *)
CollectPreserved ==
  /\ at = "preserved"
  /\ IF \E w \in result.preserved : TokensOf[w] = None
     THEN Fails
     ELSE /\ preserved' = {TokensOf[w][1] : w \in {v \in result.preserved : Single(v)}}
          /\ IF result.grammar # "absent" /\ result.lazy
             THEN IF result.triggers = <<>> THEN Ends(Refusal, None)
                  ELSE Goes("triggers")
             ELSE Goes("grammar")
          /\ UNCHANGED <<input, ctx, result, next, armed, chain, talk>>

(* regex_escape makes one word of what it is given; anchor_pattern adds a $*)
(* unless the last character is one already, quoted or not.                *)
Exactly(w) == [value |-> w, quoted |-> TRUE, full |-> FALSE]
Pattern(w) == [value |-> w, quoted |-> FALSE, full |-> FALSE]
Anchored(w) == [value |-> w, quoted |-> FALSE, full |-> w \notin QuotedDollar]

AddTokens(ts) == [armed EXCEPT !.tokens = @ \cup ts]
AddPattern(p) == [armed EXCEPT !.patterns = @ \cup {p}]

Arm(t) ==
  CASE t.type = "token" -> AddTokens({t.token})
    [] t.type = "word" -> IF Single(t.value) THEN AddTokens({TokensOf[t.value][1]})
                                             ELSE AddPattern(Exactly(t.value))
    [] t.type = "pattern" -> AddPattern(Pattern(t.value))
    [] OTHER -> AddPattern(Anchored(t.value))

(* Mutant: a trigger word of one token is not looked up in preserved.      *)
UnpreservedPasses(t) == FALSE

Unpreserved(t) ==
  t.type = "word" /\ Single(t.value) /\ TokensOf[t.value][1] \notin preserved

LookAtTrigger ==
  /\ at = "triggers"
  /\ \/ /\ next > Len(result.triggers)
        /\ Goes("grammar")
        /\ UNCHANGED <<input, ctx, result, setup, talk>>
     \/ /\ next <= Len(result.triggers)
        /\ LET t == result.triggers[next]
           IN IF t.type = "word" /\ TokensOf[t.value] = None THEN Fails
              ELSE IF Unpreserved(t)
              THEN /\ Ends(Refusal, None)
                   /\ UNCHANGED <<input, ctx, result, setup, talk>>
              ELSE /\ armed' = Arm(t)
                   /\ next' = next + 1
                   /\ Goes("triggers")
                   /\ UNCHANGED <<input, ctx, result, preserved, chain, talk>>

(* LlamaSampler::grammar and grammar_lazy_patterns.  The server answers an *)
(* error, the examples go on without the grammar.                          *)
InitGrammar ==
  /\ at = "grammar"
  /\ \/ result.grammar = "absent" /\ chain' = <<>> /\ Goes("chain")
     \/ result.grammar = "good" /\ chain' = <<"grammar">> /\ Goes("chain")
     \/ /\ result.grammar \in {"rootless", "refused"}
        /\ chain' = <<>>
        /\ IF program = "server" THEN Ends("500", None) ELSE Goes("chain")
  /\ UNCHANGED <<input, ctx, result, preserved, next, armed, talk>>

(* The server's temperature, top_k and top_p; the examples are greedy.     *)
Samplers(p) ==
  IF p.temperature > 0
  THEN <<"temp">> \o (IF p.top_k > 0 THEN <<"top_k">> ELSE <<>>)
                  \o (IF p.top_p < One THEN <<"top_p">> ELSE <<>>)
                  \o <<"dist">>
  ELSE <<"greedy">>

BuildChain ==
  /\ at = "chain"
  /\ chain' = chain \o Samplers(params)
  /\ Goes(IF program = "server" THEN "stop" ELSE "generate")
  /\ UNCHANGED <<input, ctx, result, preserved, next, armed, talk>>

-----------------------------------------------------------------------------
(* Mutant: stops that cannot be read count as none.                        *)
CheckStopLoosely ==
  /\ at = "stop"
  /\ Goes("generate")
  /\ UNCHANGED <<input, ctx, result, setup, talk>>

(* parse_stop_sequences is called after the decode and the sampler.        *)
CheckStop ==
  /\ at = "stop"
  /\ IF Refused(request, "stop") THEN Ends("400", "stop") ELSE Goes("generate")
  /\ UNCHANGED <<input, ctx, result, setup, talk>>

(* The token loop, then the parsed message.                                *)
Generate ==
  /\ at = "generate"
  /\ \/ Fails
     \/ /\ IF program = "tools_reasoning" /\ round = 1
           THEN Goes("answered")
           ELSE Ends(IF program = "server" THEN "200" ELSE "done", None)
        /\ UNCHANGED <<input, ctx, result, setup, talk>>

(* tools_reasoning: without --continous or without calls that is all.      *)
ReadCalls ==
  /\ at = "answered"
  /\ \/ Ends("done", None) /\ UNCHANGED calls
     \/ calls' \in 1 .. MaxCalls /\ Goes("calls")
  /\ UNCHANGED <<input, ctx, result, setup, round, replies>>

(* One tool message for each call; a call may lack its function.           *)
AnswerCall ==
  /\ at = "calls" /\ replies < calls
  /\ \/ Fails
     \/ /\ replies' = replies + 1
        /\ Goes("calls")
        /\ UNCHANGED <<input, ctx, result, setup, round, calls>>

(* The second generation starts from nothing but the longer conversation.  *)
FollowUp ==
  /\ at = "calls" /\ replies = calls
  /\ round' = 2
  /\ Goes("template")
  /\ ctx' = FALSE /\ result' = NoTemplate
  /\ preserved' = {} /\ next' = 1 /\ chain' = <<>>
  /\ armed' = [tokens |-> {}, patterns |-> {}]
  /\ UNCHANGED <<input, calls, replies>>

Done == at = "ended" /\ UNCHANGED vars

Next ==
  \/ ParseRequest \/ ApplyTemplate \/ DecodePrompt
  \/ CollectPreserved \/ LookAtTrigger \/ InitGrammar \/ BuildChain
  \/ CheckStop \/ Generate
  \/ ReadCalls \/ AnswerCall \/ FollowUp
  \/ Done

Spec == Init /\ [][Next]_vars

-----------------------------------------------------------------------------
(* A request that breaks one of the rules the server's messages state is   *)
(* never answered 200, and a rule the server names in a 400 is one the     *)
(* request breaks: read from the values the client wrote, not from what the*)
(* server made of them.  No context is made and no prompt decoded for such *)
(* a request; only a bad "stop" is found after that (H38), so that only it *)
(* and kwargs that C refuses can end in a 500.  Left out are the rules the *)
(* server overlooks (main.rs:279-390, 452-454, 543-555).                   *)
RefusalsAreRight ==
  program = "server" =>
    LET wrong == {rule \in Rules : ~Keeps(request, rule)} \ Overlooked(request)
    IN /\ answer.status = "200" => wrong = {}
       /\ answer.status = "400" => answer.field \in wrong \cup Overlooked(request)
       /\ ctx => wrong \subseteq {"stop"}
       /\ answer.status = "500" => wrong \subseteq {"stop", "chat_template_kwargs"}

Asked(field) == IsNumber(request[field]) /\ field \notin Overlooked(request)
InChain(link) == \E i \in DOMAIN chain : chain[i] = link

(* Whatever number a request holds, what gets past the checks can be used: *)
(* at least one token, no negative temperature or top_k, a top_p in (0, 1],*)
(* although each was read at a larger width and then cut.  A number of the *)
(* right type that fits is taken as it is, and the chain of samplers is the*)
(* one it asks for: greedy at temperature 0 only, top_k and top_p only     *)
(* where they leave something out (main.rs:262-277, 367-389).              *)
NumbersAreUsable ==
  (program = "server" /\ at \notin {"request", "ended"}) =>
    /\ params.max_tokens \in 1 .. U32Max
    /\ params.temperature >= 0
    /\ Probability(params.top_p)
    /\ params.top_k \in 0 .. I32Max
    /\ Asked("max_tokens") => params.max_tokens = request.max_tokens.num
    /\ Asked("top_k") => params.top_k = request.top_k.num
    /\ Asked("temperature") => params.temperature = AsF64(request.temperature)
    /\ Asked("top_p") => params.top_p = AsF64(request.top_p)
    /\ (at \in {"stop", "generate"} /\ Asked("temperature") /\ Asked("top_k") /\ Asked("top_p")) =>
         /\ InChain("greedy") <=> request.temperature.num = 0
         /\ InChain("dist") <=> ~InChain("greedy")
         /\ InChain("top_k") <=> InChain("dist") /\ request.top_k.num > 0
         /\ InChain("top_p") <=> InChain("dist") /\ AsF64(request.top_p) < One

(* When sampling begins, a lazy grammar can wake: something is armed, each *)
(* token, word and pattern of the template is, a word of one token only if *)
(* that token is printed (preserved), a full pattern with both anchors     *)
(* unless it ends in a quoted $.  Only the examples sample without the     *)
(* grammar asked for, and only if it could not be made (build_sampler and  *)
(* its copies).                                                            *)
GrammarIsArmed ==
  (at \in {"stop", "generate"} /\ result.grammar # "absent") =>
    /\ \/ chain[1] = "grammar"
       \/ program # "server" /\ result.grammar # "good"
    /\ result.lazy =>
         /\ armed.tokens # {} \/ armed.patterns # {}
         /\ \A i \in DOMAIN result.triggers :
              LET t == result.triggers[i]
              IN CASE t.type = "token" -> t.token \in armed.tokens
                   [] t.type = "word" ->
                        IF Single(t.value)
                        THEN TokensOf[t.value][1] \in armed.tokens \cap preserved
                        ELSE Exactly(t.value) \in armed.patterns
                   [] OTHER -> \E p \in armed.patterns :
                        /\ p.value = t.value /\ ~p.quoted
                        /\ t.type = "pattern_full" => p.full \/ t.value \in QuotedDollar
=============================================================================
