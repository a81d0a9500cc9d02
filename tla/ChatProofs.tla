------------------------------ MODULE ChatProofs ------------------------------
(***************************************************************************)
(* Proofs about the chat requests of the programs and about the streaming  *)
(* parser of what is answered.                                             *)
(*                                                                         *)
(* ChatRequest, for any requests, words, tokens and triggers: each property*)
(* has an invariant of its own, what the place a request has come to says  *)
(* about the checks it passes, and about the triggers already looked at.   *)
(*                                                                         *)
(* ChatStream, for any number of updates: the inductive invariant is       *)
(* StreamInv.  BlocksInv names exactly the blocks that are allocated at    *)
(* each place of a call, which every error path has to free; ToldInv says  *)
(* what was delivered before this call, and what of it is converted.  The  *)
(* lemmas about InOrder carry the order of the texts.                      *)
(***************************************************************************)
EXTENDS ChatRequest, ChatStream, FiniteSetTheorems, FunctionTheorems,
        SequenceTheorems, TLAPS

Places == {"request", "template", "prompt", "preserved", "triggers", "grammar",
           "chain", "stop", "generate", "answered", "calls", "ended"}

(* Past the checks a request passes each of them; it generates only if its *)
(* stops could be read, and has a context only if C took its kwargs.       *)
CheckedInv ==
  /\ at \in Places
  /\ at # "ended" => answer = Open
  /\ program = "server" =>
       /\ request \in Request
       /\ at \in {"request", "template"} => ~ctx
       /\ at \notin {"request", "ended"} =>
            \A i \in DOMAIN Checks : ~Refused(request, Checks[i])
       /\ at \notin {"request", "template", "ended"} =>
            request.chat_template_kwargs # "array"
       /\ at = "generate" => ~Refused(request, "stop")
       /\ at \notin {"answered", "calls"}

(* What an answer, and a context, say of the checks.                       *)
AnsweredInv ==
  program = "server" =>
    /\ ctx \/ answer.status \in {"200", "500"} =>
         \A i \in DOMAIN Checks : ~Refused(request, Checks[i])
    /\ ctx \/ answer.status = "200" => request.chat_template_kwargs # "array"
    /\ answer.status = "200" => ~Refused(request, "stop")
    /\ answer.status = "400" =>
         answer.field \in Rules /\ Refused(request, answer.field)

RefusalInv == CheckedInv /\ AnsweredInv

LEMMA Widths ==
  /\ I32Max \in Nat /\ I64Max \in Nat /\ One \in Nat \ {0} /\ One % 2 = 0
  /\ U32Max = 2 * I32Max + 1 /\ U64Max = 2 * I64Max + 1 /\ I64Max >= U32Max
  /\ DefaultTokens \in 1 .. U32Max
BY WidthAssumption DEF U32Max, U64Max

LEMMA ModuloOfSmall ==
  ASSUME NEW k \in Nat \ {0}, NEW n \in Nat, n < k
  PROVE  n % k = n
OBVIOUS

LEMMA CutsKeep ==
  /\ \A n \in 0 .. U32Max : CutToU32(n) = n
  /\ \A n \in -(I32Max + 1) .. I32Max : CutToI32(n) = n
<1>2. U32Max + 1 \in Nat \ {0}
  BY Widths
<1>1. \A n \in 0 .. U32Max : n % (U32Max + 1) = n
  <2> SUFFICES ASSUME NEW n \in 0 .. U32Max PROVE n % (U32Max + 1) = n
    OBVIOUS
  <2>1. n \in Nat /\ n < U32Max + 1
    BY Widths
  <2> QED BY <1>2, <2>1, ModuloOfSmall
<1>3. ASSUME NEW n \in 0 .. U32Max PROVE CutToU32(n) = n
  BY <1>1 DEF CutToU32
<1>4. ASSUME NEW n \in -(I32Max + 1) .. I32Max PROVE CutToI32(n) = n
  <2>1. n + I32Max + 1 \in 0 .. U32Max
    BY Widths
  <2>2. (n + I32Max + 1) % (U32Max + 1) = n + I32Max + 1
    BY <1>1, <2>1
  <2>3. CutToI32(n) = (n + I32Max + 1) - (I32Max + 1)
    BY <2>2 DEF CutToI32
  <2> QED BY ONLY <2>3, Widths, n \in Int
<1> QED BY <1>3, <1>4

LEMMA NumberValues ==
  ASSUME NEW n \in Number
  PROVE  /\ n.is \in {"missing", "other", "int", "float"}
         /\ n.num \in Int
         /\ IsNumber(n) => AsF64(n) \in Int
BY Widths DEF Number, IsNumber, AsF64

(* A fraction that an f32 holds is compared as it was written.             *)
LEMMA FractionAgrees ==
  ASSUME NEW n \in Number, FitsF32(n)
  PROVE  /\ Fraction(n) \in Int
         /\ IsNumber(n) => Fraction(n) = AsF64(n)
         /\ n.is = "missing" => Fraction(n) = One
<1>1. ToF32(One) = One
  BY Widths DEF ToF32
<1>2. CASE IsNumber(n)
  BY <1>2, NumberValues DEF FitsF32, Fraction, IsNumber
<1>3. CASE n.is = "missing"
  BY <1>1, <1>3, Widths DEF Fraction, IsNumber
<1> QED BY <1>2, <1>3 DEF FitsF32

(* A check refuses what breaks its rule, but for the rules that are        *)
(* overlooked and for an array of kwargs.                                  *)
LEMMA ChecksKeepRules ==
  ASSUME NEW r \in Request, NEW rule \in Rules, rule \notin Overlooked(r)
  PROVE  Keeps(r, rule) <=>
           /\ ~Refused(r, rule)
           /\ rule = "chat_template_kwargs" => r.chat_template_kwargs # "array"
<1>0. /\ r.max_tokens \in Number /\ r.temperature \in Number
      /\ r.top_p \in Number /\ r.top_k \in Number
  BY DEF Request
<1>1. CASE rule \in {"body", "json", "chat_template", "template", "messages",
                     "tool_choice", "response_format", "json_schema", "grammar",
                     "reasoning_format", "chat_template_kwargs", "stream", "stop"}
  <2>1. CASE rule \in {"body", "json", "stream", "stop", "messages"}
    BY <2>1 DEF Keeps, Refused, Request, JsonKinds, NullOr
  <2>2. CASE rule \in {"chat_template", "template"}
    BY <2>2 DEF Keeps, Refused, Request, JsonKinds, NullOr, TextOrNothing
  <2>3. CASE rule \in {"tool_choice", "grammar", "reasoning_format"}
    BY <2>3 DEF Keeps, Refused, Request, JsonKinds, NullOr, TextOrNothing
  <2>4. CASE rule = "chat_template_kwargs"
    BY <2>4 DEF Keeps, Refused, Request, JsonKinds, NullOr
  <2>5. CASE rule = "response_format"
    BY <2>5 DEF Keeps, Refused, Request, JsonKinds, NullOr, SchemaOrNothing, Overlooked
  <2>6. CASE rule = "json_schema"
    BY <2>6 DEF Keeps, Refused, Request, JsonKinds, NullOr, SchemaOrNothing, Overlooked
  <2> QED BY <1>1, <2>1, <2>2, <2>3, <2>4, <2>5, <2>6
<1>2. CASE rule = "max_tokens"
  <2>1. Fits(r.max_tokens, 0 .. U32Max)
    BY <1>2 DEF Overlooked
  <2>2. Keeps(r, rule) <=> NumberIs(r.max_tokens, Positive)
    BY <1>2 DEF Keeps
  <2>3. Refused(r, rule) <=> MaxTokens(r) = 0
    BY <1>2 DEF Refused, RefusedNumber
  <2>4. CASE r.max_tokens.is = "missing"
    <3>1. MaxTokens(r) = DefaultTokens
      BY <2>4, CutsKeep, Widths DEF MaxTokens
    <3> QED BY <1>2, <2>2, <2>3, <2>4, <3>1, Widths DEF NumberIs
  <2>5. CASE r.max_tokens.is = "int" /\ r.max_tokens.num \in 0 .. U32Max
    <3>1. PICK k \in 0 .. U32Max : r.max_tokens.num = k
      BY <2>5
    <3>2. MaxTokens(r) = k
      BY <2>5, <3>1, CutsKeep, Widths DEF MaxTokens
    <3>3. NumberIs(r.max_tokens, Positive) <=> k * One > 0
      BY <2>5, <3>1 DEF NumberIs, IsNumber, AsF64, Positive
    <3>4. k * One > 0 <=> k # 0
      BY <3>1, Widths
    <3> QED BY <1>2, <2>2, <2>3, <3>2, <3>3, <3>4
  <2> QED BY <2>1, <2>4, <2>5 DEF Fits
<1>3. CASE rule = "top_k"
  <2>1. Fits(r.top_k, -(I32Max + 1) .. I32Max)
    BY <1>3 DEF Overlooked
  <2>2. Keeps(r, rule) <=> NumberIs(r.top_k, NotNegative)
    BY <1>3 DEF Keeps
  <2>3. Refused(r, rule) <=> TopK(r) < 0
    BY <1>3 DEF Refused, RefusedNumber
  <2>4. CASE r.top_k.is = "missing"
    <3>1. TopK(r) = 0
      BY <2>4, CutsKeep, Widths DEF TopK
    <3> QED BY <1>3, <2>2, <2>3, <2>4, <3>1 DEF NumberIs
  <2>5. CASE r.top_k.is = "int" /\ r.top_k.num \in -(I32Max + 1) .. I32Max
    <3>1. PICK k \in -(I32Max + 1) .. I32Max : r.top_k.num = k
      BY <2>5
    <3>2. TopK(r) = k
      BY <2>5, <3>1, CutsKeep, Widths DEF TopK
    <3>3. NumberIs(r.top_k, NotNegative) <=> k * One >= 0
      BY <2>5, <3>1 DEF NumberIs, IsNumber, AsF64, NotNegative
    <3>4. k * One >= 0 <=> k >= 0
      BY <3>1, Widths
    <3> QED BY <1>3, <2>2, <2>3, <3>1, <3>2, <3>3, <3>4, Widths
  <2> QED BY <2>1, <2>4, <2>5 DEF Fits
<1>4. CASE rule = "temperature"
  <2>1. FitsF32(r.temperature)
    BY <1>4 DEF Overlooked
  <2>2. Keeps(r, rule) <=> NumberIs(r.temperature, NotNegative)
    BY <1>4 DEF Keeps
  <2>3. Refused(r, rule) <=> Fraction(r.temperature) < 0
    BY <1>4 DEF Refused, RefusedNumber
  <2>4. PICK f \in Int :
          /\ Fraction(r.temperature) = f
          /\ IsNumber(r.temperature) => AsF64(r.temperature) = f
          /\ r.temperature.is = "missing" => f = One
    BY <1>0, <2>1, FractionAgrees
  <2>5. NumberIs(r.temperature, NotNegative) <=> f >= 0
    BY <2>1, <2>4, Widths DEF NumberIs, NotNegative, FitsF32
  <2> QED BY <1>4, <2>2, <2>3, <2>4, <2>5
<1>5. CASE rule = "top_p"
  <2>1. FitsF32(r.top_p)
    BY <1>5 DEF Overlooked
  <2>2. Keeps(r, rule) <=> NumberIs(r.top_p, Probability)
    BY <1>5 DEF Keeps
  <2>3. Refused(r, rule) <=> ~(0 < Fraction(r.top_p) /\ Fraction(r.top_p) <= One)
    BY <1>5 DEF Refused, RefusedNumber
  <2>4. PICK f \in Int :
          /\ Fraction(r.top_p) = f
          /\ IsNumber(r.top_p) => AsF64(r.top_p) = f
          /\ r.top_p.is = "missing" => f = One
    BY <1>0, <2>1, FractionAgrees
  <2>5. NumberIs(r.top_p, Probability) <=> 0 < f /\ f <= One
    BY <2>1, <2>4, Widths DEF NumberIs, Probability, FitsF32
  <2> QED BY <1>5, <2>2, <2>3, <2>4, <2>5
<1> QED BY <1>1, <1>2, <1>3, <1>4, <1>5 DEF Rules, Checks

(* The check that is named refuses; past all of them none does.            *)
LEMMA ParseRefusal ==
  ASSUME RefusalInv, ParseRequest
  PROVE  RefusalInv'
<1> USE DEF RefusalInv, CheckedInv, Places
<1>1. at = "request" /\ ctx' = ctx /\ request' = request /\ program' = program /\ answer = Open
  BY DEF ParseRequest
<1>2. CASE \A i \in DOMAIN Checks : ~Refused(request, Checks[i])
  <2>1. at' = "template" /\ answer' = Open
    BY <1>1, <1>2 DEF ParseRequest, Goes
  <2> QED BY <1>1, <1>2, <2>1 DEF AnsweredInv, Open
<1>3. CASE \E i \in DOMAIN Checks : Refused(request, Checks[i])
  <2>1. PICK k \in DOMAIN Checks :
          /\ Refused(request, Checks[k])
          /\ at' = "ended" /\ answer' = [status |-> "400", field |-> Checks[k]]
    BY <1>1, <1>3 DEF ParseRequest, Ends
  <2>2. CheckedInv'
    BY <1>1, <2>1
  <2>3. Checks[k] \in Rules
    BY DEF Rules
  <2>4. AnsweredInv'
    BY <1>1, <2>1, <2>3 DEF AnsweredInv
  <2> QED BY <2>2, <2>4
<1> QED BY <1>2, <1>3

(* A step past the checks: it ends in an answer that is neither 400 nor    *)
(* 200, or goes on to a place that claims no more.                         *)
LEMMA LaterRefusal ==
  ASSUME RefusalInv, at \notin {"request", "ended"},
         program' = program, request' = request,
         program = "server" =>
           /\ ctx' => request.chat_template_kwargs # "array"
           /\ at' \notin {"template", "generate", "answered", "calls"}
           /\ at' # "ended" => request.chat_template_kwargs # "array",
         \/ at' = "ended" /\ answer'.status \notin {"400", "200"}
         \/ at' \in Places \ {"request", "ended"} /\ answer' = Open
  PROVE  RefusalInv'
BY DEF RefusalInv, CheckedInv, AnsweredInv, Open, Places

LEMMA RefusalInit == Init => RefusalInv
BY RequestAssumption
DEF Init, RefusalInv, CheckedInv, AnsweredInv, Open, Places

LEMMA FailsRefusal ==
  ASSUME RefusalInv, at \notin {"request", "ended"}, Fails
  PROVE  RefusalInv'
<1>1. program = "server" /\ ctx => request.chat_template_kwargs # "array"
  BY DEF RefusalInv, AnsweredInv
<1>2. answer'.status \notin {"400", "200"} /\ at' = "ended"
  BY DEF Fails, Ends, Failure
<1>3. UNCHANGED <<program, request, ctx>>
  BY DEF Fails, input
<1> QED BY <1>1, <1>2, <1>3, LaterRefusal

LEMMA RefusalStep == RefusalInv /\ [Next]_vars => RefusalInv'
<1> SUFFICES ASSUME RefusalInv, [Next]_vars PROVE RefusalInv'
  OBVIOUS
<1>a. program = "server" /\ at \notin {"request", "template", "ended"} =>
        request.chat_template_kwargs # "array"
  BY DEF RefusalInv, CheckedInv
<1>b. program = "server" /\ ctx => request.chat_template_kwargs # "array"
  BY DEF RefusalInv, AnsweredInv
<1>c. at # "ended" => answer = Open
  BY DEF RefusalInv, CheckedInv
<1>d. program = "server" => at \notin {"answered", "calls"}
  BY DEF RefusalInv, CheckedInv
<1>1. CASE ParseRequest
  BY <1>1, ParseRefusal
<1>2. CASE ApplyTemplate
  <2>1. CASE Fails
    BY <1>2, <2>1, FailsRefusal DEF ApplyTemplate
  <2>2. CASE ~Fails
    <3>1. /\ at = "template" /\ at' = "prompt" /\ answer' = Open
          /\ UNCHANGED <<program, request, ctx>>
          /\ program = "server" => request.chat_template_kwargs # "array"
      BY <1>2, <1>c, <2>2 DEF ApplyTemplate, Goes, input
    <3> QED BY <3>1, LaterRefusal DEF Places
  <2> QED BY <2>1, <2>2
<1>3. CASE DecodePrompt
  <2>1. /\ at = "prompt" /\ UNCHANGED <<program, request>>
        /\ \/ at' = "preserved" /\ answer' = Open
           \/ at' = "ended" /\ answer'.status \notin {"400", "200"}
    BY <1>3, <1>c DEF DecodePrompt, Goes, Ends, Failure, input
  <2> QED BY <1>a, <2>1, LaterRefusal DEF Places
<1>4. CASE CollectPreserved
  <2>1. CASE Fails
    BY <1>4, <2>1, FailsRefusal DEF CollectPreserved
  <2>2. CASE ~Fails
    <3>1. /\ at = "preserved" /\ UNCHANGED <<program, request, ctx>>
          /\ \/ at' \in {"triggers", "grammar"} /\ answer' = Open
             \/ at' = "ended" /\ answer'.status \notin {"400", "200"}
      BY <1>4, <1>c, <2>2 DEF CollectPreserved, Goes, Ends, Refusal, input
    <3> QED BY <1>a, <1>b, <3>1, LaterRefusal DEF Places
  <2> QED BY <2>1, <2>2
<1>5. CASE LookAtTrigger
  <2>1. CASE Fails
    BY <1>5, <2>1, FailsRefusal DEF LookAtTrigger
  <2>2. CASE ~Fails
    <3>1. /\ at = "triggers" /\ UNCHANGED <<program, request, ctx>>
          /\ \/ at' \in {"triggers", "grammar"} /\ answer' = Open
             \/ at' = "ended" /\ answer'.status \notin {"400", "200"}
      BY <1>5, <1>c, <2>2 DEF LookAtTrigger, Goes, Ends, Refusal, input
    <3> QED BY <1>a, <1>b, <3>1, LaterRefusal DEF Places
  <2> QED BY <2>1, <2>2
<1>6. CASE InitGrammar
  <2>1. /\ at = "grammar" /\ UNCHANGED <<program, request, ctx>>
        /\ \/ at' = "chain" /\ answer' = Open
           \/ at' = "ended" /\ answer'.status \notin {"400", "200"}
    BY <1>6, <1>c DEF InitGrammar, Goes, Ends, input
  <2> QED BY <1>a, <1>b, <2>1, LaterRefusal DEF Places
<1>7. CASE BuildChain
  <2>1. /\ at = "chain" /\ UNCHANGED <<program, request, ctx>>
        /\ at' = (IF program = "server" THEN "stop" ELSE "generate") /\ answer' = Open
    BY <1>7, <1>c DEF BuildChain, Goes, input
  <2> QED BY <1>a, <1>b, <2>1, LaterRefusal DEF Places
<1>8. CASE CheckStop
  <2>1. Refused(request, "stop") =>
          answer' = [status |-> "400", field |-> "stop"] /\ at' = "ended"
    BY <1>8 DEF CheckStop, Ends
  <2>2. ~Refused(request, "stop") => answer' = Open /\ at' = "generate"
    BY <1>8, <1>c DEF CheckStop, Goes
  <2>3. at = "stop" /\ UNCHANGED <<program, request, ctx>>
    BY <1>8 DEF CheckStop, input
  <2>4. "stop" \in Rules
    BY DEF Rules
  <2> QED BY <2>1, <2>2, <2>3, <2>4
          DEF RefusalInv, CheckedInv, AnsweredInv, Open, Places
<1>9. CASE Generate
  <2>1. CASE Fails
    BY <1>9, <2>1, FailsRefusal DEF Generate
  <2>2. CASE ~Fails
    <3>1. at = "generate" /\ UNCHANGED <<program, request, ctx>>
      BY <1>9, <2>2 DEF Generate, input
    <3>2. \/ program # "server" /\ at' \in {"answered", "ended"} /\ (at' = "answered" => answer' = Open)
          \/ at' = "ended" /\ (program = "server" => answer' = [status |-> "200", field |-> None])
      BY <1>9, <1>c, <2>2, <3>1 DEF Generate, Goes, Ends
    <3> QED BY <3>1, <3>2 DEF RefusalInv, CheckedInv, AnsweredInv, Places
  <2> QED BY <2>1, <2>2
<1>10. CASE ReadCalls \/ AnswerCall \/ FollowUp
  <2>1. program # "server"
    BY <1>10, <1>d DEF ReadCalls, AnswerCall, FollowUp
  <2>2. /\ program' = program /\ at' \in Places /\ (at' # "ended" => answer' = Open)
    BY <1>10, <1>c DEF ReadCalls, AnswerCall, FollowUp, Fails, Goes, Ends, input, Places
  <2> QED BY <2>1, <2>2 DEF RefusalInv, CheckedInv, AnsweredInv
<1>11. CASE Done \/ UNCHANGED vars
  BY <1>11 DEF Done, vars, RefusalInv, CheckedInv, AnsweredInv, Places
<1> QED
  BY <1>1, <1>2, <1>3, <1>4, <1>5, <1>6, <1>7, <1>8, <1>9, <1>10, <1>11 DEF Next

(* Whatever the widths and the requests: no answer 200 and, but for a bad  *)
(* stop, no context for a request that breaks a rule of the messages, and a*)
(* 400 names a broken rule (main.rs:279-390, 543-555).  That the checks,   *)
(* made on cut and defaulted numbers, agree with the rules on the numbers  *)
(* as written is ChecksKeepRules.                                          *)
THEOREM RefusalsRight == Spec => []RefusalsAreRight
<1>1. Spec => []RefusalInv
  BY RefusalInit, RefusalStep, PTL DEF Spec
<1>2. RefusalInv => RefusalsAreRight
  <2> SUFFICES ASSUME RefusalInv, program = "server" PROVE RefusalsAreRight
    BY DEF RefusalsAreRight
  <2> DEFINE wrong == {rule \in Rules : ~Keeps(request, rule)} \ Overlooked(request)
  <2>1. request \in Request /\ AnsweredInv
    BY DEF RefusalInv, CheckedInv
  <2>2. ASSUME NEW rule \in wrong
        PROVE  \/ Refused(request, rule)
               \/ rule = "chat_template_kwargs" /\ request.chat_template_kwargs = "array"
    BY <2>1, <2>2, ChecksKeepRules
  <2>3. \A rule \in Rules : rule = "stop" \/ \E i \in DOMAIN Checks : rule = Checks[i]
    BY DEF Rules
  <2>4. answer.status = "200" => wrong = {}
    BY <2>1, <2>2, <2>3 DEF AnsweredInv
  <2>5. answer.status = "400" => answer.field \in wrong \cup Overlooked(request)
    BY <2>1, ChecksKeepRules DEF AnsweredInv
  <2>6. ctx => wrong \subseteq {"stop"}
    BY <2>1, <2>2, <2>3 DEF AnsweredInv
  <2>7. answer.status = "500" => wrong \subseteq {"stop", "chat_template_kwargs"}
    BY <2>1, <2>2, <2>3 DEF AnsweredInv
  <2> QED BY <2>4, <2>5, <2>6, <2>7 DEF RefusalsAreRight
<1> QED BY <1>1, <1>2, PTL

-----------------------------------------------------------------------------
(* The numbers: past the checks they are those of Params, none of which a  *)
(* check refused, and the chain ends in the samplers they ask for.         *)

NumbersInv ==
  program = "server" =>
    /\ at \notin {"request", "ended"} => params = Params(request)
    /\ at = "chain" => chain \in {<<>>, <<"grammar">>}
    /\ at \in {"stop", "generate"} =>
         \E begin \in {<<>>, <<"grammar">>} : chain = begin \o Samplers(params)

LEMMA NumbersInit == Init => NumbersInv
BY DEF Init, NumbersInv

LEMMA NumbersStep == RefusalInv /\ NumbersInv /\ [Next]_vars => NumbersInv'
<1> SUFFICES ASSUME RefusalInv, NumbersInv, [Next]_vars, program' = "server"
             PROVE  NumbersInv'
  BY DEF NumbersInv
<1> USE DEF NumbersInv
<1>a. program = "server" => at \notin {"answered", "calls"}
  BY DEF RefusalInv, CheckedInv
<1>1. CASE ParseRequest
  BY <1>1 DEF ParseRequest, Goes, Ends
<1>2. CASE \/ ApplyTemplate \/ DecodePrompt \/ CollectPreserved \/ LookAtTrigger
  <2>1. /\ UNCHANGED <<program, request, params>>
        /\ at \in {"template", "prompt", "preserved", "triggers"}
        /\ at' \in {"prompt", "preserved", "triggers", "grammar", "ended"}
    BY <1>2 DEF ApplyTemplate, DecodePrompt, CollectPreserved, LookAtTrigger, Fails,
                Goes, Ends, input
  <2> QED BY <2>1
<1>3. CASE InitGrammar
  BY <1>3 DEF InitGrammar, Goes, Ends, input
<1>4. CASE BuildChain
  BY <1>4 DEF BuildChain, Goes, input
<1>5. CASE CheckStop
  BY <1>5 DEF CheckStop, Goes, Ends, input, setup
<1>6. CASE Generate
  BY <1>6 DEF Generate, Fails, Goes, Ends, input
<1>7. CASE ReadCalls \/ AnswerCall \/ FollowUp
  BY <1>7, <1>a DEF ReadCalls, AnswerCall, FollowUp, Fails, input
<1>8. CASE Done \/ UNCHANGED vars
  BY <1>8 DEF Done, vars
<1> QED BY <1>1, <1>2, <1>3, <1>4, <1>5, <1>6, <1>7, <1>8 DEF Next

LEMMA ModuloRange ==
  ASSUME NEW k \in Nat \ {0}, NEW n \in Int
  PROVE  n % k \in 0 .. k - 1
OBVIOUS

(* Whatever is read, what it is cut to is a number of 32 bits.             *)
LEMMA CutRanges ==
  ASSUME NEW r \in Request
  PROVE  /\ MaxTokens(r) \in 0 .. U32Max
         /\ TopK(r) \in -(I32Max + 1) .. I32Max
         /\ Fraction(r.temperature) \in Int /\ Fraction(r.top_p) \in Int
<1>0. /\ r.max_tokens \in Number /\ r.temperature \in Number
      /\ r.top_p \in Number /\ r.top_k \in Number
  BY DEF Request
<1>1. U32Max + 1 \in Nat \ {0}
  BY Widths
<1>2. \A n \in Int : n % (U32Max + 1) \in 0 .. U32Max
  <2> SUFFICES ASSUME NEW n \in Int PROVE n % (U32Max + 1) \in 0 .. U32Max
    OBVIOUS
  <2>1. n % (U32Max + 1) \in 0 .. (U32Max + 1) - 1
    BY <1>1, ModuloRange
  <2> QED BY <2>1, Widths
<1>3. MaxTokens(r) \in 0 .. U32Max
  <2>1. PICK n \in Int : MaxTokens(r) = CutToU32(n)
    BY <1>0, NumberValues, Widths DEF MaxTokens
  <2> QED BY <1>2, <2>1 DEF CutToU32
<1>4. TopK(r) \in -(I32Max + 1) .. I32Max
  <2>1. PICK n \in Int : TopK(r) = CutToI32(n)
    BY <1>0, NumberValues, Widths DEF TopK
  <2>2. n + I32Max + 1 \in Int
    BY Widths
  <2>3. PICK m \in 0 .. U32Max : m = (n + I32Max + 1) % (U32Max + 1)
    BY <1>2, <2>2
  <2>4. TopK(r) = m - (I32Max + 1)
    BY <2>1, <2>3 DEF CutToI32
  <2> QED BY <2>4, Widths
<1>5. \A v \in Int : ToF32(v) \in Int
  BY DEF ToF32
<1>6. ASSUME NEW n \in Number PROVE Fraction(n) \in Int
  <2>1. (IF IsNumber(n) THEN AsF64(n) ELSE One) \in Int
    BY NumberValues, Widths
  <2> QED BY <1>5, <2>1 DEF Fraction
<1> QED BY <1>0, <1>3, <1>4, <1>6

(* A number that fits is the one that is used.                             *)
LEMMA UsedAsAsked ==
  ASSUME NEW r \in Request
  PROVE  /\ IsNumber(r.max_tokens) /\ "max_tokens" \notin Overlooked(r) =>
              MaxTokens(r) = r.max_tokens.num
         /\ IsNumber(r.top_k) /\ "top_k" \notin Overlooked(r) => TopK(r) = r.top_k.num
         /\ IsNumber(r.temperature) /\ "temperature" \notin Overlooked(r) =>
              Fraction(r.temperature) = AsF64(r.temperature)
         /\ IsNumber(r.top_p) /\ "top_p" \notin Overlooked(r) =>
              Fraction(r.top_p) = AsF64(r.top_p)
<1>0. /\ r.max_tokens \in Number /\ r.temperature \in Number
      /\ r.top_p \in Number /\ r.top_k \in Number
  BY DEF Request
<1>r. {"max_tokens", "temperature", "top_p", "top_k"} \subseteq Rules
  BY DEF Rules, Checks
<1>1. ASSUME IsNumber(r.max_tokens), "max_tokens" \notin Overlooked(r)
      PROVE  MaxTokens(r) = r.max_tokens.num
  <2>1. r.max_tokens.is = "int" /\ r.max_tokens.num \in 0 .. U32Max
    BY <1>1, <1>r DEF Overlooked, Fits, IsNumber
  <2> QED BY <2>1, CutsKeep, Widths DEF MaxTokens
<1>2. ASSUME IsNumber(r.top_k), "top_k" \notin Overlooked(r)
      PROVE  TopK(r) = r.top_k.num
  <2>1. r.top_k.is = "int" /\ r.top_k.num \in -(I32Max + 1) .. I32Max
    BY <1>2, <1>r DEF Overlooked, Fits, IsNumber
  <2>2. r.top_k.num <= I64Max
    BY <2>1, Widths
  <2> QED BY <2>1, <2>2, CutsKeep DEF TopK
<1>3. ASSUME IsNumber(r.temperature), "temperature" \notin Overlooked(r)
      PROVE  Fraction(r.temperature) = AsF64(r.temperature)
  <2>1. FitsF32(r.temperature)
    BY <1>3, <1>r DEF Overlooked
  <2> QED BY <1>0, <1>3, <2>1, FractionAgrees
<1>4. ASSUME IsNumber(r.top_p), "top_p" \notin Overlooked(r)
      PROVE  Fraction(r.top_p) = AsF64(r.top_p)
  <2>1. FitsF32(r.top_p)
    BY <1>4, <1>r DEF Overlooked
  <2> QED BY <1>0, <1>4, <2>1, FractionAgrees
<1> QED BY <1>1, <1>2, <1>3, <1>4

(* Which samplers a chain holds.                                           *)
Links == {"grammar", "greedy", "temp", "top_k", "top_p", "dist"}
Holds(s, link) == \E i \in DOMAIN s : s[i] = link

LEMMA HoldsFacts ==
  /\ \A x : ~Holds(<<>>, x)
  /\ \A x, y : Holds(<<y>>, x) <=> x = y
  /\ \A s, u \in Seq(Links) : \A x : Holds(s \o u, x) <=> Holds(s, x) \/ Holds(u, x)
<1>1. \A x : ~Holds(<<>>, x)
  BY DEF Holds
<1>2. \A x, y : Holds(<<y>>, x) <=> x = y
  BY DEF Holds
<1>3. ASSUME NEW s \in Seq(Links), NEW u \in Seq(Links), NEW x
      PROVE  Holds(s \o u, x) <=> Holds(s, x) \/ Holds(u, x)
  <2>1. ASSUME Holds(s, x) PROVE Holds(s \o u, x)
    <3>1. PICK i \in 1 .. Len(s) : s[i] = x
      BY <2>1 DEF Holds
    <3>2. i \in DOMAIN (s \o u) /\ (s \o u)[i] = x
      BY <3>1
    <3> QED BY <3>2 DEF Holds
  <2>2. ASSUME Holds(u, x) PROVE Holds(s \o u, x)
    <3>1. PICK i \in 1 .. Len(u) : u[i] = x
      BY <2>2 DEF Holds
    <3>2. Len(s) + i \in DOMAIN (s \o u) /\ (s \o u)[Len(s) + i] = x
      BY <3>1
    <3> QED BY <3>2 DEF Holds
  <2>3. ASSUME Holds(s \o u, x) PROVE Holds(s, x) \/ Holds(u, x)
    <3>1. PICK i \in 1 .. Len(s) + Len(u) : (s \o u)[i] = x
      BY <2>3 DEF Holds
    <3>2. CASE i <= Len(s)
      <4>1. i \in DOMAIN s /\ s[i] = x
        BY <3>1, <3>2
      <4> QED BY <4>1 DEF Holds
    <3>3. CASE i > Len(s)
      <4>1. i - Len(s) \in DOMAIN u /\ u[i - Len(s)] = x
        BY <3>1, <3>3
      <4> QED BY <4>1 DEF Holds
    <3> QED BY <3>1, <3>2, <3>3
  <2> QED BY <2>1, <2>2, <2>3
<1> QED BY <1>1, <1>2, <1>3

LEMMA ChainHolds ==
  ASSUME NEW p, NEW begin \in {<<>>, <<"grammar">>}
  PROVE  /\ Holds(begin \o Samplers(p), "greedy") <=> ~(p.temperature > 0)
         /\ Holds(begin \o Samplers(p), "dist") <=> p.temperature > 0
         /\ Holds(begin \o Samplers(p), "top_k") <=> p.temperature > 0 /\ p.top_k > 0
         /\ Holds(begin \o Samplers(p), "top_p") <=> p.temperature > 0 /\ p.top_p < One
<1>1. /\ <<>> \in Seq(Links) /\ <<"top_k">> \in Seq(Links) /\ <<"top_p">> \in Seq(Links)
      /\ <<"temp">> \in Seq(Links) /\ <<"dist">> \in Seq(Links)
      /\ <<"greedy">> \in Seq(Links) /\ <<"grammar">> \in Seq(Links)
  BY DEF Links
<1>2. PICK topK \in Seq(Links) :
        /\ topK = (IF p.top_k > 0 THEN <<"top_k">> ELSE <<>>)
        /\ \A x : Holds(topK, x) <=> p.top_k > 0 /\ x = "top_k"
  BY <1>1, HoldsFacts, Zenon
<1>3. PICK topP \in Seq(Links) :
        /\ topP = (IF p.top_p < One THEN <<"top_p">> ELSE <<>>)
        /\ \A x : Holds(topP, x) <=> p.top_p < One /\ x = "top_p"
  BY <1>1, HoldsFacts, Zenon
<1>4. PICK u \in Seq(Links) :
        /\ u = Samplers(p)
        /\ \A x : Holds(u, x) <=> IF p.temperature > 0
                                  THEN x \in {"temp", "dist"} \/ Holds(topK, x) \/ Holds(topP, x)
                                  ELSE x = "greedy"
  <2>1. <<"temp">> \o topK \in Seq(Links) /\ <<"temp">> \o topK \o topP \in Seq(Links)
        /\ <<"temp">> \o topK \o topP \o <<"dist">> \in Seq(Links)
    BY <1>1
  <2>2. \A x : Holds(<<"temp">> \o topK \o topP \o <<"dist">>, x) <=>
                 x \in {"temp", "dist"} \/ Holds(topK, x) \/ Holds(topP, x)
    <3>1. \A x : Holds(<<"temp">> \o topK, x) <=> x = "temp" \/ Holds(topK, x)
      BY ONLY <1>1, HoldsFacts, Zenon
    <3>2. \A x : Holds(<<"temp">> \o topK \o topP, x) <=>
                   x = "temp" \/ Holds(topK, x) \/ Holds(topP, x)
      BY ONLY <2>1, <3>1, HoldsFacts, Zenon
    <3>3. \A x : Holds(<<"temp">> \o topK \o topP \o <<"dist">>, x) <=>
                   Holds(<<"temp">> \o topK \o topP, x) \/ x = "dist"
      <4>1. \A s \in Seq(Links) : \A x :
              Holds(s \o <<"dist">>, x) <=> Holds(s, x) \/ x = "dist"
        BY ONLY <1>1, HoldsFacts, Zenon
      <4> QED BY ONLY <2>1, <4>1, Zenon
    <3> QED BY ONLY <3>2, <3>3
  <2>3. Samplers(p) = IF p.temperature > 0 THEN <<"temp">> \o topK \o topP \o <<"dist">>
                                           ELSE <<"greedy">>
    BY ONLY <1>2, <1>3, Zenon DEF Samplers
  <2>4. CASE p.temperature > 0
    BY <2>1, <2>2, <2>3, <2>4
  <2>5. CASE ~(p.temperature > 0)
    BY <1>1, <2>3, <2>5, HoldsFacts
  <2> QED BY <2>4, <2>5
<1>5. begin \in Seq(Links) /\ \A x : Holds(begin, x) => x = "grammar"
  BY <1>1, HoldsFacts, Zenon
<1>6. \A x : Holds(begin \o u, x) <=> Holds(begin, x) \/ Holds(u, x)
  BY <1>5, HoldsFacts
<1>7. \A x \in {"greedy", "dist", "top_k", "top_p"} :
        Holds(begin \o Samplers(p), x) <=> Holds(u, x)
  BY <1>4, <1>5, <1>6
<1> QED BY <1>2, <1>3, <1>4, <1>7

(* Whatever numbers a request holds, of any widths: those that get past the*)
(* checks can be used, a number that fits is used as it was written, and   *)
(* the chain is the one the numbers ask for (main.rs:262-277, 367-389).    *)
THEOREM NumbersRight == Spec => []NumbersAreUsable
<1>1. Spec => []RefusalInv
  BY RefusalInit, RefusalStep, PTL DEF Spec
<1>2. Spec => []NumbersInv
  BY <1>1, NumbersInit, NumbersStep, PTL DEF Spec
<1>3. RefusalInv /\ NumbersInv => NumbersAreUsable
  <2> SUFFICES ASSUME RefusalInv, NumbersInv, program = "server", at \notin {"request", "ended"}
               PROVE  NumbersAreUsable
    BY DEF NumbersAreUsable
  <2>1. request \in Request /\ \A i \in DOMAIN Checks : ~Refused(request, Checks[i])
    BY DEF RefusalInv, CheckedInv
  <2>2. /\ params.max_tokens = MaxTokens(request)
        /\ params.temperature = Fraction(request.temperature)
        /\ params.top_p = Fraction(request.top_p)
        /\ params.top_k = TopK(request)
    BY DEF NumbersInv, Params
  <2>3. /\ ~Refused(request, "max_tokens") /\ ~Refused(request, "temperature")
        /\ ~Refused(request, "top_p") /\ ~Refused(request, "top_k")
    <3>1. Checks[13] = "max_tokens" /\ Checks[14] = "temperature"
          /\ Checks[15] = "top_p" /\ Checks[16] = "top_k" /\ 13 .. 16 \subseteq DOMAIN Checks
      BY DEF Checks
    <3> QED BY <2>1, <3>1
  <2>4. /\ MaxTokens(request) # 0 /\ ~(Fraction(request.temperature) < 0)
        /\ 0 < Fraction(request.top_p) /\ Fraction(request.top_p) <= One
        /\ ~(TopK(request) < 0)
    BY <2>3 DEF Refused, RefusedNumber
  <2>5. /\ params.max_tokens \in 1 .. U32Max /\ params.temperature >= 0
        /\ Probability(params.top_p) /\ params.top_k \in 0 .. I32Max
    BY <2>1, <2>2, <2>4, CutRanges, Widths DEF Probability
  <2>6. /\ Asked("max_tokens") => params.max_tokens = request.max_tokens.num
        /\ Asked("top_k") => params.top_k = request.top_k.num
        /\ Asked("temperature") => params.temperature = AsF64(request.temperature)
        /\ Asked("top_p") => params.top_p = AsF64(request.top_p)
    BY ONLY <2>1, <2>2, UsedAsAsked DEF Asked
  <2>7. ASSUME at \in {"stop", "generate"}, Asked("temperature"), Asked("top_k"), Asked("top_p")
        PROVE  /\ InChain("greedy") <=> request.temperature.num = 0
               /\ InChain("dist") <=> ~InChain("greedy")
               /\ InChain("top_k") <=> InChain("dist") /\ request.top_k.num > 0
               /\ InChain("top_p") <=> InChain("dist") /\ AsF64(request.top_p) < One
    <3>1. PICK begin \in {<<>>, <<"grammar">>} : chain = begin \o Samplers(params)
      BY <2>7 DEF NumbersInv
    <3>2. /\ InChain("greedy") <=> ~(params.temperature > 0)
          /\ InChain("dist") <=> params.temperature > 0
          /\ InChain("top_k") <=> params.temperature > 0 /\ params.top_k > 0
          /\ InChain("top_p") <=> params.temperature > 0 /\ params.top_p < One
      BY <3>1, ChainHolds DEF Holds, InChain
    <3>3. params.temperature > 0 <=> request.temperature.num # 0
      <4>1. PICK n \in Int : n = request.temperature.num
        BY <2>1, NumberValues DEF Request
      <4>2. params.temperature = n \/ params.temperature = n * One
        BY ONLY <2>6, <2>7, <4>1 DEF AsF64
      <4>3. n * One = 0 <=> n = 0
        BY Widths
      <4>4. n * One \in Int
        BY Widths
      <4> QED BY <2>5, <4>1, <4>2, <4>3, <4>4
    <3> QED BY <2>6, <2>7, <3>2, <3>3
  <2> QED BY ONLY <2>5, <2>6, <2>7, Zenon DEF NumbersAreUsable
<1> QED BY <1>1, <1>2, <1>3, PTL

-----------------------------------------------------------------------------
(* The grammar: every trigger below next is armed, all of them once the    *)
(* grammar is made, and the chain then begins with it.                     *)

Armed(t) ==
  CASE t.type = "token" -> t.token \in armed.tokens
    [] t.type = "word" ->
         IF Single(t.value) THEN TokensOf[t.value][1] \in armed.tokens \cap preserved
                            ELSE Exactly(t.value) \in armed.patterns
    [] OTHER -> \E p \in armed.patterns :
         /\ p.value = t.value /\ ~p.quoted
         /\ t.type = "pattern_full" => p.full \/ t.value \in QuotedDollar

Patterns == [value : Words, quoted : BOOLEAN, full : BOOLEAN]
SetUp == {"preserved", "triggers", "grammar", "chain", "stop", "generate"}

TypeInv ==
  /\ at \in Places
  /\ result.triggers \in Seq(Trigger)
  /\ next \in Nat \ {0}
  /\ armed \in [tokens : SUBSET Tokens, patterns : SUBSET Patterns]
  /\ chain \in Seq(Links)

LazyHasTriggers ==
  at \in {"triggers", "grammar", "chain", "stop", "generate"}
    /\ result.grammar # "absent" /\ result.lazy => result.triggers # <<>>

ArmedInv ==
  /\ TypeInv
  /\ at \in {"request", "template", "prompt", "preserved"} => next = 1
  /\ LazyHasTriggers
  /\ at = "triggers" =>
       \A i \in DOMAIN result.triggers : i < next => Armed(result.triggers[i])
  /\ at \in {"grammar", "chain", "stop", "generate"} /\ result.grammar # "absent"
       /\ result.lazy => \A i \in DOMAIN result.triggers : Armed(result.triggers[i])
  /\ at \in {"chain", "stop", "generate"} /\ result.grammar # "absent" =>
       \/ chain # <<>> /\ chain[1] = "grammar"
       \/ program # "server" /\ result.grammar # "good"

LEMMA ArmedInit == Init => ArmedInv
BY RequestAssumption DEF Init, ArmedInv, LazyHasTriggers, TypeInv, NoTemplate, Places

LEMMA TemplateTriggers == \A r \in Template : r.triggers \in Seq(Trigger)
<1> SUFFICES ASSUME NEW r \in Template PROVE r.triggers \in Seq(Trigger)
  OBVIOUS
<1>1. PICK n \in 0 .. MaxTriggers : r.triggers \in [1 .. n -> Trigger]
  BY DEF Template
<1> QED BY <1>1, RequestAssumption

(* What Arm adds arms the trigger, and what was armed stays so.            *)
LEMMA ArmArms ==
  ASSUME TypeInv, NEW t \in Trigger, armed' = Arm(t), preserved' = preserved,
         ~Unpreserved(t), ~(t.type = "word" /\ TokensOf[t.value] = None)
  PROVE  /\ armed' \in [tokens : SUBSET Tokens, patterns : SUBSET Patterns]
         /\ armed.tokens \subseteq armed'.tokens
         /\ armed.patterns \subseteq armed'.patterns
         /\ Armed(t)'
<1> USE DEF TypeInv
<1>a. armed = [tokens |-> armed.tokens, patterns |-> armed.patterns]
  OBVIOUS
<1>b. ASSUME NEW ts \in SUBSET Tokens
      PROVE  AddTokens(ts) = [tokens |-> armed.tokens \cup ts, patterns |-> armed.patterns]
  BY ONLY <1>a DEF AddTokens
<1>c. ASSUME NEW p \in Patterns
      PROVE  AddPattern(p) = [tokens |-> armed.tokens, patterns |-> armed.patterns \cup {p}]
  BY ONLY <1>a DEF AddPattern
<1>1. /\ \A ts \in SUBSET Tokens :
           AddTokens(ts) = [tokens |-> armed.tokens \cup ts, patterns |-> armed.patterns]
      /\ \A p \in Patterns :
           AddPattern(p) = [tokens |-> armed.tokens, patterns |-> armed.patterns \cup {p}]
  BY ONLY <1>b, <1>c, Zenon
<1>2. CASE t.type = "token"
  <2>1. {t.token} \subseteq Tokens
    BY <1>2 DEF Trigger
  <2>2. Arm(t) = AddTokens({t.token})
    BY <1>2 DEF Arm
  <2> QED BY <1>1, <1>2, <2>1, <2>2 DEF Armed
<1>3. CASE t.type = "word" /\ Single(t.value)
  <2>1. TokensOf[t.value][1] \in Tokens /\ TokensOf[t.value][1] \in preserved
    BY <1>3, RequestAssumption DEF Trigger, Single, Unpreserved
  <2>2. Arm(t) = AddTokens({TokensOf[t.value][1]})
    BY <1>3 DEF Arm
  <2>3. armed' = [tokens |-> armed.tokens \cup {TokensOf[t.value][1]},
                  patterns |-> armed.patterns]
    BY <1>1, <2>1, <2>2
  <2> QED BY <1>3, <2>1, <2>3 DEF Armed
<1>4. CASE t.type = "word" /\ ~Single(t.value)
  <2>1. Exactly(t.value) \in Patterns
    BY <1>4 DEF Trigger, Exactly, Patterns
  <2>2. Arm(t) = AddPattern(Exactly(t.value))
    BY <1>4 DEF Arm
  <2>3. armed' = [tokens |-> armed.tokens, patterns |-> armed.patterns \cup {Exactly(t.value)}]
    BY <1>1, <2>1, <2>2
  <2> QED BY <1>4, <2>1, <2>3 DEF Armed
<1>5. CASE t.type \in {"pattern", "pattern_full"}
  <2> DEFINE p == IF t.type = "pattern" THEN Pattern(t.value) ELSE Anchored(t.value)
  <2>1. /\ p \in Patterns /\ p.value = t.value /\ ~p.quoted
        /\ t.type = "pattern_full" => p.full \/ t.value \in QuotedDollar
    BY <1>5 DEF Trigger, Pattern, Anchored, Patterns
  <2>2. Arm(t) = AddPattern(p)
    BY <1>5 DEF Arm
  <2> HIDE DEF p
  <2>3. armed' = [tokens |-> armed.tokens, patterns |-> armed.patterns \cup {p}]
    BY <1>1, <2>1, <2>2
  <2> QED BY <1>5, <2>1, <2>3 DEF Armed
<1> QED BY <1>2, <1>3, <1>4, <1>5 DEF Trigger

LEMMA StaysArmed ==
  ASSUME NEW t \in Trigger, Armed(t), preserved' = preserved,
         armed.tokens \subseteq armed'.tokens, armed.patterns \subseteq armed'.patterns
  PROVE  Armed(t)'
BY DEF Armed

(* A step that ends the request or leaves for a place outside the set-up.  *)
LEMMA ArmedElsewhere ==
  ASSUME ArmedInv, UNCHANGED <<next, armed, chain>>, result'.triggers \in Seq(Trigger),
         \/ at' \in Places \ (SetUp \cup {"request", "template", "prompt"})
         \/ at' \in Places \ (SetUp \ {"preserved"}) /\ next = 1
  PROVE  ArmedInv'
BY DEF ArmedInv, LazyHasTriggers, TypeInv, SetUp, Places

LEMMA ArmedFails ==
  ASSUME ArmedInv, Fails
  PROVE  ArmedInv'
BY ArmedElsewhere DEF Fails, Ends, setup, ArmedInv, TypeInv, SetUp, Places

LEMMA TriggerArmed ==
  ASSUME ArmedInv, LookAtTrigger
  PROVE  ArmedInv'
<1>1. at = "triggers"
  BY DEF LookAtTrigger
<1>2. CASE Fails
  BY <1>2, ArmedFails
<1>3. CASE next > Len(result.triggers) /\ at' = "grammar" /\ UNCHANGED <<program, result, setup>>
  <2>1. \A i \in DOMAIN result.triggers : Armed(result.triggers[i])
    BY <1>1, <1>3 DEF ArmedInv, TypeInv
  <2>2. \A i \in DOMAIN result.triggers : Armed(result.triggers[i])'
    BY <1>3, <2>1 DEF Armed, setup
  <2>3. LazyHasTriggers'
    BY <1>1, <1>3 DEF ArmedInv, LazyHasTriggers
  <2> QED BY <1>3, <2>2, <2>3 DEF ArmedInv, TypeInv, Places, setup
<1>4. CASE at' = "ended" /\ UNCHANGED <<result, setup>>
  BY <1>4, ArmedElsewhere DEF setup, ArmedInv, TypeInv, SetUp, Places
<1>5. CASE /\ next <= Len(result.triggers)
           /\ ~Unpreserved(result.triggers[next])
           /\ ~(result.triggers[next].type = "word"
                  /\ TokensOf[result.triggers[next].value] = None)
           /\ armed' = Arm(result.triggers[next]) /\ next' = next + 1
           /\ at' = "triggers"
           /\ UNCHANGED <<program, result, preserved, chain>>
  <2>1. PICK t \in Trigger : t = result.triggers[next]
    BY <1>5 DEF ArmedInv, TypeInv
  <2>2. TypeInv
    BY DEF ArmedInv
  <2>3. /\ armed' \in [tokens : SUBSET Tokens, patterns : SUBSET Patterns]
        /\ armed.tokens \subseteq armed'.tokens
        /\ armed.patterns \subseteq armed'.patterns
        /\ Armed(t)'
    BY <1>5, <2>1, <2>2, ArmArms
  <2>4. TypeInv'
    BY <1>5, <2>2, <2>3 DEF TypeInv, Places
  <2>5. ASSUME NEW i \in DOMAIN result'.triggers, i < next'
        PROVE  Armed(result.triggers[i])'
    <3>1. PICK u \in Trigger : u = result.triggers[i] /\ (i < next => Armed(u))
      <4>1. i \in DOMAIN result.triggers
        BY <1>5, <2>5
      <4> QED BY <1>1, <4>1, <2>2 DEF ArmedInv, TypeInv
    <3>2. i < next \/ u = t
      <4>1. i \in DOMAIN result.triggers
        BY <1>5, <2>5
      <4> QED BY <1>5, <2>1, <2>2, <2>5, <3>1, <4>1 DEF TypeInv
    <3>3. Armed(u)'
      BY <1>5, <2>3, <3>1, <3>2, StaysArmed
    <3>4. result'.triggers[i] = u
      BY <1>5, <3>1
    <3> QED BY <3>3, <3>4 DEF Armed
  <2>6. LazyHasTriggers'
    BY <1>1, <1>5 DEF ArmedInv, LazyHasTriggers
  <2> QED BY <1>5, <2>4, <2>5, <2>6 DEF ArmedInv
<1> QED BY <1>1, <1>2, <1>3, <1>4, <1>5 DEF LookAtTrigger, Goes, Ends, input

(* A chain that is made longer begins as before.                           *)
LEMMA LongerBegins ==
  ASSUME NEW s \in Seq(Links), NEW u \in Seq(Links)
  PROVE  s \o u \in Seq(Links) /\ (s # <<>> => s \o u # <<>> /\ (s \o u)[1] = s[1])
OBVIOUS

LEMMA SamplersAreLinks == \A p : Samplers(p) \in Seq(Links)
<1> SUFFICES ASSUME NEW p PROVE Samplers(p) \in Seq(Links)
  OBVIOUS
<1>1. /\ <<>> \in Seq(Links) /\ <<"top_k">> \in Seq(Links) /\ <<"top_p">> \in Seq(Links)
      /\ <<"temp">> \in Seq(Links) /\ <<"dist">> \in Seq(Links) /\ <<"greedy">> \in Seq(Links)
  BY DEF Links
<1>2. PICK topK \in Seq(Links) : topK = (IF p.top_k > 0 THEN <<"top_k">> ELSE <<>>)
  BY ONLY <1>1, Zenon
<1>3. PICK topP \in Seq(Links) : topP = (IF p.top_p < One THEN <<"top_p">> ELSE <<>>)
  BY ONLY <1>1, Zenon
<1>4. <<"temp">> \o topK \o topP \o <<"dist">> \in Seq(Links)
  BY <1>1
<1>5. Samplers(p) = IF p.temperature > 0 THEN <<"temp">> \o topK \o topP \o <<"dist">>
                                         ELSE <<"greedy">>
  BY ONLY <1>2, <1>3, Zenon DEF Samplers
<1> QED BY ONLY <1>1, <1>4, <1>5, Zenon

(* A request stays what was sent.                                          *)
SentInv == request \in Requests \cup {None}

LEMMA SentStep == SentInv /\ [Next]_vars => SentInv'
<1>1. [Next]_vars => UNCHANGED request
  BY DEF Next, vars, input, ParseRequest, ApplyTemplate, DecodePrompt, CollectPreserved,
     LookAtTrigger, InitGrammar, BuildChain, CheckStop, Generate, ReadCalls, AnswerCall,
     FollowUp, Done, Fails
<1> QED BY <1>1 DEF SentInv

LEMMA ArmedStep == SentInv /\ ArmedInv /\ [Next]_vars => ArmedInv'
<1> SUFFICES ASSUME SentInv, ArmedInv, [Next]_vars PROVE ArmedInv'
  OBVIOUS
<1> USE DEF TypeInv, SetUp, Places, LazyHasTriggers
<1>1. CASE ParseRequest
  BY <1>1, ArmedElsewhere DEF ParseRequest, Goes, Ends, setup, ArmedInv
<1>2. CASE ApplyTemplate
  <2>1. CASE Fails
    BY <2>1, ArmedFails
  <2>2. CASE ~Fails
    <3>1. /\ at = "template" /\ result' \in Rendered(request)
          /\ at' = "prompt" /\ UNCHANGED setup
      BY <1>2, <2>2 DEF ApplyTemplate, Goes
    <3>2. result' \in Template
      BY <3>1, RequestAssumption DEF SentInv
    <3> QED BY <3>1, <3>2, TemplateTriggers, ArmedElsewhere DEF setup, ArmedInv
  <2> QED BY <2>1, <2>2
<1>3. CASE DecodePrompt
  <2>1. at = "prompt" /\ at' \in {"preserved", "ended"} /\ UNCHANGED <<result, setup>>
    BY <1>3 DEF DecodePrompt, Goes, Ends
  <2> QED BY <2>1 DEF setup, ArmedInv
<1>4. CASE CollectPreserved
  <2>1. CASE Fails
    BY <2>1, ArmedFails
  <2>2. CASE ~Fails
    <3>1. /\ at = "preserved" /\ UNCHANGED <<result, next, armed, chain, program>>
          /\ IF result.grammar # "absent" /\ result.lazy
             THEN at' = "ended" \/ (at' = "triggers" /\ result.triggers # <<>>)
             ELSE at' = "grammar"
      BY <1>4, <2>2 DEF CollectPreserved, Goes, Ends, input
    <3>2. LazyHasTriggers'
      BY <3>1 DEF LazyHasTriggers
    <3> QED BY <3>1, <3>2 DEF ArmedInv
  <2> QED BY <2>1, <2>2
<1>5. CASE LookAtTrigger
  BY <1>5, TriggerArmed
<1>6. CASE InitGrammar
  <2>1. /\ at = "grammar" /\ UNCHANGED <<program, result, preserved, next, armed>>
        /\ at' \in {"chain", "ended"}
        /\ \/ result.grammar = "absent" /\ chain' = <<>>
           \/ result.grammar = "good" /\ chain' = <<"grammar">>
           \/ /\ result.grammar # "good" /\ chain' = <<>>
              /\ program = "server" => at' = "ended"
    BY <1>6 DEF InitGrammar, Goes, Ends, input
  <2>2. \A i \in DOMAIN result.triggers :
          Armed(result.triggers[i]) => Armed(result.triggers[i])'
    BY <2>1 DEF Armed
  <2>3. /\ chain' \in Seq(Links)
        /\ result.grammar = "good" => chain' # <<>> /\ chain'[1] = "grammar"
    <3>1. <<>> \in Seq(Links) /\ <<"grammar">> \in Seq(Links)
      BY DEF Links
    <3>2. <<"grammar">> # <<>> /\ <<"grammar">>[1] = "grammar"
      OBVIOUS
    <3>3. CASE chain' = <<>> /\ result.grammar # "good"
      BY ONLY <3>1, <3>3, Zenon
    <3>4. CASE chain' = <<"grammar">>
      BY ONLY <3>1, <3>2, <3>4, Zenon
    <3> QED BY <2>1, <3>3, <3>4
  <2> QED BY <2>1, <2>2, <2>3 DEF ArmedInv
<1>7. CASE BuildChain
  <2>1. /\ at = "chain" /\ at' \in {"stop", "generate"}
        /\ UNCHANGED <<program, result, preserved, next, armed>>
    BY <1>7 DEF BuildChain, Goes, input
  <2>2. \A i \in DOMAIN result.triggers :
          Armed(result.triggers[i]) => Armed(result.triggers[i])'
    BY <2>1 DEF Armed
  <2>3. chain \in Seq(Links)
    BY DEF ArmedInv
  <2>4. chain' \in Seq(Links) /\ (chain # <<>> => chain' # <<>> /\ chain'[1] = chain[1])
    <3>1. chain' = chain \o Samplers(params)
      BY <1>7 DEF BuildChain
    <3> QED BY <2>3, <3>1, SamplersAreLinks, LongerBegins
  <2> QED BY <2>1, <2>2, <2>4 DEF ArmedInv
<1>8. CASE CheckStop
  <2>1. /\ at = "stop" /\ at' \in {"generate", "ended"}
        /\ UNCHANGED <<program, result, preserved, next, armed, chain>>
    BY <1>8 DEF CheckStop, Goes, Ends, setup, input
  <2>2. \A i \in DOMAIN result.triggers :
          Armed(result.triggers[i]) => Armed(result.triggers[i])'
    BY <2>1 DEF Armed
  <2> QED BY <2>1, <2>2 DEF ArmedInv
<1>9. CASE Generate
  <2>1. at' \in {"ended", "answered"} /\ UNCHANGED <<result, setup>>
    BY <1>9 DEF Generate, Fails, Goes, Ends
  <2> QED BY <2>1, ArmedElsewhere DEF setup, ArmedInv
<1>10. CASE ReadCalls
  <2>1. at' \in {"ended", "calls"} /\ UNCHANGED <<result, setup>>
    BY <1>10 DEF ReadCalls, Goes, Ends
  <2> QED BY <2>1, ArmedElsewhere DEF setup, ArmedInv
<1>11. CASE AnswerCall
  <2>1. at' \in {"ended", "calls"} /\ UNCHANGED <<result, setup>>
    BY <1>11 DEF AnswerCall, Fails, Goes, Ends
  <2> QED BY <2>1, ArmedElsewhere DEF setup, ArmedInv
<1>12. CASE FollowUp
  BY <1>12 DEF FollowUp, Goes, ArmedInv, NoTemplate
<1>13. CASE Done \/ UNCHANGED vars
  <2>1. UNCHANGED <<at, program, result, preserved, next, armed, chain>>
    BY <1>13 DEF Done, vars
  <2>2. \A i \in DOMAIN result.triggers :
          Armed(result.triggers[i]) => Armed(result.triggers[i])'
    BY <2>1 DEF Armed
  <2> QED BY <2>1, <2>2 DEF ArmedInv
<1> QED
  BY <1>1, <1>2, <1>3, <1>4, <1>5, <1>6, <1>7, <1>8, <1>9, <1>10, <1>11, <1>12,
     <1>13 DEF Next

(* An armed trigger leaves something in the token or pattern list.         *)
LEMMA ArmedWakes ==
  ASSUME NEW t \in Trigger, Armed(t)
  PROVE  armed.tokens # {} \/ armed.patterns # {}
BY DEF Armed, Trigger

(* Whatever a template asks for, sampling begins with its grammar, and a   *)
(* lazy one with all its triggers (build_sampler and its copies).          *)
THEOREM GrammarArmed == Spec => []GrammarIsArmed
<1>0. Init => SentInv
  BY DEF Init, SentInv
<1>1. Spec => []ArmedInv
  BY <1>0, SentStep, ArmedInit, ArmedStep, PTL DEF Spec
<1>2. ArmedInv => GrammarIsArmed
  <2> SUFFICES ASSUME ArmedInv, at \in {"stop", "generate"}, result.grammar # "absent"
               PROVE  /\ \/ chain[1] = "grammar"
                         \/ program # "server" /\ result.grammar # "good"
                      /\ result.lazy =>
                           /\ armed.tokens # {} \/ armed.patterns # {}
                           /\ \A i \in DOMAIN result.triggers : Armed(result.triggers[i])
    BY DEF GrammarIsArmed, Armed
  <2>1. \A i \in DOMAIN result.triggers : result.triggers[i] \in Trigger
    BY DEF ArmedInv, TypeInv
  <2>2. result.lazy => 1 \in DOMAIN result.triggers
    BY DEF ArmedInv, LazyHasTriggers, TypeInv
  <2> QED BY <2>1, <2>2, ArmedWakes DEF ArmedInv
<1> QED BY <1>1, <1>2, PTL

-----------------------------------------------------------------------------
(* The texts of a set in their order.                                      *)
Rank(S, p) == Cardinality({q \in S : q <= p})

LEMMA RankFacts ==
  ASSUME NEW S \in SUBSET Int, IsFiniteSet(S)
  PROVE  /\ \A p \in S : Rank(S, p) \in 1 .. Cardinality(S)
         /\ \A p, r \in S : p < r => Rank(S, p) < Rank(S, r)
         /\ \A i \in 1 .. Cardinality(S) : \E p \in S : Rank(S, p) = i
<1>1. Cardinality(S) \in Nat
  BY FS_CardinalityType
<1>2. ASSUME NEW p \in S
      PROVE  /\ IsFiniteSet({q \in S : q <= p}) /\ Rank(S, p) \in Nat
             /\ Rank(S, p) \in 1 .. Cardinality(S)
  <2>1. PICK below : below = {q \in S : q <= p}
    OBVIOUS
  <2>2. below \in SUBSET S /\ p \in below
    BY <2>1
  <2>3. IsFiniteSet(below) /\ Cardinality(below) <= Cardinality(S)
    BY <2>2, FS_Subset
  <2>4. Cardinality(below) \in Nat /\ Cardinality(below) # 0
    BY <2>2, <2>3, FS_CardinalityType, FS_EmptySet
  <2> QED BY <1>1, <2>1, <2>3, <2>4 DEF Rank
<1>3. ASSUME NEW p \in S, NEW r \in S, p < r
      PROVE  Rank(S, p) < Rank(S, r)
  <2>1. PICK small : small = {q \in S : q <= p}
    OBVIOUS
  <2>2. PICK large : large = {q \in S : q <= r}
    OBVIOUS
  <2>3. small \in SUBSET large /\ small # large
    <3>1. r \in large /\ r \notin small
      BY <1>3, <2>1, <2>2
    <3>2. \A q \in S : q <= p => q <= r
      BY <1>3
    <3> QED BY <2>1, <2>2, <3>1, <3>2
  <2>4. IsFiniteSet(large) /\ Cardinality(large) = Rank(S, r)
    BY <1>2, <2>2 DEF Rank
  <2>5. Cardinality(small) <= Cardinality(large) /\ Cardinality(small) # Cardinality(large)
    <3>1. /\ Cardinality(small) <= Cardinality(large)
          /\ Cardinality(large) = Cardinality(small) => large = small
      BY <2>3, <2>4, FS_Subset
    <3> QED BY <2>3, <3>1
  <2>6. Cardinality(small) = Rank(S, p)
    BY <2>1 DEF Rank
  <2>7. Rank(S, p) \in Nat /\ Rank(S, r) \in Nat
    BY <1>2
  <2>8. Rank(S, p) <= Rank(S, r) /\ Rank(S, p) # Rank(S, r)
    BY <2>4, <2>5, <2>6
  <2> QED BY ONLY <2>7, <2>8
<1>4. ASSUME NEW i \in 1 .. Cardinality(S) PROVE \E p \in S : Rank(S, p) = i
  <2>1. PICK f : f = [p \in S |-> Rank(S, p)]
    OBVIOUS
  <2>2. f \in [S -> 1 .. Cardinality(S)]
    BY <1>2, <2>1
  <2>3. \A p, r \in S : f[p] = f[r] => p = r
    <3> TAKE p, r \in S
    <3>1. p < r \/ r < p \/ p = r
      <4>1. p \in Int /\ r \in Int
        OBVIOUS
      <4> QED BY ONLY <4>1
    <3>2. f[p] = Rank(S, p) /\ f[r] = Rank(S, r) /\ Rank(S, p) \in Nat /\ Rank(S, r) \in Nat
      BY <1>2, <2>1
    <3>3. p < r => f[p] < f[r]
      BY <1>3, <3>2
    <3>4. r < p => f[r] < f[p]
      BY <1>3, <3>2
    <3>5. f[p] \in Nat /\ f[r] \in Nat
      BY <3>2
    <3> QED BY ONLY <3>1, <3>3, <3>4, <3>5
  <2>4. f \in Injection(S, 1 .. Cardinality(S))
    BY <2>2, <2>3, Fun_IsInj
  <2>5. /\ IsFiniteSet(1 .. Cardinality(S))
        /\ Cardinality(1 .. Cardinality(S)) = Cardinality(S)
    BY <1>1, FS_Interval
  <2>6. f \in Surjection(S, 1 .. Cardinality(S))
    BY <2>4, <2>5, FS_Injection
  <2>7. \A t \in 1 .. Cardinality(S) : \E p \in S : f[p] = t
    BY <2>6, Fun_SurjectionProperties
  <2> QED BY <2>1, <2>7
<1> QED BY <1>2, <1>3, <1>4

LEMMA InOrderFacts ==
  ASSUME NEW S \in SUBSET Int, IsFiniteSet(S)
  PROVE  /\ InOrder(S) \in Seq(S) /\ Len(InOrder(S)) = Cardinality(S)
         /\ Cardinality(S) \in Nat
         /\ \A i \in 1 .. Cardinality(S) :
              InOrder(S)[i] \in S /\ Rank(S, InOrder(S)[i]) = i
         /\ \A p \in S : InOrder(S)[Rank(S, p)] = p
<1>1. Cardinality(S) \in Nat
  BY FS_CardinalityType
<1>2. ASSUME NEW i \in 1 .. Cardinality(S)
      PROVE  InOrder(S)[i] \in S /\ Rank(S, InOrder(S)[i]) = i
  <2>1. InOrder(S)[i] = CHOOSE p \in S : Rank(S, p) = i
    BY DEF InOrder, Rank
  <2>2. \E p \in S : Rank(S, p) = i
    BY RankFacts
  <2> QED BY <2>1, <2>2
<1>3. InOrder(S) = [i \in 1 .. Cardinality(S) |-> InOrder(S)[i]]
  BY DEF InOrder
<1>4. InOrder(S) \in Seq(S) /\ Len(InOrder(S)) = Cardinality(S)
  BY <1>1, <1>2, <1>3
<1>5. ASSUME NEW p \in S PROVE InOrder(S)[Rank(S, p)] = p
  <2>1. Rank(S, p) \in 1 .. Cardinality(S)
    BY RankFacts
  <2>2. PICK r \in S : r = InOrder(S)[Rank(S, p)] /\ Rank(S, r) = Rank(S, p)
    BY <1>2, <2>1
  <2>3. ~(p < r) /\ ~(r < p)
    BY <1>1, <2>1, <2>2, RankFacts
  <2> QED BY <2>2, <2>3
<1> QED BY <1>1, <1>2, <1>4, <1>5

LEMMA InOrderEmpty == InOrder({}) = <<>>
<1>1. Cardinality({}) = 0
  BY FS_EmptySet
<1> QED BY <1>1 DEF InOrder

(* The texts of a set come before those of a later one.                    *)
LEMMA InOrderJoin ==
  ASSUME NEW A \in SUBSET Int, NEW B \in SUBSET Int, IsFiniteSet(A), IsFiniteSet(B),
         \A a \in A, b \in B : a < b
  PROVE  InOrder(A \cup B) = InOrder(A) \o InOrder(B)
<1>1. PICK all \in SUBSET Int : all = A \cup B
  OBVIOUS
<1>2. A \cap B = {}
  OBVIOUS
<1>3. PICK a \in Nat : a = Cardinality(A)
  BY FS_CardinalityType
<1>4. PICK b \in Nat : b = Cardinality(B)
  BY FS_CardinalityType
<1>5. IsFiniteSet(all) /\ Cardinality(all) = a + b
  <2>1. /\ IsFiniteSet(A \cup B)
        /\ Cardinality(A \cup B) = Cardinality(A) + Cardinality(B) - Cardinality(A \cap B)
    BY FS_Union
  <2>2. Cardinality(A \cap B) = 0
    BY <1>2, FS_EmptySet
  <2> QED BY <1>1, <1>3, <1>4, <2>1, <2>2
<1>6. PICK f : f = InOrder(A)
  OBVIOUS
<1>7. PICK g : g = InOrder(B)
  OBVIOUS
<1>8. PICK h : h = InOrder(all)
  OBVIOUS
<1>9. /\ f \in Seq(A) /\ Len(f) = a /\ \A i \in 1 .. a : f[i] \in A /\ Rank(A, f[i]) = i
      /\ g \in Seq(B) /\ Len(g) = b /\ \A i \in 1 .. b : g[i] \in B /\ Rank(B, g[i]) = i
      /\ h \in Seq(all) /\ Len(h) = a + b /\ \A p \in all : h[Rank(all, p)] = p
  <2>1. f \in Seq(A) /\ Len(f) = a /\ \A i \in 1 .. a : f[i] \in A /\ Rank(A, f[i]) = i
    BY <1>3, <1>6, InOrderFacts
  <2>2. g \in Seq(B) /\ Len(g) = b /\ \A i \in 1 .. b : g[i] \in B /\ Rank(B, g[i]) = i
    BY <1>4, <1>7, InOrderFacts
  <2>3. h \in Seq(all) /\ Len(h) = a + b /\ \A p \in all : h[Rank(all, p)] = p
    BY <1>5, <1>8, InOrderFacts
  <2> QED BY <2>1, <2>2, <2>3
<1>10. ASSUME NEW p \in A PROVE Rank(all, p) = Rank(A, p)
  <2>1. \A q \in B : ~(q <= p)
    <3> TAKE q \in B
    <3>1. p \in Int /\ q \in Int /\ p < q
      OBVIOUS
    <3> QED BY ONLY <3>1
  <2>2. {q \in all : q <= p} = {q \in A : q <= p}
    BY <1>1, <2>1
  <2> QED BY <2>2 DEF Rank
<1>11. ASSUME NEW p \in B PROVE Rank(all, p) = a + Rank(B, p)
  <2>1. PICK upto : upto = {q \in B : q <= p}
    OBVIOUS
  <2>2. {q \in all : q <= p} = A \cup upto /\ A \cap upto = {}
    <3>1. \A q \in A : q <= p
      <4> TAKE q \in A
      <4>1. q \in Int /\ p \in Int /\ q < p
        OBVIOUS
      <4> QED BY ONLY <4>1
    <3> QED BY <1>1, <1>2, <2>1, <3>1
  <2>3. IsFiniteSet(upto)
    BY <2>1, FS_Subset
  <2>4. Cardinality(A \cup upto) = a + Cardinality(upto)
    <3>1. Cardinality(upto) \in Nat /\ Cardinality({}) = 0
      BY <2>3, FS_CardinalityType, FS_EmptySet
    <3> QED BY <1>3, <2>2, <2>3, <3>1, FS_Union
  <2> QED BY <2>1, <2>2, <2>4 DEF Rank
<1>12. PICK j : j = f \o g
  OBVIOUS
<1>13. /\ j \in Seq(all) /\ Len(j) = a + b
       /\ \A i \in 1 .. a : j[i] = f[i]
       /\ \A i \in 1 .. b : j[a + i] = g[i]
  <2>1. f \in Seq(all) /\ g \in Seq(all)
    BY <1>1, <1>9, SeqMonotonic
  <2>2. /\ j \in Seq(all) /\ Len(j) = Len(f) + Len(g)
        /\ \A i \in 1 .. Len(f) + Len(g) :
             j[i] = IF i <= Len(f) THEN f[i] ELSE g[i - Len(f)]
    BY <1>12, <2>1, ConcatProperties
  <2>3. \A i \in 1 .. b : a + i \in 1 .. a + b /\ ~(a + i <= a) /\ (a + i) - a = i
    OBVIOUS
  <2>4. \A i \in 1 .. a : i \in 1 .. a + b /\ i <= a
    OBVIOUS
  <2> QED BY <1>9, <2>2, <2>3, <2>4
<1>14. ASSUME NEW i \in 1 .. a + b PROVE h[i] = j[i]
  <2>1. CASE i <= a
    <3>1. i \in 1 .. a
      BY <2>1
    <3>2. f[i] \in A /\ Rank(all, f[i]) = i /\ j[i] = f[i]
      BY <1>9, <1>10, <1>13, <3>1
    <3> QED BY <1>1, <1>9, <3>2
  <2>2. CASE ~(i <= a)
    <3>1. PICK k \in 1 .. b : i = a + k
      <4>1. i - a \in 1 .. b /\ i = a + (i - a)
        BY <2>2
      <4> QED BY <4>1
    <3>2. g[k] \in B /\ Rank(all, g[k]) = i /\ j[i] = g[k]
      BY <1>9, <1>11, <1>13, <3>1
    <3> QED BY <1>1, <1>9, <3>2
  <2> QED BY <2>1, <2>2
<1>15. h = j
  BY <1>9, <1>13, <1>14, SeqEqual
<1> QED BY <1>1, <1>6, <1>7, <1>8, <1>12, <1>15

-----------------------------------------------------------------------------
(* The blocks at each place of a call: those that the message, the array   *)
(* of calls and the array of diffs own by then, and no other.              *)
CallsSoFar == {<<"calls", i, 0>> : i \in 0 .. index - 1}
Published == IF diffs = <<>> THEN {} ELSE DiffBlocks(Len(diffs))

BlocksInv ==
  /\ pc = "parse" => out_msg = {} /\ heap = {}
  /\ pc = "fields" => /\ index \in 1 .. Len(MsgFields) + 1
                      /\ out_msg \subseteq {"role", "content"}
                      /\ heap = MsgBlocks
  /\ pc = "calls" => /\ index \in 1 .. NCalls + 1
                     /\ out_msg \subseteq {"role", "content"}
                     /\ heap = MsgBlocks \cup CallsSoFar
  /\ pc = "diffs" => heap = MsgBlocks
  /\ pc = "strings" => /\ string \in 1 .. NStrings(diffs[index])
                       /\ heap = MsgBlocks \cup DiffBlocks(index - 1) \cup StringsSoFar
  /\ pc = "convert" => index \in 1 .. Len(diffs) + 1 /\ heap = MsgBlocks \cup Published
  /\ IsFiniteSet(heap) /\ ~invalid
  /\ leaked > 0 => unconverted

(* The texts that the message shows since this call, and their diffs.      *)
New(kind) == Of(kind, prv + 1 .. visible)

DiffsFrom(old, n) ==
  (IF Of("content", old + 1 .. n) = {} THEN <<>>
   ELSE <<[kind |-> "content", texts |-> InOrder(Of("content", old + 1 .. n))]>>)
  \o [i \in DOMAIN InOrder(Of("call", old + 1 .. n)) |->
        [kind |-> "call", texts |-> <<InOrder(Of("call", old + 1 .. n))[i]>>]]

NContents == IF New("content") = {} THEN 0 ELSE 1

(* What was delivered is the message before this call, and what is         *)
(* converted the diffs before the one at hand.                             *)
Parsed == pc \in {"fields", "calls", "diffs", "strings", "convert"}

ToldInv ==
  /\ ~Parsed => /\ cut <= visible /\ lost \subseteq 1 .. visible
                /\ \A k \in Kinds : delivered[k] = Told(k, visible)
  /\ pc = "parse" => prv = visible /\ diffs = <<>>
  /\ Parsed => /\ cut <= prv /\ lost \subseteq 1 .. prv
               /\ \A k \in Kinds : delivered[k] = Told(k, prv)
               /\ diffs = DiffsFrom(prv, visible)
  /\ (Parsed /\ pc # "convert") \/ pc = "parse" => deltas = [k \in Kinds |-> <<>>]
  /\ pc = "convert" =>
       /\ deltas["content"] = IF index = 1 \/ NContents = 0 THEN <<>>
                              ELSE InOrder(New("content"))
       /\ deltas["call"] = SubSeq(InOrder(New("call")), 1, index - 1 - NContents)

StreamInv == StreamTypeOK /\ BlocksInv /\ ToldInv

-----------------------------------------------------------------------------
(* What the parts of a call are made of.                                   *)
LEMMA Counted ==
  ASSUME StreamTypeOK, NEW kind, NEW m \in Int, NEW n \in Int
  PROVE  Of(kind, m .. n) \in SUBSET Int /\ IsFiniteSet(Of(kind, m .. n))
<1>1. IsFiniteSet(m .. n)
  BY FS_Interval
<1>2. Of(kind, m .. n) \in SUBSET (m .. n)
  BY DEF Of
<1> QED BY <1>1, <1>2, FS_Subset

LEMMA NCallsType == StreamTypeOK => NCalls \in Nat
<1> SUFFICES ASSUME StreamTypeOK PROVE NCalls \in Nat
  OBVIOUS
<1>1. visible \in Int
  BY DEF StreamTypeOK
<1>2. IsFiniteSet(Of("call", 1 .. visible))
  BY <1>1, Counted
<1> QED BY <1>2, FS_CardinalityType DEF NCalls, Shown

LEMMA MsgFieldsType ==
  /\ MsgFields \in Seq({"role", "content"})
  /\ Len(MsgFields) \in Nat
  /\ \A i \in 1 .. Len(MsgFields) : MsgFields[i] \in {"role", "content"}
<1>1. MsgFields \in Seq({"role", "content"})
  <2>1. CASE HasContent
    <3>1. MsgFields = <<"role">> \o <<"content">>
      BY <2>1 DEF MsgFields
    <3>2. <<"role">> \in Seq({"role", "content"}) /\ <<"content">> \in Seq({"role", "content"})
      OBVIOUS
    <3> QED BY <3>1, <3>2, ConcatProperties
  <2>2. CASE ~HasContent
    <3>1. MsgFields = <<"role">> \o <<>>
      BY <2>2 DEF MsgFields
    <3> QED BY <3>1
  <2> QED BY <2>1, <2>2
<1> QED BY <1>1, LenProperties

(* What was told does not change while nothing of it does.                 *)
LEMMA ToldOfPrv ==
  ASSUME UNCHANGED <<generated, lost, cut, before, prv>>, NEW k
  PROVE  (Told(k, prv))' = Told(k, prv)
<1>1. PICK then : then = Of(k, cut + 1 .. prv) \ lost
  OBVIOUS
<1>2. (Of(k, cut + 1 .. prv) \ lost)' = then
  BY <1>1 DEF Of
<1>3. (InOrder(Of(k, cut + 1 .. prv) \ lost))' = InOrder(then)
  BY <1>2
<1>4. (before[k])' = before[k]
  OBVIOUS
<1> QED BY <1>1, <1>3, <1>4 DEF Told

LEMMA ToldOfVisible ==
  ASSUME UNCHANGED <<generated, lost, cut, before, visible>>, NEW k
  PROVE  (Told(k, visible))' = Told(k, visible)
<1>1. PICK then : then = Of(k, cut + 1 .. visible) \ lost
  OBVIOUS
<1>2. (Of(k, cut + 1 .. visible) \ lost)' = then
  BY <1>1 DEF Of
<1>3. (InOrder(Of(k, cut + 1 .. visible) \ lost))' = InOrder(then)
  BY <1>2
<1>4. (before[k])' = before[k]
  OBVIOUS
<1> QED BY <1>1, <1>3, <1>4 DEF Told

(* A message that shows less than before starts anew.                      *)
LEMMA ToldAnew ==
  ASSUME cut' = visible', visible' \in Nat, NEW k \in Kinds,
         before' \in [Kinds -> Seq(Positions)]
  PROVE  (Told(k, visible))' = before'[k]
<1>1. PICK n \in Nat : n = visible'
  OBVIOUS
<1>2. (Of(k, cut + 1 .. visible) \ lost)' = {}
  <2>1. n + 1 .. n = {}
    BY ONLY n \in Nat
  <2>2. cut' + 1 .. visible' = {}
    BY <1>1, <2>1
  <2> QED BY <2>2 DEF Of
<1>3. (InOrder(Of(k, cut + 1 .. visible) \ lost))' = <<>>
  BY <1>2, InOrderEmpty
<1>4. before'[k] \in Seq(Positions)
  OBVIOUS
<1>5. before'[k] \o <<>> = before'[k]
  BY <1>4, ConcatEmptySeq
<1> QED BY <1>3, <1>5 DEF Told

LEMMA NStringsType == ASSUME NEW d PROVE NStrings(d) \in {1, 3}
BY DEF NStrings

LEMMA SplitCount == ASSUME NEW i \in Nat PROVE 0 .. i = (0 .. i - 1) \cup {i}
OBVIOUS

LEMMA SplitNumber == ASSUME NEW i \in Nat \ {0} PROVE 1 .. i = (1 .. i - 1) \cup {i}
OBVIOUS

(* A diff is one of all the new content, or one of a new call each.        *)
LEMMA DiffsFacts ==
  ASSUME StreamTypeOK, NEW old \in Nat, NEW n \in 0 .. Len(generated)
  PROVE  LET content == Of("content", old + 1 .. n)
             tools == InOrder(Of("call", old + 1 .. n))
             first == IF content = {} THEN 0 ELSE 1
             all == DiffsFrom(old, n)
         IN /\ all \in Seq(Diff) /\ Len(all) = first + Len(tools) /\ Len(tools) \in Nat
            /\ tools \in Seq(Positions) /\ InOrder(content) \in Seq(Positions)
            /\ first = 1 => all[1] = [kind |-> "content", texts |-> InOrder(content)]
            /\ \A i \in 1 .. Len(tools) :
                 all[first + i] = [kind |-> "call", texts |-> <<tools[i]>>]
<1>1. PICK content : content = Of("content", old + 1 .. n)
  OBVIOUS
<1>2. PICK set : set = Of("call", old + 1 .. n)
  OBVIOUS
<1>3. PICK tools : tools = InOrder(set)
  OBVIOUS
<1>4. old + 1 \in Int /\ n \in Int /\ \A p \in old + 1 .. n : p \in Positions
  <2>1. Len(generated) \in Nat /\ Len(generated) <= MaxUpdates /\ MaxUpdates \in Nat
    BY ChatStreamAssumption DEF StreamTypeOK
  <2>2. n \in Nat /\ n <= MaxUpdates
    BY <2>1
  <2> QED BY <2>1, <2>2 DEF Positions
<1>5. content \in SUBSET Int /\ IsFiniteSet(content) /\ set \in SUBSET Int /\ IsFiniteSet(set)
  BY <1>1, <1>2, <1>4, Counted
<1>6. content \subseteq Positions /\ set \subseteq Positions
  BY <1>1, <1>2, <1>4 DEF Of
<1>7. InOrder(content) \in Seq(Positions)
  <2>1. InOrder(content) \in Seq(content)
    BY <1>5, InOrderFacts
  <2> QED BY <1>6, <2>1, SeqMonotonic
<1>8. tools \in Seq(Positions)
  <2>1. InOrder(set) \in Seq(set)
    BY <1>5, InOrderFacts
  <2> QED BY <1>3, <1>6, <2>1, SeqMonotonic
<1>9. Len(tools) \in Nat /\ DOMAIN tools = 1 .. Len(tools)
  BY <1>8
<1>10. PICK one : one = IF content = {} THEN <<>>
                        ELSE <<[kind |-> "content", texts |-> InOrder(content)]>>
  OBVIOUS
<1>11. PICK rest : rest = [i \in DOMAIN tools |-> [kind |-> "call", texts |-> <<tools[i]>>]]
  OBVIOUS
<1>12. PICK first \in {0, 1} : first = IF content = {} THEN 0 ELSE 1
  OBVIOUS
<1>13. /\ one \in Seq(Diff) /\ Len(one) = first
       /\ first = 1 => one[1] = [kind |-> "content", texts |-> InOrder(content)]
  <2>1. CASE content = {}
    BY <1>10, <1>12, <2>1
  <2>2. CASE content # {}
    <3>1. PICK d : d = [kind |-> "content", texts |-> InOrder(content)]
      OBVIOUS
    <3>2. d \in Diff
      BY <1>7, <3>1 DEF Diff, Kinds
    <3>3. one = <<d>> /\ first = 1
      BY <1>10, <1>12, <2>2, <3>1
    <3> QED BY <3>1, <3>2, <3>3
  <2> QED BY <2>1, <2>2
<1>14. /\ rest \in Seq(Diff) /\ Len(rest) = Len(tools)
       /\ \A i \in 1 .. Len(tools) : rest[i] = [kind |-> "call", texts |-> <<tools[i]>>]
  <2>1. \A i \in 1 .. Len(tools) : [kind |-> "call", texts |-> <<tools[i]>>] \in Diff
    BY <1>8 DEF Diff, Kinds
  <2> QED BY <1>9, <1>11, <2>1
<1>15. PICK all : all = DiffsFrom(old, n)
  OBVIOUS
<1>16. all = one \o rest
  BY <1>1, <1>2, <1>3, <1>10, <1>11, <1>15 DEF DiffsFrom
<1>17. /\ all \in Seq(Diff) /\ Len(all) = first + Len(tools)
       /\ \A i \in 1 .. first + Len(tools) :
            all[i] = IF i <= first THEN one[i] ELSE rest[i - first]
  BY <1>13, <1>14, <1>16, ConcatProperties
<1>18. \A i \in 1 .. Len(tools) : all[first + i] = rest[i]
  <2> TAKE i \in 1 .. Len(tools)
  <2>1. first + i \in 1 .. first + Len(tools) /\ ~(first + i <= first) /\ (first + i) - first = i
    BY <1>9
  <2> QED BY <1>17, <2>1
<1>19. first = 1 => all[1] = one[1]
  BY <1>9, <1>17
<1> QED BY <1>1, <1>2, <1>3, <1>7, <1>8, <1>9, <1>12, <1>13, <1>14, <1>15, <1>17, <1>18, <1>19

LEMMA InitStream == StreamInit => StreamInv
<1> SUFFICES ASSUME StreamInit PROVE StreamInv
  OBVIOUS
<1>1. generated = <<>> /\ Len(generated) = 0 /\ visible = 0 /\ MaxUpdates \in Nat
  BY ChatStreamAssumption DEF StreamInit
<1>2. StreamTypeOK
  <2>1. generated \in Seq(Kinds) /\ diffs \in Seq(Diff)
    BY DEF StreamInit
  <2>2. /\ deltas \in [Kinds -> Seq(Positions)] /\ delivered \in [Kinds -> Seq(Positions)]
        /\ before \in [Kinds -> Seq(Positions)]
    BY DEF StreamInit
  <2>3. /\ out_msg \in SUBSET {"role", "content", "calls"} /\ lost \in SUBSET Positions
        /\ heap \in SUBSET ({"role", "content", "calls", "diffs"} \X Nat \X Nat)
        /\ unconverted \in BOOLEAN /\ invalid \in BOOLEAN /\ leaked \in Nat
        /\ index \in Nat /\ string \in Nat /\ prv = 0 /\ pc = "idle"
        /\ cut = 0
    BY DEF StreamInit
  <2> QED BY <1>1, <2>1, <2>2, <2>3 DEF StreamTypeOK
<1>3. BlocksInv
  BY FS_EmptySet DEF StreamInit, BlocksInv
<1>4. ToldInv
  <2>1. /\ cut = 0 /\ visible = 0 /\ lost = {} /\ pc = "idle"
        /\ before = [k \in Kinds |-> <<>>] /\ delivered = [k \in Kinds |-> <<>>]
    BY DEF StreamInit
  <2>2. \A k \in Kinds : delivered[k] = Told(k, visible)
    <3> TAKE k \in Kinds
    <3>1. cut + 1 .. visible = {}
      BY <2>1
    <3>2. Of(k, cut + 1 .. visible) \ lost = {}
      BY <3>1 DEF Of
    <3>3. before[k] = <<>> /\ delivered[k] = <<>> /\ <<>> \o <<>> = <<>>
      BY <2>1
    <3> QED BY <3>2, <3>3, InOrderEmpty DEF Told
  <2> QED BY <2>1, <2>2 DEF ToldInv, Parsed
<1> QED BY <1>2, <1>3, <1>4 DEF StreamInv

-----------------------------------------------------------------------------
(* A call that returns an error.  What the message shows first in it, now  *)
(* lost, is what the delivered texts lack.                                 *)
LEMMA ErrorKeeps ==
  ASSUME StreamInv, pc = "parse" \/ Parsed, NEW left, ReturnError(left),
         visible' \in 0 .. Len(generated),
         UNCHANGED <<generated, prv, diffs, index, string, deltas>>,
         heap' \subseteq heap, out_msg' \subseteq out_msg, invalid' = FALSE,
         \/ left = {} /\ unconverted' = unconverted
         \/ IsFiniteSet(left) /\ unconverted' = TRUE
  PROVE  StreamInv'
<1>1. /\ StreamTypeOK /\ BlocksInv /\ ToldInv /\ pc' = "idle" /\ delivered' = delivered
      /\ leaked' = leaked + Cardinality(left)
      /\ lost' = (lost \cup (prv + 1 .. visible')) \cap (1 .. visible')
      /\ \/ visible' < prv /\ cut' = visible' /\ before' = delivered
         \/ ~(visible' < prv) /\ cut' = cut /\ before' = before
  BY DEF StreamInv, ReturnError, Returns
<1>2. /\ prv \in Nat /\ visible \in Nat /\ visible' \in Nat /\ Len(generated) \in Nat
      /\ Len(generated) <= MaxUpdates /\ MaxUpdates \in Nat /\ cut \in Nat
      /\ visible' <= Len(generated) /\ leaked \in Nat /\ lost \in SUBSET Positions
  BY <1>1, ChatStreamAssumption DEF StreamTypeOK
<1>3. Cardinality(left) \in Nat /\ (left = {} => Cardinality(left) = 0)
  BY FS_CardinalityType, FS_EmptySet
<1>4. StreamTypeOK'
  <2>1. lost' \in SUBSET Positions
    <3>1. \A p \in 1 .. visible' : p \in Positions
      BY <1>2 DEF Positions
    <3> QED BY <1>1, <1>2, <3>1
  <2>2. leaked' \in Nat /\ unconverted' \in BOOLEAN /\ invalid' \in BOOLEAN
    <3>1. leaked' \in Nat
      BY <1>1, <1>2, <1>3
    <3>2. unconverted \in BOOLEAN
      BY <1>1 DEF StreamTypeOK
    <3> QED BY <3>1, <3>2
  <2>3. pc' # "strings"
    BY <1>1
  <2>4. heap' \in SUBSET ({"role", "content", "calls", "diffs"} \X Nat \X Nat)
        /\ out_msg' \in SUBSET {"role", "content", "calls"}
    BY <1>1 DEF StreamTypeOK
  <2>5. visible' \in 0 .. Len(generated)
    BY <1>2
  <2>6. cut' \in 0 .. MaxUpdates /\ before' \in [Kinds -> Seq(Positions)]
    BY <1>1, <1>2 DEF StreamTypeOK
  <2> QED BY <1>1, <2>1, <2>2, <2>3, <2>4, <2>5, <2>6 DEF StreamTypeOK
<1>5. BlocksInv'
  <2>1. IsFiniteSet(heap')
    BY <1>1, FS_Subset DEF BlocksInv
  <2>2. leaked' > 0 => unconverted'
    BY <1>1, <1>2, <1>3 DEF BlocksInv
  <2> QED BY <1>1, <2>1, <2>2 DEF BlocksInv
<1>6. /\ cut <= prv /\ lost \subseteq 1 .. prv
      /\ \A k \in Kinds : delivered[k] = Told(k, prv)
  BY <1>1 DEF ToldInv, Parsed
<1>7. ToldInv'
  <2>1. lost' \subseteq 1 .. visible'
    BY <1>1
  <2>2. CASE visible' < prv
    <3>1. cut' = visible' /\ before' = delivered
      BY <1>1, <2>2
    <3>2. before' \in [Kinds -> Seq(Positions)]
      BY <1>4 DEF StreamTypeOK
    <3>3. \A k \in Kinds : (delivered[k] = Told(k, visible))'
      <4> TAKE k \in Kinds
      <4>1. (Told(k, visible))' = before'[k]
        BY <1>2, <3>1, <3>2, ToldAnew
      <4> QED BY <1>1, <3>1, <4>1
    <3>4. cut' <= visible'
      BY <1>2, <3>1
    <3> QED BY <1>1, <2>1, <3>3, <3>4 DEF ToldInv, Parsed
  <2>3. CASE ~(visible' < prv)
    <3>1. cut' = cut /\ before' = before /\ prv <= visible' /\ cut' <= visible'
      BY <1>1, <1>2, <1>6, <2>3
    <3>2. \A k \in Kinds : (Of(k, cut + 1 .. visible) \ lost)' = Of(k, cut + 1 .. prv) \ lost
      <4> TAKE k \in Kinds
      <4>1. \A p \in cut + 1 .. visible' : p \notin lost' <=> p \in cut + 1 .. prv /\ p \notin lost
        BY <1>1, <1>2, <1>6, <3>1
      <4>2. cut + 1 .. prv \subseteq cut + 1 .. visible'
        BY <1>2, <3>1
      <4> QED BY <3>1, <4>1, <4>2 DEF Of
    <3>3. \A k \in Kinds : (delivered[k] = Told(k, visible))'
      <4> TAKE k \in Kinds
      <4>1. PICK then : then = Of(k, cut + 1 .. prv) \ lost
        OBVIOUS
      <4>2. (Of(k, cut + 1 .. visible) \ lost)' = then
        BY <3>2, <4>1
      <4>3. (InOrder(Of(k, cut + 1 .. visible) \ lost))' = InOrder(then)
        BY <4>2
      <4>4. delivered[k] = before[k] \o InOrder(then)
        BY <1>6, <4>1 DEF Told
      <4> QED BY <1>1, <3>1, <4>3, <4>4 DEF Told
    <3> QED BY <1>1, <2>1, <3>1, <3>3 DEF ToldInv, Parsed
  <2> QED BY <2>2, <2>3
<1> QED BY <1>4, <1>5, <1>7 DEF StreamInv

LEMMA FailKeeps ==
  ASSUME StreamInv, pc = "parse" \/ Parsed, NEW more, Fail(more),
         heap = MsgBlocks \cup more, visible' \in 0 .. Len(generated)
  PROVE  StreamInv'
<1>1. heap' = {} /\ invalid' = FALSE
  BY DEF Fail, Free, StreamInv, BlocksInv, StreamTypeOK
<1>2. /\ out_msg' = {} /\ ReturnError({}) /\ unconverted' = unconverted
      /\ UNCHANGED <<generated, prv, diffs, index, string, deltas>>
  BY <1>1 DEF Fail
<1> QED BY <1>1, <1>2, ErrorKeeps

LEMMA ErrorSteps ==
  ASSUME StreamInv,
         \/ ParseThrows \/ \E n \in 1 .. Len(generated) : DiffsThrow(n)
         \/ CopyFieldFails \/ NewCallsFails \/ CopyCallFails
         \/ NewDiffsFails \/ CopyStringFails
  PROVE  StreamInv'
<1>1. /\ prv \in Nat /\ visible \in Nat /\ Len(generated) \in Nat
      /\ prv \in 0 .. Len(generated) /\ visible \in 0 .. Len(generated)
      /\ BlocksInv /\ ToldInv
  BY DEF StreamInv, StreamTypeOK
<1>2. pc = "parse" => heap = MsgBlocks \cup {}
  BY <1>1 DEF BlocksInv, MsgBlocks
<1>3. CASE ParseThrows
  <2>1. visible' \in 0 .. Len(generated) /\ pc = "parse" /\ Fail({})
    BY <1>1, <1>3 DEF ParseThrows
  <2> QED BY <1>2, <2>1, FailKeeps
<1>4. CASE \E n \in 1 .. Len(generated) : DiffsThrow(n)
  <2>1. visible' \in 0 .. Len(generated) /\ pc = "parse" /\ Fail({})
    BY <1>1, <1>4 DEF DiffsThrow
  <2> QED BY <1>2, <2>1, FailKeeps
<1>5. CASE CopyFieldFails \/ NewCallsFails
  <2>1. visible' = visible /\ pc = "fields" /\ Parsed /\ Fail({})
    BY <1>5 DEF CopyFieldFails, NewCallsFails, Parsed
  <2>2. heap = MsgBlocks \cup {} /\ visible' \in 0 .. Len(generated)
    BY <1>1, <2>1 DEF BlocksInv
  <2> QED BY <2>1, <2>2, FailKeeps
<1>6. CASE CopyCallFails
  <2>1. visible' = visible /\ pc = "calls" /\ Parsed /\ Fail(CallsSoFar)
    BY <1>6 DEF CopyCallFails, Parsed, CallsSoFar
  <2>2. heap = MsgBlocks \cup CallsSoFar /\ visible' \in 0 .. Len(generated)
    BY <1>1, <2>1 DEF BlocksInv
  <2> QED BY <2>1, <2>2, FailKeeps
<1>7. CASE NewDiffsFails
  <2>1. visible' = visible /\ pc = "diffs" /\ Parsed /\ Fail({})
    BY <1>7 DEF NewDiffsFails, Parsed
  <2>2. heap = MsgBlocks \cup {} /\ visible' \in 0 .. Len(generated)
    BY <1>1, <2>1 DEF BlocksInv
  <2> QED BY <2>1, <2>2, FailKeeps
<1>8. CASE CopyStringFails
  <2>1. /\ visible' = visible /\ pc = "strings" /\ Parsed
        /\ Fail(DiffBlocks(index - 1) \cup StringsSoFar)
    BY <1>8 DEF CopyStringFails, Parsed
  <2>2. /\ heap = MsgBlocks \cup (DiffBlocks(index - 1) \cup StringsSoFar)
        /\ visible' \in 0 .. Len(generated)
    BY <1>1, <2>1 DEF BlocksInv
  <2> QED BY <2>1, <2>2, FailKeeps
<1> QED BY <1>3, <1>4, <1>5, <1>6, <1>7, <1>8

LEMMA ConvertFailsKeeps == ASSUME StreamInv, ConvertFails PROVE StreamInv'
<1>1. /\ pc = "convert" /\ Parsed /\ ReturnError(heap) /\ unconverted' = TRUE
      /\ UNCHANGED <<generated, visible, prv, diffs, index, string, deltas>>
      /\ heap' = heap /\ out_msg' = out_msg /\ invalid' = invalid
  BY DEF ConvertFails, Parsed, parser, native
<1>2. IsFiniteSet(heap) /\ invalid = FALSE
  BY DEF StreamInv, BlocksInv, StreamTypeOK
<1>3. visible' \in 0 .. Len(generated)
  BY <1>1 DEF StreamInv, StreamTypeOK
<1> QED BY <1>1, <1>2, <1>3, ErrorKeeps

-----------------------------------------------------------------------------
(* Between the calls, and up to the diffs.                                 *)
LEMMA IdleKeeps ==
  ASSUME StreamInv, (\E kind \in Kinds : Update(kind)) \/ Drop
  PROVE  StreamInv'
<1>1. StreamTypeOK /\ BlocksInv /\ ToldInv
  BY DEF StreamInv
<1>2. /\ pc = "idle" /\ visible' = visible /\ index' = index /\ string' = string
      /\ invalid' = invalid /\ delivered' = delivered /\ lost' = lost /\ leaked' = leaked
      /\ unconverted' = unconverted /\ cut' = cut /\ before' = before
  BY DEF Update, Drop, parser, native, history
<1>3. /\ ~Parsed /\ cut <= visible /\ lost \subseteq 1 .. visible
      /\ \A k \in Kinds : delivered[k] = Told(k, visible)
  BY <1>1, <1>2 DEF ToldInv, Parsed
<1>4. /\ visible \in 0 .. Len(generated) /\ generated \in Seq(Kinds)
      /\ Len(generated) <= MaxUpdates /\ cut \in Nat
  BY <1>1 DEF StreamTypeOK
<1>5. CASE \E kind \in Kinds : Update(kind)
  <2>1. PICK kind \in Kinds : Update(kind)
    BY <1>5
  <2>2. /\ generated' = Append(generated, kind) /\ prv' = visible /\ diffs' = <<>>
        /\ out_msg' = {} /\ heap' = {} /\ deltas' = [k \in Kinds |-> <<>>] /\ pc' = "parse"
        /\ Len(generated) < MaxUpdates
    BY <2>1 DEF Update
  <2>3. /\ generated' \in Seq(Kinds) /\ Len(generated') = Len(generated) + 1
        /\ \A p \in 1 .. Len(generated) : generated'[p] = generated[p]
    BY <1>4, <2>2, AppendProperties
  <2>4. StreamTypeOK'
    <3>1. visible' \in 0 .. Len(generated') /\ prv' \in 0 .. Len(generated')
          /\ Len(generated') <= MaxUpdates
      BY <1>2, <1>4, <2>2, <2>3, ChatStreamAssumption
    <3>2. diffs' \in Seq(Diff) /\ deltas' \in [Kinds -> Seq(Positions)]
      BY <2>2
    <3> QED BY <1>1, <1>2, <2>2, <2>3, <3>1, <3>2 DEF StreamTypeOK
  <2>5. BlocksInv'
    BY <1>1, <1>2, <2>2, FS_EmptySet DEF BlocksInv
  <2>6. \A k \in Kinds :
          (Of(k, cut + 1 .. visible) \ lost)' = Of(k, cut + 1 .. visible) \ lost
    BY <1>2, <1>4, <2>3 DEF Of
  <2>7. \A k \in Kinds : (delivered[k] = Told(k, visible))'
    <3> TAKE k \in Kinds
    <3>1. PICK then : then = Of(k, cut + 1 .. visible) \ lost
      OBVIOUS
    <3>2. (Of(k, cut + 1 .. visible) \ lost)' = then
      BY <2>6, <3>1
    <3>3. (InOrder(Of(k, cut + 1 .. visible) \ lost))' = InOrder(then)
      BY <3>2
    <3>4. delivered[k] = before[k] \o InOrder(then)
      BY <1>3, <3>1 DEF Told
    <3> QED BY <1>2, <3>3, <3>4 DEF Told
  <2>8. ToldInv'
    BY <1>2, <1>3, <2>2, <2>7 DEF ToldInv, Parsed
  <2> QED BY <2>4, <2>5, <2>8 DEF StreamInv
<1>6. CASE Drop
  <2>1. /\ generated' = generated /\ prv' = prv /\ diffs' = diffs /\ out_msg' = out_msg
        /\ heap' = heap /\ deltas' = deltas /\ pc' = "dropped"
    BY <1>6 DEF Drop, parser, native
  <2>2. StreamTypeOK'
    BY <1>1, <1>2, <2>1 DEF StreamTypeOK
  <2>3. BlocksInv'
    BY <1>1, <1>2, <2>1 DEF BlocksInv
  <2>4. \A k \in Kinds : (delivered[k] = Told(k, visible))'
    <3> TAKE k \in Kinds
    <3>1. (Told(k, visible))' = Told(k, visible)
      BY <1>2, <2>1, ToldOfVisible
    <3> QED BY <1>2, <1>3, <3>1
  <2>5. ToldInv'
    BY <1>2, <1>3, <2>1, <2>4 DEF ToldInv, Parsed
  <2> QED BY <2>2, <2>3, <2>5 DEF StreamInv
<1> QED BY <1>5, <1>6

(* What is parsed is compared with what the message showed before.         *)
LEMMA NoNewDiffs ==
  ASSUME NEW n \in Nat
  PROVE  DiffsFrom(n, n) = <<>>
<1>1. n + 1 .. n = {}
  OBVIOUS
<1>2. \A kind : Of(kind, n + 1 .. n) = {}
  BY <1>1 DEF Of
<1>3. DOMAIN InOrder({}) = {} /\ InOrder({}) = <<>>
  BY InOrderEmpty
<1>4. DiffsFrom(n, n) = <<>> \o [i \in DOMAIN InOrder({}) |->
                                   [kind |-> "call", texts |-> <<InOrder({})[i]>>]]
  BY <1>2 DEF DiffsFrom
<1>5. PICK rest : rest = [i \in DOMAIN InOrder({}) |->
                            [kind |-> "call", texts |-> <<InOrder({})[i]>>]]
  OBVIOUS
<1>6. rest = [i \in 1 .. 0 |-> [kind |-> "call", texts |-> <<InOrder({})[i]>>]]
  BY <1>3, <1>5
<1>7. rest = <<>>
  BY <1>6
<1> QED BY <1>4, <1>5, <1>7

LEMMA ParseKeeps ==
  ASSUME StreamInv,
         ParseEmpty \/ \E n \in 1 .. Len(generated) : ParseShows(n)
  PROVE  StreamInv'
<1>1. StreamTypeOK /\ BlocksInv /\ ToldInv
  BY DEF StreamInv
<1>2. /\ pc = "parse" /\ pc' = "fields" /\ index' = 1 /\ generated' = generated
      /\ prv' = prv /\ string' = string /\ out_msg' = out_msg /\ heap' = heap
      /\ invalid' = invalid /\ deltas' = deltas /\ delivered' = delivered
      /\ lost' = lost /\ leaked' = leaked /\ unconverted' = unconverted
      /\ cut' = cut /\ before' = before
  BY DEF ParseEmpty, ParseShows, parser, native, history
<1>3. /\ prv = visible /\ visible \in Nat /\ Len(generated) \in Nat /\ lost \subseteq 1 .. visible
      /\ visible <= Len(generated) /\ diffs = <<>> /\ deltas = [k \in Kinds |-> <<>>]
      /\ cut <= visible /\ \A k \in Kinds : delivered[k] = Told(k, visible)
  BY <1>1, <1>2 DEF StreamTypeOK, ToldInv, Parsed
<1>4. visible' \in 0 .. Len(generated) /\ diffs' = DiffsFrom(prv, visible')
  <2>1. CASE ParseEmpty
    <3>1. visible' = visible /\ diffs' = diffs
      BY <2>1 DEF ParseEmpty, parser, native
    <3> QED BY <1>3, <3>1, NoNewDiffs
  <2>2. CASE \E n \in 1 .. Len(generated) : ParseShows(n)
    <3>1. PICK n \in 1 .. Len(generated) : visible' = n /\ diffs' = ComputeDiffs(n)
      BY <2>2 DEF ParseShows
    <3>2. ComputeDiffs(n) = DiffsFrom(visible, n)
      BY DEF ComputeDiffs, DiffsFrom
    <3> QED BY <1>3, <3>1, <3>2
  <2> QED BY <2>1, <2>2
<1>5. StreamTypeOK'
  <2>1. visible' \in 0 .. Len(generated)
    BY <1>3, <1>4
  <2>2. diffs' \in Seq(Diff)
    BY <1>1, <1>3, <1>4, <2>1, DiffsFacts
  <2> QED BY <1>1, <1>2, <2>1, <2>2 DEF StreamTypeOK
<1>6. BlocksInv'
  <2>1. index' \in 1 .. Len(MsgFields') + 1
    <3>1. Len(MsgFields') \in Nat
      BY MsgFieldsType
    <3> QED BY <1>2, <3>1
  <2>2. out_msg' = {} /\ heap' = {} /\ MsgBlocks' = {}
    BY <1>1, <1>2 DEF BlocksInv, MsgBlocks
  <2> QED BY <1>1, <1>2, <2>1, <2>2 DEF BlocksInv
<1>7. ToldInv'
  <2>1. (diffs = DiffsFrom(prv, visible))'
    BY <1>2, <1>4 DEF DiffsFrom, Of
  <2>2. \A k \in Kinds : (delivered[k] = Told(k, prv))'
    <3> TAKE k \in Kinds
    <3>1. (Told(k, prv))' = Told(k, prv)
      BY <1>2, ToldOfPrv
    <3> QED BY <1>2, <1>3, <3>1
  <2>3. cut' <= prv' /\ lost' \subseteq 1 .. prv'
    BY <1>2, <1>3
  <2> QED BY <1>2, <1>3, <2>1, <2>2, <2>3 DEF ToldInv, Parsed
<1> QED BY <1>5, <1>6, <1>7 DEF StreamInv

-----------------------------------------------------------------------------
(* While the blocks are filled, what was delivered and what is to be told  *)
(* stay as they are.                                                       *)
LEMMA ToldKept ==
  ASSUME StreamInv, Parsed, Parsed', pc # "convert", pc' = "convert" => index' = 1,
         UNCHANGED <<generated, visible, prv, diffs, deltas, history>>
  PROVE  ToldInv'
<1>1. /\ StreamTypeOK /\ ToldInv /\ generated' = generated /\ visible' = visible /\ prv' = prv
      /\ diffs' = diffs /\ deltas' = deltas /\ delivered' = delivered /\ lost' = lost
      /\ cut' = cut /\ before' = before
  BY DEF StreamInv, history
<1>2. /\ cut <= prv /\ lost \subseteq 1 .. prv
      /\ \A k \in Kinds : delivered[k] = Told(k, prv)
      /\ diffs = DiffsFrom(prv, visible) /\ deltas = [k \in Kinds |-> <<>>]
  BY <1>1 DEF ToldInv
<1>3. (diffs = DiffsFrom(prv, visible))'
  BY <1>1, <1>2 DEF DiffsFrom, Of
<1>4. \A k \in Kinds : (delivered[k] = Told(k, prv))'
  <2> TAKE k \in Kinds
  <2>1. (Told(k, prv))' = Told(k, prv)
    BY <1>1, ToldOfPrv
  <2> QED BY <1>1, <1>2, <2>1
<1>5. ASSUME pc' = "convert"
      PROVE  /\ deltas'["content"] = <<>> /\ deltas'["call"] = <<>> /\ index' = 1
             /\ SubSeq(InOrder(New("call")'), 1, index' - 1 - NContents') = <<>>
  <2>1. index' = 1 /\ NContents' \in {0, 1} /\ index' - 1 - NContents' < 1
        /\ index' - 1 - NContents' \in Int
    BY <1>5 DEF NContents
  <2>2. SubSeq(InOrder(New("call")'), 1, index' - 1 - NContents') = <<>>
    <3>1. PICK last \in Int : last = index' - 1 - NContents' /\ last < 1
      BY <2>1
    <3>2. \A s : SubSeq(s, 1, last) = <<>>
      BY <3>1, SubSeqEmpty
    <3> QED BY <3>1, <3>2
  <2>3. deltas["content"] = <<>> /\ deltas["call"] = <<>>
    BY <1>2 DEF Kinds
  <2> QED BY <1>1, <2>1, <2>2, <2>3
<1>6. (pc = "convert" =>
         /\ deltas["content"] = IF index = 1 \/ NContents = 0 THEN <<>>
                                ELSE InOrder(New("content"))
         /\ deltas["call"] = SubSeq(InOrder(New("call")), 1, index - 1 - NContents))'
  BY <1>5
<1> QED BY <1>1, <1>2, <1>3, <1>4, <1>6 DEF ToldInv, Parsed

(* One more part of the message is filled.                                 *)
LEMMA MsgBlocksMore ==
  ASSUME UNCHANGED parser, NEW more, out_msg' = out_msg \cup more
  PROVE  MsgBlocks' = MsgBlocks \cup UNION {FieldBlocks(f) : f \in more}
<1>1. \A f : FieldBlocks(f)' = FieldBlocks(f)
  BY DEF parser, FieldBlocks, NCalls, Shown, Of
<1>2. MsgBlocks' = UNION {FieldBlocks(f) : f \in out_msg'}
  BY <1>1 DEF MsgBlocks
<1> QED BY <1>2 DEF MsgBlocks

LEMMA SameMsgBlocks == ASSUME UNCHANGED <<parser, out_msg>> PROVE MsgBlocks' = MsgBlocks
<1>1. out_msg' = out_msg \cup {} /\ UNCHANGED parser
  OBVIOUS
<1>2. MsgBlocks' = MsgBlocks \cup UNION {FieldBlocks(f) : f \in {}}
  BY <1>1, MsgBlocksMore
<1> QED BY <1>2

LEMMA CopyFieldKeeps == ASSUME StreamInv, CopyField PROVE StreamInv'
<1>1. StreamTypeOK /\ BlocksInv /\ ToldInv
  BY DEF StreamInv
<1>2. /\ pc = "fields" /\ pc' = "fields" /\ index <= Len(MsgFields) /\ index' = index + 1
      /\ UNCHANGED <<generated, visible, prv, diffs, deltas, history>> /\ UNCHANGED parser
      /\ string' = string /\ invalid' = invalid /\ leaked' = leaked
      /\ unconverted' = unconverted
  BY DEF CopyField, parser, history
<1>3. PICK f : f = MsgFields[index]
  OBVIOUS
<1>4. heap' = heap \cup {<<f, 0, 0>>} /\ out_msg' = out_msg \cup {f}
  BY <1>3 DEF CopyField
<1>5. index \in 1 .. Len(MsgFields) /\ Len(MsgFields) \in Nat
  BY <1>1, <1>2, MsgFieldsType DEF BlocksInv
<1>6. f \in {"role", "content"}
  BY <1>3, <1>5, MsgFieldsType
<1>7. StreamTypeOK'
  BY <1>1, <1>2, <1>4, <1>6 DEF StreamTypeOK, history
<1>8. BlocksInv'
  <2>1. MsgBlocks' = MsgBlocks \cup {<<f, 0, 0>>}
    <3>1. MsgBlocks' = MsgBlocks \cup UNION {FieldBlocks(g) : g \in {f}}
      BY <1>2, <1>4, MsgBlocksMore
    <3>2. FieldBlocks(f) = {<<f, 0, 0>>}
      BY <1>6 DEF FieldBlocks
    <3> QED BY <3>1, <3>2
  <2>2. MsgFields' = MsgFields
    BY <1>2 DEF MsgFields, HasContent, Shown, Of
  <2>3. index' \in 1 .. Len(MsgFields) + 1
    BY <1>2, <1>5
  <2>4. IsFiniteSet(heap')
    BY <1>1, <1>4, FS_AddElement DEF BlocksInv
  <2> QED BY <1>1, <1>2, <1>4, <1>6, <2>1, <2>2, <2>3, <2>4 DEF BlocksInv
<1>9. ToldInv'
  BY <1>2, ToldKept DEF Parsed
<1> QED BY <1>7, <1>8, <1>9 DEF StreamInv

LEMMA NewCallsKeeps == ASSUME StreamInv, NewCalls PROVE StreamInv'
<1>1. StreamTypeOK /\ BlocksInv /\ ToldInv /\ NCalls \in Nat
  BY NCallsType DEF StreamInv
<1>2. /\ pc = "fields" /\ index' = 1 /\ out_msg' = out_msg
      /\ UNCHANGED <<generated, visible, prv, diffs, deltas, history>> /\ UNCHANGED parser
      /\ string' = string /\ invalid' = invalid /\ leaked' = leaked
      /\ unconverted' = unconverted
      /\ \/ NCalls = 0 /\ pc' = "diffs" /\ heap' = heap
         \/ NCalls > 0 /\ pc' = "calls" /\ heap' = heap \cup {<<"calls", 0, 0>>}
  BY <1>1 DEF NewCalls, parser, history
<1>3. StreamTypeOK'
  BY <1>1, <1>2 DEF StreamTypeOK, history
<1>4. BlocksInv'
  <2>1. MsgBlocks' = MsgBlocks
    BY <1>2, SameMsgBlocks
  <2>2. NCalls' = NCalls
    BY <1>2 DEF NCalls, Shown, Of
  <2>3. CallsSoFar' = {<<"calls", 0, 0>>}
    <3>1. 0 .. index' - 1 = {0}
      BY <1>2
    <3> QED BY <3>1 DEF CallsSoFar
  <2>4. IsFiniteSet(heap')
    <3>1. IsFiniteSet(heap)
      BY <1>1 DEF BlocksInv
    <3>2. IsFiniteSet(heap \cup {<<"calls", 0, 0>>})
      BY <3>1, FS_AddElement
    <3> QED BY <1>2, <3>1, <3>2
  <2> QED BY <1>1, <1>2, <2>1, <2>2, <2>3, <2>4 DEF BlocksInv
<1>5. ToldInv'
  BY <1>2, ToldKept DEF Parsed
<1> QED BY <1>3, <1>4, <1>5 DEF StreamInv

LEMMA CopyCallKeeps == ASSUME StreamInv, CopyCall PROVE StreamInv'
<1>1. StreamTypeOK /\ BlocksInv /\ ToldInv /\ NCalls \in Nat
  BY NCallsType DEF StreamInv
<1>2. /\ pc = "calls" /\ pc' = "calls" /\ index <= NCalls /\ index' = index + 1
      /\ out_msg' = out_msg /\ heap' = heap \cup {<<"calls", index, 0>>}
      /\ UNCHANGED <<generated, visible, prv, diffs, deltas, history>> /\ UNCHANGED parser
      /\ string' = string /\ invalid' = invalid /\ leaked' = leaked
      /\ unconverted' = unconverted
  BY DEF CopyCall, parser, history
<1>3. index \in Nat /\ index \in 1 .. NCalls
  BY <1>1, <1>2 DEF BlocksInv
<1>4. StreamTypeOK'
  BY <1>1, <1>2, <1>3 DEF StreamTypeOK, history
<1>5. BlocksInv'
  <2>1. MsgBlocks' = MsgBlocks
    BY <1>2, SameMsgBlocks
  <2>2. NCalls' = NCalls /\ index' \in 1 .. NCalls + 1
    BY <1>1, <1>2, <1>3 DEF NCalls, Shown, Of
  <2>3. CallsSoFar' = CallsSoFar \cup {<<"calls", index, 0>>}
    <3>1. 0 .. index' - 1 = (0 .. index - 1) \cup {index}
      BY <1>2, <1>3
    <3> QED BY <3>1 DEF CallsSoFar
  <2>4. IsFiniteSet(heap')
    BY <1>1, <1>2, FS_AddElement DEF BlocksInv
  <2> QED BY <1>1, <1>2, <2>1, <2>2, <2>3, <2>4 DEF BlocksInv
<1>6. ToldInv'
  BY <1>2, ToldKept DEF Parsed
<1> QED BY <1>4, <1>5, <1>6 DEF StreamInv

LEMMA PublishCallsKeeps == ASSUME StreamInv, PublishCalls PROVE StreamInv'
<1>1. StreamTypeOK /\ BlocksInv /\ ToldInv /\ NCalls \in Nat
  BY NCallsType DEF StreamInv
<1>2. /\ pc = "calls" /\ pc' = "diffs" /\ index = NCalls + 1 /\ index' = index
      /\ out_msg' = out_msg \cup {"calls"} /\ heap' = heap
      /\ UNCHANGED <<generated, visible, prv, diffs, deltas, history>> /\ UNCHANGED parser
      /\ string' = string /\ invalid' = invalid /\ leaked' = leaked
      /\ unconverted' = unconverted
  BY DEF PublishCalls, parser, history
<1>3. StreamTypeOK'
  BY <1>1, <1>2 DEF StreamTypeOK, history
<1>4. BlocksInv'
  <2>1. MsgBlocks' = MsgBlocks \cup CallsSoFar
    <3>1. MsgBlocks' = MsgBlocks \cup UNION {FieldBlocks(f) : f \in {"calls"}}
      BY <1>2, MsgBlocksMore
    <3>2. FieldBlocks("calls") = CallsSoFar
      <4>1. index - 1 = NCalls
        BY <1>1, <1>2
      <4> QED BY <4>1 DEF FieldBlocks, CallsSoFar
    <3> QED BY <3>1, <3>2
  <2> QED BY <1>1, <1>2, <2>1 DEF BlocksInv
<1>5. ToldInv'
  BY <1>2, ToldKept DEF Parsed
<1> QED BY <1>3, <1>4, <1>5 DEF StreamInv

LEMMA NewDiffsKeeps == ASSUME StreamInv, NewDiffs PROVE StreamInv'
<1>1. StreamTypeOK /\ BlocksInv /\ ToldInv /\ diffs \in Seq(Diff)
  BY DEF StreamInv, StreamTypeOK
<1>2. /\ pc = "diffs" /\ index' = 1 /\ out_msg' = out_msg
      /\ UNCHANGED <<generated, visible, prv, diffs, deltas, history>> /\ UNCHANGED parser
      /\ invalid' = invalid /\ leaked' = leaked /\ unconverted' = unconverted
      /\ \/ diffs = <<>> /\ pc' = "convert" /\ heap' = heap /\ string' = string
         \/ /\ diffs # <<>> /\ pc' = "strings" /\ string' = 1
            /\ heap' = heap \cup {<<"diffs", 0, 0>>}
  BY DEF NewDiffs, parser, history
<1>3. Len(diffs) \in Nat /\ (diffs # <<>> => 1 \in DOMAIN diffs) /\ (diffs = <<>> => Len(diffs) = 0)
  BY <1>1
<1>4. StreamTypeOK'
  BY <1>1, <1>2, <1>3 DEF StreamTypeOK, history
<1>5. BlocksInv'
  <2>1. MsgBlocks' = MsgBlocks /\ heap = MsgBlocks /\ IsFiniteSet(heap)
    BY <1>1, <1>2, SameMsgBlocks DEF BlocksInv
  <2>2. IsFiniteSet(heap \cup {<<"diffs", 0, 0>>})
    BY <2>1, FS_AddElement
  <2>3. CASE diffs = <<>>
    <3>1. Published' = {} /\ index' \in 1 .. Len(diffs') + 1
      BY <1>2, <1>3, <2>3 DEF Published
    <3> QED BY <1>1, <1>2, <2>1, <2>3, <3>1 DEF BlocksInv
  <2>4. CASE diffs # <<>>
    <3>1. (DiffBlocks(index - 1))' = {<<"diffs", 0, 0>>}
      <4>1. index' - 1 = 0 /\ 1 .. 0 = {}
        BY <1>2
      <4> QED BY <4>1 DEF DiffBlocks
    <3>2. StringsSoFar' = {}
      <4>1. 1 .. string' - 1 = {}
        BY <1>2, <2>4
      <4> QED BY <4>1 DEF StringsSoFar
    <3>3. (string \in 1 .. NStrings(diffs[index]))'
      BY <1>2, <2>4, NStringsType
    <3> QED BY <1>1, <1>2, <2>1, <2>2, <2>4, <3>1, <3>2, <3>3 DEF BlocksInv
  <2> QED BY <2>3, <2>4
<1>6. ToldInv'
  BY <1>2, ToldKept DEF Parsed
<1> QED BY <1>4, <1>5, <1>6 DEF StreamInv

LEMMA MoreDiffBlocks ==
  ASSUME NEW i \in Nat \ {0}
  PROVE  DiffBlocks(i) = DiffBlocks(i - 1)
                           \cup {<<"diffs", i, j>> : j \in 1 .. NStrings(diffs[i])}
<1>1. 1 .. i = (1 .. i - 1) \cup {i}
  BY SplitNumber
<1> QED BY <1>1 DEF DiffBlocks

LEMMA CopyStringKeeps == ASSUME StreamInv, CopyString PROVE StreamInv'
<1>1. StreamTypeOK /\ BlocksInv /\ ToldInv /\ diffs \in Seq(Diff)
  BY DEF StreamInv, StreamTypeOK
<1>2. /\ pc = "strings" /\ out_msg' = out_msg /\ heap' = heap \cup {<<"diffs", index, string>>}
      /\ UNCHANGED <<generated, visible, prv, diffs, deltas, history>> /\ UNCHANGED parser
      /\ diffs' = diffs /\ invalid' = invalid /\ leaked' = leaked /\ unconverted' = unconverted
      /\ IF string < NStrings(diffs[index])
         THEN string' = string + 1 /\ pc' = pc /\ index' = index
         ELSE /\ string' = 1
              /\ IF index < Len(diffs) THEN index' = index + 1 /\ pc' = pc
                                       ELSE index' = 1 /\ pc' = "convert"
  BY DEF CopyString, parser, history
<1>3. /\ Len(diffs) \in Nat /\ index \in 1 .. Len(diffs) /\ string \in Nat
      /\ DOMAIN diffs = 1 .. Len(diffs)
      /\ string \in 1 .. NStrings(diffs[index]) /\ diffs # <<>>
      /\ heap = MsgBlocks \cup DiffBlocks(index - 1) \cup StringsSoFar /\ IsFiniteSet(heap)
  BY <1>1, <1>2 DEF StreamTypeOK, BlocksInv
<1>4. StreamTypeOK'
  <2>1. index' \in Nat /\ string' \in Nat /\ (pc' = "strings" => index' \in DOMAIN diffs')
    BY <1>2, <1>3
  <2>2. heap' \in SUBSET ({"role", "content", "calls", "diffs"} \X Nat \X Nat)
    BY <1>1, <1>2, <1>3 DEF StreamTypeOK
  <2>3. pc' \in {"strings", "convert"}
    BY <1>2
  <2> QED BY <1>1, <1>2, <2>1, <2>2, <2>3 DEF StreamTypeOK, history
<1>5. BlocksInv'
  <2>1. MsgBlocks' = MsgBlocks
    BY <1>2, SameMsgBlocks
  <2>2. IsFiniteSet(heap')
    <3>1. IsFiniteSet(heap \cup {<<"diffs", index, string>>})
      BY <1>3, FS_AddElement
    <3> QED BY <1>2, <3>1
  <2>3. \A i : DiffBlocks(i)' = DiffBlocks(i)
    BY <1>2 DEF DiffBlocks
  <2>4. 1 .. string = (1 .. string - 1) \cup {string}
    BY <1>3, SplitNumber
  <2>5. StringsSoFar \cup {<<"diffs", index, string>>}
          = {<<"diffs", index, j>> : j \in 1 .. string}
    BY <2>4 DEF StringsSoFar
  <2>6. CASE string < NStrings(diffs[index])
    <3>1. string' = string + 1 /\ pc' = "strings" /\ index' = index
      BY <1>2, <2>6
    <3>2. StringsSoFar' = {<<"diffs", index, j>> : j \in 1 .. string}
      <4>1. string' - 1 = string
        BY <1>3, <3>1
      <4> QED BY <3>1, <4>1 DEF StringsSoFar
    <3>3. string' \in 1 .. NStrings(diffs[index]) /\ NStrings(diffs[index])' = NStrings(diffs[index])
      <4>1. NStrings(diffs[index]) \in {1, 3}
        BY NStringsType
      <4> QED BY <1>2, <1>3, <2>6, <3>1, <4>1 DEF NStrings
    <3>4. (DiffBlocks(index - 1))' = DiffBlocks(index - 1)
      BY <1>2, <3>1 DEF DiffBlocks
    <3>5. heap' = MsgBlocks' \cup (DiffBlocks(index - 1))' \cup StringsSoFar'
      BY <1>2, <1>3, <2>1, <2>5, <3>2, <3>4
    <3> QED BY <1>1, <1>2, <2>2, <3>1, <3>3, <3>5 DEF BlocksInv
  <2>7. CASE ~(string < NStrings(diffs[index]))
    <3>1. string = NStrings(diffs[index]) /\ string' = 1
      <4>1. NStrings(diffs[index]) \in {1, 3}
        BY NStringsType
      <4> QED BY <1>2, <1>3, <2>7, <4>1
    <3>2. heap' = MsgBlocks' \cup DiffBlocks(index)
      <4>1. DiffBlocks(index) = DiffBlocks(index - 1)
                                  \cup {<<"diffs", index, j>> : j \in 1 .. string}
        BY <1>3, <3>1, MoreDiffBlocks
      <4> QED BY <1>2, <1>3, <2>1, <2>5, <4>1
    <3>3. CASE index < Len(diffs)
      <4>1. index' = index + 1 /\ pc' = "strings"
        BY <1>2, <2>7, <3>3
      <4>2. (DiffBlocks(index - 1))' = DiffBlocks(index)
        <5>1. index' - 1 = index
          BY <1>3, <4>1
        <5> QED BY <1>2, <5>1 DEF DiffBlocks
      <4>3. StringsSoFar' = {}
        <5>1. 1 .. string' - 1 = {}
          BY <3>1
        <5> QED BY <5>1 DEF StringsSoFar
      <4>4. (string \in 1 .. NStrings(diffs[index]))'
        BY <3>1, NStringsType
      <4> QED BY <1>1, <1>2, <2>2, <3>2, <4>1, <4>2, <4>3, <4>4 DEF BlocksInv
    <3>4. CASE ~(index < Len(diffs))
      <4>1. index' = 1 /\ pc' = "convert" /\ index = Len(diffs)
        <5>1. index' = 1 /\ pc' = "convert"
          BY <1>2, <2>7, <3>4
        <5>2. PICK last \in Nat : last = Len(diffs)
          BY <1>3
        <5>3. index \in 1 .. last /\ ~(index < last)
          BY <1>3, <3>4, <5>2
        <5>4. index = last
          BY ONLY <5>2, <5>3
        <5> QED BY <5>1, <5>2, <5>4
      <4>2. Published' = DiffBlocks(index)
        BY <1>2, <1>3, <4>1 DEF Published, DiffBlocks
      <4>3. index' \in 1 .. Len(diffs') + 1
        BY <1>2, <1>3, <4>1
      <4> QED BY <1>1, <1>2, <2>2, <3>2, <4>1, <4>2, <4>3 DEF BlocksInv
    <3> QED BY <3>3, <3>4
  <2> QED BY <2>6, <2>7
<1>6. ToldInv'
  BY <1>2, ToldKept DEF Parsed
<1> QED BY <1>4, <1>5, <1>6 DEF StreamInv

-----------------------------------------------------------------------------
(* Rust turns the diffs into deltas.                                       *)
LEMMA ConvertKeeps == ASSUME StreamInv, Convert PROVE StreamInv'
<1>1. StreamTypeOK /\ BlocksInv /\ ToldInv /\ diffs \in Seq(Diff)
      /\ deltas \in [Kinds -> Seq(Positions)]
  BY DEF StreamInv, StreamTypeOK
<1>2. /\ pc = "convert" /\ pc' = pc /\ index <= Len(diffs) /\ index' = index + 1
      /\ deltas' = [deltas EXCEPT ![diffs[index].kind] = @ \o diffs[index].texts]
      /\ UNCHANGED <<parser, native, pc, history>>
      /\ generated' = generated /\ visible' = visible /\ prv' = prv /\ diffs' = diffs
      /\ string' = string /\ out_msg' = out_msg /\ heap' = heap /\ invalid' = invalid
      /\ delivered' = delivered /\ lost' = lost /\ leaked' = leaked
      /\ unconverted' = unconverted /\ cut' = cut /\ before' = before
  BY DEF Convert, parser, native, history
<1>3. Len(diffs) \in Nat /\ index \in 1 .. Len(diffs) /\ index \in Nat
      /\ heap = MsgBlocks \cup Published
  <2>1. Len(diffs) \in Nat /\ index \in 1 .. Len(diffs) + 1
    BY <1>1, <1>2 DEF BlocksInv
  <2> QED BY <1>1, <1>2, <2>1 DEF BlocksInv
<1>4. diffs[index] \in Diff
  BY <1>1, <1>3
<1>5. /\ Parsed /\ prv \in Nat /\ visible \in 0 .. Len(generated) /\ cut <= prv
      /\ lost \subseteq 1 .. prv /\ diffs = DiffsFrom(prv, visible)
      /\ \A k \in Kinds : delivered[k] = Told(k, prv)
      /\ deltas["content"] = IF index = 1 \/ NContents = 0 THEN <<>>
                             ELSE InOrder(New("content"))
      /\ deltas["call"] = SubSeq(InOrder(New("call")), 1, index - 1 - NContents)
  BY <1>1, <1>2 DEF ToldInv, Parsed, StreamTypeOK
<1>6. StreamTypeOK'
  <2>1. deltas' \in [Kinds -> Seq(Positions)]
    BY <1>1, <1>2, <1>4, ConcatProperties DEF Diff
  <2>2. index' \in Nat /\ pc' # "strings"
    BY <1>2, <1>3
  <2>3. cut' = cut /\ before' = before
    BY <1>2
  <2> QED BY <1>1, <1>2, <2>1, <2>2, <2>3 DEF StreamTypeOK
<1>7. BlocksInv'
  <2>1. MsgBlocks' = MsgBlocks
    BY <1>2, SameMsgBlocks
  <2>2. Published' = Published
    BY <1>2 DEF Published, DiffBlocks
  <2>3. index' \in 1 .. Len(diffs) + 1
    BY <1>2, <1>3
  <2> QED BY <1>1, <1>2, <1>3, <2>1, <2>2, <2>3 DEF BlocksInv
<1>8. ToldInv'
  <2>1. PICK tools : tools = InOrder(New("call"))
    OBVIOUS
  <2>2. PICK first \in {0, 1} : first = NContents
    BY DEF NContents
  <2>3. /\ Len(diffs) = first + Len(tools) /\ Len(tools) \in Nat /\ tools \in Seq(Positions)
        /\ InOrder(New("content")) \in Seq(Positions)
        /\ first = 1 => diffs[1] = [kind |-> "content", texts |-> InOrder(New("content"))]
        /\ \A i \in 1 .. Len(tools) :
             diffs[first + i] = [kind |-> "call", texts |-> <<tools[i]>>]
    BY <1>1, <1>5, <2>1, <2>2, DiffsFacts DEF New, NContents
  <2>4. /\ deltas'["content"] = IF first = 0 THEN <<>> ELSE InOrder(New("content"))
        /\ deltas'["call"] = SubSeq(tools, 1, index - first)
    <3>1. CASE first = 1 /\ index = 1
      <4>1. PICK d : d = diffs[index]
        OBVIOUS
      <4>2. d.kind = "content" /\ d.texts = InOrder(New("content"))
        BY <2>3, <3>1, <4>1
      <4>3. deltas["content"] = <<>> /\ deltas["call"] = <<>>
        <5>1. SubSeq(tools, 1, -1) = <<>>
          BY SubSeqEmpty
        <5>2. index - 1 - NContents = -1
          BY <2>2, <3>1
        <5> QED BY <1>5, <2>1, <3>1, <5>1, <5>2
      <4>4. deltas'["content"] = <<>> \o InOrder(New("content")) /\ deltas'["call"] = <<>>
        BY <1>1, <1>2, <4>1, <4>2, <4>3 DEF Kinds
      <4>5. SubSeq(tools, 1, 0) = <<>> /\ index - first = 0
        BY <3>1, SubSeqEmpty
      <4> QED BY <2>3, <3>1, <4>4, <4>5, ConcatEmptySeq
    <3>2. CASE ~(first = 1 /\ index = 1)
      <4>1. PICK k \in 1 .. Len(tools) : index = first + k
        <5>1. index - first \in 1 .. Len(tools) /\ index = first + (index - first)
          BY <1>3, <2>3, <3>2
        <5> QED BY <5>1
      <4>2. PICK d : d = diffs[index]
        OBVIOUS
      <4>3. d.kind = "call" /\ d.texts = <<tools[k]>>
        <5>1. diffs[first + k] = [kind |-> "call", texts |-> <<tools[k]>>]
          BY <2>3
        <5>2. d = [kind |-> "call", texts |-> <<tools[k]>>]
          BY <4>1, <4>2, <5>1
        <5> QED BY <5>2
      <4>4. /\ deltas["content"] = IF first = 0 THEN <<>> ELSE InOrder(New("content"))
            /\ deltas["call"] = SubSeq(tools, 1, k - 1)
        <5>1. index - 1 - NContents = k - 1
          BY <2>2, <4>1
        <5>2. index = 1 => first = 0
          BY <3>2
        <5> QED BY <1>5, <2>1, <2>2, <5>1, <5>2
      <4>5. /\ deltas'["content"] = deltas["content"]
            /\ deltas'["call"] = deltas["call"] \o <<tools[k]>>
        BY <1>1, <1>2, <4>2, <4>3 DEF Kinds
      <4>6. SubSeq(tools, 1, k) = SubSeq(tools, 1, k - 1) \o <<tools[k]>>
        <5>1. 1 \in 1 .. Len(tools)
          BY <4>1
        <5> QED BY <2>3, <4>1, <5>1, SubSeqRecursiveSecond
      <4>7. index - first = k
        BY <4>1
      <4> QED BY <4>4, <4>5, <4>6, <4>7
    <3> QED BY <3>1, <3>2
  <2>5. index' # 1 /\ index' - 1 - first = index - first
    BY <1>2, <1>3
  <2>6. NContents' = first /\ (InOrder(New("content")))' = InOrder(New("content"))
        /\ (InOrder(New("call")))' = tools
    <3>1. New("content")' = New("content") /\ New("call")' = New("call")
      BY <1>2 DEF New, Of
    <3> QED BY <2>1, <2>2, <3>1 DEF NContents
  <2>7. (/\ deltas["content"] = IF index = 1 \/ NContents = 0 THEN <<>>
                                ELSE InOrder(New("content"))
         /\ deltas["call"] = SubSeq(InOrder(New("call")), 1, index - 1 - NContents))'
    BY <2>4, <2>5, <2>6
  <2>8. (diffs = DiffsFrom(prv, visible))'
    BY <1>2, <1>5 DEF DiffsFrom, Of
  <2>9. \A k \in Kinds : (delivered[k] = Told(k, prv))'
    <3> TAKE k \in Kinds
    <3>1. (Told(k, prv))' = Told(k, prv)
      BY <1>2, ToldOfPrv
    <3> QED BY <1>2, <1>5, <3>1
  <2> QED BY <1>2, <1>5, <2>7, <2>8, <2>9 DEF ToldInv, Parsed
<1> QED BY <1>6, <1>7, <1>8 DEF StreamInv

(* All the diffs are converted: what this call adds to what was delivered  *)
(* is what the message shows since.                                        *)
LEMMA AllConverted ==
  ASSUME StreamInv, pc = "convert", index = Len(diffs) + 1, NEW k \in Kinds
  PROVE  deltas[k] = InOrder(New(k))
<1>1. StreamTypeOK /\ ToldInv /\ Parsed /\ diffs \in Seq(Diff) /\ Len(diffs) \in Nat
  BY DEF StreamInv, StreamTypeOK, Parsed
<1>2. /\ prv \in Nat /\ visible \in 0 .. Len(generated) /\ diffs = DiffsFrom(prv, visible)
      /\ deltas["content"] = IF index = 1 \/ NContents = 0 THEN <<>>
                             ELSE InOrder(New("content"))
      /\ deltas["call"] = SubSeq(InOrder(New("call")), 1, index - 1 - NContents)
  BY <1>1 DEF ToldInv, StreamTypeOK
<1>3. PICK tools : tools = InOrder(New("call"))
  OBVIOUS
<1>4. PICK first \in {0, 1} : first = NContents
  BY DEF NContents
<1>5. Len(diffs) = first + Len(tools) /\ Len(tools) \in Nat /\ tools \in Seq(Positions)
  BY <1>1, <1>2, <1>3, <1>4, DiffsFacts DEF New, NContents
<1>6. CASE k = "content"
  <2>1. CASE first = 0
    <3>1. New("content") = {}
      BY <1>4, <2>1 DEF NContents
    <3> QED BY <1>2, <1>4, <1>6, <2>1, <3>1, InOrderEmpty
  <2>2. CASE first = 1
    <3>1. index # 1
      BY <1>5, <2>2
    <3> QED BY <1>2, <1>4, <1>6, <2>2, <3>1
  <2> QED BY <2>1, <2>2
<1>7. CASE k = "call"
  <2>1. index - 1 - first = Len(tools)
    BY <1>1, <1>5
  <2>2. SubSeq(tools, 1, Len(tools)) = tools
    BY <1>5, SubSeqFull
  <2> QED BY <1>2, <1>3, <1>4, <1>7, <2>1, <2>2
<1> QED BY <1>6, <1>7 DEF Kinds

LEMMA FreeAndReturnKeeps == ASSUME StreamInv, FreeAndReturn PROVE StreamInv'
<1>1. StreamTypeOK /\ BlocksInv /\ ToldInv /\ diffs \in Seq(Diff)
      /\ deltas \in [Kinds -> Seq(Positions)] /\ delivered \in [Kinds -> Seq(Positions)]
  BY DEF StreamInv, StreamTypeOK
<1>2. /\ pc = "convert" /\ pc' = "idle" /\ index = Len(diffs) + 1
      /\ Free(MsgBlocks \cup Published) /\ out_msg' = {}
      /\ delivered' = [k \in Kinds |-> delivered[k] \o deltas[k]]
      /\ leaked' = leaked + Cardinality(heap')
      /\ generated' = generated /\ visible' = visible /\ prv' = prv /\ diffs' = diffs
      /\ string' = string /\ index' = index /\ deltas' = deltas
      /\ lost' = (lost \cup {}) \cap (1 .. visible')
      /\ unconverted' = unconverted
      /\ \/ visible' < prv /\ cut' = visible' /\ before' = delivered'
         \/ ~(visible' < prv) /\ cut' = cut /\ before' = before
  BY DEF FreeAndReturn, Returns, Published, parser
<1>3. heap = MsgBlocks \cup Published /\ invalid = FALSE /\ leaked \in Nat
      /\ (leaked > 0 => unconverted)
  BY <1>1, <1>2 DEF BlocksInv, StreamTypeOK
<1>4. heap' = {} /\ invalid' = FALSE /\ leaked' = leaked
  <2>1. heap' = {} /\ invalid' = FALSE
    BY <1>2, <1>3 DEF Free
  <2>2. Cardinality(heap') = 0
    BY <2>1, FS_EmptySet
  <2> QED BY <1>2, <1>3, <2>1, <2>2
<1>5. StreamTypeOK'
  <2>1. delivered' \in [Kinds -> Seq(Positions)]
    <3>1. \A k \in Kinds : delivered[k] \o deltas[k] \in Seq(Positions)
      BY <1>1, ConcatProperties
    <3> QED BY <1>2, <3>1
  <2>2. lost' \in SUBSET Positions
    BY <1>1, <1>2 DEF StreamTypeOK
  <2>3. cut' \in 0 .. MaxUpdates /\ before' \in [Kinds -> Seq(Positions)]
    <3>1. visible \in 0 .. MaxUpdates
      BY <1>1, ChatStreamAssumption DEF StreamTypeOK
    <3> QED BY <1>1, <1>2, <2>1, <3>1 DEF StreamTypeOK
  <2> QED BY <1>1, <1>2, <1>4, <2>1, <2>2, <2>3 DEF StreamTypeOK
<1>6. BlocksInv'
  BY <1>2, <1>3, <1>4, FS_EmptySet DEF BlocksInv
<1>7. ToldInv'
  <2>1. /\ prv \in Nat /\ visible \in Nat /\ cut \in Nat /\ cut <= prv
        /\ lost \subseteq 1 .. prv /\ \A k \in Kinds : delivered[k] = Told(k, prv)
    BY <1>1, <1>2 DEF ToldInv, Parsed, StreamTypeOK
  <2>2. lost' \subseteq 1 .. visible'
    BY <1>2
  <2>a. /\ visible' = visible
        /\ \/ visible < prv /\ cut' = visible /\ before' = delivered'
           \/ ~(visible < prv) /\ cut' = cut /\ before' = before
    BY <1>2
  <2>3. CASE visible < prv
    <3>1. cut' = visible' /\ before' = delivered' /\ visible' \in Nat /\ cut' <= visible'
      BY ONLY <2>a, <2>1, <2>3
    <3>2. before' \in [Kinds -> Seq(Positions)]
      BY <1>5 DEF StreamTypeOK
    <3>3. \A k \in Kinds : (delivered[k] = Told(k, visible))'
      <4> TAKE k \in Kinds
      <4>1. (Told(k, visible))' = before'[k]
        BY <3>1, <3>2, ToldAnew
      <4> QED BY <3>1, <4>1
    <3> QED BY <1>2, <2>2, <3>1, <3>3 DEF ToldInv, Parsed
  <2>4. CASE ~(visible < prv)
    <3>1. cut' = cut /\ before' = before /\ prv <= visible /\ cut' <= visible'
      BY ONLY <2>a, <2>1, <2>4
    <3>2. lost' = lost
      <4>1. lost' = lost \cap (1 .. visible)
        BY <1>2
      <4>2. lost \subseteq 1 .. visible
        BY ONLY <2>1, <3>1
      <4> QED BY <4>1, <4>2
    <3>3. \A k \in Kinds : (delivered[k] = Told(k, visible))'
      <4> TAKE k \in Kinds
      <4>1. PICK old : old = Of(k, cut + 1 .. prv) \ lost
        OBVIOUS
      <4>2. PICK new : new = New(k)
        OBVIOUS
      <4>3. delivered'[k] = (before[k] \o InOrder(old)) \o InOrder(new)
        <5>1. deltas[k] = InOrder(new)
          BY <1>2, <4>2, AllConverted
        <5>2. delivered[k] = before[k] \o InOrder(old)
          BY <2>1, <4>1 DEF Told
        <5> QED BY <1>2, <5>1, <5>2
      <4>4. old \in SUBSET Int /\ IsFiniteSet(old) /\ new \in SUBSET Int /\ IsFiniteSet(new)
        <5>1. Of(k, cut + 1 .. prv) \in SUBSET Int /\ IsFiniteSet(Of(k, cut + 1 .. prv))
          BY <1>1, <2>1, Counted
        <5>2. old \in SUBSET Int /\ IsFiniteSet(old)
          BY <4>1, <5>1, FS_Subset
        <5>3. prv + 1 \in Int /\ visible \in Int
          BY <2>1
        <5>4. new \in SUBSET Int /\ IsFiniteSet(new)
          BY <1>1, <4>2, <5>3, Counted DEF New
        <5> QED BY <5>2, <5>4
      <4>5. \A a \in old, b \in new : a < b
        <5> TAKE a \in old, b \in new
        <5>1. a \in cut + 1 .. prv /\ b \in prv + 1 .. visible
          BY <4>1, <4>2 DEF New, Of
        <5> QED BY <2>1, <5>1
      <4>6. (Of(k, cut + 1 .. visible) \ lost)' = old \cup new
        <5>1. cut + 1 .. visible = (cut + 1 .. prv) \cup (prv + 1 .. visible)
          BY <2>1, <3>1
        <5>2. \A p \in prv + 1 .. visible : p \notin lost
          BY <2>1
        <5> QED BY <1>2, <3>1, <3>2, <4>1, <4>2, <5>1, <5>2 DEF New, Of
      <4>7. (InOrder(Of(k, cut + 1 .. visible) \ lost))' = InOrder(old \cup new)
        BY <4>6
      <4>8. InOrder(old \cup new) = InOrder(old) \o InOrder(new)
        BY <4>4, <4>5, InOrderJoin
      <4>9. PICK a \in Seq(Int), b \in Seq(Int), c \in Seq(Int) :
              a = before[k] /\ b = InOrder(old) /\ c = InOrder(new)
        <5>1. before[k] \in Seq(Int)
          <6>1. before[k] \in Seq(Positions)
            BY <1>1 DEF StreamTypeOK
          <6>2. Positions \subseteq Int
            BY DEF Positions
          <6> QED BY <6>1, <6>2, SeqMonotonic
        <5>2. InOrder(old) \in Seq(Int)
          <6>1. InOrder(old) \in Seq(old)
            BY <4>4, InOrderFacts
          <6> QED BY <4>4, <6>1, SeqMonotonic
        <5>3. InOrder(new) \in Seq(Int)
          <6>1. InOrder(new) \in Seq(new)
            BY <4>4, InOrderFacts
          <6> QED BY <4>4, <6>1, SeqMonotonic
        <5> QED BY <5>1, <5>2, <5>3
      <4>10. (a \o b) \o c = a \o (b \o c)
        BY ConcatAssociative
      <4>11. (Told(k, visible))' = a \o (b \o c)
        BY <3>1, <4>7, <4>8, <4>9 DEF Told
      <4> QED BY <4>3, <4>9, <4>10, <4>11
    <3> QED BY <1>2, <2>2, <3>1, <3>3 DEF ToldInv, Parsed
  <2> QED BY <2>3, <2>4
<1> QED BY <1>5, <1>6, <1>7 DEF StreamInv

LEMMA StreamStutters == ASSUME StreamInv, UNCHANGED streamVars PROVE StreamInv'
<1>1. StreamTypeOK /\ BlocksInv /\ ToldInv
  BY DEF StreamInv
<1>2. /\ pc' = pc /\ index' = index /\ deltas' = deltas
      /\ generated' = generated /\ visible' = visible /\ prv' = prv /\ diffs' = diffs
      /\ string' = string /\ out_msg' = out_msg /\ heap' = heap /\ invalid' = invalid
      /\ delivered' = delivered /\ lost' = lost /\ leaked' = leaked
      /\ unconverted' = unconverted /\ cut' = cut /\ before' = before
  BY DEF streamVars, parser, native, history
<1>3. StreamTypeOK'
  BY <1>1, <1>2 DEF StreamTypeOK
<1>4. BlocksInv'
  <2>1. MsgBlocks' = MsgBlocks /\ Published' = Published /\ StringsSoFar' = StringsSoFar
        /\ CallsSoFar' = CallsSoFar /\ (DiffBlocks(index - 1))' = DiffBlocks(index - 1)
    BY <1>2 DEF MsgBlocks, FieldBlocks, NCalls, Shown, Of, Published, DiffBlocks, NStrings,
                StringsSoFar, CallsSoFar
  <2>2. MsgFields' = MsgFields /\ NCalls' = NCalls
        /\ NStrings(diffs[index])' = NStrings(diffs[index])
    BY <1>2 DEF MsgFields, HasContent, NCalls, Shown, Of, NStrings
  <2> QED BY <1>1, <1>2, <2>1, <2>2 DEF BlocksInv
<1>5. ToldInv'
  <2>1. \A k \in Kinds : /\ (Told(k, visible))' = Told(k, visible)
                         /\ (Told(k, prv))' = Told(k, prv)
    BY <1>2, ToldOfPrv, ToldOfVisible
  <2>2. /\ NContents' = NContents /\ (InOrder(New("content")))' = InOrder(New("content"))
        /\ (InOrder(New("call")))' = InOrder(New("call"))
    <3>1. New("content")' = New("content") /\ New("call")' = New("call")
      BY <1>2 DEF New, Of
    <3> QED BY <3>1 DEF NContents
  <2>3. (DiffsFrom(prv, visible))' = DiffsFrom(prv, visible)
    BY <1>2 DEF DiffsFrom, Of
  <2> QED BY <1>1, <1>2, <2>1, <2>2, <2>3 DEF ToldInv, Parsed
<1> QED BY <1>3, <1>4, <1>5 DEF StreamInv

LEMMA StepStream == StreamInv /\ [StreamNext]_streamVars => StreamInv'
<1> SUFFICES ASSUME StreamInv, [StreamNext]_streamVars PROVE StreamInv'
  OBVIOUS
<1>1. CASE (\E kind \in Kinds : Update(kind)) \/ Drop
  BY <1>1, IdleKeeps
<1>2. CASE ParseEmpty \/ \E n \in 1 .. Len(generated) : ParseShows(n)
  BY <1>2, ParseKeeps
<1>3. CASE \/ ParseThrows \/ \E n \in 1 .. Len(generated) : DiffsThrow(n)
           \/ CopyFieldFails \/ NewCallsFails \/ CopyCallFails
           \/ NewDiffsFails \/ CopyStringFails
  BY <1>3, ErrorSteps
<1>4. CASE CopyField
  BY <1>4, CopyFieldKeeps
<1>5. CASE NewCalls
  BY <1>5, NewCallsKeeps
<1>6. CASE CopyCall
  BY <1>6, CopyCallKeeps
<1>7. CASE PublishCalls
  BY <1>7, PublishCallsKeeps
<1>8. CASE NewDiffs
  BY <1>8, NewDiffsKeeps
<1>9. CASE CopyString
  BY <1>9, CopyStringKeeps
<1>10. CASE Convert
  BY <1>10, ConvertKeeps
<1>11. CASE ConvertFails
  BY <1>11, ConvertFailsKeeps
<1>12. CASE FreeAndReturn
  BY <1>12, FreeAndReturnKeeps
<1>13. CASE UNCHANGED streamVars
  BY <1>13, StreamStutters
<1>14. ASSUME NEW n \in 1 .. Len(generated), ParseShows(n) \/ DiffsThrow(n)
       PROVE  StreamInv'
  BY <1>2, <1>3, <1>14
<1> QED BY <1>1, <1>2, <1>3, <1>4, <1>5, <1>6, <1>7, <1>8, <1>9, <1>10, <1>11, <1>12,
           <1>13, <1>14 DEF StreamNext

LEMMA SpecStream == StreamSpec => []StreamInv
BY InitStream, StepStream, PTL DEF StreamSpec

-----------------------------------------------------------------------------
(* Every variable of the streaming parser keeps its type, and a string is  *)
(* copied only for a diff there is.                                        *)
THEOREM StreamTypeCorrect == StreamSpec => []StreamTypeOK
<1>1. StreamInv => StreamTypeOK
  BY DEF StreamInv
<1> QED BY <1>1, SpecStream, PTL

(* However calls of update fail and whatever the message comes to show,    *)
(* the deltas that were returned are the message the parser keeps: in      *)
(* order, without a text given twice, and without those first shown in a   *)
(* call that failed; from where the message last came to show less, which  *)
(* is where texts are told once more.                                      *)
THEOREM DeltasAddUp == StreamSpec => []DeltasAreTheMessage
<1>1. StreamInv => DeltasAreTheMessage
  BY DEF StreamInv, ToldInv, Parsed, DeltasAreTheMessage
<1> QED BY <1>1, SpecStream, PTL

(* Whatever call fails at whatever string, update leaves no block behind   *)
(* but by its own early returns in the conversion of a diff.               *)
THEOREM OnlyConversionsLeak == StreamSpec => []LeaksOnlyUnconverted
<1>1. StreamInv => LeaksOnlyUnconverted
  BY DEF StreamInv, BlocksInv, LeaksOnlyUnconverted
<1> QED BY <1>1, SpecStream, PTL

(* No path frees a block that is not allocated, or twice.                  *)
THEOREM StreamFreesOnce == StreamSpec => []OnlyLiveBlocks
<1>1. StreamInv => OnlyLiveBlocks
  BY DEF StreamInv, BlocksInv, OnlyLiveBlocks
<1> QED BY <1>1, SpecStream, PTL

-----------------------------------------------------------------------------
(* A call of update, however many steps it takes and wherever it fails, is *)
(* a Call and then a Tell or a Miss of StreamInOrder.                      *)
LEMMA CallPromised ==
  ASSUME StreamInv, NEW kind \in Kinds, Update(kind)
  PROVE  Promise!Next
<1>1. /\ pc = "idle" /\ pc' = "parse" /\ Len(generated) < MaxUpdates
      /\ generated' = Append(generated, kind) /\ prv' = visible
      /\ delivered' = delivered /\ lost' = lost
  BY DEF Update, history
<1>2. Running = FALSE /\ Running' = TRUE
  BY <1>1 DEF Running
<1>3. ShownAtReturn' = ShownAtReturn
  BY <1>1 DEF Running, ShownAtReturn
<1>4. Promise!Call
  BY <1>1, <1>2, <1>3 DEF Promise!Call
<1> QED BY <1>4 DEF Promise!Next

LEMMA InsidePromised ==
  ASSUME UNCHANGED <<generated, delivered, lost, prv>>,
         Running' = Running, Running \/ visible' = visible
  PROVE  UNCHANGED Promise!vars
<1>1. ShownAtReturn' = ShownAtReturn
  BY DEF ShownAtReturn
<1> QED BY <1>1 DEF Promise!vars

LEMMA ErrorPromised ==
  ASSUME StreamInv, Running, visible' \in 0 .. Len(generated),
         UNCHANGED <<generated, prv>>, NEW left, ReturnError(left)
  PROVE  Promise!Next
<1>1. /\ pc' = "idle" /\ lost' = (lost \cup (prv + 1 .. visible')) \cap (1 .. visible')
      /\ delivered' = delivered /\ generated' = generated
  BY DEF ReturnError, Returns
<1>2. Running = TRUE /\ Running' = FALSE
  BY <1>1 DEF Running
<1>3. ShownAtReturn = prv /\ ShownAtReturn' = visible'
  BY <1>2 DEF ShownAtReturn
<1>4. Promise!End
  BY <1>1, <1>2, <1>3 DEF Promise!End
<1>5. Promise!Miss
  BY <1>1, <1>3, <1>4 DEF Promise!Miss
<1> QED BY <1>5 DEF Promise!Next

LEMMA ReturnPromised ==
  ASSUME StreamInv, FreeAndReturn
  PROVE  Promise!Next
<1>1. /\ pc = "convert" /\ pc' = "idle" /\ index = Len(diffs) + 1
      /\ delivered' = [k \in Kinds |-> delivered[k] \o deltas[k]]
      /\ generated' = generated /\ visible' = visible
      /\ lost' = (lost \cup {}) \cap (1 .. visible')
  BY DEF FreeAndReturn, Returns, parser
<1>2. Running = TRUE /\ Running' = FALSE
  BY <1>1 DEF Running
<1>3. ShownAtReturn = prv /\ ShownAtReturn' = visible
  BY <1>1, <1>2 DEF ShownAtReturn
<1>4. visible \in 0 .. Len(generated)
  BY DEF StreamInv, StreamTypeOK
<1>5. Promise!End
  BY <1>1, <1>2, <1>3, <1>4 DEF Promise!End
<1>6. ASSUME NEW k \in Kinds PROVE deltas[k] = InOrder(Promise!New(k))
  <2>1. Promise!New(k) = New(k)
    BY <1>3 DEF Promise!New, New, Of
  <2>2. deltas[k] = InOrder(New(k))
    BY <1>1, AllConverted
  <2> QED BY <2>1, <2>2
<1>7. delivered' = [k \in Kinds |-> delivered[k] \o InOrder(Promise!New(k))]
  BY <1>1, <1>6
<1>8. delivered' = [k \in Kinds |-> delivered[k] \o Promise!InOrder(Promise!New(k))]
  <2>1. \A S : Promise!InOrder(S) = InOrder(S)
    BY DEF InOrder, Promise!InOrder, Cardinality, Promise!Cardinality
  <2> QED BY <1>7, <2>1
<1>9. lost' = lost \cap (1 .. ShownAtReturn')
  BY <1>1, <1>3
<1>10. Promise!Tell
  BY <1>5, <1>8, <1>9 DEF Promise!Tell
<1> QED BY <1>10 DEF Promise!Next

LEMMA StreamRefines ==
  ASSUME StreamInv, [StreamNext]_streamVars
  PROVE  [Promise!Next]_(Promise!vars)
<1>1. CASE \E kind \in Kinds : Update(kind)
  BY <1>1, CallPromised
<1>2. CASE Drop \/ UNCHANGED streamVars
  <2>1. /\ UNCHANGED <<generated, delivered, lost, prv>> /\ visible' = visible
        /\ Running' = Running
    BY <1>2 DEF Drop, streamVars, parser, native, history, Running
  <2> QED BY <2>1, InsidePromised
<1>3. CASE \/ ParseEmpty \/ (\E n \in 1 .. Len(generated) : ParseShows(n))
           \/ CopyField \/ NewCalls \/ CopyCall \/ PublishCalls
           \/ NewDiffs \/ CopyString \/ Convert
  <2>1. UNCHANGED <<generated, delivered, lost, prv>>
    BY <1>3 DEF ParseEmpty, ParseShows, CopyField, NewCalls, CopyCall, PublishCalls,
                NewDiffs, CopyString, Convert, parser, native, history
  <2>2. Running /\ Running'
    BY <1>3 DEF ParseEmpty, ParseShows, CopyField, NewCalls, CopyCall, PublishCalls,
                NewDiffs, CopyString, Convert, Running
  <2> QED BY <2>1, <2>2, InsidePromised
<1>4. CASE \/ ParseThrows \/ (\E n \in 1 .. Len(generated) : DiffsThrow(n))
           \/ CopyFieldFails \/ NewCallsFails \/ CopyCallFails
           \/ NewDiffsFails \/ CopyStringFails \/ ConvertFails
  <2>1. visible \in 0 .. Len(generated) /\ Len(generated) \in Nat
    BY DEF StreamInv, StreamTypeOK
  <2>2. Running
    BY <1>4 DEF ParseThrows, DiffsThrow, CopyFieldFails, NewCallsFails, CopyCallFails,
                NewDiffsFails, CopyStringFails, ConvertFails, Running
  <2>3. visible' \in 0 .. Len(generated)
    BY <1>4, <2>1 DEF ParseThrows, DiffsThrow, CopyFieldFails, NewCallsFails, CopyCallFails,
                      NewDiffsFails, CopyStringFails, ConvertFails, parser
  <2>4. UNCHANGED <<generated, prv>> /\ \E left : ReturnError(left)
    BY <1>4 DEF ParseThrows, DiffsThrow, CopyFieldFails, NewCallsFails, CopyCallFails,
                NewDiffsFails, CopyStringFails, ConvertFails, Fail, parser, native
  <2> QED BY <2>2, <2>3, <2>4, ErrorPromised
<1>5. CASE FreeAndReturn
  BY <1>5, ReturnPromised
<1>6. ASSUME NEW n \in 1 .. Len(generated), ParseShows(n) \/ DiffsThrow(n)
      PROVE  [Promise!Next]_(Promise!vars)
  BY <1>3, <1>4, <1>6
<1> QED BY <1>1, <1>2, <1>3, <1>4, <1>5, <1>6 DEF StreamNext

LEMMA StreamPromisedAtFirst == StreamInit => Promise!Init
<1> SUFFICES ASSUME StreamInit PROVE Promise!Init
  OBVIOUS
<1>1. /\ generated = <<>> /\ visible = 0 /\ pc = "idle" /\ lost = {}
      /\ delivered = [k \in Kinds |-> <<>>]
  BY DEF StreamInit
<1>2. Running = FALSE /\ ShownAtReturn = 0
  BY <1>1 DEF Running, ShownAtReturn
<1> QED BY <1>1, <1>2 DEF Promise!Init

(* The parser implements StreamInOrder: whatever fails inside a call of    *)
(* update, the call returns all of the new texts or none of them, and what *)
(* a failing call made the message show is not returned by a later one     *)
(* unless the message has stopped showing it.                              *)
THEOREM UpdatesAreWhole == StreamSpec => ImplementsStreamInOrder
<1>1. StreamSpec => [][Promise!Next]_(Promise!vars)
  <2>1. StreamInv /\ [StreamNext]_streamVars => [Promise!Next]_(Promise!vars)
    BY StreamRefines
  <2> QED BY <2>1, SpecStream, PTL DEF StreamSpec
<1>2. StreamSpec => Promise!Init
  BY StreamPromisedAtFirst DEF StreamSpec
<1> QED BY <1>1, <1>2 DEF ImplementsStreamInOrder, Promise!Spec
=============================================================================
