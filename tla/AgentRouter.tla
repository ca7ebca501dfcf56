---------------------------- MODULE AgentRouter ----------------------------
(***************************************************************************)
(* How one query is answered: the router of app/agent.py, its CRM tool     *)
(* (app/tools.py, app/mock_crm.py) and the RAG step of app/generation.py.  *)
(* The language model, the CRM and the search are the environment: each    *)
(* call may return anything its interface admits, or raise.                *)
(***************************************************************************)
EXTENDS Naturals, Sequences

CONSTANTS
  KnownCodes,    \* application numbers the CRM has a record of
  UnknownCodes,  \* and others of the same format
  None,          \* no number, no reply
  Chunks,        \* chunks of the knowledge base
  MaxToolCalls   \* bound: tool calls in one message of the model

Codes == KnownCodes \cup UnknownCodes

ASSUME AgentAssumption == None \notin Codes /\ MaxToolCalls \in Nat

(* The arguments of a tool call: a number; nothing usable (absent, {}, a    *)
(* string that is not JSON); a blank string; a number with a key too many;  *)
(* a JSON value that is not a string; JSON that is not an object.           *)
Arguments == Codes \cup {"nothing", "blank", "extra", "notString", "notObject"}
ToolCalls == [name : {"get_application_status", "other"}, args : Arguments]

(* The tool calls of one message of the model. *)
Messages == UNION {[1 .. n -> ToolCalls] : n \in 0 .. MaxToolCalls}

(* What get_application_status returns, and the results the router makes.   *)
Errors == {"empty_code", "not_found", "unavailable", "unknown_tool", "bad_arguments"}
Results == Errors \cup {"record"}

VARIABLES
  query,    \* intent: STATUS_INTENT_RE matches; code: what CODE_RE finds
  tools,    \* settings.enable_tools
  pc,
  calls,    \* tool calls of the model not yet handled
  asked,    \* number of tool calls the model has made
  results,  \* messages of role tool
  looked,   \* numbers looked up in the CRM
  chunks,   \* what the search has found
  llmCalls, \* calls of the model made
  reply     \* the RagResult: [answer, sources], or None

vars == <<query, tools, pc, calls, asked, results, looked, chunks, llmCalls, reply>>

Answers == {"generated", "noContext", "missingCode", "composed", "apology"}

ASSUME NoneAssumption == None \notin [answer : Answers, sources : SUBSET Chunks]

TypeOK ==
  /\ query \in [intent : BOOLEAN, code : {None} \cup Codes]
  /\ tools \in BOOLEAN
  /\ pc \in {"start", "search", "generate", "route", "calls", "fallback", "compose",
             "answered", "raised"}
  /\ calls \in Seq(ToolCalls) /\ asked \in 0 .. MaxToolCalls
  /\ results \in Seq(Results)
  /\ looked \in Seq(Codes)
  /\ chunks \subseteq Chunks
  /\ llmCalls \in 0 .. 2
  /\ reply = None \/ reply \in [answer : Answers, sources : SUBSET Chunks]

Init ==
  /\ query \in [intent : BOOLEAN, code : {None} \cup Codes]
  /\ tools \in BOOLEAN
  /\ pc = "start"
  /\ calls = <<>> /\ asked = 0 /\ results = <<>> /\ looked = <<>>
  /\ chunks = {} /\ llmCalls = 0 /\ reply = None

-----------------------------------------------------------------------------
Answer(a, S) ==
  /\ reply' = [answer |-> a, sources |-> S]
  /\ pc' = "answered"

Raise == pc' = "raised" /\ UNCHANGED reply

looksLikeStatusQuery == query.code # None \/ query.intent

(* GET /applications/{code}: the record, 404, an HTTP error or a timeout,   *)
(* or a body that is not JSON, whose ValueError nobody catches.             *)
CrmOutcomes(code) ==
  (IF code \in KnownCodes THEN {"record"} ELSE {"not_found"}) \cup {"unavailable", "notJson"}

Use(result) == results' = Append(results, result)

(* Mutant of LookUp: the body of the answer is used as it is. *)
LookUpRaw(code, next) ==
  /\ looked' = Append(looked, code)
  /\ \E out \in CrmOutcomes(code) : Use(out)
  /\ pc' = next /\ UNCHANGED reply

(* get_application_status(code): its result joins the messages. *)
LookUp(code, next) ==
  /\ looked' = Append(looked, code)
  /\ \E out \in CrmOutcomes(code) :
       IF out = "notJson"
       THEN Raise /\ UNCHANGED results
       ELSE Use(out) /\ pc' = next /\ UNCHANGED reply

-----------------------------------------------------------------------------
RouteQuery ==
  /\ pc = "start"
  /\ pc' = IF tools /\ looksLikeStatusQuery THEN "route" ELSE "search"
  /\ UNCHANGED <<query, tools, calls, asked, results, looked, chunks, llmCalls, reply>>

(* answer_query *)
SearchText ==
  /\ pc = "search"
  /\ \/ Raise /\ UNCHANGED chunks
     \/ chunks' \in SUBSET Chunks /\ pc' = "generate" /\ UNCHANGED reply
  /\ UNCHANGED <<query, tools, calls, asked, results, looked, llmCalls>>

(* Mutant of GenerateAnswer: the model is asked without any source. *)
GenerateAlways ==
  /\ pc = "generate"
  /\ llmCalls' = llmCalls + 1
  /\ Answer("generated", chunks)
  /\ UNCHANGED <<query, tools, calls, asked, results, looked, chunks>>

(* generate_answer; chat raises on an empty answer of the model. *)
GenerateAnswer ==
  /\ pc = "generate"
  /\ IF chunks = {}
     THEN Answer("noContext", {}) /\ UNCHANGED llmCalls
     ELSE llmCalls' = llmCalls + 1 /\ (Answer("generated", chunks) \/ Raise)
  /\ UNCHANGED <<query, tools, calls, asked, results, looked, chunks>>

(* The routing call of _agentic_answer. *)
ChooseTool ==
  /\ pc = "route"
  /\ llmCalls' = llmCalls + 1
  /\ \/ Raise /\ UNCHANGED <<calls, asked>>
     \/ /\ calls' \in Messages
        /\ asked' = Len(calls')
        /\ pc' = IF calls' = <<>> THEN "fallback" ELSE "calls"
        /\ UNCHANGED reply
  /\ UNCHANGED <<query, tools, results, looked, chunks>>

(* Where the loop over tool_calls goes after one call. *)
afterCall == IF Len(calls) = 1 THEN "compose" ELSE "calls"

(* Mutant of CallTool: an unknown tool is skipped. *)
SkipUnknownTool ==
  LET call == Head(calls) IN
  /\ pc = "calls" /\ calls' = Tail(calls)
  /\ IF call.name = "other"
     THEN pc' = afterCall /\ UNCHANGED <<results, looked, reply>>
     ELSE IF call.args \in Codes
     THEN LookUp(call.args, afterCall)
     ELSE Answer("missingCode", {}) /\ UNCHANGED <<results, looked>>
  /\ UNCHANGED <<query, tools, asked, chunks, llmCalls>>

(* One turn of the loop.  An object without a number ends the whole query,  *)
(* whatever the calls before it have returned.                              *)
CallTool ==
  LET call == Head(calls)
      status == call.name = "get_application_status"
  IN
  /\ pc = "calls" /\ calls' = Tail(calls)
  /\ \/ /\ ~status
        /\ Use("unknown_tool") /\ pc' = afterCall /\ UNCHANGED <<looked, reply>>
     \/ /\ status /\ call.args = "nothing"
        /\ Answer("missingCode", {}) /\ UNCHANGED <<results, looked>>
     \/ /\ status /\ call.args = "extra"
        /\ Use("bad_arguments") /\ pc' = afterCall /\ UNCHANGED <<looked, reply>>
     \/ /\ status /\ call.args = "blank"
        /\ Use("empty_code") /\ pc' = afterCall /\ UNCHANGED <<looked, reply>>
     \/ /\ status /\ call.args \in {"notString", "notObject"}
        /\ Raise /\ UNCHANGED <<results, looked>>
     \/ /\ status /\ call.args \in Codes
        /\ LookUp(call.args, afterCall)
  /\ UNCHANGED <<query, tools, asked, chunks, llmCalls>>

(* The model has called no tool: the number found in the text is used. *)
FallBack ==
  /\ pc = "fallback"
  /\ IF query.code = None
     THEN Answer("missingCode", {}) /\ UNCHANGED <<results, looked>>
     ELSE LookUp(query.code, "compose")
  /\ UNCHANGED <<query, tools, calls, asked, chunks, llmCalls>>

(* The final generation; an empty answer becomes an apology. *)
ComposeReply ==
  /\ pc = "compose"
  /\ llmCalls' = llmCalls + 1
  /\ Raise \/ Answer("composed", {}) \/ Answer("apology", {})
  /\ UNCHANGED <<query, tools, calls, asked, results, looked, chunks>>

Next ==
  \/ RouteQuery \/ SearchText \/ GenerateAnswer
  \/ ChooseTool \/ CallTool \/ FallBack \/ ComposeReply

Spec == Init /\ [][Next]_vars

(* Every await ends: the calls of httpx carry their timeouts.               *)
FairSpec == Spec /\ WF_vars(Next)

-----------------------------------------------------------------------------
(* The final generation sees one tool message for every call the model made *)
(* (or one for the number in the text), and is told of a record only when   *)
(* some number the CRM knows was looked up: no status comes out of nothing. *)
StatusIsGrounded ==
  pc = "compose" =>
    /\ Len(results) = IF asked = 0 THEN 1 ELSE asked
    /\ \A i \in DOMAIN results :
         results[i] = "record" => \E j \in DOMAIN looked : looked[j] \in KnownCodes
    /\ asked = 0 => looked = <<query.code>>

(* What a state of the router is to the contract.                           *)
phaseBar ==
  CASE pc \in {"start", "search", "route", "calls", "fallback"} -> "asked"
    [] pc \in {"generate", "compose"} -> "answering"
    [] OTHER -> pc
replyBar ==
  IF reply = None THEN None
  ELSE [sources |-> reply.sources, grounded |-> reply.answer = "generated"]

(* The router keeps the contract the pipeline relies on, whichever way a    *)
(* query takes: an end; the chunks found as sources, and an answer from the *)
(* knowledge base just when there are any.                                  *)
Contract == INSTANCE AgentContract WITH phase <- phaseBar, found <- chunks, reply <- replyBar

ImplementsContract == Contract!FairSpec

(* agent.py:8: "Якщо номера заявки немає — просимо його (без LLM)": asking   *)
(* for the number that a text does not have costs no call of the model.     *)
MissingCodeIsFree ==
  reply # None /\ reply.answer = "missingCode" /\ query.code = None => llmCalls = 0
=============================================================================
