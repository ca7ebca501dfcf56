------------------------- MODULE AgentRouterProofs -------------------------
(***************************************************************************)
(* For any set of application numbers and chunks and any number of tool    *)
(* calls in one message: types, the budget of model calls, the grounding   *)
(* of a status, and the refinement of AgentContract.                       *)
(***************************************************************************)
EXTENDS AgentRouter, SequenceTheorems, TLAPS

Before == {"start", "search", "generate", "route"}
Handling == {"calls", "fallback", "compose"}

(* What the answers of agent.py:72-126 cost: no call of the model when      *)
(* nothing is found, one for a generated answer (agent.py:5), two on the    *)
(* way of the tool, and one when the user is asked for the number, where    *)
(* agent.py:8 says none: MissingCodeIsFree is violated by the code.         *)
ModelCallBudget ==
  reply # None =>
    llmCalls = CASE reply.answer = "noContext" -> 0
                 [] reply.answer \in {"generated", "missingCode"} -> 1
                 [] reply.answer \in {"composed", "apology"} -> 2

(* What a query has cost so far, by the place it is at.                    *)
BudgetInv ==
  /\ pc \in Before => llmCalls = 0
  /\ pc \in Handling => llmCalls = 1
  /\ reply # None => pc = "answered"
  /\ ModelCallBudget

(* Tool messages and calls left always add up to the calls asked for.      *)
ToolInv ==
  /\ pc \in Before \cup {"fallback"} => asked = 0 /\ results = <<>> /\ looked = <<>>
  /\ pc = "calls" => calls # <<>> /\ asked = Len(results) + Len(calls)
  /\ \A i \in DOMAIN results :
       results[i] = "record" => \E j \in DOMAIN looked : looked[j] \in KnownCodes
  /\ StatusIsGrounded

(* A query on the way of the tool never has chunks.                        *)
SourceInv ==
  /\ pc \in {"start", "search", "route", "calls", "fallback", "compose"} => chunks = {}
  /\ pc = "answered" => reply # None

IInv == TypeOK /\ BudgetInv /\ ToolInv /\ SourceInv

-----------------------------------------------------------------------------
LEMMA InitInv == Init => IInv
<1> SUFFICES ASSUME Init PROVE IInv
  OBVIOUS
<1>1. <<>> \in Seq(ToolCalls) /\ <<>> \in Seq(Results) /\ <<>> \in Seq(Codes)
  OBVIOUS
<1>2. TypeOK
  BY <1>1, AgentAssumption DEF Init, TypeOK
<1> QED
  BY <1>2 DEF Init, IInv, BudgetInv, ModelCallBudget, ToolInv, StatusIsGrounded, SourceInv,
              Before, Handling

(* An answer of a step that has it.                                        *)
LEMMA AnswerType ==
  ASSUME NEW a \in Answers, NEW S \in SUBSET Chunks, Answer(a, S)
  PROVE  /\ reply' \in [answer : Answers, sources : SUBSET Chunks]
         /\ reply' # None /\ reply'.answer = a /\ reply'.sources = S
         /\ pc' = "answered"
BY NoneAssumption DEF Answer

(* One more tool message.                                                  *)
LEMMA UseType ==
  ASSUME TypeOK, NEW x \in Results, Use(x)
  PROVE  /\ results' \in Seq(Results) /\ Len(results') = Len(results) + 1
         /\ \A i \in DOMAIN results' : results'[i] = x \/ (i \in DOMAIN results /\ results'[i] = results[i])
<1>1. results \in Seq(Results) /\ results' = Append(results, x)
  BY DEF TypeOK, Use
<1> QED BY <1>1, AppendProperties

LEMMA LookUpType ==
  ASSUME TypeOK, ToolInv, NEW code \in Codes, NEW next, LookUp(code, next)
  PROVE  /\ looked' \in Seq(Codes) /\ Len(looked') = Len(looked) + 1
         /\ looked = <<>> => looked' = <<code>>
         /\ \/ pc' = "raised" /\ UNCHANGED <<results, reply>>
            \/ pc' = next /\ UNCHANGED reply /\ \E x \in Results : Use(x)
         /\ \A i \in DOMAIN results' :
              results'[i] = "record" => \E j \in DOMAIN looked' : looked'[j] \in KnownCodes
<1>1. looked \in Seq(Codes) /\ looked' = Append(looked, code)
  BY DEF TypeOK, LookUp
<1>2. /\ looked' \in Seq(Codes) /\ Len(looked') = Len(looked) + 1
      /\ \A j \in DOMAIN looked : j \in DOMAIN looked' /\ looked'[j] = looked[j]
      /\ Len(looked) + 1 \in DOMAIN looked' /\ looked'[Len(looked) + 1] = code
  BY <1>1, AppendProperties
<1>3. looked = <<>> => looked' = <<code>>
  BY <1>1
<1>4. \A i \in DOMAIN results :
        results[i] = "record" => \E j \in DOMAIN looked' : looked'[j] \in KnownCodes
  BY <1>2 DEF ToolInv
<1>5. PICK out \in CrmOutcomes(code) :
        IF out = "notJson" THEN Raise /\ UNCHANGED results
        ELSE Use(out) /\ pc' = next /\ UNCHANGED reply
  BY DEF LookUp
<1>6. CASE out = "notJson"
  BY <1>2, <1>3, <1>4, <1>5, <1>6 DEF Raise
<1>7. CASE out # "notJson"
  <2>1. out \in Results /\ (out = "record" => code \in KnownCodes)
    BY <1>7 DEF CrmOutcomes, Results, Errors
  <2>2. Use(out) /\ pc' = next /\ UNCHANGED reply
    BY <1>5, <1>7
  <2>3. \A i \in DOMAIN results' :
          results'[i] = out \/ (i \in DOMAIN results /\ results'[i] = results[i])
    BY <2>1, <2>2, UseType
  <2>4. \A i \in DOMAIN results' :
          results'[i] = "record" => \E j \in DOMAIN looked' : looked'[j] \in KnownCodes
    BY <1>2, <1>4, <2>1, <2>3
  <2> QED BY <1>2, <1>3, <2>1, <2>2, <2>4
<1> QED BY <1>6, <1>7

(* What an answer makes of the properties.                                 *)
LEMMA AnswerStep ==
  ASSUME NEW a \in Answers, NEW S \in SUBSET Chunks, Answer(a, S),
         llmCalls' = IF a = "noContext" THEN 0
                     ELSE IF a \in {"generated", "missingCode"} THEN 1 ELSE 2
  PROVE  BudgetInv' /\ StatusIsGrounded' /\ SourceInv'
<1>1. reply' # None /\ reply'.answer = a /\ pc' = "answered"
  BY AnswerType
<1>2. ModelCallBudget'
  <2>1. CASE a = "noContext"
    BY <1>1, <2>1 DEF ModelCallBudget
  <2>2. CASE a \in {"generated", "missingCode"}
    BY <1>1, <2>2 DEF ModelCallBudget
  <2>3. CASE a \in {"composed", "apology"}
    BY <1>1, <2>3 DEF ModelCallBudget
  <2> QED BY <2>1, <2>2, <2>3 DEF Answers
<1> QED BY <1>1, <1>2 DEF BudgetInv, Before, Handling, StatusIsGrounded, SourceInv

(* Without an answer there is no cost to account for.                      *)
LEMMA NoReply == reply' = None => ModelCallBudget'
BY DEF ModelCallBudget

LEMMA NextInv == IInv /\ [Next]_vars => IInv'
<1> SUFFICES ASSUME IInv, [Next]_vars PROVE IInv'
  OBVIOUS
<1> USE NoReply DEF Before, Handling
<1>0. TypeOK /\ BudgetInv /\ ToolInv /\ SourceInv
  BY DEF IInv
<1>1. CASE RouteQuery
  BY <1>0, <1>1 DEF RouteQuery, IInv, TypeOK, BudgetInv, ToolInv,
                    StatusIsGrounded, SourceInv
<1>2. CASE SearchText
  BY <1>0, <1>2 DEF SearchText, Raise, IInv, TypeOK, BudgetInv, ToolInv,
                    StatusIsGrounded, SourceInv
<1>3. CASE GenerateAnswer
  <2>1. CASE chunks = {}
    <3>1. Answer("noContext", {}) /\ llmCalls' = 0 /\ "noContext" \in Answers
      BY <1>0, <1>3, <2>1 DEF GenerateAnswer, BudgetInv, Answers
    <3>2. BudgetInv' /\ StatusIsGrounded' /\ SourceInv'
      BY <3>1, AnswerStep
    <3> QED BY <1>0, <1>3, <3>1, <3>2, AnswerType DEF GenerateAnswer, IInv, TypeOK, ToolInv
  <2>2. CASE Answer("generated", chunks) /\ llmCalls' = llmCalls + 1
    <3>1. llmCalls' = 1 /\ "generated" \in Answers /\ chunks \in SUBSET Chunks
      BY <1>0, <1>3, <2>2 DEF GenerateAnswer, BudgetInv, Answers, TypeOK
    <3>2. BudgetInv' /\ StatusIsGrounded' /\ SourceInv'
      BY <2>2, <3>1, AnswerStep
    <3> QED BY <1>0, <1>3, <2>2, <3>1, <3>2, AnswerType
            DEF GenerateAnswer, IInv, TypeOK, ToolInv
  <2>3. CASE Raise /\ llmCalls' = llmCalls + 1
    BY <1>0, <1>3, <2>3 DEF GenerateAnswer, Raise, IInv, TypeOK, BudgetInv, ToolInv, StatusIsGrounded, SourceInv
  <2> QED BY <1>3, <2>1, <2>2, <2>3 DEF GenerateAnswer
<1>4. CASE ChooseTool
  <2>1. llmCalls' = 1 /\ asked = 0 /\ results = <<>> /\ looked = <<>>
    BY <1>0, <1>4 DEF ChooseTool, BudgetInv, ToolInv
  <2>2. CASE Raise /\ UNCHANGED <<calls, asked>>
    BY <1>0, <1>4, <2>1, <2>2 DEF ChooseTool, Raise, IInv, TypeOK, BudgetInv,
                            ToolInv, StatusIsGrounded, SourceInv
  <2>3. CASE /\ calls' \in Messages /\ asked' = Len(calls')
             /\ pc' = IF calls' = <<>> THEN "fallback" ELSE "calls"
             /\ UNCHANGED reply
    <3>1. PICK n \in 0 .. MaxToolCalls : calls' \in [1 .. n -> ToolCalls]
      BY <2>3 DEF Messages
    <3>2. calls' \in Seq(ToolCalls) /\ asked' = n
      BY <2>3, <3>1, AgentAssumption, IsASeq, LenProperties
    <3>3. asked' \in 0 .. MaxToolCalls /\ (calls' = <<>> <=> asked' = 0)
      BY <2>3, <3>1, <3>2, EmptySeq, LenProperties
    <3> QED BY <1>0, <1>4, <2>1, <2>3, <3>2, <3>3
            DEF ChooseTool, IInv, TypeOK, BudgetInv, ToolInv,
                StatusIsGrounded, SourceInv
  <2> QED BY <1>4, <2>2, <2>3 DEF ChooseTool
<1>5. CASE CallTool
  <2> DEFINE call == Head(calls)
  <2>1. /\ calls # <<>> /\ asked = Len(results) + Len(calls) /\ llmCalls' = 1 /\ chunks' = {}
        /\ reply = None /\ UNCHANGED <<query, tools, asked, chunks>>
    BY <1>0, <1>5 DEF CallTool, BudgetInv, ToolInv, SourceInv
  <2>2. /\ calls' \in Seq(ToolCalls) /\ Len(calls') = Len(calls) - 1 /\ Len(calls) \in Nat \ {0}
        /\ Len(results) \in Nat /\ Len(calls) # 1 => calls' # <<>>
    <3>1. calls \in Seq(ToolCalls) /\ results \in Seq(Results) /\ calls' = Tail(calls)
      BY <1>0, <1>5 DEF CallTool, TypeOK
    <3>2. /\ Tail(calls) \in Seq(ToolCalls) /\ Len(Tail(calls)) = Len(calls) - 1
          /\ Len(calls) \in Nat /\ Len(results) \in Nat /\ Len(calls) # 0
      BY <2>1, <3>1, HeadTailProperties, LenProperties, EmptySeq
    <3>3. calls' = <<>> => Len(calls') = 0
      BY EmptySeq
    <3> QED BY <3>1, <3>2, <3>3
  <2>0. ASSUME results' \in Seq(Results), Len(results') = Len(results) + 1,
               looked' \in Seq(Codes), pc' = afterCall, UNCHANGED reply,
               \A i \in DOMAIN results' :
                 results'[i] = "record" => \E j \in DOMAIN looked' : looked'[j] \in KnownCodes
        PROVE  IInv'
    <3>1. \/ pc' = "compose" /\ Len(results') = asked' /\ asked' # 0
          \/ pc' = "calls" /\ calls' # <<>> /\ asked' = Len(results') + Len(calls')
      BY <2>1, <2>2, <2>0 DEF afterCall
    <3>2. StatusIsGrounded' /\ ToolInv'
      BY <2>0, <3>1 DEF ToolInv, StatusIsGrounded
    <3>3. BudgetInv' /\ SourceInv'
      BY <2>1, <2>0, <3>1 DEF BudgetInv, SourceInv
    <3>4. TypeOK'
      BY <1>0, <2>1, <2>2, <2>0, <3>1 DEF TypeOK
    <3> QED BY <3>2, <3>3, <3>4 DEF IInv
  <2>3. ASSUME NEW x \in Results, x # "record", Use(x), pc' = afterCall, UNCHANGED <<looked, reply>>
        PROVE  IInv'
    <3>1. results' \in Seq(Results) /\ Len(results') = Len(results) + 1
      BY <1>0, <2>3, UseType
    <3>2. \A i \in DOMAIN results' :
            results'[i] = "record" => \E j \in DOMAIN looked' : looked'[j] \in KnownCodes
      BY <1>0, <2>3, UseType DEF ToolInv
    <3> QED BY <1>0, <2>3, <2>0, <3>1, <3>2 DEF TypeOK
  <2>4. ASSUME Answer("missingCode", {}), UNCHANGED <<results, looked>> PROVE IInv'
    <3>1. "missingCode" \in Answers
      BY DEF Answers
    <3>2. BudgetInv' /\ StatusIsGrounded' /\ SourceInv'
      BY <2>1, <2>4, <3>1, AnswerStep
    <3> QED BY <1>0, <2>1, <2>2, <2>4, <3>1, <3>2, AnswerType DEF IInv, TypeOK, ToolInv
  <2>5. ASSUME Raise, UNCHANGED <<results, looked>> PROVE IInv'
    BY <1>0, <2>1, <2>2, <2>5 DEF Raise, IInv, TypeOK, BudgetInv, ToolInv,
                                  StatusIsGrounded, SourceInv
  <2>6. ASSUME call.args \in Codes, LookUp(call.args, afterCall) PROVE IInv'
    <3>1. looked' \in Seq(Codes)
          /\ \A i \in DOMAIN results' :
               results'[i] = "record" => \E j \in DOMAIN looked' : looked'[j] \in KnownCodes
      BY <1>0, <2>6, LookUpType
    <3>2. CASE pc' = "raised" /\ UNCHANGED <<results, reply>>
      BY <1>0, <2>1, <2>2, <3>1, <3>2 DEF IInv, TypeOK, BudgetInv, ToolInv,
                                          StatusIsGrounded, SourceInv
    <3>3. CASE pc' = afterCall /\ UNCHANGED reply /\ \E x \in Results : Use(x)
      <4>1. results' \in Seq(Results) /\ Len(results') = Len(results) + 1
        BY <1>0, <3>3, UseType
      <4> QED BY <2>0, <3>1, <3>3, <4>1
    <3> QED BY <1>0, <2>6, <3>2, <3>3, LookUpType
  <2> HIDE DEF call
  <2>7. {"unknown_tool", "bad_arguments", "empty_code"} \subseteq Results \ {"record"}
    BY DEF Results, Errors
  <2> QED BY <1>5, <2>3, <2>4, <2>5, <2>6, <2>7 DEF CallTool, call
<1>6. CASE FallBack
  <2>1. /\ asked = 0 /\ results = <<>> /\ looked = <<>> /\ llmCalls' = 1 /\ chunks' = {}
        /\ reply = None /\ UNCHANGED <<query, tools, calls, asked, chunks>>
    BY <1>0, <1>6 DEF FallBack, BudgetInv, ToolInv, SourceInv
  <2>2. CASE query.code = None
    <3>1. "missingCode" \in Answers /\ Answer("missingCode", {}) /\ UNCHANGED <<results, looked>>
      BY <1>6, <2>2 DEF Answers, FallBack
    <3>2. BudgetInv' /\ StatusIsGrounded' /\ SourceInv'
      BY <2>1, <3>1, AnswerStep
    <3> QED BY <1>0, <2>1, <3>1, <3>2, AnswerType DEF IInv, TypeOK, ToolInv
  <2>3. CASE query.code # None
    <3>1. query.code \in Codes /\ LookUp(query.code, "compose")
      BY <1>0, <1>6, <2>3 DEF FallBack, TypeOK
    <3>2. /\ looked' \in Seq(Codes) /\ looked' = <<query.code>>
          /\ \A i \in DOMAIN results' :
               results'[i] = "record" => \E j \in DOMAIN looked' : looked'[j] \in KnownCodes
      BY <1>0, <2>1, <3>1, LookUpType
    <3>3. CASE pc' = "raised" /\ UNCHANGED <<results, reply>>
      BY <1>0, <2>1, <3>2, <3>3 DEF IInv, TypeOK, BudgetInv, ToolInv,
                                    StatusIsGrounded, SourceInv
    <3>4. CASE pc' = "compose" /\ UNCHANGED reply /\ \E x \in Results : Use(x)
      <4>1. results' \in Seq(Results) /\ Len(results') = Len(results) + 1
        BY <1>0, <3>4, UseType
      <4>2. Len(results') = 1
        BY <2>1, <4>1, EmptySeq
      <4> QED BY <1>0, <2>1, <3>2, <3>4, <4>1, <4>2
              DEF IInv, TypeOK, BudgetInv, ToolInv, StatusIsGrounded, SourceInv
    <3> QED BY <1>0, <3>1, <3>3, <3>4, LookUpType
  <2> QED BY <2>2, <2>3
<1>7. CASE ComposeReply
  <2>1. llmCalls' = 2
    BY <1>0, <1>7 DEF ComposeReply, BudgetInv
  <2>2. CASE Raise
    BY <1>0, <1>7, <2>1, <2>2 DEF ComposeReply, Raise, IInv, TypeOK, BudgetInv,
                            ToolInv, StatusIsGrounded, SourceInv
  <2>3. ASSUME NEW a \in {"composed", "apology"}, Answer(a, {}) PROVE IInv'
    <3>1. a \in Answers /\ a \notin {"noContext", "generated", "missingCode"}
      BY DEF Answers
    <3>2. BudgetInv' /\ StatusIsGrounded' /\ SourceInv'
      BY <2>1, <2>3, <3>1, AnswerStep
    <3> QED BY <1>0, <1>7, <2>1, <2>3, <3>1, <3>2, AnswerType
            DEF ComposeReply, IInv, TypeOK, ToolInv
  <2> QED BY <1>7, <2>2, <2>3 DEF ComposeReply
<1>8. CASE UNCHANGED vars
  <2> USE <1>8 DEF vars
  <2>1. TypeOK'
    BY <1>0 DEF IInv, TypeOK
  <2>2. BudgetInv'
    BY <1>0 DEF IInv, BudgetInv, ModelCallBudget
  <2>3. ToolInv' /\ StatusIsGrounded' /\ SourceInv'
    BY <1>0 DEF IInv, ToolInv, StatusIsGrounded, SourceInv
  <2> QED BY <2>1, <2>2, <2>3 DEF IInv
<1> QED BY <1>1, <1>2, <1>3, <1>4, <1>5, <1>6, <1>7, <1>8 DEF Next

-----------------------------------------------------------------------------
LEMMA Invariance == Spec => []IInv
BY InitInv, NextInv, PTL DEF Spec

(* Every variable of the agent keeps its type; no query costs more than two *)
(* calls of the model.                                                      *)
THEOREM TypeCorrect == Spec => []TypeOK
<1>1. IInv => TypeOK
  BY DEF IInv
<1> QED BY <1>1, Invariance, PTL

(* What each kind of answer has cost in calls of the model, a question for  *)
(* the number included.                                                     *)
THEOREM BudgetKept == Spec => []ModelCallBudget
<1>1. IInv => ModelCallBudget
  BY DEF IInv, BudgetInv
<1> QED BY <1>1, Invariance, PTL

(* A status is composed of what the CRM has said for each call, whichever   *)
(* calls the model made and however the look-ups went.                      *)
THEOREM StatusAlwaysGrounded == Spec => []StatusIsGrounded
<1>1. IInv => StatusIsGrounded
  BY DEF IInv, ToolInv
<1> QED BY <1>1, Invariance, PTL

-----------------------------------------------------------------------------
LEMMA PhaseBar ==
  /\ pc \in {"start", "search", "route", "calls", "fallback"} => phaseBar = "asked"
  /\ pc \in {"generate", "compose"} => phaseBar = "answering"
  /\ pc \in {"answered", "raised"} => phaseBar = pc
BY DEF phaseBar

LEMMA PhaseBarNext ==
  /\ pc' \in {"start", "search", "route", "calls", "fallback"} => phaseBar' = "asked"
  /\ pc' \in {"generate", "compose"} => phaseBar' = "answering"
  /\ pc' \in {"answered", "raised"} => phaseBar' = pc'
BY DEF phaseBar

LEMMA ContractInit == Init => Contract!Init
<1> SUFFICES ASSUME Init PROVE Contract!Init
  OBVIOUS
<1>1. phaseBar = "asked" /\ replyBar = None /\ chunks = {}
  BY PhaseBar DEF Init, replyBar
<1> QED BY <1>1 DEF Contract!Init, phaseBar, replyBar

(* The steps of the contract, over what a state of the agent means to it.   *)
ContractStep ==
  \/ /\ phaseBar = "asked" /\ phaseBar' = "answering"
     /\ chunks' \in SUBSET Chunks /\ replyBar' = replyBar
  \/ /\ phaseBar \in {"asked", "answering"} /\ phaseBar' = "answered"
     /\ replyBar' = [sources |-> chunks, grounded |-> chunks # {}] /\ chunks' = chunks
  \/ /\ phaseBar \in {"asked", "answering"} /\ phaseBar' = "raised"
     /\ chunks' = chunks /\ replyBar' = replyBar
  \/ phaseBar' = phaseBar /\ chunks' = chunks /\ replyBar' = replyBar

LEMMA StepIsStep == ContractStep => [Contract!Next]_(Contract!vars)
BY DEF ContractStep, phaseBar, replyBar, Contract!Next, Contract!Find, Contract!Answer,
       Contract!Raise, Contract!vars

(* What any step of the agent starts from.                                  *)
Open ==
  /\ phaseBar \in {"asked", "answering"} /\ replyBar = None /\ reply = None
  /\ chunks' = chunks /\ chunks \in SUBSET Chunks

LEMMA OpenStep ==
  ASSUME IInv, chunks' = chunks, pc \notin {"answered", "raised"}
  PROVE  Open
<1>1. reply = None /\ chunks \in SUBSET Chunks
  BY DEF IInv, BudgetInv, TypeOK
<1>2. phaseBar \in {"asked", "answering"}
  BY PhaseBar DEF IInv, TypeOK
<1> QED BY <1>1, <1>2 DEF Open, replyBar

LEMMA AnswerImplements ==
  ASSUME Open, NEW a \in Answers, Answer(a, chunks), a = "generated" <=> chunks # {}
  PROVE  ContractStep
<1>1. chunks \in SUBSET Chunks
  BY DEF Open
<1>2. reply' # None /\ reply'.answer = a /\ reply'.sources = chunks /\ pc' = "answered"
  BY <1>1, AnswerType
<1>3. phaseBar' = "answered"
  BY <1>2, PhaseBarNext
<1>4. replyBar' = [sources |-> chunks, grounded |-> chunks # {}]
  BY <1>2 DEF replyBar
<1> QED BY <1>3, <1>4 DEF ContractStep, Open

LEMMA RaiseImplements ==
  ASSUME Open, Raise
  PROVE  ContractStep
<1>1. phaseBar' = "raised" /\ replyBar' = replyBar
  BY PhaseBarNext DEF Raise, replyBar
<1> QED BY <1>1 DEF ContractStep, Open

LEMMA GoingOnImplements ==
  ASSUME Open, reply' = reply,
         pc \in {"start", "search", "route", "calls", "fallback"},
         pc' \in {"start", "search", "route", "calls", "fallback", "compose"}
  PROVE  ContractStep
<1>1. phaseBar = "asked" /\ phaseBar' \in {"asked", "answering"} /\ replyBar' = replyBar
  BY PhaseBar, PhaseBarNext DEF replyBar
<1> QED BY <1>1 DEF ContractStep, Open

LEMMA StepImplements == IInv /\ [Next]_vars => ContractStep
<1> SUFFICES ASSUME IInv, [Next]_vars PROVE ContractStep
  OBVIOUS
<1> USE DEF Answers
<1>0. /\ chunks \in SUBSET Chunks
      /\ pc \in {"start", "search", "route", "calls", "fallback", "compose"} => chunks = {}
  BY DEF IInv, TypeOK, SourceInv
<1>1. CASE RouteQuery
  BY <1>1, OpenStep, GoingOnImplements DEF RouteQuery
<1>2. CASE SearchText
  <2>1. CASE Raise /\ UNCHANGED chunks
    BY <1>2, <2>1, OpenStep, RaiseImplements DEF SearchText
  <2>2. CASE chunks' \in SUBSET Chunks /\ pc' = "generate" /\ UNCHANGED reply
    <3>1. phaseBar = "asked" /\ phaseBar' = "answering" /\ replyBar' = replyBar
      BY <1>2, <2>2, PhaseBar, PhaseBarNext DEF SearchText, replyBar
    <3> QED BY <2>2, <3>1 DEF ContractStep
  <2> QED BY <1>2, <2>1, <2>2 DEF SearchText
<1>3. CASE GenerateAnswer
  <2>1. Open
    BY <1>3, OpenStep DEF GenerateAnswer
  <2>2. \/ chunks = {} /\ Answer("noContext", {})
        \/ chunks # {} /\ Answer("generated", chunks)
        \/ Raise
    BY <1>3 DEF GenerateAnswer
  <2> QED BY <2>1, <2>2, AnswerImplements, RaiseImplements
<1>4. CASE ChooseTool
  <2>1. Open
    BY <1>4, OpenStep DEF ChooseTool
  <2>2. \/ Raise
        \/ pc = "route" /\ pc' \in {"fallback", "calls"} /\ reply' = reply
    BY <1>4 DEF ChooseTool
  <2> QED BY <2>1, <2>2, RaiseImplements, GoingOnImplements
<1>5. CASE CallTool
  <2>1. Open /\ chunks = {}
    BY <1>0, <1>5, OpenStep DEF CallTool
  <2>2. \/ Raise
        \/ Answer("missingCode", chunks)
        \/ pc = "calls" /\ pc' \in {"calls", "compose"} /\ reply' = reply
    BY <1>5, <2>1 DEF CallTool, LookUp, afterCall
  <2> QED BY <2>1, <2>2, AnswerImplements, RaiseImplements, GoingOnImplements
<1>6. CASE FallBack
  <2>1. Open /\ chunks = {}
    BY <1>0, <1>6, OpenStep DEF FallBack
  <2>2. \/ Raise
        \/ Answer("missingCode", chunks)
        \/ pc = "fallback" /\ pc' = "compose" /\ reply' = reply
    BY <1>6, <2>1 DEF FallBack, LookUp
  <2> QED BY <2>1, <2>2, AnswerImplements, RaiseImplements, GoingOnImplements
<1>7. CASE ComposeReply
  <2>1. Open /\ chunks = {}
    BY <1>0, <1>7, OpenStep DEF ComposeReply
  <2>2. Raise \/ Answer("composed", chunks) \/ Answer("apology", chunks)
    BY <1>7, <2>1 DEF ComposeReply
  <2> QED BY <2>1, <2>2, AnswerImplements, RaiseImplements
<1>8. CASE UNCHANGED vars
  BY <1>8 DEF vars, ContractStep, phaseBar, replyBar
<1> QED BY <1>1, <1>2, <1>3, <1>4, <1>5, <1>6, <1>7, <1>8 DEF Next

(* Whichever way a query takes, the pipeline finds the contract kept: its   *)
(* sources are the chunks found before the answer was made, no others.      *)
THEOREM AgentImplementsContract == Spec => Contract!Spec
<1>1. IInv /\ [Next]_vars => [Contract!Next]_(Contract!vars)
  BY StepImplements, StepIsStep
<1> QED BY <1>1, Invariance, ContractInit, PTL DEF Spec, Contract!Spec
=============================================================================
