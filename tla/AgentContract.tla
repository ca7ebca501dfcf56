--------------------------- MODULE AgentContract ---------------------------
(***************************************************************************)
(* What the pipeline and the API may rely on when they await agent.answer  *)
(* (app/pipeline.py, app/main.py): the chunks are found at one moment, the *)
(* answer is generated after it, the result carries exactly those chunks;  *)
(* or the call raises.  It ends one way or the other.                      *)
(***************************************************************************)
CONSTANTS
  Chunks,  \* chunks of the knowledge base
  None     \* no result yet

VARIABLES
  phase,  \* "asked", "answering", "answered" or "raised"
  found,  \* the chunks the answer is made from; none on the way of the tool
  reply   \* RagResult: [sources, grounded], or None

vars == <<phase, found, reply>>

Init == phase = "asked" /\ found = {} /\ reply = None

Find ==
  /\ phase = "asked" /\ phase' = "answering"
  /\ found' \in SUBSET Chunks
  /\ UNCHANGED reply

(* Grounded is an answer of the model from sources; without sources it is   *)
(* a fixed text or what the CRM has said.                                   *)
Answer ==
  /\ phase \in {"asked", "answering"} /\ phase' = "answered"
  /\ reply' = [sources |-> found, grounded |-> found # {}]
  /\ UNCHANGED found

Raise ==
  /\ phase \in {"asked", "answering"} /\ phase' = "raised"
  /\ UNCHANGED <<found, reply>>

Next == Find \/ Answer \/ Raise

Spec == Init /\ [][Next]_vars
FairSpec == Spec /\ WF_vars(Next)
=============================================================================
