----------------------------- MODULE StatusPoll -----------------------------
(***************************************************************************)
(* GET /requests/{id} (app/main.py, get_request of app/repository.py) over *)
(* RequestPipeline.  get_request reads the row and its sources with two    *)
(* statements; under READ COMMITTED each has a snapshot of its own, so a   *)
(* save, a re-indexing or another execution can commit between them.       *)
(***************************************************************************)
EXTENDS RequestPipeline

CONSTANTS
  Nothing,  \* no row read yet, no response yet
  Polled    \* bound: the requests whose clients poll

ASSUME PollAssumption == Polled \subseteq Requests

VARIABLES
  reading,  \* reading[r]: the row a poll of r has read and holds, or Nothing
  shown     \* shown[r]: the last response to a poll of r, or Nothing

pollVars == <<reading, shown>>
allVars == <<vars, pollVars>>

PollInit ==
  /\ Init
  /\ reading = [r \in Requests |-> Nothing]
  /\ shown = [r \in Requests |-> Nothing]

(* A client knows the id from the reply to its POST. *)
ReadRow(r) ==
  /\ reply[r] \in {"202", "200"} /\ reading[r] = Nothing
  /\ reading' = [reading EXCEPT ![r] = [status |-> status[r], answer |-> answer[r]]]
  /\ UNCHANGED <<vars, shown>>

ReadSources(r) ==
  /\ reading[r] # Nothing
  /\ shown' = [shown EXCEPT ![r] = [status |-> reading[r].status,
                                    answer |-> reading[r].answer,
                                    sources |-> sources[r]]]
  /\ reading' = [reading EXCEPT ![r] = Nothing]
  /\ UNCHANGED vars

(* The pipeline goes on; the API may die under the polls it was serving.   *)
PipelineStep ==
  /\ Next
  /\ reading' \in {reading, [r \in Requests |-> Nothing]}
  /\ UNCHANGED shown

PollNext == PipelineStep \/ \E r \in Polled : ReadRow(r) \/ ReadSources(r)

PollSpec == PollInit /\ [][PollNext]_allVars

-----------------------------------------------------------------------------
Rank(s) == CASE s = "pending" -> 1 [] s = "processing" -> 2 [] OTHER -> 3

(* A response is whole although its two parts are read apart: with status   *)
(* done it carries the answer and exactly the sources of that answer still  *)
(* in the knowledge base; with any other status it carries no answer.       *)
ResponseIsWhole ==
  [][\A r \in Requests :
       shown'[r] # shown[r] =>
         IF shown'[r].status = "done"
         THEN /\ shown'[r].answer # NoAnswer
              /\ shown'[r].sources = shown'[r].answer \cap kb
         ELSE shown'[r].answer = NoAnswer]_allVars

(* Polled again, a request never falls back to an earlier status, and once *)
(* it was shown done or failed it is shown so for ever, with that answer.   *)
PollsAdvance ==
  [][\A r \in Requests :
       shown[r] # Nothing =>
         /\ Rank(shown'[r].status) >= Rank(shown[r].status)
         /\ shown[r].status \in {"done", "failed"} =>
              /\ shown'[r].status = shown[r].status
              /\ shown'[r].answer = shown[r].answer]_allVars
=============================================================================
