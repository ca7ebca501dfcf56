--------------------------- MODULE RequestJournal ---------------------------
(***************************************************************************)
(* The request journal as a client of the hotline sees it: the `requests`  *)
(* table of migrations/001_init.sql with the four statements of            *)
(* app/repository.py that write it, and no queue, worker, process or       *)
(* failure.  It is the abstract specification that RequestPipeline is      *)
(* shown to implement when a job is delivered at most once.                *)
(***************************************************************************)

CONSTANTS
  Requests,  \* request ids
  Contexts,  \* what an answer can be built from: sets of knowledge-base chunks
  NoAnswer   \* the NULL of requests.answer

VARIABLES
  status,    \* status[r]: requests.status, or "absent" before the row exists
  answer     \* answer[r]: the context requests.answer was generated from

vars == <<status, answer>>

Statuses == {"absent", "pending", "processing", "done", "failed"}

TypeOK ==
  /\ status \in [Requests -> Statuses]
  /\ answer \in [Requests -> {NoAnswer} \cup Contexts]

Init ==
  /\ status = [r \in Requests |-> "absent"]
  /\ answer = [r \in Requests |-> NoAnswer]

(* create_request: the row is born pending. *)
Register(r) ==
  /\ status[r] = "absent"
  /\ status' = [status EXCEPT ![r] = "pending"]
  /\ UNCHANGED answer

(* mark_processing: a worker has taken the request up. *)
Begin(r) ==
  /\ status[r] = "pending"
  /\ status' = [status EXCEPT ![r] = "processing"]
  /\ UNCHANGED answer

(* save_result: by a worker, or straight from pending by /ask/sync. *)
Complete(r) ==
  /\ status[r] \in {"pending", "processing"}
  /\ status' = [status EXCEPT ![r] = "done"]
  /\ \E c \in Contexts : answer' = [answer EXCEPT ![r] = c]

(* mark_failed *)
Fail(r) ==
  /\ status[r] = "processing"
  /\ status' = [status EXCEPT ![r] = "failed"]
  /\ UNCHANGED answer

Next == \E r \in Requests : Register(r) \/ Begin(r) \/ Complete(r) \/ Fail(r)

Spec == Init /\ [][Next]_vars

-----------------------------------------------------------------------------
(* The journal of a queue that may deliver a job again, to workers that may *)
(* not learn what they have stored: a request that was begun may be begun,  *)
(* answered and failed once more, whatever had become of it.                *)

BeginAgain(r) ==
  /\ status[r] # "absent"
  /\ status' = [status EXCEPT ![r] = "processing"]
  /\ UNCHANGED answer

CompleteAgain(r) ==
  /\ status[r] # "absent"
  /\ status' = [status EXCEPT ![r] = "done"]
  /\ \E c \in Contexts : answer' = [answer EXCEPT ![r] = c]

FailAgain(r) ==
  /\ status[r] \in {"processing", "done", "failed"}
  /\ status' = [status EXCEPT ![r] = "failed"]
  /\ UNCHANGED answer

RetryNext == \E r \in Requests : Register(r) \/ BeginAgain(r) \/ CompleteAgain(r) \/ FailAgain(r)

RetrySpec == Init /\ [][RetryNext]_vars

-----------------------------------------------------------------------------
Settled(r) == status[r] \in {"done", "failed"}

OutcomesKept ==
  \A r \in Requests : Settled(r) => status'[r] = status[r] /\ answer'[r] = answer[r]

(* A request that GET /requests/{id} has shown as done or failed never     *)
(* changes again: neither its status nor its answer.                       *)
OutcomeFinal == [][OutcomesKept]_vars

=============================================================================
