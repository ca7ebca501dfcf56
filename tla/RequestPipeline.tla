-------------------------- MODULE RequestPipeline --------------------------
(***************************************************************************)
(* The life of a hotline request across the API process (app/main.py), the *)
(* job queue (pgqueuer, external; app/queue), the worker processes         *)
(* (app/pipeline.py) and the tables they share (app/repository.py,         *)
(* migrations/001_init.sql).                                               *)
(*                                                                         *)
(* Every await on the database, the model or the queue is the end of an    *)
(* action, so requests, workers, re-indexing and failures interleave at    *)
(* exactly those points; each SQL transaction is one action.               *)
(*                                                                         *)
(* An HTTP call and the row it inserts share one identity.  An answer is   *)
(* represented by the set of chunks its prompt was built from ({} for an   *)
(* answer of the CRM tool and for NO_CONTEXT_ANSWER).                      *)
(***************************************************************************)
EXTENDS Naturals, FiniteSets

CONSTANTS
  Asks,        \* calls of POST /ask
  SyncAsks,    \* calls of POST /ask/sync
  Workers,     \* worker processes
  Docs,        \* documents of the knowledge base
  Chunks,      \* chunk ids; an id is never used twice (IDENTITY column)
  TopK,        \* settings.top_k
  NoAnswer,    \* the NULL of requests.answer
  Redelivery,  \* does the queue hand out again the job of a dead worker?
  Outages,     \* the ways a statement can fail: "refused", "unacked"
  MaxFaults,   \* bound: failed statements
  MaxCrashes   \* bound: crashes and lost queue connections

API == "api"
NoOwner == "none"
Requests == Asks \cup SyncAsks
Procs == Workers \cup {API}

ASSUME PipelineAssumption ==
  /\ Asks \cap SyncAsks = {}
  /\ API \notin Workers /\ NoOwner \notin Workers
  /\ {"unused", "deleted"} \cap Docs = {}
  /\ \A S \in SUBSET Chunks : NoAnswer # S
  /\ Redelivery \in BOOLEAN
  /\ Outages \subseteq {"refused", "unacked"}
  /\ TopK \in Nat /\ MaxFaults \in Nat /\ MaxCrashes \in Nat

VARIABLES
  \* the database
  status,         \* requests.status, "absent" before the INSERT
  answer,         \* requests.answer
  sources,        \* the chunk ids of request_sources
  docOf,          \* kb_chunks.document_id of a chunk id, "unused" or "deleted"
  job, owner,     \* the pgqueuer row of the request, and who picked it
  \* the processes
  pc,             \* pc[p][r]: where process p is in handling request r
  retrieved,      \* retrieved[p][r]: the chunks p found for r and holds
  reply,          \* the HTTP response of the call
  live,           \* worker process: "up", "detached" from the queue, "down"
  requestsTotal,  \* the counter hotline_requests_total of each process
  \* what has gone wrong so far
  faults, crashes

journal == <<status, answer>>
queue == <<job, owner>>
proc == <<pc, retrieved>>
bounds == <<faults, crashes>>
vars == <<status, answer, sources, docOf, job, owner, pc, retrieved, reply,
          live, requestsTotal, faults, crashes>>

Statuses == {"absent", "pending", "processing", "done", "failed"}
Labels == {"idle", "created", "enqueued", "picked", "loaded", "querying",
           "generating", "failing", "saved", "returned", "raised"}

TypeOK ==
  /\ status \in [Requests -> Statuses]
  /\ answer \in [Requests -> {NoAnswer} \cup SUBSET Chunks]
  /\ sources \in [Requests -> SUBSET Chunks]
  /\ docOf \in [Chunks -> Docs \cup {"unused", "deleted"}]
  /\ job \in [Requests -> {"none", "queued", "picked", "gone"}]
  /\ owner \in [Requests -> Workers \cup {NoOwner}]
  /\ pc \in [Procs -> [Requests -> Labels]]
  /\ retrieved \in [Procs -> [Requests -> SUBSET Chunks]]
  /\ reply \in [Requests -> {"none", "202", "200", "500", "lost"}]
  /\ live \in [Workers -> {"up", "detached", "down"}]
  /\ requestsTotal \in [Procs -> [{"accepted", "done", "failed"} -> Nat]]
  /\ faults \in Nat /\ crashes \in Nat

Init ==
  /\ status = [r \in Requests |-> "absent"]
  /\ answer = [r \in Requests |-> NoAnswer]
  /\ sources = [r \in Requests |-> {}]
  /\ docOf = [c \in Chunks |-> "unused"]
  /\ job = [r \in Requests |-> "none"]
  /\ owner = [r \in Requests |-> NoOwner]
  /\ pc = [p \in Procs |-> [r \in Requests |-> "idle"]]
  /\ retrieved = [p \in Procs |-> [r \in Requests |-> {}]]
  /\ reply = [r \in Requests |-> "none"]
  /\ live = [w \in Workers |-> "up"]
  /\ requestsTotal = [p \in Procs |-> [l \in {"accepted", "done", "failed"} |-> 0]]
  /\ faults = 0 /\ crashes = 0

-----------------------------------------------------------------------------
(* The outcome of a statement or transaction: it commits, it is refused, or *)
(* it commits and the connection breaks before the caller hears of it.      *)
Attempt(out) ==
  \/ out = "committed" /\ UNCHANGED faults
  \/ out \in Outages /\ faults < MaxFaults /\ faults' = faults + 1

Applied(out) == out # "refused"
Acked(out) == out = "committed"
Outcomes == {"committed"} \cup Outages

(* The value of f after setting f[r] to v in a transaction that ended in out. *)
Written(out, f, r, v) == IF Applied(out) THEN [f EXCEPT ![r] = v] ELSE f

Goto(p, r, l) == pc' = [pc EXCEPT ![p][r] = l]
Hold(p, r, S) == retrieved' = [retrieved EXCEPT ![p][r] = S]
Count(p, l) == requestsTotal' = [requestsTotal EXCEPT ![p][l] = @ + 1]

(* Mutant of Raise: process_request without its except clause. *)
RaiseUncaught(p, r) ==
  /\ Hold(p, r, {})
  /\ IF p = API
     THEN Goto(p, r, "idle") /\ reply' = [reply EXCEPT ![r] = "500"]
     ELSE Goto(p, r, "raised") /\ UNCHANGED reply

(* An exception leaves the agent or save_result: process_request catches it *)
(* (pipeline.py:30), ask_sync does not and FastAPI answers 500.             *)
Raise(p, r) ==
  /\ Hold(p, r, {})
  /\ IF p = API
     THEN Goto(p, r, "idle") /\ reply' = [reply EXCEPT ![r] = "500"]
     ELSE Goto(p, r, "failing") /\ UNCHANGED reply

kb == {c \in Chunks : docOf[c] \in Docs}
TopKSets == {S \in SUBSET kb : Cardinality(S) <= TopK}

-----------------------------------------------------------------------------
(* POST /ask and POST /ask/sync                                             *)

CreateRequest(r) ==
  /\ pc[API][r] = "idle" /\ reply[r] = "none"
  /\ \E out \in Outcomes :
       /\ Attempt(out)
       /\ status' = Written(out, status, r, "pending")
       /\ IF Acked(out)
          THEN /\ Goto(API, r, IF r \in Asks THEN "created" ELSE "querying")
               /\ UNCHANGED reply
          ELSE reply' = [reply EXCEPT ![r] = "500"] /\ UNCHANGED pc
  /\ UNCHANGED <<answer, sources, docOf, queue, retrieved, live, requestsTotal, crashes>>

(* Mutant of EnqueueRequest: the job is enqueued before the row is there. *)
EnqueueFirst(r) ==
  /\ pc[API][r] = "idle" /\ reply[r] = "none" /\ job[r] = "none"
  /\ job' = [job EXCEPT ![r] = "queued"]
  /\ UNCHANGED <<journal, sources, docOf, owner, proc, reply, live, requestsTotal, bounds>>

EnqueueRequest(r) ==
  /\ pc[API][r] = "created"
  /\ \E out \in Outcomes :
       /\ Attempt(out)
       /\ job' = Written(out, job, r, "queued")
       /\ IF Acked(out)
          THEN Goto(API, r, "enqueued") /\ Count(API, "accepted") /\ UNCHANGED reply
          ELSE /\ Goto(API, r, "idle")
               /\ reply' = [reply EXCEPT ![r] = "500"]
               /\ UNCHANGED requestsTotal
  /\ UNCHANGED <<journal, sources, docOf, owner, retrieved, live, crashes>>

Respond(r) ==
  /\ pc[API][r] \in {"enqueued", "saved"}
  /\ reply' = [reply EXCEPT ![r] = IF pc[API][r] = "enqueued" THEN "202" ELSE "200"]
  /\ Goto(API, r, "idle")
  /\ UNCHANGED <<journal, sources, docOf, queue, retrieved, live, requestsTotal, bounds>>

-----------------------------------------------------------------------------
(* The queue, as a worker meets it                                          *)

(* Mutant of PickJob: no FOR UPDATE SKIP LOCKED. *)
PickUnlocked(w, r) ==
  /\ live[w] = "up" /\ job[r] \in {"queued", "picked"} /\ pc[w][r] = "idle"
  /\ job' = [job EXCEPT ![r] = "picked"]
  /\ owner' = [owner EXCEPT ![r] = w]
  /\ Goto(w, r, "picked")
  /\ UNCHANGED <<journal, sources, docOf, retrieved, reply, live, requestsTotal, bounds>>

PickJob(w, r) ==
  /\ live[w] = "up" /\ job[r] = "queued"
  /\ job' = [job EXCEPT ![r] = "picked"]
  /\ owner' = [owner EXCEPT ![r] = w]
  /\ Goto(w, r, "picked")
  /\ UNCHANGED <<journal, sources, docOf, retrieved, reply, live, requestsTotal, bounds>>

(* A job is kept alive by the heartbeats of the process that handles it; a  *)
(* restarted worker does not resume those of its former life.               *)
Beating(r) == live[owner[r]] = "up" /\ pc[owner[r]][r] # "idle"

(* A picked job whose heartbeat has stopped is handed out again.            *)
RepickJob(w, r) ==
  /\ Redelivery
  /\ live[w] = "up" /\ job[r] = "picked" /\ ~Beating(r)
  /\ owner' = [owner EXCEPT ![r] = w]
  /\ Goto(w, r, "picked")
  /\ UNCHANGED <<journal, sources, docOf, job, retrieved, reply, live, requestsTotal, bounds>>

(* Mutant of FinishJob: the entrypoint starts process_request as a task and *)
(* returns without awaiting it.                                             *)
FinishUnawaited(w, r) ==
  /\ live[w] = "up" /\ owner[r] = w /\ pc[w][r] # "idle"
  /\ job' = [job EXCEPT ![r] = "gone"]
  /\ owner' = [owner EXCEPT ![r] = NoOwner]
  /\ UNCHANGED <<journal, sources, docOf, proc, reply, live, requestsTotal, bounds>>

(* The handler has returned or raised: the queue deletes the job by its id, *)
(* unless the worker has lost its queue connection.                         *)
FinishJob(w, r) ==
  /\ pc[w][r] \in {"saved", "returned", "raised"}
  /\ Goto(w, r, "idle")
  /\ IF live[w] = "up"
     THEN job' = [job EXCEPT ![r] = "gone"] /\ owner' = [owner EXCEPT ![r] = NoOwner]
     ELSE UNCHANGED queue
  /\ UNCHANGED <<journal, sources, docOf, retrieved, reply, live, requestsTotal, bounds>>

-----------------------------------------------------------------------------
(* process_request                                                          *)

(* Mutant of LoadRequest: only pending requests are processed, so the job   *)
(* of a worker that died is dropped when it is delivered again.             *)
LoadPendingOnly(w, r) ==
  /\ pc[w][r] = "picked"
  /\ Goto(w, r, IF status[r] = "pending" THEN "loaded" ELSE "returned")
  /\ UNCHANGED <<journal, sources, docOf, queue, retrieved, reply, live, requestsTotal, bounds>>

LoadRequest(w, r) ==
  /\ pc[w][r] = "picked"
  /\ \E out \in Outcomes :
       /\ Attempt(out)
       /\ Goto(w, r, IF ~Acked(out) THEN "raised"
                     ELSE IF status[r] = "absent" THEN "returned" ELSE "loaded")
  /\ UNCHANGED <<journal, sources, docOf, queue, retrieved, reply, live, requestsTotal, crashes>>

(* Like LoadRequest it runs before the try: when it raises, nothing marks   *)
(* the request failed.                                                      *)
MarkProcessing(w, r) ==
  /\ pc[w][r] = "loaded"
  /\ \E out \in Outcomes :
       /\ Attempt(out)
       /\ status' = Written(out, status, r, "processing")
       /\ Goto(w, r, IF Acked(out) THEN "querying" ELSE "raised")
  /\ UNCHANGED <<answer, sources, docOf, queue, retrieved, reply, live, requestsTotal, crashes>>

(* Mutant of MarkFailed: a status that the type request_status lacks. *)
MarkError(w, r) ==
  /\ pc[w][r] = "failing"
  /\ status' = [status EXCEPT ![r] = "error"]
  /\ Count(w, "failed")
  /\ Goto(w, r, "raised")
  /\ UNCHANGED <<answer, sources, docOf, queue, retrieved, reply, live, bounds>>

(* Mutant of MarkFailed: the failure is counted before it is stored. *)
MarkFailedCounted(w, r) ==
  /\ pc[w][r] = "failing"
  /\ \E out \in Outcomes : Attempt(out) /\ status' = Written(out, status, r, "failed")
  /\ Count(w, "failed")
  /\ Goto(w, r, "raised")
  /\ UNCHANGED <<answer, sources, docOf, queue, retrieved, reply, live, crashes>>

(* Mutant of MarkFailed: the answer goes when the failure comes. *)
MarkFailedClearing(w, r) ==
  /\ pc[w][r] = "failing"
  /\ status' = [status EXCEPT ![r] = "failed"]
  /\ answer' = [answer EXCEPT ![r] = NoAnswer]
  /\ sources' = [sources EXCEPT ![r] = {}]
  /\ Count(w, "failed")
  /\ Goto(w, r, "raised")
  /\ UNCHANGED <<docOf, queue, retrieved, reply, live, bounds>>

MarkFailed(w, r) ==
  /\ pc[w][r] = "failing"
  /\ \E out \in Outcomes :
       /\ Attempt(out)
       /\ status' = Written(out, status, r, "failed")
       /\ IF Acked(out) THEN Count(w, "failed") ELSE UNCHANGED requestsTotal
  /\ Goto(w, r, "raised")
  /\ UNCHANGED <<answer, sources, docOf, queue, retrieved, reply, live, crashes>>

-----------------------------------------------------------------------------
(* The agent and save_result, run by a worker or by ask_sync                *)

(* The search returns; the model is called next, for minutes.               *)
SearchText(p, r) ==
  /\ pc[p][r] = "querying"
  /\ \E S \in TopKSets : Hold(p, r, S)
  /\ Goto(p, r, "generating")
  /\ UNCHANGED <<journal, sources, docOf, queue, reply, live, requestsTotal, bounds>>

(* The embedding, the search or the model raises or times out.              *)
AgentRaises(p, r) ==
  /\ pc[p][r] \in {"querying", "generating"}
  /\ Raise(p, r)
  /\ UNCHANGED <<journal, sources, docOf, queue, live, requestsTotal, bounds>>

(* Mutant of SaveResult: the sources of an earlier execution stay. *)
SaveKeepingOld(p, r) ==
  /\ pc[p][r] = "generating" /\ retrieved[p][r] \subseteq kb
  /\ status' = [status EXCEPT ![r] = "done"]
  /\ answer' = [answer EXCEPT ![r] = retrieved[p][r]]
  /\ sources' = [sources EXCEPT ![r] = @ \cup retrieved[p][r]]
  /\ Goto(p, r, "saved") /\ Hold(p, r, {}) /\ Count(p, "done")
  /\ UNCHANGED <<docOf, queue, reply, live, bounds>>

(* Mutant of SaveResult: the row is committed before its sources. *)
SaveInTwo(p, r) ==
  /\ pc[p][r] = "generating" /\ retrieved[p][r] \subseteq kb
  /\ \/ /\ status[r] # "done"
        /\ status' = [status EXCEPT ![r] = "done"]
        /\ answer' = [answer EXCEPT ![r] = retrieved[p][r]]
        /\ UNCHANGED <<sources, proc, requestsTotal>>
     \/ /\ status[r] = "done"
        /\ sources' = [sources EXCEPT ![r] = retrieved[p][r]]
        /\ Goto(p, r, "saved") /\ Hold(p, r, {}) /\ Count(p, "done")
        /\ UNCHANGED journal
  /\ UNCHANGED <<docOf, queue, reply, live, bounds>>

(* One transaction: the row, the old sources out, the new ones in.          *)
SaveResult(p, r) ==
  /\ pc[p][r] = "generating" /\ retrieved[p][r] \subseteq kb
  /\ \E out \in Outcomes :
       /\ Attempt(out)
       /\ status' = Written(out, status, r, "done")
       /\ answer' = Written(out, answer, r, retrieved[p][r])
       /\ sources' = Written(out, sources, r, retrieved[p][r])
       /\ IF Acked(out)
          THEN Goto(p, r, "saved") /\ Hold(p, r, {}) /\ Count(p, "done") /\ UNCHANGED reply
          ELSE Raise(p, r) /\ UNCHANGED requestsTotal
  /\ UNCHANGED <<docOf, queue, live, crashes>>

(* Mutant of SaveRejected: without the transaction the UPDATE has committed *)
(* by the time the INSERT is rejected.                                      *)
SaveRejectedHalfway(p, r) ==
  /\ pc[p][r] = "generating" /\ ~(retrieved[p][r] \subseteq kb)
  /\ status' = [status EXCEPT ![r] = "done"]
  /\ answer' = [answer EXCEPT ![r] = retrieved[p][r]]
  /\ Raise(p, r)
  /\ UNCHANGED <<sources, docOf, queue, live, requestsTotal, bounds>>

(* A chunk found before the generation is gone: the foreign key on chunk_id *)
(* rejects the INSERT and the whole transaction rolls back.                 *)
SaveRejected(p, r) ==
  /\ pc[p][r] = "generating" /\ ~(retrieved[p][r] \subseteq kb)
  /\ Raise(p, r)
  /\ UNCHANGED <<journal, sources, docOf, queue, live, requestsTotal, bounds>>

-----------------------------------------------------------------------------
(* The world around                                                         *)

(* index_document commits: document d gets the chunks new in place of its   *)
(* old ones, and request_sources loses the old ones by ON DELETE CASCADE.   *)
IndexDocument(d, new) ==
  LET old == {c \in Chunks : docOf[c] = d} IN
  /\ docOf' = [c \in Chunks |-> IF c \in new THEN d
                                ELSE IF c \in old THEN "deleted" ELSE docOf[c]]
  /\ sources' = [r \in Requests |-> sources[r] \ old]
  /\ UNCHANGED <<journal, queue, proc, reply, live, requestsTotal, bounds>>

Unused == {c \in Chunks : docOf[c] = "unused"}

(* Process p dies: its handlers vanish where they stand, its counters with  *)
(* them.                                                                    *)
Vanish(p) ==
  /\ pc' = [pc EXCEPT ![p] = [r \in Requests |-> "idle"]]
  /\ retrieved' = [retrieved EXCEPT ![p] = [r \in Requests |-> {}]]
  /\ requestsTotal' = [requestsTotal EXCEPT ![p] = [l \in {"accepted", "done", "failed"} |-> 0]]

Crash == crashes < MaxCrashes /\ crashes' = crashes + 1

WorkerCrash(w) ==
  /\ live[w] = "up" /\ Crash
  /\ Vanish(w)
  /\ live' = [live EXCEPT ![w] = "down"]
  /\ UNCHANGED <<journal, sources, docOf, queue, reply, faults>>

(* The queue connection of w breaks.  Handlers in flight use the pool and   *)
(* run on, but w no longer picks, beats or deletes.                         *)
WorkerDetach(w) ==
  /\ live[w] = "up" /\ Crash
  /\ live' = [live EXCEPT ![w] = "detached"]
  /\ UNCHANGED <<journal, sources, docOf, queue, proc, reply, requestsTotal, faults>>

(* A detached worker ends: when its handlers have, or by a crash before.    *)
WorkerExit(w) ==
  /\ live[w] = "detached"
  /\ IF \A r \in Requests : pc[w][r] = "idle" THEN UNCHANGED crashes ELSE Crash
  /\ Vanish(w)
  /\ live' = [live EXCEPT ![w] = "down"]
  /\ UNCHANGED <<journal, sources, docOf, queue, reply, faults>>

WorkerStart(w) ==
  /\ live[w] = "down"
  /\ live' = [live EXCEPT ![w] = "up"]
  /\ UNCHANGED <<journal, sources, docOf, queue, proc, reply, requestsTotal, bounds>>

(* The API process dies and comes back: calls in flight lose their reply.   *)
ApiCrash ==
  /\ Crash
  /\ Vanish(API)
  /\ reply' = [r \in Requests |-> IF pc[API][r] = "idle" THEN reply[r] ELSE "lost"]
  /\ UNCHANGED <<journal, sources, docOf, queue, live, faults>>

-----------------------------------------------------------------------------
ApiStep(r) == EnqueueRequest(r) \/ Respond(r)

AnswerStep(p, r) ==
  \/ SearchText(p, r)
  \/ AgentRaises(p, r)
  \/ SaveResult(p, r)
  \/ SaveRejected(p, r)

WorkerStep(w, r) ==
  \/ LoadRequest(w, r)
  \/ MarkProcessing(w, r)
  \/ MarkFailed(w, r)
  \/ FinishJob(w, r)

Deliver(w, r) == PickJob(w, r) \/ RepickJob(w, r)

Environment ==
  \/ \E d \in Docs, new \in SUBSET Unused : IndexDocument(d, new)
  \/ \E w \in Workers : WorkerCrash(w) \/ WorkerDetach(w) \/ WorkerExit(w) \/ WorkerStart(w)
  \/ ApiCrash

Next ==
  \/ \E r \in Requests : CreateRequest(r) \/ ApiStep(r)
  \/ \E w \in Workers, r \in Requests : Deliver(w, r) \/ WorkerStep(w, r)
  \/ \E p \in Procs, r \in Requests : AnswerStep(p, r)
  \/ Environment

Spec == Init /\ [][Next]_vars

(* Handlers proceed: every await they make ends, by the timeouts of httpx   *)
(* (300 s for the model, 120 s for embeddings, 15 s for the CRM) and of the *)
(* pool (30 s).  The queue keeps offering a deliverable job to the workers  *)
(* that are up.  Nobody promises to restart a worker.                       *)
Fairness ==
  /\ \A r \in Requests : WF_vars(ApiStep(r)) /\ WF_vars(\E w \in Workers : Deliver(w, r))
  /\ \A p \in Procs, r \in Requests : WF_vars(AnswerStep(p, r))
  /\ \A w \in Workers, r \in Requests : WF_vars(WorkerStep(w, r))

FairSpec == Spec /\ Fairness

-----------------------------------------------------------------------------
(* Properties                                                               *)

Settled(r) == status[r] \in {"done", "failed"}
Handling(w, r) == pc[w][r] # "idle"
Answering(p, r) == pc[p][r] \notin {"idle", "created", "enqueued"}

(* A job in the queue always finds its row: the row is committed before the *)
(* job is enqueued (main.py:70-73), so the early return of process_request  *)
(* on a missing row never silently drops a request.                         *)
JobHasRow ==
  \A r \in Requests : job[r] # "none" => status[r] # "absent" /\ r \in Asks

(* Tracing of answers to sources: at any moment request_sources lists       *)
(* exactly the chunks the stored answer was built from that are still in    *)
(* the knowledge base, and nothing for a request without an answer, however *)
(* re-indexing, repeated executions and failures interleave with the save.  *)
TraceComplete ==
  \A r \in Requests :
    sources[r] = IF answer[r] = NoAnswer THEN {} ELSE answer[r] \cap kb

(* Without redelivery a request is never answered by two processes at once, *)
(* which is what worker.py:8-9 promises of several workers.                 *)
SingleExecution ==
  \A r \in Requests, p, q \in Procs : Answering(p, r) /\ Answering(q, r) => p = q

(* What a 2xx reply promises.  After 202 the request is settled, or its job *)
(* is in the queue, or a worker is at it; after 200 the answer is stored.   *)
(* It survives any one crash, and any number of re-indexings.               *)
PromiseKept ==
  faults = 0 /\ crashes <= 1 =>
    \A r \in Requests :
      /\ reply[r] = "202" => \/ Settled(r)
                             \/ job[r] \in {"queued", "picked"}
                             \/ \E w \in Workers : Handling(w, r)
      /\ reply[r] = "200" => status[r] = "done" /\ answer[r] # NoAnswer

(* The pipeline implements the journal its clients poll.                    *)
Journal == INSTANCE RequestJournal WITH Contexts <- SUBSET Chunks
ImplementsJournal == Journal!Spec

(* Under redelivery and lost acknowledgements an outcome is not final, but  *)
(* a row is never born twice, never goes back to pending, says done only    *)
(* with an answer, never loses an answer once stored, and is not failed     *)
(* before somebody has begun it.                                            *)
ImplementsRetriedJournal == Journal!RetrySpec

(* Every request that was answered 202 ends up done or failed, and stays    *)
(* settled, although a worker may die with it, its queue connection break,  *)
(* or the API restart: as long as the database takes what it is told and    *)
(* one worker is left, for nobody promises to restart one.                  *)
AcceptedSettles ==
  [](faults = 0 /\ crashes <= 1) => \A r \in Asks : reply[r] = "202" ~> []Settled(r)

(* pipeline.py:3-4: a processed request has its result saved or is marked   *)
(* failed.                                                                  *)
ProcessedIsSettled == \A r \in Requests : job[r] = "gone" => Settled(r)

(* While no process has died, the counters of all processes together say    *)
(* what the database says: a call is accepted when its job is in the queue, *)
(* and every outcome that was stored is counted once, by whichever process  *)
(* stored it; a statement that was refused counts for nothing.              *)
Counted(l) == Cardinality(UNION {{p} \X (1 .. requestsTotal[p][l]) : p \in Procs})

CountersAgree ==
  crashes = 0 =>
    /\ Counted("accepted") = Cardinality({r \in Requests : job[r] # "none"})
    /\ \A l \in {"done", "failed"} :
         Counted(l) = Cardinality({r \in Requests : status[r] = l})
=============================================================================
