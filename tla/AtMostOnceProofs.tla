-------------------------- MODULE AtMostOnceProofs --------------------------
(***************************************************************************)
(* What RequestPipeline guarantees when the queue never hands out a job    *)
(* twice: one process at a time handles a request and, if moreover no      *)
(* statement commits without its caller learning it, the pipeline          *)
(* implements RequestJournal, so the outcome of a request is final.        *)
(***************************************************************************)
EXTENDS RequestPipelineProofs, FiniteSetTheorems

AtMostOnce == ~Redelivery
NoLostAck == "unacked" \notin Outages

LEMMA OwnStep == AtMostOnce /\ OwnInv /\ [Next]_vars => OwnInv'
BY OwnKept DEF AtMostOnce, RepickJob

(* A queue that never hands out a job twice keeps every request in the     *)
(* hands of one process: of one worker, or of the API for /ask/sync.       *)
THEOREM OneProcessAnswers == ASSUME AtMostOnce PROVE Spec => []SingleExecution
<1>1. OwnInv => SingleExecution
  <2> SUFFICES ASSUME OwnInv, NEW r \in Requests, NEW p \in Procs, NEW q \in Procs,
                      Answering(p, r), Answering(q, r)
               PROVE  p = q
    BY DEF SingleExecution
  <2>1. CallInvOf(r) /\ OwnInvOf(r)
    BY DEF OwnInv, CallInv
  <2>2. \A w \in Workers : Answering(w, r) => owner[r] = w /\ r \in Asks
    BY <2>1 DEF OwnInvOf, CallInvOf, Answering
  <2>3. Answering(API, r) => r \in SyncAsks
    BY <2>1 DEF CallInvOf, Answering
  <2> QED BY <2>2, <2>3, PipelineAssumption DEF Procs
<1>2. OwnInv /\ [Next]_vars => OwnInv'
  BY OwnStep
<1> QED BY <1>1, <1>2, OwnInit, PTL DEF Spec

-----------------------------------------------------------------------------
(* The pipeline implements the journal                                     *)

(* Where a request stands fixes the status of its row. *)
StatusInvOf(r) ==
  /\ pc[API][r] \in {"created", "querying", "generating"} => status[r] = "pending"
  /\ job[r] = "queued" => status[r] = "pending"
  /\ \A w \in Workers :
       /\ pc[w][r] \in {"picked", "loaded"} => status[r] = "pending"
       /\ pc[w][r] \in {"querying", "generating", "failing"} => status[r] = "processing"

StatusInv == OwnInv /\ \A r \in Requests : StatusInvOf(r)

LEMMA StatusInit == Init => StatusInv
<1> SUFFICES ASSUME Init PROVE StatusInv
  OBVIOUS
<1>1. \A r \in Requests : StatusInvOf(r)
  BY ApiNotWorker DEF Init, StatusInvOf
<1> QED BY <1>1, OwnInit DEF StatusInv

LEMMA StatusStep ==
  AtMostOnce /\ NoLostAck /\ StatusInv /\ [Next]_vars => StatusInv'
<1> SUFFICES ASSUME AtMostOnce, NoLostAck, StatusInv, [Next]_vars, OwnInv'
             PROVE  \A s \in Requests : StatusInvOf(s)'
  BY OwnStep DEF StatusInv
<1> TAKE s \in Requests
<1> USE ApiNotWorker DEF journal, queue, proc, bounds
<1>0. TypeOK /\ CallInvOf(s) /\ OwnInvOf(s) /\ StatusInvOf(s)
  BY DEF StatusInv, OwnInv, CallInv
<1>1. ASSUME status' = status,
             \/ job'[s] = job[s]
             \/ job'[s] \in {"none", "picked", "gone"},
             NEW p \in Procs, NEW r \in Requests,
             \A q \in Procs, x \in Requests : q # p \/ x # r => pc'[q][x] = pc[q][x],
             pc'[p][r] \in {"idle", "enqueued", "saved", "returned", "raised"}
      PROVE  StatusInvOf(s)'
  BY <1>0, <1>1 DEF StatusInvOf
<1>2. ASSUME NEW r \in Requests, CreateRequest(r) PROVE StatusInvOf(s)'
  <2>1. PICK out \in Outcomes :
          /\ status' = Written(out, status, r, "pending")
          /\ IF Acked(out)
             THEN Goto(API, r, IF r \in Asks THEN "created" ELSE "querying")
             ELSE UNCHANGED pc
    BY <1>2 DEF CreateRequest
  <2>2. pc[API][r] = "idle" /\ reply[r] = "none" /\ job' = job
    BY <1>2 DEF CreateRequest
  <2>3. job[r] = "none" /\ \A w \in Workers : pc[w][r] = "idle"
    BY <2>2 DEF StatusInv, OwnInv, CallInv, CallInvOf
  <2>4. \A x \in Requests : x # r => status'[x] = status[x]
    BY <1>0, <2>1 DEF TypeOK, Written
  <2>5. CASE Acked(out)
    <3>1. status'[r] = "pending"
      BY <1>0, <2>1, <2>5, AckedValue DEF TypeOK, Written, Applied
    <3>2. /\ pc'[API][r] \in {"created", "querying"}
          /\ \A q \in Procs, x \in Requests : q # API \/ x # r => pc'[q][x] = pc[q][x]
      BY <1>0, <2>1, <2>5, GotoValue
    <3> QED BY <1>0, <2>2, <2>3, <2>4, <3>1, <3>2 DEF StatusInvOf
  <2>6. CASE ~Acked(out)
    <3>1. pc' = pc
      BY <2>1, <2>6
    <3> QED BY <1>0, <2>2, <2>3, <2>4, <3>1 DEF StatusInvOf
  <2> QED BY <2>5, <2>6
<1>3. ASSUME NEW r \in Requests, EnqueueRequest(r) PROVE StatusInvOf(s)'
  <2>1. PICK out \in Outcomes :
          /\ job' = Written(out, job, r, "queued")
          /\ Goto(API, r, "enqueued") \/ Goto(API, r, "idle")
    BY <1>3 DEF EnqueueRequest
  <2>2. pc[API][r] = "created" /\ status' = status
    BY <1>3 DEF EnqueueRequest
  <2>3. \A x \in Requests : x # r => job'[x] = job[x]
    BY <1>0, <2>1 DEF TypeOK, Written
  <2>4. /\ pc'[API][r] \in {"enqueued", "idle"}
        /\ \A q \in Procs, x \in Requests : q # API \/ x # r => pc'[q][x] = pc[q][x]
    BY <1>0, <2>1, GotoValue
  <2> QED BY <1>0, <2>2, <2>3, <2>4 DEF StatusInvOf
<1>4. ASSUME NEW r \in Requests, Respond(r) PROVE StatusInvOf(s)'
  <2>1. Goto(API, r, "idle") /\ status' = status /\ job' = job
    BY <1>4 DEF Respond
  <2> QED BY <1>0, <1>1, <2>1, GotoValue
<1>5. ASSUME NEW w \in Workers, NEW r \in Requests, Deliver(w, r) PROVE StatusInvOf(s)'
  <2>1. PickJob(w, r)
    BY <1>5 DEF Deliver, RepickJob, AtMostOnce
  <2>2. status[r] = "pending" /\ status' = status
    BY <2>1 DEF PickJob, StatusInv, StatusInvOf
  <2>3. /\ job'[r] = "picked"
        /\ \A x \in Requests : x # r => job'[x] = job[x]
    BY <1>0, <2>1 DEF PickJob, TypeOK
  <2>4. /\ pc'[w][r] = "picked"
        /\ \A q \in Procs, x \in Requests : q # w \/ x # r => pc'[q][x] = pc[q][x]
    BY <1>0, <2>1, GotoValue DEF PickJob
  <2> QED BY <1>0, <2>2, <2>3, <2>4 DEF StatusInvOf
<1>6. ASSUME NEW w \in Workers, NEW r \in Requests, FinishJob(w, r) PROVE StatusInvOf(s)'
  <2>1. Goto(w, r, "idle") /\ status' = status /\ job'[s] \in {job[s], "gone"}
    BY <1>0, <1>6 DEF FinishJob, TypeOK
  <2> QED BY <1>0, <1>1, <2>1, GotoValue
<1>7. ASSUME NEW w \in Workers, NEW r \in Requests, LoadRequest(w, r) PROVE StatusInvOf(s)'
  <2>1. /\ pc[w][r] = "picked" /\ status' = status /\ job' = job
        /\ \E l \in {"raised", "returned", "loaded"} : Goto(w, r, l)
    BY <1>7 DEF LoadRequest
  <2>2. status[r] = "pending"
    BY <2>1 DEF StatusInv, StatusInvOf
  <2>3. /\ pc'[w][r] \in {"raised", "returned", "loaded"}
        /\ \A q \in Procs, x \in Requests : q # w \/ x # r => pc'[q][x] = pc[q][x]
    BY <1>0, <2>1, GotoValue
  <2> QED BY <1>0, <2>1, <2>2, <2>3 DEF StatusInvOf
<1>8. ASSUME NEW w \in Workers, NEW r \in Requests,
             MarkProcessing(w, r) \/ MarkFailed(w, r)
      PROVE  StatusInvOf(s)'
  <2>1. PICK out \in Outcomes, l \in {"processing", "failed"}, k \in {"querying", "raised"} :
          /\ status' = Written(out, status, r, l) /\ Goto(w, r, k)
          /\ k = "querying" => l = "processing" /\ Acked(out)
    BY <1>8 DEF MarkProcessing, MarkFailed
  <2>2. pc[w][r] # "idle" /\ job' = job
    BY <1>8 DEF MarkProcessing, MarkFailed
  <2>3. /\ job[r] = "picked" /\ r \in Asks
        /\ \A v \in Workers : v # w => pc[v][r] = "idle"
    BY <2>2 DEF StatusInv, OwnInv, OwnInvOf, CallInv, CallInvOf
  <2>4. pc[API][r] \notin {"created", "querying", "generating"}
    BY <2>3, PipelineAssumption DEF StatusInv, OwnInv, CallInv, CallInvOf
  <2>5. \A x \in Requests : x # r => status'[x] = status[x]
    BY <1>0, <2>1 DEF TypeOK, Written
  <2>6. k = "querying" => status'[r] = "processing"
    BY <1>0, <2>1, AckedValue DEF TypeOK, Written, Applied
  <2>7. /\ pc'[w][r] = k
        /\ \A q \in Procs, x \in Requests : q # w \/ x # r => pc'[q][x] = pc[q][x]
    BY <1>0, <2>1, GotoValue
  <2> QED BY <1>0, <2>1, <2>2, <2>3, <2>4, <2>5, <2>6, <2>7 DEF StatusInvOf
<1>9. ASSUME NEW p \in Procs, NEW r \in Requests, SearchText(p, r) PROVE StatusInvOf(s)'
  <2>1. /\ pc[p][r] = "querying" /\ pc'[p][r] = "generating" /\ status' = status /\ job' = job
        /\ \A q \in Procs, x \in Requests : q # p \/ x # r => pc'[q][x] = pc[q][x]
    BY <1>0, <1>9, GotoValue DEF SearchText
  <2> QED BY <1>0, <2>1 DEF StatusInvOf
<1>10. ASSUME NEW p \in Procs, NEW r \in Requests, pc[p][r] \in {"querying", "generating"},
              Raise(p, r), status' = status, job' = job
       PROVE  StatusInvOf(s)'
  BY <1>0, <1>10, RaiseValue DEF StatusInvOf
<1>11. ASSUME NEW p \in Procs, NEW r \in Requests, AgentRaises(p, r) \/ SaveRejected(p, r)
       PROVE  StatusInvOf(s)'
  BY <1>10, <1>11 DEF AgentRaises, SaveRejected
<1>12. ASSUME NEW p \in Procs, NEW r \in Requests, SaveResult(p, r) PROVE StatusInvOf(s)'
  <2>1. PICK out \in Outcomes :
          /\ status' = Written(out, status, r, "done")
          /\ IF Acked(out) THEN Goto(p, r, "saved") ELSE Raise(p, r)
    BY <1>12 DEF SaveResult
  <2>2. pc[p][r] = "generating" /\ job' = job
    BY <1>12 DEF SaveResult
  <2>3. CASE Acked(out)
    <3>1. /\ pc'[p][r] = "saved"
          /\ \A q \in Procs, x \in Requests : q # p \/ x # r => pc'[q][x] = pc[q][x]
      BY <1>0, <2>1, <2>3, GotoValue
    <3>2. \A x \in Requests : x # r => status'[x] = status[x]
      BY <1>0, <2>1 DEF TypeOK, Written
    <3>3. job[r] # "queued"
      BY <2>2, PipelineAssumption DEF StatusInv, OwnInv, OwnInvOf, CallInv, CallInvOf, Procs
    <3>4. \A q \in Procs : q # p => pc[q][r] \in {"idle", "enqueued"}
      <4>1. CASE p = API
        BY <2>2, <4>1, PipelineAssumption
           DEF StatusInv, OwnInv, OwnInvOf, CallInv, CallInvOf, Procs
      <4>2. CASE p \in Workers
        <5>1. owner[r] = p /\ job[r] = "picked"
          BY <2>2, <4>2 DEF StatusInv, OwnInv, OwnInvOf
        <5>2. r \in Asks /\ pc[API][r] \in {"idle", "enqueued"}
          BY <5>1, PipelineAssumption DEF StatusInv, OwnInv, CallInv, CallInvOf
        <5>3. \A v \in Workers : v # p => pc[v][r] = "idle"
          BY <5>1 DEF StatusInv, OwnInv, OwnInvOf
        <5> QED BY <5>2, <5>3 DEF Procs
      <4> QED BY <4>1, <4>2 DEF Procs
    <3> QED BY <1>0, <2>2, <3>1, <3>2, <3>3, <3>4 DEF StatusInvOf
  <2>4. CASE ~Acked(out)
    <3>1. status' = status
      BY <1>0, <2>1, <2>4, AckedValue DEF Written, Applied, NoLostAck
    <3> QED BY <1>10, <2>1, <2>2, <2>4, <3>1
  <2> QED BY <2>3, <2>4
<1>13. ASSUME (\E w \in Workers : WorkerCrash(w) \/ WorkerExit(w)) \/ ApiCrash
       PROVE  StatusInvOf(s)'
  <2>1. PICK p \in Procs : Vanish(p)
    BY <1>13 DEF WorkerCrash, WorkerExit, ApiCrash
  <2>2. job' = job /\ status' = status
    BY <1>13 DEF WorkerCrash, WorkerExit, ApiCrash
  <2>3. \A q \in Procs : pc'[q][s] = "idle" \/ pc'[q][s] = pc[q][s]
    BY <1>0, <2>1, VanishValue
  <2> QED BY <1>0, <2>2, <2>3 DEF StatusInvOf
<1>14. ASSUME \/ \E d \in Docs, new \in SUBSET Unused : IndexDocument(d, new)
              \/ \E w \in Workers : WorkerDetach(w) \/ WorkerStart(w)
              \/ UNCHANGED vars
       PROVE  StatusInvOf(s)'
  <2>1. job' = job /\ status' = status /\ pc' = pc
    BY <1>14 DEF IndexDocument, WorkerDetach, WorkerStart, vars
  <2> QED BY <1>0, <2>1 DEF StatusInvOf
<1> QED
  BY <1>2, <1>3, <1>4, <1>5, <1>6, <1>7, <1>8, <1>9, <1>11, <1>12, <1>13, <1>14
     DEF Next, ApiStep, WorkerStep, AnswerStep, Environment

LEMMA JournalInit == Init => Journal!Init
BY DEF Init, Journal!Init

LEMMA JournalStep ==
  ASSUME NoLostAck, StatusInv, [Next]_vars
  PROVE  [Journal!Next]_(Journal!vars)
<1> USE ApiNotWorker DEF journal, queue, proc, bounds
<1>0. TypeOK
  BY DEF StatusInv, OwnInv, CallInv
<1>1. ASSUME NEW r \in Requests, CreateRequest(r) PROVE [Journal!Next]_(Journal!vars)
  <2>1. PICK out \in Outcomes : status' = Written(out, status, r, "pending")
    BY <1>1 DEF CreateRequest
  <2>2. status[r] = "absent" /\ answer' = answer
    BY <1>1 DEF CreateRequest, StatusInv, OwnInv, CallInv, CallInvOf
  <2>3. status' = status \/ status' = [status EXCEPT ![r] = "pending"]
    BY <2>1 DEF Written
  <2> QED BY <2>2, <2>3 DEF Journal!Next, Journal!Register, Journal!vars
<1>2. ASSUME NEW w \in Workers, NEW r \in Requests, MarkProcessing(w, r)
      PROVE  [Journal!Next]_(Journal!vars)
  <2>1. PICK out \in Outcomes : status' = Written(out, status, r, "processing")
    BY <1>2 DEF MarkProcessing
  <2>2. status[r] = "pending" /\ answer' = answer
    BY <1>2 DEF MarkProcessing, StatusInv, StatusInvOf
  <2>3. status' = status \/ status' = [status EXCEPT ![r] = "processing"]
    BY <2>1 DEF Written
  <2> QED BY <2>2, <2>3 DEF Journal!Next, Journal!Begin, Journal!vars
<1>3. ASSUME NEW w \in Workers, NEW r \in Requests, MarkFailed(w, r)
      PROVE  [Journal!Next]_(Journal!vars)
  <2>1. PICK out \in Outcomes : status' = Written(out, status, r, "failed")
    BY <1>3 DEF MarkFailed
  <2>2. status[r] = "processing" /\ answer' = answer
    BY <1>3 DEF MarkFailed, StatusInv, StatusInvOf
  <2>3. status' = status \/ status' = [status EXCEPT ![r] = "failed"]
    BY <2>1 DEF Written
  <2> QED BY <2>2, <2>3 DEF Journal!Next, Journal!Fail, Journal!vars
<1>4. ASSUME NEW p \in Procs, NEW r \in Requests, SaveResult(p, r)
      PROVE  [Journal!Next]_(Journal!vars)
  <2>1. PICK out \in Outcomes :
          /\ status' = Written(out, status, r, "done")
          /\ answer' = Written(out, answer, r, retrieved[p][r])
    BY <1>4 DEF SaveResult
  <2>2. status[r] \in {"pending", "processing"}
    BY <1>4 DEF SaveResult, StatusInv, StatusInvOf, Procs
  <2>3. retrieved[p][r] \in SUBSET Chunks
    BY <1>0 DEF TypeOK
  <2>4. \/ status' = status /\ answer' = answer
        \/ /\ status' = [status EXCEPT ![r] = "done"]
           /\ answer' = [answer EXCEPT ![r] = retrieved[p][r]]
    BY <2>1 DEF Written
  <2> QED BY <2>2, <2>3, <2>4 DEF Journal!Next, Journal!Complete, Journal!vars
<1>5. ASSUME \/ \E r \in Requests : EnqueueRequest(r) \/ Respond(r)
             \/ \E w \in Workers, r \in Requests :
                  Deliver(w, r) \/ LoadRequest(w, r) \/ FinishJob(w, r)
             \/ \E p \in Procs, r \in Requests :
                  SearchText(p, r) \/ AgentRaises(p, r) \/ SaveRejected(p, r)
             \/ Environment
             \/ UNCHANGED vars
      PROVE  [Journal!Next]_(Journal!vars)
  <2>1. status' = status /\ answer' = answer
    BY <1>5 DEF EnqueueRequest, Respond, Deliver, PickJob, RepickJob, LoadRequest, FinishJob,
                SearchText, AgentRaises, SaveRejected, Environment, IndexDocument,
                WorkerCrash, WorkerDetach, WorkerExit, WorkerStart, ApiCrash, vars
  <2> QED BY <2>1 DEF Journal!vars
<1> QED
  BY <1>1, <1>2, <1>3, <1>4, <1>5 DEF Next, ApiStep, WorkerStep, AnswerStep

(* Without a second delivery or a lost acknowledgement, every behaviour of *)
(* the API, the workers and the queue is a behaviour of the journal.       *)
THEOREM PipelineImplementsJournal ==
  ASSUME AtMostOnce, NoLostAck PROVE Spec => ImplementsJournal
<1>1. StatusInv /\ [Next]_vars => StatusInv'
  BY StatusStep
<1>2. StatusInv /\ [Next]_vars => [Journal!Next]_(Journal!vars)
  BY JournalStep
<1> QED BY <1>1, <1>2, StatusInit, JournalInit, PTL DEF Spec, ImplementsJournal, Journal!Spec

(* A request that a poll has shown as done or failed never changes again,  *)
(* neither its status nor its answer.                                      *)
THEOREM OutcomesFinal ==
  ASSUME AtMostOnce, NoLostAck PROVE Spec => Journal!OutcomeFinal
<1>1. StatusInv /\ [Next]_vars => StatusInv'
  BY StatusStep
<1>2. StatusInv /\ [Next]_vars => [Journal!OutcomesKept]_(Journal!vars)
  <2> SUFFICES ASSUME StatusInv, Journal!Next PROVE Journal!OutcomesKept
    BY JournalStep
  <2>1. /\ status \in [Requests -> Statuses]
        /\ answer \in [Requests -> {NoAnswer} \cup SUBSET Chunks]
    BY DEF StatusInv, OwnInv, CallInv, TypeOK
  <2>2. PICK r \in Requests :
          Journal!Register(r) \/ Journal!Begin(r) \/ Journal!Complete(r) \/ Journal!Fail(r)
    BY DEF Journal!Next
  <2>3. ~Journal!Settled(r)
    BY <2>2 DEF Journal!Register, Journal!Begin, Journal!Complete, Journal!Fail,
                Journal!Settled
  <2>4. \A s \in Requests : s # r => status'[s] = status[s] /\ answer'[s] = answer[s]
    BY <2>1, <2>2 DEF Journal!Register, Journal!Begin, Journal!Complete, Journal!Fail
  <2> QED BY <2>3, <2>4 DEF Journal!OutcomesKept
<1> QED BY <1>1, <1>2, StatusInit, PTL DEF Spec, Journal!OutcomeFinal

-----------------------------------------------------------------------------
(* The counters agree with the database *)

CounterLabels == {"accepted", "done", "failed"}

(* What Counted counts: one pair for every increment. *)
Tally(l) == UNION {{p} \X (1 .. requestsTotal[p][l]) : p \in Procs}

(* The requests a counter speaks of. *)
Stored(l) ==
  IF l = "accepted" THEN {r \in Requests : job[r] # "none"} ELSE {r \in Requests : status[r] = l}

AgreeOf(l) ==
  /\ IsFiniteSet(Tally(l)) /\ IsFiniteSet(Stored(l))
  /\ Cardinality(Tally(l)) = Cardinality(Stored(l))

CountInv ==
  /\ StatusInv /\ AliveInv
  /\ crashes = 0 => \A l \in CounterLabels : AgreeOf(l)

LEMMA TallyGrows ==
  ASSUME TypeOK, NEW p \in Procs, NEW l \in CounterLabels, Count(p, l)
  PROVE  /\ \E x : x \notin Tally(l) /\ Tally(l)' = Tally(l) \cup {x}
         /\ \A k \in CounterLabels : k # l => Tally(k)' = Tally(k)
<1> DEFINE n == requestsTotal[p][l]
<1>1. requestsTotal \in [Procs -> [CounterLabels -> Nat]]
  BY DEF TypeOK, CounterLabels
<1>2. /\ requestsTotal'[p][l] = n + 1
      /\ \A q \in Procs, k \in CounterLabels :
           q # p \/ k # l => requestsTotal'[q][k] = requestsTotal[q][k]
  BY <1>1 DEF Count
<1>3. n \in Nat
  BY <1>1
<1>4. <<p, n + 1>> \notin Tally(l)
  BY <1>3 DEF Tally
<1>5. Tally(l)' = Tally(l) \cup {<<p, n + 1>>}
  <2>1. 1 .. requestsTotal'[p][l] = (1 .. n) \cup {n + 1}
    <3> HIDE DEF n
    <3>1. 1 .. n + 1 = (1 .. n) \cup {n + 1}
      BY <1>3
    <3> QED BY <1>2, <3>1
  <2>2. \A q \in Procs : q # p => 1 .. requestsTotal'[q][l] = 1 .. requestsTotal[q][l]
    BY <1>2
  <2> DEFINE old(q) == {q} \X (1 .. requestsTotal[q][l])
             new(q) == {q} \X (1 .. requestsTotal'[q][l])
  <2>3. new(p) = old(p) \cup {<<p, n + 1>>} /\ \A q \in Procs : q # p => new(q) = old(q)
    <3>1. \A S, x : {p} \X (S \cup {x}) = ({p} \X S) \cup {<<p, x>>}
      OBVIOUS
    <3> QED BY <2>1, <2>2, <3>1
  <2>4. Tally(l) = UNION {old(q) : q \in Procs} /\ Tally(l)' = UNION {new(q) : q \in Procs}
    BY DEF Tally
  <2> HIDE DEF old, new
  <2> QED BY <2>3, <2>4
<1>6. ASSUME NEW k \in CounterLabels, k # l PROVE Tally(k)' = Tally(k)
  BY <1>2, <1>6 DEF Tally
<1> QED BY <1>4, <1>5, <1>6

LEMMA CountInit == Init => CountInv
<1> SUFFICES ASSUME Init, NEW l \in CounterLabels PROVE AgreeOf(l)
  BY StatusInit, AliveInit DEF CountInv
<1>1. Tally(l) = {}
  BY DEF Init, Tally, CounterLabels
<1>2. Stored(l) = {}
  BY DEF Init, Stored, CounterLabels
<1> QED BY <1>1, <1>2, FS_EmptySet DEF AgreeOf

(* Either nothing is counted and nothing stored, or one outcome is both. *)
CountedWithIt ==
  \/ /\ requestsTotal' = requestsTotal
     /\ \A l \in CounterLabels : Stored(l)' = Stored(l)
  \/ \E p \in Procs, l \in CounterLabels, r \in Requests :
       /\ Count(p, l)
       /\ r \notin Stored(l) /\ Stored(l)' = Stored(l) \cup {r}
       /\ \A k \in CounterLabels : k # l => Stored(k)' = Stored(k)

LEMMA AgreeKept ==
  ASSUME TypeOK, CountedWithIt, NEW l \in CounterLabels, AgreeOf(l)
  PROVE  AgreeOf(l)'
<1>1. CASE /\ requestsTotal' = requestsTotal
           /\ \A k \in CounterLabels : Stored(k)' = Stored(k)
  <2>1. Tally(l)' = Tally(l)
    BY <1>1 DEF Tally
  <2> QED BY <1>1, <2>1 DEF AgreeOf
<1>2. ASSUME NEW p \in Procs, NEW k \in CounterLabels, NEW r \in Requests, Count(p, k),
             r \notin Stored(k), Stored(k)' = Stored(k) \cup {r},
             \A j \in CounterLabels : j # k => Stored(j)' = Stored(j)
      PROVE  AgreeOf(l)'
  <2>1. CASE k = l
    <3>1. PICK x : x \notin Tally(l) /\ Tally(l)' = Tally(l) \cup {x}
      BY <1>2, <2>1, TallyGrows
    <3>2. IsFiniteSet(Tally(l)') /\ Cardinality(Tally(l)') = Cardinality(Tally(l)) + 1
      BY <3>1, FS_AddElement DEF AgreeOf
    <3>3. IsFiniteSet(Stored(l)') /\ Cardinality(Stored(l)') = Cardinality(Stored(l)) + 1
      BY <1>2, <2>1, FS_AddElement DEF AgreeOf
    <3> QED BY <3>2, <3>3 DEF AgreeOf
  <2>2. CASE k # l
    <3>1. Tally(l)' = Tally(l) /\ Stored(l)' = Stored(l)
      BY <1>2, <2>2, TallyGrows
    <3> QED BY <3>1 DEF AgreeOf
  <2> QED BY <2>1, <2>2
<1> QED BY <1>1, <1>2 DEF CountedWithIt

LEMMA CountStep == AtMostOnce /\ NoLostAck /\ CountInv /\ [Next]_vars => CountInv'
<1> SUFFICES ASSUME AtMostOnce, NoLostAck, CountInv, [Next]_vars, crashes' = 0
             PROVE  \A l \in CounterLabels : AgreeOf(l)'
  BY StatusStep, AliveStep DEF CountInv
<1> USE ApiNotWorker DEF journal, queue, proc, bounds
<1>0. TypeOK /\ CallInv /\ OwnInv /\ StatusInv
  BY DEF CountInv, StatusInv, OwnInv, CallInv
<1>1. crashes = 0 /\ crashes' = crashes
  BY <1>0, CrashesGrow DEF TypeOK
<1>2. SUFFICES CountedWithIt
  BY <1>0, <1>1, AgreeKept DEF CountInv
<1>3. \A out \in Outcomes : Acked(out) \/ ~Applied(out)
  BY AckedValue DEF NoLostAck, Applied
<1>4. ASSUME requestsTotal' = requestsTotal,
             \A r \in Requests : job[r] # "none" <=> job'[r] # "none",
             \A r \in Requests : status'[r] = status[r]
                                 \/ {status[r], status'[r]} \cap {"done", "failed"} = {}
      PROVE  CountedWithIt
  <2>1. {r \in Requests : job'[r] # "none"} = {r \in Requests : job[r] # "none"}
    BY <1>4
  <2>2. \A l \in {"done", "failed"} :
          {r \in Requests : status'[r] = l} = {r \in Requests : status[r] = l}
    BY <1>4
  <2>3. \A l \in CounterLabels : Stored(l)' = Stored(l)
    BY <2>1, <2>2 DEF Stored, CounterLabels
  <2> QED BY <1>4, <2>3 DEF CountedWithIt
<1>5. ASSUME NEW p \in Procs, NEW r \in Requests, NEW l \in {"done", "failed"},
             Count(p, l), job' = job, status' = [status EXCEPT ![r] = l],
             status[r] \notin {"done", "failed"}
      PROVE  CountedWithIt
  <2>1. \A x \in Requests : status'[x] = IF x = r THEN l ELSE status[x]
    BY <1>0, <1>5 DEF TypeOK
  <2>2. \A k \in {"done", "failed"} :
          {x \in Requests : status'[x] = k}
            = IF k = l THEN {x \in Requests : status[x] = k} \cup {r}
              ELSE {x \in Requests : status[x] = k}
    BY <1>5, <2>1
  <2>3. {x \in Requests : job'[x] # "none"} = {x \in Requests : job[x] # "none"}
    BY <1>5
  <2>4. /\ r \notin Stored(l) /\ Stored(l)' = Stored(l) \cup {r} /\ l \in CounterLabels
        /\ \A k \in CounterLabels : k # l => Stored(k)' = Stored(k)
    BY <1>5, <2>2, <2>3 DEF Stored, CounterLabels
  <2> QED BY <1>5, <2>4 DEF CountedWithIt
<1>6. ASSUME NEW r \in Requests, CreateRequest(r) PROVE CountedWithIt
  <2>1. PICK out \in Outcomes : status' = Written(out, status, r, "pending")
    BY <1>6 DEF CreateRequest
  <2>2. status[r] = "absent" /\ job' = job /\ requestsTotal' = requestsTotal
    BY <1>0, <1>6 DEF CreateRequest, CallInv, CallInvOf
  <2>3. \A x \in Requests : status'[x] = status[x] \/ (x = r /\ status'[x] = "pending")
    BY <1>0, <2>1 DEF TypeOK, Written
  <2> QED BY <1>4, <2>2, <2>3
<1>7. ASSUME NEW r \in Requests, EnqueueRequest(r) PROVE CountedWithIt
  <2>1. PICK out \in Outcomes :
          /\ job' = Written(out, job, r, "queued")
          /\ IF Acked(out) THEN Count(API, "accepted") ELSE UNCHANGED requestsTotal
    BY <1>7 DEF EnqueueRequest
  <2>2. status' = status /\ job[r] = "none"
    BY <1>0, <1>7 DEF EnqueueRequest, CallInv, CallInvOf
  <2>3. CASE Acked(out)
    <3>1. Count(API, "accepted") /\ \A x \in Requests : job'[x] = IF x = r THEN "queued" ELSE job[x]
      BY <1>0, <2>1, <2>3, AckedValue DEF TypeOK, Written, Applied
    <3>2. {x \in Requests : job'[x] # "none"} = {x \in Requests : job[x] # "none"} \cup {r}
      BY <3>1
    <3>3. /\ r \notin Stored("accepted") /\ Stored("accepted")' = Stored("accepted") \cup {r}
          /\ \A k \in CounterLabels : k # "accepted" => Stored(k)' = Stored(k)
      BY <2>2, <3>2 DEF Stored
    <3> QED BY <3>1, <3>3 DEF CountedWithIt, CounterLabels
  <2>4. CASE ~Acked(out)
    <3>1. job' = job /\ requestsTotal' = requestsTotal
      BY <1>3, <2>1, <2>4 DEF Written
    <3> QED BY <1>4, <2>2, <3>1
  <2> QED BY <2>3, <2>4
<1>8. ASSUME NEW w \in Workers, NEW r \in Requests, Deliver(w, r) \/ FinishJob(w, r)
      PROVE  CountedWithIt
  <2>1. job[r] # "none"
    BY <1>0, <1>8 DEF Deliver, PickJob, RepickJob, FinishJob, CallInv, CallInvOf
  <2>2. /\ requestsTotal' = requestsTotal /\ status' = status /\ job'[r] # "none"
        /\ \A x \in Requests : x # r => job'[x] = job[x]
    BY <1>0, <1>8, <2>1 DEF Deliver, PickJob, RepickJob, FinishJob, TypeOK
  <2> QED BY <1>4, <2>1, <2>2
<1>9. ASSUME NEW w \in Workers, NEW r \in Requests, MarkProcessing(w, r) PROVE CountedWithIt
  <2>1. PICK out \in Outcomes : status' = Written(out, status, r, "processing")
    BY <1>9 DEF MarkProcessing
  <2>2. status[r] = "pending" /\ job' = job /\ requestsTotal' = requestsTotal
    BY <1>0, <1>9 DEF MarkProcessing, StatusInv, StatusInvOf
  <2>3. \A x \in Requests : status'[x] = status[x] \/ (x = r /\ status'[x] = "processing")
    BY <1>0, <2>1 DEF TypeOK, Written
  <2> QED BY <1>4, <2>2, <2>3
<1>10. ASSUME NEW w \in Workers, NEW r \in Requests, MarkFailed(w, r) PROVE CountedWithIt
  <2>1. PICK out \in Outcomes :
          /\ status' = Written(out, status, r, "failed")
          /\ IF Acked(out) THEN Count(w, "failed") ELSE UNCHANGED requestsTotal
    BY <1>10 DEF MarkFailed
  <2>2. status[r] = "processing" /\ job' = job
    BY <1>0, <1>10 DEF MarkFailed, StatusInv, StatusInvOf
  <2>3. CASE Acked(out)
    <3>1. Count(w, "failed") /\ status' = [status EXCEPT ![r] = "failed"]
      BY <2>1, <2>3, AckedValue DEF Written, Applied
    <3> QED BY <1>5, <2>2, <3>1
  <2>4. CASE ~Acked(out)
    <3>1. status' = status /\ requestsTotal' = requestsTotal
      BY <1>3, <2>1, <2>4 DEF Written
    <3> QED BY <1>4, <2>2, <3>1
  <2> QED BY <2>3, <2>4
<1>11. ASSUME NEW p \in Procs, NEW r \in Requests, SaveResult(p, r) PROVE CountedWithIt
  <2>1. PICK out \in Outcomes :
          /\ status' = Written(out, status, r, "done")
          /\ IF Acked(out) THEN Count(p, "done") ELSE UNCHANGED requestsTotal
    BY <1>11 DEF SaveResult
  <2>2. status[r] \in {"pending", "processing"} /\ job' = job
    BY <1>0, <1>11 DEF SaveResult, StatusInv, StatusInvOf, Procs
  <2>3. CASE Acked(out)
    <3>1. Count(p, "done") /\ status' = [status EXCEPT ![r] = "done"]
      BY <2>1, <2>3, AckedValue DEF Written, Applied
    <3> QED BY <1>5, <2>2, <3>1
  <2>4. CASE ~Acked(out)
    <3>1. status' = status /\ requestsTotal' = requestsTotal
      BY <1>3, <2>1, <2>4 DEF Written
    <3> QED BY <1>4, <2>2, <3>1
  <2> QED BY <2>3, <2>4
<1>12. ASSUME \/ \E r \in Requests : Respond(r)
              \/ \E w \in Workers, r \in Requests : LoadRequest(w, r)
              \/ \E p \in Procs, r \in Requests :
                   SearchText(p, r) \/ AgentRaises(p, r) \/ SaveRejected(p, r)
              \/ \E d \in Docs, new \in SUBSET Unused : IndexDocument(d, new)
              \/ \E w \in Workers : WorkerDetach(w) \/ WorkerStart(w)
              \/ UNCHANGED vars
       PROVE  CountedWithIt
  <2>1. status' = status /\ job' = job /\ requestsTotal' = requestsTotal
    BY <1>12 DEF Respond, LoadRequest, SearchText, AgentRaises, SaveRejected, IndexDocument,
                 WorkerDetach, WorkerStart, vars
  <2> QED BY <1>4, <2>1
<1>13. ~(\E w \in Workers : WorkerCrash(w) \/ WorkerExit(w)) /\ ~ApiCrash
  BY <1>0, <1>1 DEF WorkerCrash, WorkerExit, ApiCrash, Crash, CountInv, AliveInv, TypeOK
<1> QED
  BY <1>6, <1>7, <1>8, <1>9, <1>10, <1>11, <1>12, <1>13
     DEF Next, ApiStep, WorkerStep, AnswerStep, Environment

(* While no process has died the counters of all processes together say     *)
(* what the database says, however handlers interleave and statements fail. *)
THEOREM CountersAlwaysAgree ==
  ASSUME AtMostOnce, NoLostAck PROVE Spec => []CountersAgree
<1>1. CountInv => CountersAgree
  BY DEF CountInv, AgreeOf, CounterLabels, CountersAgree, Counted, Tally, Stored
<1>2. CountInv /\ [Next]_vars => CountInv'
  BY CountStep
<1> QED BY <1>1, <1>2, CountInit, PTL DEF Spec

=============================================================================
