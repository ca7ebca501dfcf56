------------------------ MODULE RequestPipelineProofs ------------------------
(***************************************************************************)
(* Proofs about RequestPipeline, for any sets of calls, workers, documents *)
(* and chunks, any number of failed statements and any number of crashes.  *)
(***************************************************************************)
EXTENDS RequestPipeline, TLAPS

(* What a statement leaves of the table it writes is of the table's type. *)
LEMMA WrittenType ==
  ASSUME NEW S, NEW T, NEW f \in [S -> T], NEW r \in S, NEW v \in T, NEW out
  PROVE  Written(out, f, r, v) \in [S -> T]
BY DEF Written

LEMMA GotoType ==
  ASSUME TypeOK, NEW p \in Procs, NEW r \in Requests, NEW l \in Labels, Goto(p, r, l)
  PROVE  pc' \in [Procs -> [Requests -> Labels]]
BY DEF TypeOK, Goto

LEMMA HoldType ==
  ASSUME TypeOK, NEW p \in Procs, NEW r \in Requests, NEW S \in SUBSET Chunks,
         Hold(p, r, S)
  PROVE  retrieved' \in [Procs -> [Requests -> SUBSET Chunks]]
BY DEF TypeOK, Hold

LEMMA CountType ==
  ASSUME TypeOK, NEW p \in Procs, NEW l \in {"accepted", "done", "failed"}, Count(p, l)
  PROVE  requestsTotal' \in [Procs -> [{"accepted", "done", "failed"} -> Nat]]
BY DEF TypeOK, Count

LEMMA AttemptType ==
  ASSUME TypeOK, NEW out, Attempt(out)
  PROVE  faults' \in Nat
BY DEF TypeOK, Attempt

LEMMA RaiseType ==
  ASSUME TypeOK, NEW p \in Procs, NEW r \in Requests, Raise(p, r)
  PROVE  /\ pc' \in [Procs -> [Requests -> Labels]]
         /\ retrieved' \in [Procs -> [Requests -> SUBSET Chunks]]
         /\ reply' \in [Requests -> {"none", "202", "200", "500", "lost"}]
<1>1. retrieved' \in [Procs -> [Requests -> SUBSET Chunks]]
  BY HoldType DEF Raise
<1>2. CASE p = API
  <2>1. Goto(p, r, "idle") /\ reply' = [reply EXCEPT ![r] = "500"]
    BY <1>2 DEF Raise
  <2>2. pc' \in [Procs -> [Requests -> Labels]]
    BY <2>1, GotoType DEF Labels
  <2>3. reply' \in [Requests -> {"none", "202", "200", "500", "lost"}]
    BY <2>1 DEF TypeOK
  <2> QED BY <1>1, <2>2, <2>3
<1>3. CASE p # API
  <2>1. Goto(p, r, "failing") /\ reply' = reply
    BY <1>3 DEF Raise
  <2>2. pc' \in [Procs -> [Requests -> Labels]]
    BY <2>1, GotoType DEF Labels
  <2> QED BY <1>1, <2>1, <2>2 DEF TypeOK
<1> QED BY <1>2, <1>3

LEMMA VanishType ==
  ASSUME TypeOK, NEW p \in Procs, Vanish(p)
  PROVE  /\ pc' \in [Procs -> [Requests -> Labels]]
         /\ retrieved' \in [Procs -> [Requests -> SUBSET Chunks]]
         /\ requestsTotal' \in [Procs -> [{"accepted", "done", "failed"} -> Nat]]
BY DEF TypeOK, Vanish, Labels

-----------------------------------------------------------------------------
(* Type correctness *)

LEMMA TypeInit == Init => TypeOK
BY PipelineAssumption
   DEF Init, TypeOK, Statuses, Labels

LEMMA TypeStep == TypeOK /\ [Next]_vars => TypeOK'
<1> SUFFICES ASSUME TypeOK, [Next]_vars PROVE TypeOK'
  OBVIOUS
<1> USE DEF journal, queue, proc, bounds
<1>1. ASSUME NEW r \in Requests, CreateRequest(r) PROVE TypeOK'
  <2>1. PICK out \in Outcomes :
          /\ Attempt(out)
          /\ status' = Written(out, status, r, "pending")
          /\ IF Acked(out)
             THEN /\ Goto(API, r, IF r \in Asks THEN "created" ELSE "querying")
                  /\ UNCHANGED reply
             ELSE reply' = [reply EXCEPT ![r] = "500"] /\ UNCHANGED pc
    BY <1>1 DEF CreateRequest
  <2>2. status' \in [Requests -> Statuses]
    BY <2>1, WrittenType DEF TypeOK, Statuses
  <2>3. pc' \in [Procs -> [Requests -> Labels]]
    BY <2>1, GotoType DEF TypeOK, Labels, Procs
  <2>4. reply' \in [Requests -> {"none", "202", "200", "500", "lost"}]
    BY <2>1 DEF TypeOK
  <2> QED BY <1>1, <2>1, <2>2, <2>3, <2>4, AttemptType DEF CreateRequest, TypeOK
<1>2. ASSUME NEW r \in Requests, EnqueueRequest(r) PROVE TypeOK'
  <2>1. PICK out \in Outcomes :
          /\ Attempt(out)
          /\ job' = Written(out, job, r, "queued")
          /\ IF Acked(out)
             THEN Goto(API, r, "enqueued") /\ Count(API, "accepted") /\ UNCHANGED reply
             ELSE /\ Goto(API, r, "idle")
                  /\ reply' = [reply EXCEPT ![r] = "500"]
                  /\ UNCHANGED requestsTotal
    BY <1>2 DEF EnqueueRequest
  <2>2. job' \in [Requests -> {"none", "queued", "picked", "gone"}]
    BY <2>1, WrittenType DEF TypeOK
  <2>3. pc' \in [Procs -> [Requests -> Labels]]
    BY <2>1, GotoType DEF TypeOK, Labels, Procs
  <2>4. reply' \in [Requests -> {"none", "202", "200", "500", "lost"}]
    BY <2>1 DEF TypeOK
  <2>5. requestsTotal' \in [Procs -> [{"accepted", "done", "failed"} -> Nat]]
    BY <2>1, CountType DEF TypeOK, Procs
  <2> QED BY <1>2, <2>1, <2>2, <2>3, <2>4, <2>5, AttemptType DEF EnqueueRequest, TypeOK
<1>3. ASSUME NEW r \in Requests, Respond(r) PROVE TypeOK'
  <2>1. pc' \in [Procs -> [Requests -> Labels]]
    BY <1>3, GotoType DEF Respond, Labels, Procs
  <2> QED BY <1>3, <2>1 DEF Respond, TypeOK
<1>4. ASSUME NEW w \in Workers, NEW r \in Requests, Deliver(w, r) PROVE TypeOK'
  <2>1. pc' \in [Procs -> [Requests -> Labels]]
    BY <1>4, GotoType DEF Deliver, PickJob, RepickJob, Labels, Procs
  <2>2. CASE PickJob(w, r)
    BY <2>1, <2>2 DEF PickJob, TypeOK
  <2>3. CASE RepickJob(w, r)
    BY <2>1, <2>3 DEF RepickJob, TypeOK
  <2> QED BY <1>4, <2>2, <2>3 DEF Deliver
<1>5. ASSUME NEW w \in Workers, NEW r \in Requests, FinishJob(w, r) PROVE TypeOK'
  <2>1. pc' \in [Procs -> [Requests -> Labels]]
    BY <1>5, GotoType DEF FinishJob, Labels, Procs
  <2> QED BY <1>5, <2>1 DEF FinishJob, TypeOK
<1>6. ASSUME NEW w \in Workers, NEW r \in Requests, LoadRequest(w, r) PROVE TypeOK'
  <2>1. PICK out \in Outcomes :
          /\ Attempt(out)
          /\ Goto(w, r, IF ~Acked(out) THEN "raised"
                        ELSE IF status[r] = "absent" THEN "returned" ELSE "loaded")
    BY <1>6 DEF LoadRequest
  <2>2. pc' \in [Procs -> [Requests -> Labels]]
    BY <2>1, GotoType DEF Labels, Procs
  <2> QED BY <1>6, <2>1, <2>2, AttemptType DEF LoadRequest, TypeOK
<1>7. ASSUME NEW w \in Workers, NEW r \in Requests, MarkProcessing(w, r) PROVE TypeOK'
  <2>1. PICK out \in Outcomes :
          /\ Attempt(out)
          /\ status' = Written(out, status, r, "processing")
          /\ Goto(w, r, IF Acked(out) THEN "querying" ELSE "raised")
    BY <1>7 DEF MarkProcessing
  <2>2. status' \in [Requests -> Statuses]
    BY <2>1, WrittenType DEF TypeOK, Statuses
  <2>3. pc' \in [Procs -> [Requests -> Labels]]
    BY <2>1, GotoType DEF Labels, Procs
  <2> QED BY <1>7, <2>1, <2>2, <2>3, AttemptType DEF MarkProcessing, TypeOK
<1>8. ASSUME NEW w \in Workers, NEW r \in Requests, MarkFailed(w, r) PROVE TypeOK'
  <2>1. PICK out \in Outcomes :
          /\ Attempt(out)
          /\ status' = Written(out, status, r, "failed")
          /\ IF Acked(out) THEN Count(w, "failed") ELSE UNCHANGED requestsTotal
    BY <1>8 DEF MarkFailed
  <2>2. status' \in [Requests -> Statuses]
    BY <2>1, WrittenType DEF TypeOK, Statuses
  <2>3. pc' \in [Procs -> [Requests -> Labels]]
    BY <1>8, GotoType DEF MarkFailed, Labels, Procs
  <2>4. requestsTotal' \in [Procs -> [{"accepted", "done", "failed"} -> Nat]]
    BY <2>1, CountType DEF TypeOK, Procs
  <2> QED BY <1>8, <2>1, <2>2, <2>3, <2>4, AttemptType DEF MarkFailed, TypeOK
<1>9. ASSUME NEW p \in Procs, NEW r \in Requests, SearchText(p, r) PROVE TypeOK'
  <2>1. pc' \in [Procs -> [Requests -> Labels]]
    BY <1>9, GotoType DEF SearchText, Labels
  <2>2. retrieved' \in [Procs -> [Requests -> SUBSET Chunks]]
    BY <1>9, HoldType DEF SearchText, TopKSets, kb
  <2> QED BY <1>9, <2>1, <2>2 DEF SearchText, TypeOK
<1>10. ASSUME NEW p \in Procs, NEW r \in Requests, AgentRaises(p, r) PROVE TypeOK'
  BY <1>10, RaiseType DEF AgentRaises, TypeOK
<1>11. ASSUME NEW p \in Procs, NEW r \in Requests, SaveResult(p, r) PROVE TypeOK'
  <2>1. PICK out \in Outcomes :
          /\ Attempt(out)
          /\ status' = Written(out, status, r, "done")
          /\ answer' = Written(out, answer, r, retrieved[p][r])
          /\ sources' = Written(out, sources, r, retrieved[p][r])
          /\ IF Acked(out)
             THEN Goto(p, r, "saved") /\ Hold(p, r, {}) /\ Count(p, "done") /\ UNCHANGED reply
             ELSE Raise(p, r) /\ UNCHANGED requestsTotal
    BY <1>11 DEF SaveResult
  <2>2. retrieved[p][r] \in SUBSET Chunks
    BY DEF TypeOK
  <2>3. status' \in [Requests -> Statuses]
    BY <2>1, WrittenType DEF TypeOK, Statuses
  <2>4. answer' \in [Requests -> {NoAnswer} \cup SUBSET Chunks]
    <3>1. retrieved[p][r] \in {NoAnswer} \cup SUBSET Chunks
      BY <2>2
    <3>2. answer \in [Requests -> {NoAnswer} \cup SUBSET Chunks]
      BY DEF TypeOK
    <3> QED BY <2>1, <3>1, <3>2, WrittenType
  <2>5. sources' \in [Requests -> SUBSET Chunks]
    <3>1. sources \in [Requests -> SUBSET Chunks]
      BY DEF TypeOK
    <3> QED BY <2>1, <2>2, <3>1, WrittenType
  <2>6. CASE Acked(out)
    <3>1. pc' \in [Procs -> [Requests -> Labels]]
      BY <2>1, <2>6, GotoType DEF Labels
    <3>2. retrieved' \in [Procs -> [Requests -> SUBSET Chunks]]
      BY <2>1, <2>6, HoldType
    <3>3. requestsTotal' \in [Procs -> [{"accepted", "done", "failed"} -> Nat]]
      BY <2>1, <2>6, CountType
    <3>4. faults' \in Nat
      BY <2>1, AttemptType
    <3> QED BY <1>11, <2>1, <2>3, <2>4, <2>5, <2>6, <3>1, <3>2, <3>3, <3>4
            DEF SaveResult, TypeOK
  <2>7. CASE ~Acked(out)
    <3>1. Raise(p, r) /\ UNCHANGED requestsTotal
      BY <2>1, <2>7
    <3>2. faults' \in Nat
      BY <2>1, AttemptType
    <3> QED BY <1>11, <2>3, <2>4, <2>5, <3>1, <3>2, RaiseType DEF SaveResult, TypeOK
  <2> QED BY <2>6, <2>7
<1>12. ASSUME NEW p \in Procs, NEW r \in Requests, SaveRejected(p, r) PROVE TypeOK'
  BY <1>12, RaiseType DEF SaveRejected, TypeOK
<1>13. ASSUME NEW d \in Docs, NEW new \in SUBSET Unused, IndexDocument(d, new) PROVE TypeOK'
  <2>1. docOf' \in [Chunks -> Docs \cup {"unused", "deleted"}]
    BY <1>13 DEF IndexDocument, TypeOK
  <2>2. sources' \in [Requests -> SUBSET Chunks]
    BY <1>13 DEF IndexDocument, TypeOK
  <2> QED BY <1>13, <2>1, <2>2 DEF IndexDocument, TypeOK
<1>14. ASSUME NEW w \in Workers, WorkerCrash(w) PROVE TypeOK'
  <2>1. /\ Vanish(w) /\ w \in Procs
        /\ live' \in [Workers -> {"up", "detached", "down"}] /\ crashes' \in Nat
    BY <1>14 DEF WorkerCrash, Crash, Procs, TypeOK
  <2> QED BY <1>14, <2>1, VanishType DEF WorkerCrash, TypeOK
<1>15. ASSUME NEW w \in Workers, WorkerDetach(w) PROVE TypeOK'
  BY <1>15 DEF WorkerDetach, Crash, TypeOK
<1>16. ASSUME NEW w \in Workers, WorkerExit(w) PROVE TypeOK'
  <2>1. /\ Vanish(w) /\ w \in Procs
        /\ live' \in [Workers -> {"up", "detached", "down"}] /\ crashes' \in Nat
    BY <1>16 DEF WorkerExit, Crash, Procs, TypeOK
  <2> QED BY <1>16, <2>1, VanishType DEF WorkerExit, TypeOK
<1>17. ASSUME NEW w \in Workers, WorkerStart(w) PROVE TypeOK'
  BY <1>17 DEF WorkerStart, TypeOK
<1>18. ASSUME ApiCrash PROVE TypeOK'
  <2>1. /\ Vanish(API) /\ API \in Procs /\ crashes' \in Nat
        /\ reply' \in [Requests -> {"none", "202", "200", "500", "lost"}]
    BY <1>18 DEF ApiCrash, Crash, Procs, TypeOK
  <2> QED BY <1>18, <2>1, VanishType DEF ApiCrash, TypeOK
<1>19. CASE UNCHANGED vars
  BY <1>19 DEF vars, TypeOK
<1> QED
  BY <1>1, <1>2, <1>3, <1>4, <1>5, <1>6, <1>7, <1>8, <1>9, <1>10, <1>11, <1>12, <1>13,
     <1>14, <1>15, <1>16, <1>17, <1>18, <1>19
     DEF Next, ApiStep, WorkerStep, AnswerStep, Environment

(* Every table, queue row, process and counter keeps its type. *)
THEOREM TypeCorrect == Spec => []TypeOK
BY TypeInit, TypeStep, PTL DEF Spec

-----------------------------------------------------------------------------
(* What the steps do, pointwise *)

LEMMA ApiNotWorker == API \in Procs /\ API \notin Workers /\ Workers \subseteq Procs
BY PipelineAssumption DEF Procs

LEMMA GotoValue ==
  ASSUME TypeOK, NEW p \in Procs, NEW r \in Requests, NEW l, Goto(p, r, l)
  PROVE  /\ pc'[p][r] = l
         /\ \A q \in Procs, s \in Requests : q # p \/ s # r => pc'[q][s] = pc[q][s]
BY DEF TypeOK, Goto

LEMMA HoldValue ==
  ASSUME TypeOK, NEW p \in Procs, NEW r \in Requests, NEW S, Hold(p, r, S)
  PROVE  /\ retrieved'[p][r] = S
         /\ \A q \in Procs, s \in Requests :
              q # p \/ s # r => retrieved'[q][s] = retrieved[q][s]
BY DEF TypeOK, Hold

LEMMA RaiseValue ==
  ASSUME TypeOK, NEW p \in Procs, NEW r \in Requests, Raise(p, r)
  PROVE  /\ p = API => pc'[p][r] = "idle" /\ reply'[r] = "500"
         /\ p # API => pc'[p][r] = "failing" /\ reply'[r] = reply[r]
         /\ \A s \in Requests : s # r => reply'[s] = reply[s]
         /\ \A q \in Procs, s \in Requests : q # p \/ s # r => pc'[q][s] = pc[q][s]
         /\ Hold(p, r, {})
<1>1. Hold(p, r, {})
  BY DEF Raise
<1>2. CASE p = API
  <2>1. Goto(p, r, "idle") /\ reply' = [reply EXCEPT ![r] = "500"]
    BY <1>2 DEF Raise
  <2> QED BY <1>1, <1>2, <2>1, GotoValue DEF TypeOK
<1>3. CASE p # API
  <2>1. Goto(p, r, "failing") /\ reply' = reply
    BY <1>3 DEF Raise
  <2> QED BY <1>1, <1>3, <2>1, GotoValue
<1> QED BY <1>2, <1>3

LEMMA VanishValue ==
  ASSUME TypeOK, NEW p \in Procs, Vanish(p)
  PROVE  /\ \A s \in Requests : pc'[p][s] = "idle" /\ retrieved'[p][s] = {}
         /\ \A q \in Procs, s \in Requests :
              q # p => pc'[q][s] = pc[q][s] /\ retrieved'[q][s] = retrieved[q][s]
BY DEF TypeOK, Vanish

LEMMA AckedValue ==
  ASSUME NEW out \in Outcomes
  PROVE  /\ Acked(out) => out # "refused"
         /\ "unacked" \notin Outages /\ ~Acked(out) => out = "refused"
BY PipelineAssumption DEF Outcomes, Acked

-----------------------------------------------------------------------------
(* Calls, rows and jobs: a job implies its row *)

(* Where a call stands in the API process fixes what can exist of it: a    *)
(* call not yet made has neither row nor job, one that is created has its  *)
(* row and no job, and only /ask/sync answers in the API process.          *)
CallInvOf(r) ==
  /\ pc[API][r] = "idle" /\ reply[r] = "none" => status[r] = "absent" /\ job[r] = "none"
  /\ pc[API][r] = "created" => status[r] # "absent" /\ job[r] = "none" /\ r \in Asks
  /\ pc[API][r] \in {"querying", "generating", "saved"} =>
       status[r] # "absent" /\ r \in SyncAsks
  /\ pc[API][r] \in {"idle", "created", "enqueued", "querying", "generating", "saved"}
  /\ job[r] # "none" => status[r] # "absent" /\ r \in Asks
  /\ \A w \in Workers : pc[w][r] # "idle" => job[r] # "none"

CallInv == TypeOK /\ \A r \in Requests : CallInvOf(r)

LEMMA CallInit == Init => CallInv
<1> SUFFICES ASSUME Init PROVE CallInv
  OBVIOUS
<1>1. TypeOK
  BY TypeInit
<1>2. \A r \in Requests : CallInvOf(r)
  BY ApiNotWorker DEF Init, CallInvOf
<1> QED BY <1>1, <1>2 DEF CallInv

LEMMA CallStep == CallInv /\ [Next]_vars => CallInv'
<1> SUFFICES ASSUME CallInv, [Next]_vars, TypeOK' PROVE \A s \in Requests : CallInvOf(s)'
  BY TypeStep DEF CallInv
<1> TAKE s \in Requests
<1> USE ApiNotWorker DEF journal, queue, proc, bounds
<1>0. TypeOK /\ CallInvOf(s)
  BY DEF CallInv
<1>1. ASSUME NEW r \in Requests, CreateRequest(r) PROVE CallInvOf(s)'
  <2>1. PICK out \in Outcomes :
          /\ status' = Written(out, status, r, "pending")
          /\ IF Acked(out)
             THEN /\ Goto(API, r, IF r \in Asks THEN "created" ELSE "querying")
                  /\ UNCHANGED reply
             ELSE reply' = [reply EXCEPT ![r] = "500"] /\ UNCHANGED pc
    BY <1>1 DEF CreateRequest
  <2>2. /\ pc[API][r] = "idle" /\ reply[r] = "none" /\ job' = job
        /\ status[r] = "absent" /\ job[r] = "none"
    BY <1>1 DEF CreateRequest, CallInv, CallInvOf
  <2>3. \A x \in Requests : x # r => status'[x] = status[x]
    BY <1>0, <2>1 DEF TypeOK, Written
  <2>4. CASE Acked(out)
    <3>1. status'[r] = "pending"
      BY <1>0, <2>1, <2>4, AckedValue DEF TypeOK, Written, Applied
    <3>2. /\ pc'[API][r] = IF r \in Asks THEN "created" ELSE "querying"
          /\ \A q \in Procs, x \in Requests : q # API \/ x # r => pc'[q][x] = pc[q][x]
      BY <1>0, <2>1, <2>4, GotoValue
    <3>3. r \in Asks \/ r \in SyncAsks
      BY DEF Requests
    <3> QED BY <1>0, <2>1, <2>2, <2>3, <2>4, <3>1, <3>2, <3>3 DEF CallInvOf
  <2>5. CASE ~Acked(out)
    <3>1. reply' = [reply EXCEPT ![r] = "500"] /\ pc' = pc
      BY <2>1, <2>5
    <3>2. reply'[r] = "500" /\ \A x \in Requests : x # r => reply'[x] = reply[x]
      BY <1>0, <3>1 DEF TypeOK
    <3> QED BY <1>0, <2>2, <2>3, <3>1, <3>2 DEF CallInvOf
  <2> QED BY <2>4, <2>5
<1>2. ASSUME NEW r \in Requests, EnqueueRequest(r) PROVE CallInvOf(s)'
  <2>1. PICK out \in Outcomes :
          /\ job' = Written(out, job, r, "queued")
          /\ IF Acked(out)
             THEN Goto(API, r, "enqueued") /\ UNCHANGED reply
             ELSE Goto(API, r, "idle") /\ reply' = [reply EXCEPT ![r] = "500"]
    BY <1>2 DEF EnqueueRequest
  <2>2. pc[API][r] = "created" /\ status' = status
    BY <1>2 DEF EnqueueRequest
  <2>3. status[r] # "absent" /\ r \in Asks
    BY <2>2 DEF CallInv, CallInvOf
  <2>4. \A x \in Requests : x # r => job'[x] = job[x]
    BY <1>0, <2>1 DEF TypeOK, Written
  <2>5. job'[r] \in {"none", "queued"}
    BY <1>0, <2>1, <2>2 DEF TypeOK, CallInv, CallInvOf, Written
  <2>6. /\ pc'[API][r] \in {"enqueued", "idle"}
        /\ pc'[API][r] = "idle" => reply'[r] = "500"
        /\ \A x \in Requests : x # r => reply'[x] = reply[x]
        /\ \A q \in Procs, x \in Requests : q # API \/ x # r => pc'[q][x] = pc[q][x]
    BY <1>0, <2>1, GotoValue DEF TypeOK
  <2>7. \A w \in Workers : pc[w][r] = "idle"
    BY <2>2 DEF CallInv, CallInvOf
  <2> QED BY <1>0, <2>2, <2>3, <2>4, <2>5, <2>6, <2>7 DEF CallInvOf
<1>3. ASSUME NEW r \in Requests, Respond(r) PROVE CallInvOf(s)'
  <2>1. /\ pc'[API][r] = "idle" /\ reply'[r] # "none"
        /\ \A x \in Requests : x # r => reply'[x] = reply[x]
        /\ \A q \in Procs, x \in Requests : q # API \/ x # r => pc'[q][x] = pc[q][x]
        /\ status' = status /\ job' = job
    BY <1>0, <1>3, GotoValue DEF Respond, TypeOK
  <2> QED BY <1>0, <2>1 DEF CallInvOf
<1>4. ASSUME NEW w \in Workers, NEW r \in Requests, Deliver(w, r) PROVE CallInvOf(s)'
  <2>1. /\ \A q \in Procs, x \in Requests : q # w \/ x # r => pc'[q][x] = pc[q][x]
        /\ status' = status /\ reply' = reply
        /\ job[r] # "none" /\ job'[r] # "none"
        /\ \A x \in Requests : x # r => job'[x] = job[x]
    BY <1>0, <1>4, GotoValue DEF Deliver, PickJob, RepickJob, TypeOK
  <2> QED BY <1>0, <2>1 DEF CallInvOf
<1>5. ASSUME NEW w \in Workers, NEW r \in Requests, FinishJob(w, r) PROVE CallInvOf(s)'
  <2>1. /\ \A q \in Procs, x \in Requests : q # w \/ x # r => pc'[q][x] = pc[q][x]
        /\ status' = status /\ reply' = reply /\ pc[w][r] # "idle"
        /\ job'[r] \in {job[r], "gone"}
        /\ \A x \in Requests : x # r => job'[x] = job[x]
    BY <1>0, <1>5, GotoValue DEF FinishJob, TypeOK
  <2>2. job[r] # "none" /\ pc'[w][r] = "idle"
    BY <1>0, <1>5, <2>1, GotoValue DEF CallInv, CallInvOf, FinishJob
  <2> QED BY <1>0, <2>1, <2>2 DEF CallInvOf
<1>6. ASSUME NEW w \in Workers, NEW r \in Requests, LoadRequest(w, r) PROVE CallInvOf(s)'
  <2>1. /\ \A q \in Procs, x \in Requests : q # w \/ x # r => pc'[q][x] = pc[q][x]
        /\ status' = status /\ reply' = reply /\ job' = job /\ pc[w][r] # "idle"
    BY <1>0, <1>6, GotoValue DEF LoadRequest
  <2> QED BY <1>0, <2>1 DEF CallInvOf
<1>7. ASSUME NEW w \in Workers, NEW r \in Requests, MarkProcessing(w, r) \/ MarkFailed(w, r)
      PROVE CallInvOf(s)'
  <2>1. PICK out \in Outcomes, l \in Statuses \ {"absent"}, k \in Labels :
          status' = Written(out, status, r, l) /\ Goto(w, r, k)
    BY <1>7 DEF MarkProcessing, MarkFailed, Statuses, Labels
  <2>2. /\ \A q \in Procs, x \in Requests : q # w \/ x # r => pc'[q][x] = pc[q][x]
        /\ reply' = reply /\ job' = job /\ pc[w][r] # "idle"
    BY <1>0, <1>7, <2>1, GotoValue DEF MarkProcessing, MarkFailed
  <2>3. \A x \in Requests : status[x] # "absent" => status'[x] # "absent"
    BY <1>0, <2>1 DEF TypeOK, Written
  <2>4. \A x \in Requests : x # r => status'[x] = status[x]
    BY <1>0, <2>1 DEF TypeOK, Written
  <2>5. job[r] # "none"
    BY <2>2 DEF CallInv, CallInvOf
  <2> QED BY <1>0, <2>2, <2>3, <2>4, <2>5 DEF CallInvOf
<1>8. ASSUME NEW p \in Procs, NEW r \in Requests, SearchText(p, r) PROVE CallInvOf(s)'
  <2>1. /\ pc[p][r] = "querying" /\ pc'[p][r] = "generating"
        /\ \A q \in Procs, x \in Requests : q # p \/ x # r => pc'[q][x] = pc[q][x]
        /\ status' = status /\ reply' = reply /\ job' = job
    BY <1>0, <1>8, GotoValue DEF SearchText
  <2> QED BY <1>0, <2>1 DEF CallInvOf
<1>9. ASSUME NEW p \in Procs, NEW r \in Requests, AgentRaises(p, r) \/ SaveRejected(p, r)
      PROVE CallInvOf(s)'
  <2>1. /\ pc[p][r] \in {"querying", "generating"} /\ Raise(p, r)
        /\ status' = status /\ job' = job
    BY <1>9 DEF AgentRaises, SaveRejected
  <2> QED BY <1>0, <2>1, RaiseValue DEF CallInvOf
<1>10. ASSUME NEW p \in Procs, NEW r \in Requests, SaveResult(p, r) PROVE CallInvOf(s)'
  <2>1. PICK out \in Outcomes :
          /\ status' = Written(out, status, r, "done")
          /\ IF Acked(out) THEN Goto(p, r, "saved") /\ UNCHANGED reply ELSE Raise(p, r)
    BY <1>10 DEF SaveResult
  <2>2. pc[p][r] = "generating" /\ job' = job
    BY <1>10 DEF SaveResult
  <2>3. \A x \in Requests : status[x] # "absent" => status'[x] # "absent"
    BY <1>0, <2>1 DEF TypeOK, Written
  <2>4. \A x \in Requests : x # r => status'[x] = status[x]
    BY <1>0, <2>1 DEF TypeOK, Written
  <2>5. status[r] # "absent"
    BY <2>2 DEF CallInv, CallInvOf, Procs
  <2>6. CASE Acked(out)
    <3>1. /\ pc'[p][r] = "saved" /\ reply' = reply
          /\ \A q \in Procs, x \in Requests : q # p \/ x # r => pc'[q][x] = pc[q][x]
      BY <1>0, <2>1, <2>6, GotoValue
    <3> QED BY <1>0, <2>2, <2>3, <2>4, <2>5, <3>1 DEF CallInvOf, Procs
  <2>7. CASE ~Acked(out)
    <3>1. Raise(p, r)
      BY <2>1, <2>7
    <3> QED BY <1>0, <2>2, <2>3, <2>4, <2>5, <3>1, RaiseValue DEF CallInvOf, Procs
  <2> QED BY <2>6, <2>7
<1>11. ASSUME NEW w \in Workers, WorkerCrash(w) \/ WorkerExit(w) PROVE CallInvOf(s)'
  <2>1. Vanish(w) /\ status' = status /\ reply' = reply /\ job' = job
    BY <1>11 DEF WorkerCrash, WorkerExit
  <2> QED BY <1>0, <2>1, VanishValue DEF CallInvOf
<1>12. ASSUME ApiCrash PROVE CallInvOf(s)'
  <2>1. /\ Vanish(API) /\ status' = status /\ job' = job
        /\ reply'[s] = IF pc[API][s] = "idle" THEN reply[s] ELSE "lost"
    BY <1>12 DEF ApiCrash
  <2>2. pc'[API][s] = "idle" /\ \A w \in Workers : pc'[w][s] = pc[w][s]
    BY <1>0, <2>1, VanishValue
  <2> QED BY <1>0, <2>1, <2>2 DEF CallInvOf
<1>13. ASSUME \/ \E d \in Docs, new \in SUBSET Unused : IndexDocument(d, new)
              \/ \E w \in Workers : WorkerDetach(w) \/ WorkerStart(w)
              \/ UNCHANGED vars
       PROVE CallInvOf(s)'
  <2>1. status' = status /\ reply' = reply /\ job' = job /\ pc' = pc
    BY <1>13 DEF IndexDocument, WorkerDetach, WorkerStart, vars
  <2> QED BY <1>0, <2>1 DEF CallInvOf
<1> QED
  BY <1>1, <1>2, <1>3, <1>4, <1>5, <1>6, <1>7, <1>8, <1>9, <1>10, <1>11, <1>12, <1>13
     DEF Next, ApiStep, WorkerStep, AnswerStep, Environment

(* No job is ever in the queue without a committed row to load, whatever   *)
(* crashes, is lost or is delivered again.                                 *)
THEOREM JobAlwaysHasRow == Spec => []JobHasRow
<1>1. CallInv => JobHasRow
  BY DEF CallInv, CallInvOf, JobHasRow
<1> QED BY <1>1, CallInit, CallStep, PTL DEF Spec

-----------------------------------------------------------------------------
(* The journal under repeated delivery *)

(* Whoever is at a request in a worker, past mark_processing, has begun it, *)
(* and no execution ever takes that back.                                   *)
Begun(r) == status[r] \in {"processing", "done", "failed"}

BegunInvOf(r) ==
  \A w \in Workers : pc[w][r] \in {"querying", "generating", "failing"} => Begun(r)

BegunInv == CallInv /\ \A r \in Requests : BegunInvOf(r)

LEMMA BegunInit == Init => BegunInv
<1> SUFFICES ASSUME Init PROVE BegunInv
  OBVIOUS
<1>1. \A r \in Requests : BegunInvOf(r)
  BY ApiNotWorker DEF Init, BegunInvOf
<1> QED BY <1>1, CallInit DEF BegunInv

(* A statement writes one row, which was there before unless it is INSERTed.*)
LEMMA RowWritten ==
  ASSUME TypeOK, NEW r \in Requests, NEW s \in Requests, NEW out \in Outcomes, NEW l \in Statuses,
         status' = Written(out, status, r, l)
  PROVE  /\ s # r => status'[s] = status[s]
         /\ status'[r] = l \/ status' = status
         /\ Acked(out) => status'[r] = l
         /\ status' = status \/ status' = [status EXCEPT ![r] = l]
<1>1. status' = status \/ status' = [status EXCEPT ![r] = l]
  BY DEF Written
<1>2. Acked(out) => status' = [status EXCEPT ![r] = l]
  BY DEF Written, Acked, Applied
<1>3. status \in [Requests -> Statuses]
  BY DEF TypeOK
<1> QED BY <1>1, <1>2, <1>3

LEMMA BegunStep == BegunInv /\ [Next]_vars => BegunInv'
<1> SUFFICES ASSUME BegunInv, [Next]_vars, CallInv' PROVE \A s \in Requests : BegunInvOf(s)'
  BY CallStep DEF BegunInv
<1> TAKE s \in Requests
<1> USE ApiNotWorker DEF journal, queue, proc, bounds
<1>0. TypeOK /\ CallInvOf(s) /\ BegunInvOf(s)
  BY DEF BegunInv, CallInv
<1>1. ASSUME Begun(s) => Begun(s)',
             \A w \in Workers : \/ pc'[w][s] = pc[w][s]
                               \/ pc'[w][s] \notin {"querying", "generating", "failing"}
                               \/ Begun(s)'
      PROVE  BegunInvOf(s)'
  BY <1>0, <1>1 DEF BegunInvOf
<1>2. ASSUME NEW r \in Requests, CreateRequest(r) PROVE BegunInvOf(s)'
  <2>1. PICK out \in Outcomes : status' = Written(out, status, r, "pending")
    BY <1>2 DEF CreateRequest
  <2>2. status[r] = "absent"
    BY <1>2 DEF CreateRequest, BegunInv, CallInv, CallInvOf
  <2>3. Begun(s) => Begun(s)'
    BY <1>0, <2>1, <2>2, RowWritten DEF Begun, Statuses
  <2>4. \A w \in Workers : pc'[w][s] = pc[w][s]
    BY <1>0, <1>2, GotoValue DEF CreateRequest
  <2> QED BY <1>1, <2>3, <2>4
<1>3. ASSUME NEW w \in Workers, NEW r \in Requests, MarkProcessing(w, r) PROVE BegunInvOf(s)'
  <2>1. PICK out \in Outcomes :
          /\ status' = Written(out, status, r, "processing")
          /\ Goto(w, r, IF Acked(out) THEN "querying" ELSE "raised")
    BY <1>3 DEF MarkProcessing
  <2>2. /\ Begun(s) => Begun(s)'
        /\ Acked(out) => Begun(r)'
    BY <1>0, <2>1, RowWritten DEF Begun, Statuses
  <2>3. \A v \in Workers : \/ pc'[v][s] = pc[v][s]
                           \/ pc'[v][s] = "raised"
                           \/ s = r /\ Acked(out)
    BY <1>0, <2>1, GotoValue
  <2> QED BY <1>1, <2>2, <2>3
<1>4. ASSUME NEW w \in Workers, NEW r \in Requests, MarkFailed(w, r) PROVE BegunInvOf(s)'
  <2>1. PICK out \in Outcomes : status' = Written(out, status, r, "failed")
    BY <1>4 DEF MarkFailed
  <2>2. Begun(s) => Begun(s)'
    BY <1>0, <2>1, RowWritten DEF Begun, Statuses
  <2>3. \A v \in Workers : pc'[v][s] = pc[v][s] \/ pc'[v][s] = "raised"
    BY <1>0, <1>4, GotoValue DEF MarkFailed
  <2> QED BY <1>1, <2>2, <2>3
<1>5. ASSUME NEW p \in Procs, NEW r \in Requests, SaveResult(p, r) PROVE BegunInvOf(s)'
  <2>1. PICK out \in Outcomes :
          /\ status' = Written(out, status, r, "done")
          /\ IF Acked(out) THEN Goto(p, r, "saved") ELSE Raise(p, r)
    BY <1>5 DEF SaveResult
  <2>2. Begun(s) => Begun(s)'
    BY <1>0, <2>1, RowWritten DEF Begun, Statuses
  <2>3. \A v \in Workers : \/ pc'[v][s] = pc[v][s]
                           \/ pc'[v][s] = "saved"
                           \/ s = r /\ v = p
    BY <1>0, <2>1, GotoValue, RaiseValue
  <2>4. p \in Workers => Begun(r)
    BY <1>5 DEF SaveResult, BegunInv, BegunInvOf
  <2> QED BY <1>1, <2>2, <2>3, <2>4
<1>6. ASSUME NEW p \in Procs, NEW r \in Requests,
             SearchText(p, r) \/ AgentRaises(p, r) \/ SaveRejected(p, r)
      PROVE  BegunInvOf(s)'
  <2>1. status' = status /\ pc[p][r] \in {"querying", "generating"}
    BY <1>6 DEF SearchText, AgentRaises, SaveRejected
  <2>2. p \in Workers => Begun(r)
    BY <2>1 DEF BegunInv, BegunInvOf
  <2>3. \A v \in Workers : pc'[v][s] = pc[v][s] \/ (s = r /\ v = p)
    BY <1>0, <1>6, GotoValue, RaiseValue DEF SearchText, AgentRaises, SaveRejected
  <2>4. \A x \in Requests : Begun(x) => Begun(x)'
    BY <2>1 DEF Begun
  <2> QED BY <1>1, <2>2, <2>3, <2>4
<1>7. ASSUME NEW p \in Procs, NEW r \in Requests, NEW l \in {"enqueued", "idle", "picked",
             "returned", "raised", "loaded"}, Goto(p, r, l), status' = status
      PROVE  BegunInvOf(s)'
  <2>1. \A v \in Workers : pc'[v][s] = pc[v][s] \/ pc'[v][s] = l
    BY <1>0, <1>7, GotoValue
  <2>2. Begun(s) => Begun(s)'
    BY <1>7 DEF Begun
  <2> QED BY <1>1, <1>7, <2>1, <2>2
<1>8. ASSUME NEW r \in Requests, ApiStep(r) PROVE BegunInvOf(s)'
  <2>1. \E l \in {"enqueued", "idle"} : Goto(API, r, l) /\ status' = status
    BY <1>8 DEF ApiStep, EnqueueRequest, Respond
  <2> QED BY <1>7, <2>1
<1>9. ASSUME NEW w \in Workers, NEW r \in Requests,
             Deliver(w, r) \/ LoadRequest(w, r) \/ FinishJob(w, r)
      PROVE  BegunInvOf(s)'
  <2>1. \E l \in {"picked", "returned", "raised", "loaded", "idle"} :
          Goto(w, r, l) /\ status' = status
    BY <1>9 DEF Deliver, PickJob, RepickJob, LoadRequest, FinishJob
  <2> QED BY <1>7, <2>1
<1>10. ASSUME NEW p \in Procs, Vanish(p), status' = status PROVE BegunInvOf(s)'
  <2>1. \A v \in Workers : pc'[v][s] = pc[v][s] \/ pc'[v][s] = "idle"
    BY <1>0, <1>10, VanishValue
  <2>2. Begun(s) => Begun(s)'
    BY <1>10 DEF Begun
  <2> QED BY <1>1, <2>1, <2>2
<1>11. ASSUME Environment \/ UNCHANGED vars PROVE BegunInvOf(s)'
  <2>1. \/ \E p \in Procs : Vanish(p) /\ status' = status
        \/ status' = status /\ pc' = pc
    BY <1>11 DEF Environment, IndexDocument, WorkerCrash, WorkerDetach, WorkerExit, WorkerStart,
                 ApiCrash, vars
  <2>2. CASE status' = status /\ pc' = pc
    BY <1>0, <2>2 DEF BegunInvOf, Begun
  <2> QED BY <1>10, <2>1, <2>2
<1> QED BY <1>2, <1>3, <1>4, <1>5, <1>6, <1>8, <1>9, <1>11 DEF Next, AnswerStep, WorkerStep

LEMMA RetriedStep ==
  ASSUME BegunInv, [Next]_vars
  PROVE  [Journal!RetryNext]_(Journal!vars)
<1> USE ApiNotWorker DEF journal, queue, proc, bounds
<1>0. TypeOK
  BY DEF BegunInv, CallInv
<1>1. ASSUME NEW r \in Requests, CreateRequest(r) PROVE [Journal!RetryNext]_(Journal!vars)
  <2>1. PICK out \in Outcomes : status' = Written(out, status, r, "pending")
    BY <1>1 DEF CreateRequest
  <2>2. status[r] = "absent" /\ answer' = answer
    BY <1>1 DEF CreateRequest, BegunInv, CallInv, CallInvOf
  <2>3. status' = status \/ status' = [status EXCEPT ![r] = "pending"]
    BY <2>1 DEF Written
  <2> QED BY <2>2, <2>3 DEF Journal!RetryNext, Journal!Register, Journal!vars
<1>2. ASSUME NEW w \in Workers, NEW r \in Requests, MarkProcessing(w, r)
      PROVE  [Journal!RetryNext]_(Journal!vars)
  <2>1. PICK out \in Outcomes : status' = Written(out, status, r, "processing")
    BY <1>2 DEF MarkProcessing
  <2>2. pc[w][r] # "idle" /\ answer' = answer
    BY <1>2 DEF MarkProcessing
  <2>3. status[r] # "absent"
    BY <2>2 DEF BegunInv, CallInv, CallInvOf
  <2>4. status' = status \/ status' = [status EXCEPT ![r] = "processing"]
    BY <2>1 DEF Written
  <2> QED BY <2>2, <2>3, <2>4 DEF Journal!RetryNext, Journal!BeginAgain, Journal!vars
<1>3. ASSUME NEW w \in Workers, NEW r \in Requests, MarkFailed(w, r)
      PROVE  [Journal!RetryNext]_(Journal!vars)
  <2>1. PICK out \in Outcomes : status' = Written(out, status, r, "failed")
    BY <1>3 DEF MarkFailed
  <2>2. pc[w][r] = "failing" /\ answer' = answer
    BY <1>3 DEF MarkFailed
  <2>3. status[r] \in {"processing", "done", "failed"}
    BY <2>2 DEF BegunInv, BegunInvOf, Begun
  <2>4. status' = status \/ status' = [status EXCEPT ![r] = "failed"]
    BY <2>1 DEF Written
  <2> QED BY <2>2, <2>3, <2>4 DEF Journal!RetryNext, Journal!FailAgain, Journal!vars
<1>4. ASSUME NEW p \in Procs, NEW r \in Requests, SaveResult(p, r)
      PROVE  [Journal!RetryNext]_(Journal!vars)
  <2>1. PICK out \in Outcomes :
          /\ status' = Written(out, status, r, "done")
          /\ answer' = Written(out, answer, r, retrieved[p][r])
    BY <1>4 DEF SaveResult
  <2>2. pc[p][r] = "generating"
    BY <1>4 DEF SaveResult
  <2>3. status[r] # "absent"
    BY <2>2 DEF BegunInv, CallInv, CallInvOf, Procs
  <2>4. retrieved[p][r] \in SUBSET Chunks
    BY <1>0 DEF TypeOK
  <2>5. \/ status' = status /\ answer' = answer
        \/ /\ status' = [status EXCEPT ![r] = "done"]
           /\ answer' = [answer EXCEPT ![r] = retrieved[p][r]]
    BY <2>1 DEF Written
  <2> QED BY <2>3, <2>4, <2>5 DEF Journal!RetryNext, Journal!CompleteAgain, Journal!vars
<1>5. ASSUME \/ \E r \in Requests : EnqueueRequest(r) \/ Respond(r)
             \/ \E w \in Workers, r \in Requests :
                  Deliver(w, r) \/ LoadRequest(w, r) \/ FinishJob(w, r)
             \/ \E p \in Procs, r \in Requests :
                  SearchText(p, r) \/ AgentRaises(p, r) \/ SaveRejected(p, r)
             \/ Environment
             \/ UNCHANGED vars
      PROVE  [Journal!RetryNext]_(Journal!vars)
  <2>1. status' = status /\ answer' = answer
    BY <1>5 DEF EnqueueRequest, Respond, Deliver, PickJob, RepickJob, LoadRequest, FinishJob,
                SearchText, AgentRaises, SaveRejected, Environment, IndexDocument,
                WorkerCrash, WorkerDetach, WorkerExit, WorkerStart, ApiCrash, vars
  <2> QED BY <2>1 DEF Journal!vars
<1> QED
  BY <1>1, <1>2, <1>3, <1>4, <1>5 DEF Next, ApiStep, WorkerStep, AnswerStep

(* Whatever the queue delivers again and whichever acknowledgements are     *)
(* lost, the table of requests goes through the steps of the journal of     *)
(* repeated deliveries and no others.                                       *)
THEOREM RetriedJournalImplemented == Spec => ImplementsRetriedJournal
<1>1. Init => Journal!Init
  BY DEF Init, Journal!Init
<1>2. BegunInv /\ [Next]_vars => [Journal!RetryNext]_(Journal!vars)
  BY RetriedStep
<1> QED BY BegunInit, BegunStep, <1>1, <1>2, PTL
        DEF Spec, ImplementsRetriedJournal, Journal!RetrySpec

-----------------------------------------------------------------------------
(* Tracing of answers to sources *)

(* Chunks that were ever found are not unused, so re-indexing never gives  *)
(* the id of a chunk behind an answer, or behind an answer being written,  *)
(* to a new chunk.                                                         *)
TraceInvOf(r) ==
  /\ sources[r] = IF answer[r] = NoAnswer THEN {} ELSE answer[r] \cap kb
  /\ answer[r] # NoAnswer => answer[r] \cap Unused = {}
  /\ \A p \in Procs : retrieved[p][r] \cap Unused = {}

TraceInv == TypeOK /\ \A r \in Requests : TraceInvOf(r)

LEMMA TraceInit == Init => TraceInv
<1> SUFFICES ASSUME Init PROVE TraceInv
  OBVIOUS
<1>1. TypeOK
  BY TypeInit
<1>2. \A r \in Requests : TraceInvOf(r)
  BY DEF Init, TraceInvOf
<1> QED BY <1>1, <1>2 DEF TraceInv

LEMMA KbNotUnused == kb \cap Unused = {}
BY PipelineAssumption DEF kb, Unused

LEMMA TraceStep == TraceInv /\ [Next]_vars => TraceInv'
<1> SUFFICES ASSUME TraceInv, [Next]_vars, TypeOK' PROVE \A s \in Requests : TraceInvOf(s)'
  BY TypeStep DEF TraceInv
<1> TAKE s \in Requests
<1> USE DEF journal, queue, proc, bounds
<1>0. TypeOK /\ TraceInvOf(s)
  BY DEF TraceInv
<1>1. ASSUME answer' = answer, sources' = sources, docOf' = docOf, retrieved' = retrieved
      PROVE  TraceInvOf(s)'
  BY <1>0, <1>1 DEF TraceInvOf, kb, Unused
<1>2. ASSUME answer' = answer, sources' = sources, docOf' = docOf,
             NEW p \in Procs, NEW r \in Requests, NEW S, S \cap Unused = {}, Hold(p, r, S)
      PROVE  TraceInvOf(s)'
  <2>1. \A q \in Procs : retrieved'[q][s] \cap Unused = {}
    BY <1>0, <1>2, HoldValue DEF TraceInvOf
  <2> QED BY <1>0, <1>2, <2>1 DEF TraceInvOf, kb, Unused
<1>3. ASSUME NEW r \in Requests,
             CreateRequest(r) \/ EnqueueRequest(r) \/ Respond(r)
      PROVE  TraceInvOf(s)'
  <2>1. answer' = answer /\ sources' = sources /\ docOf' = docOf /\ retrieved' = retrieved
    BY <1>3 DEF CreateRequest, EnqueueRequest, Respond
  <2> QED BY <1>1, <2>1
<1>4. ASSUME NEW w \in Workers, NEW r \in Requests, Deliver(w, r) \/ WorkerStep(w, r)
      PROVE  TraceInvOf(s)'
  <2>1. answer' = answer /\ sources' = sources /\ docOf' = docOf /\ retrieved' = retrieved
    BY <1>4 DEF Deliver, PickJob, RepickJob, WorkerStep, LoadRequest, MarkProcessing,
                MarkFailed, FinishJob
  <2> QED BY <1>1, <2>1
<1>5. ASSUME NEW p \in Procs, NEW r \in Requests, SearchText(p, r) PROVE TraceInvOf(s)'
  <2>1. PICK S \in TopKSets : Hold(p, r, S)
    BY <1>5 DEF SearchText
  <2>2. S \cap Unused = {}
    BY KbNotUnused DEF TopKSets
  <2>3. answer' = answer /\ sources' = sources /\ docOf' = docOf
    BY <1>5 DEF SearchText
  <2> QED BY <1>2, <2>1, <2>2, <2>3
<1>6. ASSUME NEW p \in Procs, NEW r \in Requests, AgentRaises(p, r) \/ SaveRejected(p, r)
      PROVE  TraceInvOf(s)'
  <2>1. Hold(p, r, {}) /\ answer' = answer /\ sources' = sources /\ docOf' = docOf
    BY <1>6 DEF AgentRaises, SaveRejected, Raise
  <2> QED BY <1>2, <2>1
<1>7. ASSUME NEW p \in Procs, NEW r \in Requests, SaveResult(p, r) PROVE TraceInvOf(s)'
  <2> DEFINE S == retrieved[p][r]
  <2>1. PICK out \in Outcomes :
          /\ answer' = Written(out, answer, r, S)
          /\ sources' = Written(out, sources, r, S)
    BY <1>7 DEF SaveResult
  <2>2. S \subseteq kb /\ docOf' = docOf /\ Hold(p, r, {})
    BY <1>7 DEF SaveResult, Raise
  <2>3. S # NoAnswer
    BY PipelineAssumption DEF TypeOK, TraceInv
  <2>4. \A q \in Procs : retrieved'[q][s] \cap Unused = {}
    BY <1>0, <2>2, HoldValue DEF TraceInvOf
  <2>5. CASE s = r /\ Applied(out)
    <3>1. answer'[s] = S /\ sources'[s] = S
      BY <1>0, <2>1, <2>5 DEF TypeOK, Written
    <3>2. S \cap Unused = {} /\ S \cap kb = S
      BY <2>2, KbNotUnused
    <3> QED BY <2>2, <2>3, <2>4, <3>1, <3>2 DEF TraceInvOf, kb, Unused
  <2>6. CASE ~(s = r /\ Applied(out))
    <3>1. answer'[s] = answer[s] /\ sources'[s] = sources[s]
      BY <1>0, <2>1, <2>6 DEF TypeOK, Written
    <3> QED BY <1>0, <2>2, <2>4, <3>1 DEF TraceInvOf, kb, Unused
  <2> QED BY <2>5, <2>6
<1>8. ASSUME NEW d \in Docs, NEW new \in SUBSET Unused, IndexDocument(d, new)
      PROVE  TraceInvOf(s)'
  <2> DEFINE old == {c \in Chunks : docOf[c] = d}
  <2>1. /\ answer' = answer /\ retrieved' = retrieved
        /\ docOf' = [c \in Chunks |-> IF c \in new THEN d
                                      ELSE IF c \in old THEN "deleted" ELSE docOf[c]]
        /\ sources'[s] = sources[s] \ old
    BY <1>8 DEF IndexDocument
  <2>2. \A c \in Chunks : c \in Unused' => c \in Unused
    BY <2>1, PipelineAssumption DEF Unused
  <2>3. Unused' \subseteq Unused
    BY <2>2 DEF Unused
  <2>4. \A c \in Chunks : c \notin Unused => (c \in kb' <=> c \in kb /\ c \notin old)
    BY <2>1, PipelineAssumption DEF kb, Unused
  <2>5. CASE answer[s] = NoAnswer
    BY <1>0, <2>1, <2>3, <2>5 DEF TraceInvOf
  <2>6. CASE answer[s] # NoAnswer
    <3>1. answer[s] \subseteq Chunks /\ answer[s] \cap Unused = {}
      BY <1>0, <2>6 DEF TypeOK, TraceInvOf
    <3>2. answer[s] \cap kb' = (answer[s] \cap kb) \ old
      BY <2>4, <3>1 DEF kb
    <3>3. sources'[s] = answer'[s] \cap kb'
      BY <1>0, <2>1, <2>6, <3>2 DEF TraceInvOf
    <3> QED BY <1>0, <2>1, <2>3, <2>6, <3>1, <3>3 DEF TraceInvOf
  <2> QED BY <2>5, <2>6
<1>9. ASSUME NEW p \in Procs, Vanish(p), answer' = answer, sources' = sources, docOf' = docOf
      PROVE  TraceInvOf(s)'
  <2>1. \A q \in Procs : retrieved'[q][s] \cap Unused = {}
    BY <1>0, <1>9, VanishValue DEF TraceInvOf
  <2> QED BY <1>0, <1>9, <2>1 DEF TraceInvOf, kb, Unused
<1>10. ASSUME NEW w \in Workers, WorkerCrash(w) \/ WorkerExit(w) PROVE TraceInvOf(s)'
  BY <1>9, <1>10, ApiNotWorker DEF WorkerCrash, WorkerExit
<1>11. ASSUME ApiCrash PROVE TraceInvOf(s)'
  BY <1>9, <1>11, ApiNotWorker DEF ApiCrash
<1>12. ASSUME (\E w \in Workers : WorkerDetach(w) \/ WorkerStart(w)) \/ UNCHANGED vars
       PROVE  TraceInvOf(s)'
  BY <1>1, <1>12 DEF WorkerDetach, WorkerStart, vars
<1> QED
  BY <1>3, <1>4, <1>5, <1>6, <1>7, <1>8, <1>10, <1>11, <1>12
     DEF Next, ApiStep, AnswerStep, Environment

(* At any moment request_sources lists exactly the chunks behind the stored *)
(* answer that are still in the knowledge base, also under redelivery and   *)
(* lost acknowledgements.                                                   *)
THEOREM TraceAlwaysComplete == Spec => []TraceComplete
<1>1. TraceInv => TraceComplete
  BY DEF TraceInv, TraceInvOf, TraceComplete
<1> QED BY <1>1, TraceInit, TraceStep, PTL DEF Spec

-----------------------------------------------------------------------------
(* A worker at a request owns its picked job, until a job is handed out     *)
(* twice.                                                                  *)

OwnInvOf(r) == \A w \in Workers : pc[w][r] # "idle" => job[r] = "picked" /\ owner[r] = w

OwnInv == CallInv /\ \A r \in Requests : OwnInvOf(r)

LEMMA OwnInit == Init => OwnInv
<1> SUFFICES ASSUME Init PROVE OwnInv
  OBVIOUS
<1>1. \A r \in Requests : OwnInvOf(r)
  BY ApiNotWorker DEF Init, OwnInvOf
<1> QED BY <1>1, CallInit DEF OwnInv

(* Only a second delivery can put a request into the hands of two workers. *)
LEMMA OwnKept ==
  ASSUME OwnInv, [Next]_vars, \A w \in Workers, r \in Requests : ~RepickJob(w, r)
  PROVE  OwnInv'
<1> SUFFICES ASSUME CallInv'
             PROVE  \A s \in Requests : OwnInvOf(s)'
  BY CallStep DEF OwnInv
<1> TAKE s \in Requests
<1> USE ApiNotWorker DEF journal, queue, proc, bounds
<1>0. TypeOK /\ CallInvOf(s) /\ OwnInvOf(s)
  BY DEF OwnInv, CallInv
<1>1. ASSUME job' = job, owner' = owner, NEW p \in Procs, NEW r \in Requests,
             p = API \/ pc[p][r] # "idle",
             \A q \in Procs, x \in Requests : q # p \/ x # r => pc'[q][x] = pc[q][x]
      PROVE  OwnInvOf(s)'
  BY <1>0, <1>1 DEF OwnInvOf
<1>2. ASSUME NEW r \in Requests, CreateRequest(r) PROVE OwnInvOf(s)'
  <2>1. /\ job' = job /\ owner' = owner
        /\ \/ pc' = pc
           \/ Goto(API, r, IF r \in Asks THEN "created" ELSE "querying")
    BY <1>2 DEF CreateRequest
  <2>2. \A q \in Procs, x \in Requests : q # API \/ x # r => pc'[q][x] = pc[q][x]
    BY <1>0, <2>1, GotoValue
  <2> QED BY <1>1, <2>1, <2>2
<1>3. ASSUME NEW r \in Requests, EnqueueRequest(r) PROVE OwnInvOf(s)'
  <2>1. /\ pc[API][r] = "created" /\ owner' = owner
        /\ \E l : Goto(API, r, l)
        /\ \A x \in Requests : x # r => job'[x] = job[x]
    BY <1>0, <1>3 DEF EnqueueRequest, TypeOK, Written
  <2>2. \A w \in Workers : pc[w][r] = "idle"
    BY <2>1 DEF OwnInv, CallInv, CallInvOf
  <2>3. \A w \in Workers : pc'[w][s] = pc[w][s]
    BY <1>0, <2>1, GotoValue
  <2> QED BY <1>0, <2>1, <2>2, <2>3 DEF OwnInvOf
<1>4. ASSUME NEW r \in Requests, Respond(r) PROVE OwnInvOf(s)'
  BY <1>0, <1>1, <1>4, GotoValue DEF Respond
<1>5. ASSUME NEW w \in Workers, NEW r \in Requests, Deliver(w, r) PROVE OwnInvOf(s)'
  <2>1. PickJob(w, r)
    BY <1>5 DEF Deliver
  <2>2. \A v \in Workers : pc[v][r] = "idle"
    BY <2>1 DEF OwnInv, OwnInvOf, PickJob
  <2>3. /\ job'[r] = "picked" /\ owner'[r] = w
        /\ \A x \in Requests : x # r => job'[x] = job[x] /\ owner'[x] = owner[x]
    BY <1>0, <2>1 DEF PickJob, TypeOK
  <2>4. \A q \in Procs, x \in Requests : q # w \/ x # r => pc'[q][x] = pc[q][x]
    BY <1>0, <2>1, GotoValue DEF PickJob
  <2> QED BY <1>0, <2>2, <2>3, <2>4 DEF OwnInvOf
<1>6. ASSUME NEW w \in Workers, NEW r \in Requests, FinishJob(w, r) PROVE OwnInvOf(s)'
  <2>1. /\ pc'[w][r] = "idle"
        /\ \A q \in Procs, x \in Requests : q # w \/ x # r => pc'[q][x] = pc[q][x]
    BY <1>0, <1>6, GotoValue DEF FinishJob
  <2>2. owner[r] = w
    BY <1>6 DEF FinishJob, OwnInv, OwnInvOf
  <2>3. \A x \in Requests : x # r => job'[x] = job[x] /\ owner'[x] = owner[x]
    BY <1>0, <1>6 DEF FinishJob, TypeOK
  <2> QED BY <1>0, <2>1, <2>2, <2>3 DEF OwnInvOf
<1>7. ASSUME NEW w \in Workers, NEW r \in Requests,
             LoadRequest(w, r) \/ MarkProcessing(w, r) \/ MarkFailed(w, r)
      PROVE  OwnInvOf(s)'
  <2>1. pc[w][r] # "idle" /\ job' = job /\ owner' = owner /\ \E l : Goto(w, r, l)
    BY <1>7 DEF LoadRequest, MarkProcessing, MarkFailed
  <2> QED BY <1>0, <1>1, <2>1, GotoValue
<1>8. ASSUME NEW p \in Procs, NEW r \in Requests, AnswerStep(p, r) PROVE OwnInvOf(s)'
  <2>1. /\ pc[p][r] # "idle" /\ job' = job /\ owner' = owner
        /\ (\E l : Goto(p, r, l)) \/ Raise(p, r)
    BY <1>8 DEF AnswerStep, SearchText, AgentRaises, SaveResult, SaveRejected
  <2>2. \A q \in Procs, x \in Requests : q # p \/ x # r => pc'[q][x] = pc[q][x]
    BY <1>0, <2>1, GotoValue, RaiseValue
  <2> QED BY <1>1, <2>1, <2>2
<1>9. ASSUME (\E w \in Workers : WorkerCrash(w) \/ WorkerExit(w)) \/ ApiCrash
      PROVE  OwnInvOf(s)'
  <2>1. PICK p \in Procs : Vanish(p)
    BY <1>9 DEF WorkerCrash, WorkerExit, ApiCrash
  <2>2. job' = job /\ owner' = owner
    BY <1>9 DEF WorkerCrash, WorkerExit, ApiCrash
  <2>3. \A q \in Procs : pc'[q][s] = "idle" \/ pc'[q][s] = pc[q][s]
    BY <1>0, <2>1, VanishValue
  <2> QED BY <1>0, <2>2, <2>3 DEF OwnInvOf
<1>10. ASSUME \/ \E d \in Docs, new \in SUBSET Unused : IndexDocument(d, new)
              \/ \E w \in Workers : WorkerDetach(w) \/ WorkerStart(w)
              \/ UNCHANGED vars
       PROVE  OwnInvOf(s)'
  <2>1. job' = job /\ owner' = owner /\ pc' = pc
    BY <1>10 DEF IndexDocument, WorkerDetach, WorkerStart, vars
  <2> QED BY <1>0, <2>1 DEF OwnInvOf
<1> QED
  BY <1>2, <1>3, <1>4, <1>5, <1>6, <1>7, <1>8, <1>9, <1>10
     DEF Next, ApiStep, WorkerStep, Environment

-----------------------------------------------------------------------------
(* The knowledge base that requests meet *)

ContentOf(d) == {c \in Chunks : docOf[c] = d}
UsedIds == {c \in Chunks : docOf[c] # "unused"}

Base == INSTANCE KnowledgeBase
          WITH content <- [d \in Docs |-> ContentOf(d)], spent <- [d \in Docs |-> UsedIds]

LEMMA IndexDocumentReplaces ==
  ASSUME NEW d \in Docs, NEW new \in SUBSET Unused, IndexDocument(d, new)
  PROVE  Base!Replace(d)
<1>1. \A c \in Chunks : docOf'[c] = IF c \in new THEN d
                                   ELSE IF docOf[c] = d THEN "deleted" ELSE docOf[c]
  BY DEF IndexDocument
<1>2. new \subseteq Chunks /\ \A c \in new : docOf[c] = "unused"
  BY DEF Unused
<1>3. "unused" \notin Docs /\ "deleted" \notin Docs
  BY PipelineAssumption
<1>4. ContentOf(d)' = new
  BY <1>1, <1>2, <1>3 DEF ContentOf
<1>5. \A e \in Docs \ {d} : ContentOf(e)' = ContentOf(e)
  <2> SUFFICES ASSUME NEW e \in Docs \ {d}, NEW c \in Chunks
               PROVE  docOf'[c] = e <=> docOf[c] = e
    BY DEF ContentOf
  <2> QED BY <1>1, <1>2, <1>3
<1>6. UsedIds \subseteq UsedIds' /\ new \subseteq UsedIds' /\ new \cap UsedIds = {}
  BY <1>1, <1>2, <1>3 DEF UsedIds
<1>7. Base!IdsStaySpent
  BY <1>6 DEF Base!IdsStaySpent
<1> QED BY <1>4, <1>5, <1>6, <1>7 DEF Base!Replace

(* A commit of document d in the knowledge base, with what the database     *)
(* adds to it: only the new chunks take ids, and the sources that cite an   *)
(* old chunk go with it (ON DELETE CASCADE).                                *)
Replacement(d) ==
  /\ Base!Replace(d)
  /\ docOf' \in [Chunks -> Docs \cup {"unused", "deleted"}]
  /\ UsedIds' = UsedIds \cup ContentOf(d)'
  /\ sources' = [r \in Requests |-> sources[r] \ ContentOf(d)]
  /\ UNCHANGED <<journal, queue, proc, reply, live, requestsTotal, bounds>>

(* IndexDocument is what a replacement does, no more and no less: it brings *)
(* in any chunks with unused ids, takes all old ones of the document away,  *)
(* and the requests meet every such replacement at every moment, for the    *)
(* action has no guard.                                                     *)
THEOREM MeetsKnowledgeBase ==
  ASSUME TypeOK, NEW d \in Docs
  PROVE  (\E new \in SUBSET Unused : IndexDocument(d, new)) <=> Replacement(d)
<1>0. "unused" \notin Docs /\ "deleted" \notin Docs /\ "unused" # "deleted"
  BY PipelineAssumption
<1>1. ASSUME NEW new \in SUBSET Unused, IndexDocument(d, new) PROVE Replacement(d)
  <2>1. \A c \in Chunks : docOf'[c] = IF c \in new THEN d
                                     ELSE IF docOf[c] = d THEN "deleted" ELSE docOf[c]
    BY <1>1 DEF IndexDocument
  <2>2. new \subseteq Chunks /\ \A c \in new : docOf[c] = "unused"
    BY DEF Unused
  <2>3. docOf' \in [Chunks -> Docs \cup {"unused", "deleted"}]
    BY <1>1 DEF IndexDocument, TypeOK
  <2>4. ContentOf(d)' = new
    BY <1>0, <2>1, <2>2 DEF ContentOf
  <2>5. UsedIds' = UsedIds \cup new
    BY <1>0, <2>1, <2>2 DEF UsedIds
  <2>6. sources' = [r \in Requests |-> sources[r] \ ContentOf(d)]
    BY <1>1 DEF IndexDocument, ContentOf
  <2> QED BY <1>1, <2>3, <2>4, <2>5, <2>6, IndexDocumentReplaces DEF IndexDocument, Replacement
<1>2. ASSUME Replacement(d) PROVE \E new \in SUBSET Unused : IndexDocument(d, new)
  <2> DEFINE new == ContentOf(d)'
  <2>1. new \subseteq Chunks /\ new \cap UsedIds = {}
    BY <1>2 DEF Replacement, Base!Replace, ContentOf
  <2>2. new \in SUBSET Unused
    BY <2>1 DEF UsedIds, Unused
  <2>3. \A c \in Chunks : docOf'[c] = d <=> c \in new
    BY DEF ContentOf
  <2>4. \A e \in Docs \ {d}, c \in Chunks : docOf'[c] = e <=> docOf[c] = e
    <3>1. \A e \in Docs \ {d} : ContentOf(e)' = ContentOf(e)
      BY <1>2 DEF Replacement, Base!Replace
    <3> QED BY <3>1 DEF ContentOf
  <2>5. \A c \in Chunks : docOf'[c] = "unused" <=> docOf[c] = "unused" /\ c \notin new
    BY <1>2 DEF Replacement, UsedIds
  <2>6. \A c \in Chunks : /\ docOf[c] \in Docs \cup {"unused", "deleted"}
                          /\ docOf'[c] \in Docs \cup {"unused", "deleted"}
    BY <1>2 DEF Replacement, TypeOK
  <2>7. \A c \in new : docOf[c] = "unused"
    BY <2>2 DEF Unused
  <2>8. ASSUME NEW c \in Chunks
        PROVE  docOf'[c] = IF c \in new THEN d
                           ELSE IF docOf[c] = d THEN "deleted" ELSE docOf[c]
    <3>1. CASE c \in new
      BY <2>3, <3>1
    <3>2. CASE c \notin new /\ docOf[c] = d
      BY <1>0, <2>3, <2>4, <2>5, <2>6, <3>2
    <3>3. CASE c \notin new /\ docOf[c] # d
      BY <1>0, <2>3, <2>4, <2>5, <2>6, <3>3
    <3> QED BY <3>1, <3>2, <3>3
  <2>9. IndexDocument(d, new)
    <3>1. docOf' = [c \in Chunks |-> docOf'[c]]
      BY <1>2 DEF Replacement
    <3>2. docOf' = [c \in Chunks |-> IF c \in new THEN d
                                    ELSE IF c \in ContentOf(d) THEN "deleted" ELSE docOf[c]]
      BY <2>8, <3>1 DEF ContentOf
    <3> HIDE DEF new
    <3> QED BY <1>2, <3>2 DEF Replacement, IndexDocument, ContentOf
  <2> QED BY <2>2, <2>9
<1> QED BY <1>1, <1>2

(* Nothing else touches the knowledge base: whatever the requests do, it    *)
(* starts empty and changes by replacements of one document alone.          *)
LEMMA OnlyReplacements == Spec => Base!Spec
<1> USE DEF journal, queue, proc, bounds
<1>1. Init => Base!Init
  <2> SUFFICES ASSUME Init PROVE Base!Init
    OBVIOUS
  <2>1. \A c \in Chunks : docOf[c] = "unused" /\ docOf[c] \notin Docs
    BY PipelineAssumption DEF Init
  <2> QED BY <2>1 DEF Base!Init, ContentOf, UsedIds
<1>2. [Next]_vars => [Base!Next]_(Base!vars)
  <2> SUFFICES ASSUME [Next]_vars PROVE [Base!Next]_(Base!vars)
    OBVIOUS
  <2>1. CASE \E d \in Docs, new \in SUBSET Unused : IndexDocument(d, new)
    BY <2>1, IndexDocumentReplaces DEF Base!Next
  <2>2. CASE docOf' = docOf
    BY <2>2 DEF Base!vars, ContentOf, UsedIds
  <2>3. ASSUME NEW r \in Requests, CreateRequest(r) \/ ApiStep(r) PROVE docOf' = docOf
    BY <2>3 DEF CreateRequest, ApiStep, EnqueueRequest, Respond
  <2>4. ASSUME NEW w \in Workers, NEW r \in Requests, Deliver(w, r) \/ WorkerStep(w, r)
        PROVE  docOf' = docOf
    BY <2>4 DEF Deliver, PickJob, RepickJob, WorkerStep, LoadRequest, MarkProcessing,
                MarkFailed, FinishJob
  <2>5. ASSUME NEW p \in Procs, NEW r \in Requests, AnswerStep(p, r) PROVE docOf' = docOf
    BY <2>5 DEF AnswerStep, SearchText, AgentRaises, SaveResult, SaveRejected
  <2>6. ASSUME \/ \E w \in Workers : \/ WorkerCrash(w) \/ WorkerDetach(w)
                                     \/ WorkerExit(w) \/ WorkerStart(w)
               \/ ApiCrash \/ UNCHANGED vars
        PROVE  docOf' = docOf
    BY <2>6 DEF WorkerCrash, WorkerDetach, WorkerExit, WorkerStart, ApiCrash, vars
  <2> QED BY <2>1, <2>2, <2>3, <2>4, <2>5, <2>6 DEF Next, Environment
<1> QED BY <1>1, <1>2, PTL DEF Spec, Base!Spec

-----------------------------------------------------------------------------
(* What a 2xx reply promises *)

(* As long as nobody has died or lost its queue connection, every picked    *)
(* job is in the hands of a worker that beats for it, so no job is handed   *)
(* out twice, with or without redelivery.                                   *)
AliveInvOf(r) == job[r] = "picked" => owner[r] \in Workers /\ Handling(owner[r], r)

AliveInv ==
  /\ CallInv
  /\ crashes = 0 =>
       /\ OwnInv /\ \A w \in Workers : live[w] = "up"
       /\ \A r \in Requests : AliveInvOf(r)

LEMMA AliveInit == Init => AliveInv
<1> SUFFICES ASSUME Init PROVE AliveInv
  OBVIOUS
<1>1. \A r \in Requests : AliveInvOf(r)
  BY DEF Init, AliveInvOf
<1> QED BY <1>1, CallInit, OwnInit DEF Init, AliveInv

LEMMA CrashesGrow ==
  ASSUME TypeOK, [Next]_vars
  PROVE  \/ crashes' = crashes
         \/ crashes' = crashes + 1
<1> USE DEF bounds
<1>1. ASSUME NEW r \in Requests, CreateRequest(r) \/ ApiStep(r) PROVE crashes' = crashes
  BY <1>1 DEF CreateRequest, ApiStep, EnqueueRequest, Respond
<1>2. ASSUME NEW w \in Workers, NEW r \in Requests, Deliver(w, r) \/ WorkerStep(w, r)
      PROVE  crashes' = crashes
  BY <1>2 DEF Deliver, PickJob, RepickJob, WorkerStep, LoadRequest, MarkProcessing,
              MarkFailed, FinishJob
<1>3. ASSUME NEW p \in Procs, NEW r \in Requests, AnswerStep(p, r) PROVE crashes' = crashes
  BY <1>3 DEF AnswerStep, SearchText, AgentRaises, SaveResult, SaveRejected
<1>4. ASSUME Environment PROVE crashes' = crashes \/ crashes' = crashes + 1
  BY <1>4 DEF Environment, IndexDocument, WorkerCrash, WorkerDetach, WorkerExit, WorkerStart,
              ApiCrash, Crash
<1>5. CASE UNCHANGED vars
  BY <1>5 DEF vars
<1> QED BY <1>1, <1>2, <1>3, <1>4, <1>5 DEF Next

LEMMA AliveStep == AliveInv /\ [Next]_vars => AliveInv'
<1> SUFFICES ASSUME AliveInv, [Next]_vars, CallInv', crashes' = 0
             PROVE  /\ OwnInv' /\ \A w \in Workers : live'[w] = "up"
                    /\ \A s \in Requests : AliveInvOf(s)'
  BY CallStep DEF AliveInv
<1> USE ApiNotWorker DEF journal, queue, proc, bounds
<1>0. TypeOK /\ CallInv
  BY DEF AliveInv, CallInv
<1>1. crashes = 0 /\ crashes' = crashes
  BY <1>0, CrashesGrow DEF TypeOK
<1>2. /\ OwnInv /\ \A w \in Workers : live[w] = "up"
      /\ \A r \in Requests : AliveInvOf(r)
  BY <1>1 DEF AliveInv
<1>3. \A w \in Workers, r \in Requests : ~RepickJob(w, r)
  <2> SUFFICES ASSUME NEW w \in Workers, NEW r \in Requests, RepickJob(w, r) PROVE FALSE
    OBVIOUS
  <2>1. job[r] = "picked" /\ ~Beating(r)
    BY DEF RepickJob
  <2> QED BY <1>2, <2>1 DEF Beating, AliveInvOf, Handling
<1>4. OwnInv'
  BY <1>2, <1>3, OwnKept
<1>5. ~\E w \in Workers : WorkerCrash(w) \/ WorkerDetach(w) \/ WorkerExit(w) \/ WorkerStart(w)
  BY <1>0, <1>1, <1>2 DEF WorkerCrash, WorkerDetach, WorkerExit, WorkerStart, Crash, TypeOK
<1>6. ~ApiCrash
  BY <1>0, <1>1 DEF ApiCrash, Crash, TypeOK
<1>7. live' = live
  <2>1. ASSUME NEW r \in Requests, CreateRequest(r) \/ ApiStep(r) PROVE live' = live
    BY <2>1 DEF CreateRequest, ApiStep, EnqueueRequest, Respond
  <2>2. ASSUME NEW w \in Workers, NEW r \in Requests, Deliver(w, r) \/ WorkerStep(w, r)
        PROVE  live' = live
    BY <2>2 DEF Deliver, PickJob, RepickJob, WorkerStep, LoadRequest, MarkProcessing,
                MarkFailed, FinishJob
  <2>3. ASSUME NEW p \in Procs, NEW r \in Requests, AnswerStep(p, r) PROVE live' = live
    BY <2>3 DEF AnswerStep, SearchText, AgentRaises, SaveResult, SaveRejected
  <2>4. ASSUME NEW d \in Docs, NEW new \in SUBSET Unused, IndexDocument(d, new)
        PROVE  live' = live
    BY <2>4 DEF IndexDocument
  <2> QED BY <1>5, <1>6, <2>1, <2>2, <2>3, <2>4 DEF Next, Environment, vars
<1>8. ASSUME NEW s \in Requests PROVE AliveInvOf(s)'
  <2>0. AliveInvOf(s)
    BY <1>2
  <2>1. ASSUME job' = job, owner' = owner, NEW p \in Procs, NEW r \in Requests,
               p = API \/ pc'[p][r] # "idle",
               \A q \in Procs, x \in Requests : q # p \/ x # r => pc'[q][x] = pc[q][x]
        PROVE  AliveInvOf(s)'
    BY <2>0, <2>1 DEF AliveInvOf, Handling
  <2>2. ASSUME NEW r \in Requests, CreateRequest(r) PROVE AliveInvOf(s)'
    <3>1. /\ job' = job /\ owner' = owner
          /\ \/ pc' = pc
             \/ Goto(API, r, IF r \in Asks THEN "created" ELSE "querying")
      BY <2>2 DEF CreateRequest
    <3>2. \A q \in Procs, x \in Requests : q # API \/ x # r => pc'[q][x] = pc[q][x]
      BY <1>0, <3>1, GotoValue
    <3> QED BY <2>1, <3>1, <3>2
  <2>3. ASSUME NEW r \in Requests, EnqueueRequest(r) PROVE AliveInvOf(s)'
    <3>1. PICK out \in Outcomes :
            /\ job' = Written(out, job, r, "queued")
            /\ Goto(API, r, "enqueued") \/ Goto(API, r, "idle")
      BY <2>3 DEF EnqueueRequest
    <3>2. owner' = owner /\ job'[s] \in {job[s], "queued"}
      BY <1>0, <2>3, <3>1 DEF EnqueueRequest, TypeOK, Written
    <3>3. \A w \in Workers : pc'[w][s] = pc[w][s]
      BY <1>0, <3>1, GotoValue
    <3> QED BY <2>0, <3>2, <3>3 DEF AliveInvOf, Handling
  <2>4. ASSUME NEW r \in Requests, Respond(r) PROVE AliveInvOf(s)'
    BY <1>0, <2>1, <2>4, GotoValue DEF Respond
  <2>5. ASSUME NEW w \in Workers, NEW r \in Requests, Deliver(w, r) PROVE AliveInvOf(s)'
    <3>1. Goto(w, r, "picked") /\ job' = [job EXCEPT ![r] = "picked"]
          /\ owner' = [owner EXCEPT ![r] = w]
      BY <1>3, <2>5 DEF Deliver, PickJob
    <3>2. /\ owner'[r] = w
          /\ \A x \in Requests : x # r => owner'[x] = owner[x] /\ job'[x] = job[x]
      BY <1>0, <3>1 DEF TypeOK
    <3>3. /\ pc'[w][r] = "picked"
          /\ \A q \in Procs, x \in Requests : q # w \/ x # r => pc'[q][x] = pc[q][x]
      BY <1>0, <3>1, GotoValue
    <3> QED BY <2>0, <3>2, <3>3 DEF AliveInvOf, Handling
  <2>6. ASSUME NEW w \in Workers, NEW r \in Requests, FinishJob(w, r) PROVE AliveInvOf(s)'
    <3>1. Goto(w, r, "idle") /\ job' = [job EXCEPT ![r] = "gone"]
          /\ owner' = [owner EXCEPT ![r] = NoOwner]
      BY <1>2, <2>6 DEF FinishJob
    <3>2. /\ job'[r] = "gone"
          /\ \A x \in Requests : x # r => owner'[x] = owner[x] /\ job'[x] = job[x]
      BY <1>0, <3>1 DEF TypeOK
    <3>3. \A q \in Procs, x \in Requests : q # w \/ x # r => pc'[q][x] = pc[q][x]
      BY <1>0, <3>1, GotoValue
    <3> QED BY <2>0, <3>2, <3>3 DEF AliveInvOf, Handling
  <2>7. ASSUME NEW w \in Workers, NEW r \in Requests,
               LoadRequest(w, r) \/ MarkProcessing(w, r) \/ MarkFailed(w, r)
        PROVE  AliveInvOf(s)'
    <3>1. job' = job /\ owner' = owner /\ \E l \in Labels \ {"idle"} : Goto(w, r, l)
      BY <2>7 DEF LoadRequest, MarkProcessing, MarkFailed, Labels
    <3> QED BY <1>0, <2>1, <3>1, GotoValue
  <2>8. ASSUME NEW p \in Procs, NEW r \in Requests, AnswerStep(p, r) PROVE AliveInvOf(s)'
    <3>1. /\ job' = job /\ owner' = owner
          /\ (\E l \in Labels \ {"idle"} : Goto(p, r, l)) \/ Raise(p, r)
      BY <2>8 DEF AnswerStep, SearchText, AgentRaises, SaveResult, SaveRejected, Labels
    <3>2. /\ p = API \/ pc'[p][r] # "idle"
          /\ \A q \in Procs, x \in Requests : q # p \/ x # r => pc'[q][x] = pc[q][x]
      BY <1>0, <3>1, GotoValue, RaiseValue
    <3> QED BY <2>1, <3>1, <3>2
  <2>9. ASSUME \/ \E d \in Docs, new \in SUBSET Unused : IndexDocument(d, new)
               \/ UNCHANGED vars
        PROVE  AliveInvOf(s)'
    <3>1. job' = job /\ owner' = owner /\ pc' = pc
      BY <2>9 DEF IndexDocument, vars
    <3> QED BY <2>0, <3>1 DEF AliveInvOf, Handling
  <2> QED BY <1>5, <1>6, <2>2, <2>3, <2>4, <2>5, <2>6, <2>7, <2>8, <2>9
          DEF Next, ApiStep, WorkerStep, Environment
<1> QED BY <1>2, <1>4, <1>7, <1>8

(* A call that is to be answered 202 has its job, one answered 200 has its  *)
(* answer, and no worker ever touches the row of the latter.                *)
ReplyInvOf(r) ==
  /\ pc[API][r] = "enqueued" \/ reply[r] = "202" => job[r] # "none"
  /\ pc[API][r] = "saved" \/ reply[r] = "200" =>
       r \in SyncAsks /\ status[r] = "done" /\ answer[r] # NoAnswer

ReplyInv == CallInv /\ \A r \in Requests : ReplyInvOf(r)

LEMMA ReplyInit == Init => ReplyInv
<1> SUFFICES ASSUME Init PROVE ReplyInv
  OBVIOUS
<1>1. \A r \in Requests : ReplyInvOf(r)
  BY ApiNotWorker DEF Init, ReplyInvOf
<1> QED BY <1>1, CallInit DEF ReplyInv

LEMMA ReplyStep == ReplyInv /\ [Next]_vars => ReplyInv'
<1> SUFFICES ASSUME ReplyInv, [Next]_vars, CallInv' PROVE \A s \in Requests : ReplyInvOf(s)'
  BY CallStep DEF ReplyInv
<1> TAKE s \in Requests
<1> USE ApiNotWorker DEF journal, queue, proc, bounds
<1>0. TypeOK /\ CallInv /\ CallInvOf(s) /\ ReplyInvOf(s)
  BY DEF ReplyInv, CallInv
<1>1. ASSUME NEW r \in Requests, CreateRequest(r) PROVE ReplyInvOf(s)'
  <2>1. PICK out \in Outcomes :
          /\ status' = Written(out, status, r, "pending")
          /\ IF Acked(out)
             THEN /\ Goto(API, r, IF r \in Asks THEN "created" ELSE "querying")
                  /\ UNCHANGED reply
             ELSE reply' = [reply EXCEPT ![r] = "500"] /\ UNCHANGED pc
    BY <1>1 DEF CreateRequest
  <2>2. pc[API][r] = "idle" /\ reply[r] = "none" /\ job' = job /\ answer' = answer
    BY <1>1 DEF CreateRequest
  <2>3. \A x \in Requests : x # r => status'[x] = status[x]
    BY <1>0, <2>1 DEF TypeOK, Written
  <2>4. /\ pc'[API][r] \in {"idle", "created", "querying"} /\ reply'[r] \in {"none", "500"}
        /\ \A x \in Requests : x # r => reply'[x] = reply[x] /\ pc'[API][x] = pc[API][x]
    <3>1. CASE Acked(out)
      BY <1>0, <2>1, <2>2, <3>1, GotoValue
    <3>2. CASE ~Acked(out)
      BY <1>0, <2>1, <2>2, <3>2 DEF TypeOK
    <3> QED BY <3>1, <3>2
  <2> QED BY <1>0, <2>2, <2>3, <2>4 DEF ReplyInvOf
<1>2. ASSUME NEW r \in Requests, EnqueueRequest(r) PROVE ReplyInvOf(s)'
  <2>1. PICK out \in Outcomes :
          /\ job' = Written(out, job, r, "queued")
          /\ IF Acked(out)
             THEN Goto(API, r, "enqueued") /\ UNCHANGED reply
             ELSE Goto(API, r, "idle") /\ reply' = [reply EXCEPT ![r] = "500"]
    BY <1>2 DEF EnqueueRequest
  <2>2. pc[API][r] = "created" /\ status' = status /\ answer' = answer
    BY <1>2 DEF EnqueueRequest
  <2>3. r \in Asks /\ r \notin SyncAsks
    BY <2>2, PipelineAssumption DEF ReplyInv, CallInv, CallInvOf
  <2>4. job'[s] # "none" \/ job'[s] = job[s]
    BY <1>0, <2>1 DEF TypeOK, Written
  <2>5. CASE Acked(out)
    <3>1. job'[r] = "queued"
      BY <1>0, <2>1, <2>5, AckedValue DEF TypeOK, Written, Applied
    <3>2. /\ pc'[API][r] = "enqueued" /\ reply' = reply
          /\ \A x \in Requests : x # r => pc'[API][x] = pc[API][x]
      BY <1>0, <2>1, <2>5, GotoValue
    <3> QED BY <1>0, <2>2, <2>3, <2>4, <3>1, <3>2 DEF ReplyInvOf
  <2>6. CASE ~Acked(out)
    <3>1. /\ pc'[API][r] = "idle" /\ reply'[r] = "500"
          /\ \A x \in Requests : x # r => pc'[API][x] = pc[API][x] /\ reply'[x] = reply[x]
      BY <1>0, <2>1, <2>6, GotoValue DEF TypeOK
    <3> QED BY <1>0, <2>2, <2>4, <3>1 DEF ReplyInvOf
  <2> QED BY <2>5, <2>6
<1>3. ASSUME NEW r \in Requests, Respond(r) PROVE ReplyInvOf(s)'
  <2>1. /\ pc[API][r] \in {"enqueued", "saved"} /\ pc'[API][r] = "idle"
        /\ reply'[r] = IF pc[API][r] = "enqueued" THEN "202" ELSE "200"
        /\ \A x \in Requests : x # r => pc'[API][x] = pc[API][x] /\ reply'[x] = reply[x]
        /\ status' = status /\ answer' = answer /\ job' = job
    BY <1>0, <1>3, GotoValue DEF Respond, TypeOK
  <2> QED BY <1>0, <2>1 DEF ReplyInvOf
<1>4. ASSUME NEW w \in Workers, NEW r \in Requests, Deliver(w, r) \/ FinishJob(w, r)
      PROVE  ReplyInvOf(s)'
  <2>1. /\ \E l : Goto(w, r, l)
        /\ status' = status /\ answer' = answer /\ reply' = reply
        /\ job'[s] \in {job[s], "picked", "gone"}
    BY <1>0, <1>4 DEF Deliver, PickJob, RepickJob, FinishJob, TypeOK
  <2>2. pc'[API][s] = pc[API][s]
    BY <1>0, <2>1, GotoValue
  <2> QED BY <1>0, <2>1, <2>2 DEF ReplyInvOf
<1>5. ASSUME NEW w \in Workers, NEW r \in Requests,
             LoadRequest(w, r) \/ MarkProcessing(w, r) \/ MarkFailed(w, r)
      PROVE  ReplyInvOf(s)'
  <2>1. /\ pc[w][r] # "idle" /\ \E l : Goto(w, r, l)
        /\ answer' = answer /\ reply' = reply /\ job' = job
        /\ \A x \in Requests : x # r => status'[x] = status[x]
    BY <1>0, <1>5 DEF LoadRequest, MarkProcessing, MarkFailed, TypeOK, Written
  <2>2. pc'[API][s] = pc[API][s]
    BY <1>0, <2>1, GotoValue
  <2>3. r \notin SyncAsks
    BY <2>1, PipelineAssumption DEF ReplyInv, CallInv, CallInvOf
  <2> QED BY <1>0, <2>1, <2>2, <2>3 DEF ReplyInvOf
<1>6. ASSUME NEW p \in Procs, NEW r \in Requests, SearchText(p, r) PROVE ReplyInvOf(s)'
  <2>1. /\ pc'[p][r] = "generating"
        /\ \A q \in Procs, x \in Requests : q # p \/ x # r => pc'[q][x] = pc[q][x]
        /\ status' = status /\ answer' = answer /\ reply' = reply /\ job' = job
    BY <1>0, <1>6, GotoValue DEF SearchText
  <2> QED BY <1>0, <2>1 DEF ReplyInvOf
<1>7. ASSUME NEW p \in Procs, NEW r \in Requests, Raise(p, r), job' = job,
             \/ p = API
             \/ r \notin SyncAsks,
             \A x \in Requests : x # r => status'[x] = status[x] /\ answer'[x] = answer[x],
             \/ p = API
             \/ pc[API][r] \notin {"saved"}
      PROVE  ReplyInvOf(s)'
  BY <1>0, <1>7, RaiseValue DEF ReplyInvOf
<1>8. ASSUME NEW p \in Procs, NEW r \in Requests,
             AgentRaises(p, r) \/ SaveResult(p, r) \/ SaveRejected(p, r)
      PROVE  p = API \/ (r \notin SyncAsks /\ pc[API][r] # "saved")
  <2> SUFFICES ASSUME p # API PROVE r \notin SyncAsks /\ pc[API][r] # "saved"
    OBVIOUS
  <2>1. p \in Workers /\ pc[p][r] # "idle"
    BY <1>8 DEF Procs, AgentRaises, SaveResult, SaveRejected
  <2> QED BY <2>1, PipelineAssumption DEF ReplyInv, CallInv, CallInvOf
<1>9. ASSUME NEW p \in Procs, NEW r \in Requests, AgentRaises(p, r) \/ SaveRejected(p, r)
      PROVE  ReplyInvOf(s)'
  BY <1>7, <1>8, <1>9 DEF AgentRaises, SaveRejected
<1>10. ASSUME NEW p \in Procs, NEW r \in Requests, SaveResult(p, r) PROVE ReplyInvOf(s)'
  <2>1. PICK out \in Outcomes :
          /\ status' = Written(out, status, r, "done")
          /\ answer' = Written(out, answer, r, retrieved[p][r])
          /\ IF Acked(out) THEN Goto(p, r, "saved") /\ UNCHANGED reply ELSE Raise(p, r)
    BY <1>10 DEF SaveResult
  <2>2. pc[p][r] = "generating" /\ job' = job
    BY <1>10 DEF SaveResult
  <2>3. \A x \in Requests : x # r => status'[x] = status[x] /\ answer'[x] = answer[x]
    BY <1>0, <2>1 DEF TypeOK, Written
  <2>4. CASE Acked(out)
    <3>1. status'[r] = "done" /\ answer'[r] = retrieved[p][r]
      BY <1>0, <2>1, <2>4, AckedValue DEF TypeOK, Written, Applied
    <3>2. answer'[r] # NoAnswer
      BY <1>0, <3>1, PipelineAssumption DEF TypeOK
    <3>3. /\ reply' = reply /\ pc'[p][r] = "saved"
          /\ \A q \in Procs, x \in Requests : q # p \/ x # r => pc'[q][x] = pc[q][x]
      BY <1>0, <2>1, <2>4, GotoValue
    <3>4. p = API => r \in SyncAsks
      BY <2>2 DEF ReplyInv, CallInv, CallInvOf
    <3> QED BY <1>0, <1>8, <1>10, <2>2, <2>3, <3>1, <3>2, <3>3, <3>4 DEF ReplyInvOf
  <2>5. CASE ~Acked(out)
    BY <1>7, <1>8, <1>10, <2>1, <2>2, <2>3, <2>5
  <2> QED BY <2>4, <2>5
<1>11. ASSUME NEW w \in Workers, WorkerCrash(w) \/ WorkerExit(w) PROVE ReplyInvOf(s)'
  <2>1. /\ Vanish(w)
        /\ status' = status /\ answer' = answer /\ reply' = reply /\ job' = job
    BY <1>11 DEF WorkerCrash, WorkerExit
  <2>2. pc'[API][s] = pc[API][s]
    BY <1>0, <2>1, VanishValue
  <2> QED BY <1>0, <2>1, <2>2 DEF ReplyInvOf
<1>12. ASSUME ApiCrash PROVE ReplyInvOf(s)'
  <2>1. /\ Vanish(API) /\ status' = status /\ answer' = answer /\ job' = job
        /\ reply'[s] \in {reply[s], "lost"}
    BY <1>12 DEF ApiCrash
  <2>2. pc'[API][s] = "idle"
    BY <1>0, <2>1, VanishValue
  <2> QED BY <1>0, <2>1, <2>2 DEF ReplyInvOf
<1>13. ASSUME \/ \E d \in Docs, new \in SUBSET Unused : IndexDocument(d, new)
              \/ \E w \in Workers : WorkerDetach(w) \/ WorkerStart(w)
              \/ UNCHANGED vars
       PROVE  ReplyInvOf(s)'
  <2>1. status' = status /\ answer' = answer /\ reply' = reply /\ job' = job /\ pc' = pc
    BY <1>13 DEF IndexDocument, WorkerDetach, WorkerStart, vars
  <2> QED BY <1>0, <2>1 DEF ReplyInvOf
<1> QED
  BY <1>1, <1>2, <1>3, <1>4, <1>5, <1>6, <1>9, <1>10, <1>11, <1>12, <1>13
     DEF Next, ApiStep, WorkerStep, AnswerStep, Environment

(* What the workers still owe: while at most one process has died, a        *)
(* request whose job is gone, or whose handler is about to end, is settled, *)
(* or another worker has it in hand and will settle it.                     *)
Busy(w, r) == pc[w][r] \in {"picked", "loaded", "querying", "generating", "failing"}
Ended(w, r) == pc[w][r] \in {"saved", "returned", "raised"}

OwedInvOf(r) ==
  job[r] = "gone" \/ (\E w \in Workers : Ended(w, r)) =>
    Settled(r) \/ \E w \in Workers : Busy(w, r)

OwedInv ==
  /\ AliveInv
  /\ faults = 0 /\ crashes <= 1 => \A r \in Requests : OwedInvOf(r)

LEMMA OwedInit == Init => OwedInv
<1> SUFFICES ASSUME Init PROVE OwedInv
  OBVIOUS
<1>1. \A r \in Requests : OwedInvOf(r)
  BY ApiNotWorker DEF Init, OwedInvOf, Ended
<1> QED BY <1>1, AliveInit DEF OwedInv

LEMMA FaultsGrow ==
  ASSUME TypeOK, [Next]_vars
  PROVE  faults' = faults \/ faults' = faults + 1
<1> USE DEF bounds
<1>1. ASSUME NEW r \in Requests, CreateRequest(r) \/ ApiStep(r)
      PROVE  faults' = faults \/ faults' = faults + 1
  BY <1>1 DEF CreateRequest, ApiStep, EnqueueRequest, Respond, Attempt
<1>2. ASSUME NEW w \in Workers, NEW r \in Requests, Deliver(w, r) \/ WorkerStep(w, r)
      PROVE  faults' = faults \/ faults' = faults + 1
  BY <1>2 DEF Deliver, PickJob, RepickJob, WorkerStep, LoadRequest, MarkProcessing,
              MarkFailed, FinishJob, Attempt
<1>3. ASSUME NEW p \in Procs, NEW r \in Requests, AnswerStep(p, r)
      PROVE  faults' = faults \/ faults' = faults + 1
  BY <1>3 DEF AnswerStep, SearchText, AgentRaises, SaveResult, SaveRejected, Attempt
<1>4. ASSUME Environment PROVE faults' = faults
  BY <1>4 DEF Environment, IndexDocument, WorkerCrash, WorkerDetach, WorkerExit, WorkerStart,
              ApiCrash
<1>5. CASE UNCHANGED vars
  BY <1>5 DEF vars
<1> QED BY <1>1, <1>2, <1>3, <1>4, <1>5 DEF Next

LEMMA OwedStep == OwedInv /\ [Next]_vars => OwedInv'
<1> SUFFICES ASSUME OwedInv, [Next]_vars, AliveInv', faults' = 0, crashes' <= 1
             PROVE  \A s \in Requests : OwedInvOf(s)'
  BY AliveStep DEF OwedInv
<1> TAKE s \in Requests
<1> USE ApiNotWorker DEF journal, queue, proc, bounds
<1>0. /\ TypeOK /\ CallInv /\ CallInvOf(s) /\ AliveInv
      /\ faults = 0 /\ crashes <= 1
  <2>1. TypeOK /\ CallInv /\ CallInvOf(s) /\ AliveInv
    BY DEF OwedInv, AliveInv, CallInv
  <2> QED BY <2>1, FaultsGrow, CrashesGrow DEF TypeOK
<1>00. \A r \in Requests : OwedInvOf(r)
  BY <1>0 DEF OwedInv
<1>1. \A out : Attempt(out) => Acked(out) /\ Applied(out)
  BY <1>0 DEF Attempt, Acked, Applied
<1>2. ASSUME NEW p \in Procs, NEW r \in Requests,
             \A q \in Procs, x \in Requests : q # p \/ x # r => pc'[q][x] = pc[q][x],
             \A x \in Requests : x # r => status'[x] = status[x] /\ job'[x] = job[x],
             s # r
      PROVE  OwedInvOf(s)'
  BY <1>00, <1>2 DEF OwedInvOf, Settled, Busy, Ended
<1>3. ASSUME NEW r \in Requests, CreateRequest(r) PROVE OwedInvOf(s)'
  <2>1. PICK out \in Outcomes :
          /\ status' = Written(out, status, r, "pending")
          /\ UNCHANGED pc \/ \E l : Goto(API, r, l)
    BY <1>3 DEF CreateRequest
  <2>2. /\ \A q \in Procs, x \in Requests : q # API \/ x # r => pc'[q][x] = pc[q][x]
        /\ \A x \in Requests : x # r => status'[x] = status[x] /\ job'[x] = job[x]
        /\ job'[r] = job[r]
    BY <1>0, <1>3, <2>1, GotoValue DEF CreateRequest, TypeOK, Written
  <2>3. job[r] = "none" /\ \A w \in Workers : pc[w][r] = "idle"
    BY <1>0, <1>3 DEF CreateRequest, CallInv, CallInvOf
  <2>4. CASE s = r
    BY <2>2, <2>3, <2>4 DEF OwedInvOf, Ended
  <2> QED BY <1>2, <2>2, <2>4
<1>4. ASSUME NEW r \in Requests, EnqueueRequest(r) PROVE OwedInvOf(s)'
  <2>1. PICK out \in Outcomes :
          /\ job' = Written(out, job, r, "queued")
          /\ \E l : Goto(API, r, l)
    BY <1>4 DEF EnqueueRequest
  <2>2. /\ \A q \in Procs, x \in Requests : q # API \/ x # r => pc'[q][x] = pc[q][x]
        /\ \A x \in Requests : x # r => status'[x] = status[x] /\ job'[x] = job[x]
        /\ job'[r] \in {job[r], "queued"}
    BY <1>0, <1>4, <2>1, GotoValue DEF EnqueueRequest, TypeOK, Written
  <2>3. job[r] = "none" /\ \A w \in Workers : pc[w][r] = "idle"
    BY <1>0, <1>4 DEF EnqueueRequest, CallInv, CallInvOf
  <2>4. CASE s = r
    BY <2>2, <2>3, <2>4 DEF OwedInvOf, Ended
  <2> QED BY <1>2, <2>2, <2>4
<1>5. ASSUME status' = status, job' = job,
             \A w \in Workers : pc'[w][s] = pc[w][s]
      PROVE  OwedInvOf(s)'
  BY <1>00, <1>5 DEF OwedInvOf, Settled, Busy, Ended
<1>6. ASSUME NEW r \in Requests, Respond(r) PROVE OwedInvOf(s)'
  BY <1>0, <1>5, <1>6, GotoValue DEF Respond
<1>7. ASSUME NEW w \in Workers, NEW r \in Requests,
             Busy(w, r)' \/ Settled(r)',
             \A q \in Procs, x \in Requests : q # w \/ x # r => pc'[q][x] = pc[q][x],
             \A x \in Requests : x # r => status'[x] = status[x] /\ job'[x] = job[x]
      PROVE  OwedInvOf(s)'
  <2>1. CASE s = r
    BY <1>7, <2>1 DEF OwedInvOf
  <2> QED BY <1>2, <1>7, <2>1
<1>8. ASSUME NEW w \in Workers, NEW r \in Requests, Deliver(w, r) PROVE OwedInvOf(s)'
  <2>1. /\ pc'[w][r] = "picked" /\ status' = status
        /\ \A q \in Procs, x \in Requests : q # w \/ x # r => pc'[q][x] = pc[q][x]
        /\ \A x \in Requests : x # r => job'[x] = job[x]
    BY <1>0, <1>8, GotoValue DEF Deliver, PickJob, RepickJob, TypeOK
  <2>2. Busy(w, r)'
    BY <2>1 DEF Busy
  <2> QED BY <1>7, <2>1, <2>2
<1>9. ASSUME NEW w \in Workers, NEW r \in Requests, FinishJob(w, r) PROVE OwedInvOf(s)'
  <2>1. /\ Ended(w, r) /\ pc'[w][r] = "idle" /\ status' = status
        /\ \A q \in Procs, x \in Requests : q # w \/ x # r => pc'[q][x] = pc[q][x]
        /\ \A x \in Requests : x # r => job'[x] = job[x]
    BY <1>0, <1>9, GotoValue DEF FinishJob, Ended, TypeOK
  <2>2. CASE s = r
    <3>1. Settled(r) \/ \E v \in Workers : Busy(v, r)
      BY <1>00, <2>1 DEF OwedInvOf
    <3>2. \A v \in Workers : Busy(v, r) => Busy(v, r)'
      BY <2>1 DEF Busy, Ended
    <3>3. Settled(r) => Settled(r)'
      BY <2>1 DEF Settled
    <3> QED BY <2>2, <3>1, <3>2, <3>3 DEF OwedInvOf
  <2> QED BY <1>2, <2>1, <2>2
<1>10. ASSUME NEW w \in Workers, NEW r \in Requests, LoadRequest(w, r) PROVE OwedInvOf(s)'
  <2>1. PICK out \in Outcomes :
          /\ Attempt(out)
          /\ Goto(w, r, IF ~Acked(out) THEN "raised"
                        ELSE IF status[r] = "absent" THEN "returned" ELSE "loaded")
    BY <1>10 DEF LoadRequest
  <2>2. status[r] # "absent"
    BY <1>0, <1>10 DEF LoadRequest, CallInv, CallInvOf
  <2>3. /\ pc'[w][r] = "loaded" /\ status' = status /\ job' = job
        /\ \A q \in Procs, x \in Requests : q # w \/ x # r => pc'[q][x] = pc[q][x]
    BY <1>0, <1>1, <1>10, <2>1, <2>2, GotoValue DEF LoadRequest
  <2>4. Busy(w, r)'
    BY <2>3 DEF Busy
  <2> QED BY <1>7, <2>3, <2>4
<1>11. ASSUME NEW w \in Workers, NEW r \in Requests, MarkProcessing(w, r) PROVE OwedInvOf(s)'
  <2>1. PICK out \in Outcomes :
          /\ Attempt(out)
          /\ status' = Written(out, status, r, "processing")
          /\ Goto(w, r, IF Acked(out) THEN "querying" ELSE "raised")
    BY <1>11 DEF MarkProcessing
  <2>2. /\ pc'[w][r] = "querying" /\ job' = job
        /\ \A x \in Requests : x # r => status'[x] = status[x]
        /\ \A q \in Procs, x \in Requests : q # w \/ x # r => pc'[q][x] = pc[q][x]
    BY <1>0, <1>1, <1>11, <2>1, GotoValue DEF MarkProcessing, TypeOK, Written
  <2>3. Busy(w, r)'
    BY <2>2 DEF Busy
  <2> QED BY <1>7, <2>2, <2>3
<1>12. ASSUME NEW w \in Workers, NEW r \in Requests, MarkFailed(w, r) PROVE OwedInvOf(s)'
  <2>1. PICK out \in Outcomes :
          Attempt(out) /\ status' = Written(out, status, r, "failed")
    BY <1>12 DEF MarkFailed
  <2>2. /\ status'[r] = "failed" /\ job' = job
        /\ \A x \in Requests : x # r => status'[x] = status[x]
        /\ \A q \in Procs, x \in Requests : q # w \/ x # r => pc'[q][x] = pc[q][x]
    BY <1>0, <1>1, <1>12, <2>1, GotoValue DEF MarkFailed, TypeOK, Written
  <2>3. Settled(r)'
    BY <2>2 DEF Settled
  <2> QED BY <1>7, <2>2, <2>3
<1>13. ASSUME NEW p \in Procs, NEW r \in Requests,
              SearchText(p, r) \/ AgentRaises(p, r) \/ SaveRejected(p, r)
       PROVE  OwedInvOf(s)'
  <2>1. /\ status' = status /\ job' = job
        /\ p # API => pc'[p][r] \in {"generating", "failing"}
        /\ \A q \in Procs, x \in Requests : q # p \/ x # r => pc'[q][x] = pc[q][x]
    BY <1>0, <1>13, GotoValue, RaiseValue DEF SearchText, AgentRaises, SaveRejected
  <2>2. CASE p = API
    BY <1>5, <2>1, <2>2
  <2>3. CASE p \in Workers
    <3>1. Busy(p, r)'
      BY <2>1, <2>3 DEF Busy
    <3> QED BY <1>7, <2>1, <2>3, <3>1
  <2> QED BY <2>2, <2>3 DEF Procs
<1>14. ASSUME NEW p \in Procs, NEW r \in Requests, SaveResult(p, r) PROVE OwedInvOf(s)'
  <2>1. PICK out \in Outcomes :
          /\ Attempt(out) /\ status' = Written(out, status, r, "done")
          /\ IF Acked(out) THEN Goto(p, r, "saved") ELSE Raise(p, r)
    BY <1>14 DEF SaveResult
  <2>2. /\ status'[r] = "done" /\ job' = job
        /\ \A x \in Requests : x # r => status'[x] = status[x]
        /\ \A q \in Procs, x \in Requests : q # p \/ x # r => pc'[q][x] = pc[q][x]
    BY <1>0, <1>1, <1>14, <2>1, GotoValue DEF SaveResult, TypeOK, Written
  <2>3. CASE s = r
    <3>1. Settled(s)'
      BY <2>2, <2>3 DEF Settled
    <3> QED BY <3>1 DEF OwedInvOf
  <2> QED BY <1>2, <2>2, <2>3
<1>15. ASSUME NEW w \in Workers, WorkerCrash(w) PROVE OwedInvOf(s)'
  <2>1. crashes = 0 /\ Vanish(w) /\ status' = status /\ job' = job
    BY <1>0, <1>15 DEF WorkerCrash, Crash, TypeOK
  <2>2. OwnInvOf(s)
    BY <1>0, <2>1 DEF AliveInv, OwnInv
  <2>3. pc'[w][s] = "idle" /\ \A v \in Workers : v # w => pc'[v][s] = pc[v][s]
    BY <1>0, <2>1, VanishValue
  <2>4. SUFFICES ASSUME job[s] = "gone" \/ \E v \in Workers : v # w /\ Ended(v, s)
                 PROVE  Settled(s)
    BY <2>1, <2>3 DEF OwedInvOf, Ended, Settled
  <2>5. Settled(s) \/ \E v \in Workers : Busy(v, s)
    BY <1>00, <2>4 DEF OwedInvOf
  <2>6. \A v \in Workers : ~Busy(v, s)
    BY <2>2, <2>4 DEF OwnInvOf, Busy, Ended
  <2> QED BY <2>5, <2>6
<1>16. ASSUME NEW w \in Workers, WorkerExit(w) PROVE OwedInvOf(s)'
  <2>1. crashes # 0
    BY <1>0, <1>16 DEF WorkerExit, AliveInv
  <2>2. \A r \in Requests : pc[w][r] = "idle"
    BY <1>0, <1>16, <2>1 DEF WorkerExit, Crash, TypeOK
  <2>3. \A v \in Workers : pc'[v][s] = pc[v][s]
    BY <1>0, <1>16, <2>2, VanishValue DEF WorkerExit
  <2> QED BY <1>5, <1>16, <2>3 DEF WorkerExit
<1>17. ASSUME ApiCrash PROVE OwedInvOf(s)'
  BY <1>0, <1>5, <1>17, VanishValue DEF ApiCrash
<1>18. ASSUME \/ \E d \in Docs, new \in SUBSET Unused : IndexDocument(d, new)
              \/ \E w \in Workers : WorkerDetach(w) \/ WorkerStart(w)
              \/ UNCHANGED vars
       PROVE  OwedInvOf(s)'
  <2>1. status' = status /\ job' = job /\ pc' = pc
    BY <1>18 DEF IndexDocument, WorkerDetach, WorkerStart, vars
  <2> QED BY <1>5, <2>1
<1> QED
  BY <1>3, <1>4, <1>6, <1>8, <1>9, <1>10, <1>11, <1>12, <1>13, <1>14, <1>15, <1>16, <1>17, <1>18
     DEF Next, ApiStep, WorkerStep, AnswerStep, Environment

(* A 2xx reply keeps its promise through any one crash, any number of       *)
(* re-indexings and any redelivery, as long as the database takes what it   *)
(* is told: after 202 the request is settled, queued or in a worker's       *)
(* hands, after 200 its answer is stored.                                   *)
THEOREM PromisesKept == Spec => []PromiseKept
<1>1. ReplyInv /\ OwedInv => PromiseKept
  <2> SUFFICES ASSUME ReplyInv, OwedInv, faults = 0, crashes <= 1, NEW r \in Requests
               PROVE  /\ reply[r] = "202" => \/ Settled(r)
                                             \/ job[r] \in {"queued", "picked"}
                                             \/ \E w \in Workers : Handling(w, r)
                      /\ reply[r] = "200" => status[r] = "done" /\ answer[r] # NoAnswer
    BY DEF PromiseKept
  <2>1. ReplyInvOf(r) /\ OwedInvOf(r) /\ job[r] \in {"none", "queued", "picked", "gone"}
    BY DEF ReplyInv, OwedInv, CallInv, TypeOK
  <2> QED BY <2>1 DEF ReplyInvOf, OwedInvOf, Busy, Handling
<1> QED BY <1>1, ReplyInit, ReplyStep, OwedInit, OwedStep, PTL DEF Spec

=============================================================================
