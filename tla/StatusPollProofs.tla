-------------------------- MODULE StatusPollProofs --------------------------
(***************************************************************************)
(* What a client who polls GET /requests/{id} is shown, when the queue     *)
(* never hands out a job twice and no acknowledgement is lost: every       *)
(* response is whole, and the responses to one request never go back.      *)
(***************************************************************************)
EXTENDS StatusPoll, AtMostOnceProofs

Row == [status : Statuses, answer : {NoAnswer} \cup SUBSET Chunks]
Response ==
  [status : Statuses, answer : {NoAnswer} \cup SUBSET Chunks, sources : SUBSET Chunks]

PollType ==
  /\ reading \in [Requests -> Row \cup {Nothing}]
  /\ shown \in [Requests -> Response \cup {Nothing}]

(* A row has its answer just when it is done. *)
WholeRow(s, a) == s = "done" <=> a # NoAnswer

(* A row read earlier showed s1 and a1: it may show s2 and a2 now. *)
Follows(s1, a1, s2, a2) ==
  /\ s1 # "absent" /\ s2 # "absent" /\ Rank(s2) >= Rank(s1)
  /\ s1 \in {"done", "failed"} => s2 = s1 /\ a2 = a1

-----------------------------------------------------------------------------
(* The row under the polls *)

LEMMA FollowsRefl ==
  ASSUME NEW s \in Statuses, NEW a, s # "absent"
  PROVE  Follows(s, a, s, a)
BY DEF Follows, Rank, Statuses

LEMMA FollowsTrans ==
  ASSUME NEW s1 \in Statuses, NEW s2 \in Statuses, NEW s3 \in Statuses, NEW a1, NEW a2, NEW a3,
         Follows(s1, a1, s2, a2), Follows(s2, a2, s3, a3)
  PROVE  Follows(s1, a1, s3, a3)
<1>1. \A s \in Statuses : Rank(s) \in Nat
  BY DEF Rank
<1>2. Rank(s3) >= Rank(s1)
  BY <1>1 DEF Follows
<1> QED BY <1>2 DEF Follows

(* A step of the pipeline takes a row to one that may follow it, and a      *)
(* whole row to a whole one.                                                *)
LEMMA RowStep ==
  ASSUME NoLostAck, StatusInv, [Next]_vars, NEW r \in Requests
  PROVE  /\ status[r] # "absent" => Follows(status[r], answer[r], status'[r], answer'[r])
         /\ WholeRow(status[r], answer[r]) => WholeRow(status'[r], answer'[r])
<1>1. /\ status \in [Requests -> Statuses]
      /\ answer \in [Requests -> {NoAnswer} \cup SUBSET Chunks]
  BY DEF StatusInv, OwnInv, CallInv, TypeOK
<1>2. CASE status' = status /\ answer' = answer
  BY <1>1, <1>2, FollowsRefl
<1>3. ASSUME NEW x \in Requests,
             \/ Journal!Register(x) \/ Journal!Begin(x) \/ Journal!Complete(x) \/ Journal!Fail(x)
      PROVE  /\ status[r] # "absent" => Follows(status[r], answer[r], status'[r], answer'[r])
             /\ WholeRow(status[r], answer[r]) => WholeRow(status'[r], answer'[r])
  <2>1. CASE x # r
    <3>1. status'[r] = status[r] /\ answer'[r] = answer[r]
      BY <1>1, <1>3, <2>1
         DEF Journal!Register, Journal!Begin, Journal!Complete, Journal!Fail
    <3> QED BY <1>1, <3>1, FollowsRefl
  <2>2. CASE x = r
    <3>1. CASE Journal!Register(r)
      BY <1>1, <3>1 DEF Journal!Register, Follows, WholeRow
    <3>2. CASE Journal!Begin(r)
      BY <1>1, <3>2 DEF Journal!Begin, Follows, WholeRow, Rank
    <3>3. CASE Journal!Complete(r)
      <4>1. PICK c \in SUBSET Chunks : answer' = [answer EXCEPT ![r] = c]
        BY <3>3 DEF Journal!Complete
      <4>2. /\ status[r] \in {"pending", "processing"} /\ status'[r] = "done"
            /\ answer'[r] # NoAnswer
        BY <1>1, <3>3, <4>1, PipelineAssumption DEF Journal!Complete
      <4> QED BY <4>2 DEF Follows, WholeRow, Rank
    <3>4. CASE Journal!Fail(r)
      BY <1>1, <3>4 DEF Journal!Fail, Follows, WholeRow, Rank
    <3> QED BY <1>3, <2>2, <3>1, <3>2, <3>3, <3>4
  <2> QED BY <2>1, <2>2
<1> QED BY <1>2, <1>3, JournalStep DEF Journal!Next, Journal!vars

-----------------------------------------------------------------------------
(* The polls *)

PipelineInv == StatusInv /\ TraceInv /\ ReplyInv

(* The row may follow what a poll holds of it, and what was last shown; and *)
(* what a poll holds may follow what was last shown.                        *)
PollInvOf(r) ==
  /\ WholeRow(status[r], answer[r])
  /\ reading[r] # Nothing =>
       /\ WholeRow(reading[r].status, reading[r].answer)
       /\ Follows(reading[r].status, reading[r].answer, status[r], answer[r])
  /\ shown[r] # Nothing => Follows(shown[r].status, shown[r].answer, status[r], answer[r])
  /\ shown[r] # Nothing /\ reading[r] # Nothing =>
       Follows(shown[r].status, shown[r].answer, reading[r].status, reading[r].answer)

PollInv == PipelineInv /\ PollType /\ \A r \in Requests : PollInvOf(r)

LEMMA PollInvInit == PollInit => PollInv
<1> SUFFICES ASSUME PollInit PROVE PollInv
  OBVIOUS
<1>1. PipelineInv
  BY StatusInit, TraceInit, ReplyInit DEF PollInit, PipelineInv
<1>2. PollType /\ \A r \in Requests : PollInvOf(r)
  BY DEF PollInit, Init, PollType, PollInvOf, WholeRow
<1> QED BY <1>1, <1>2 DEF PollInv

LEMMA PollRefines == [PollNext]_allVars => [Next]_vars
BY DEF PollNext, PipelineStep, ReadRow, ReadSources, allVars, vars

LEMMA PollInvStep ==
  AtMostOnce /\ NoLostAck /\ PollInv /\ [PollNext]_allVars => PollInv'
<1> SUFFICES ASSUME AtMostOnce, NoLostAck, PollInv, [PollNext]_allVars
             PROVE  PollType' /\ \A r \in Requests : PollInvOf(r)'
  BY PollRefines, StatusStep, TraceStep, ReplyStep DEF PollInv, PipelineInv
<1>0. /\ PollType /\ StatusInv /\ ReplyInv /\ [Next]_vars
      /\ status \in [Requests -> Statuses] /\ status' \in [Requests -> Statuses]
      /\ answer \in [Requests -> {NoAnswer} \cup SUBSET Chunks]
      /\ sources \in [Requests -> SUBSET Chunks]
  BY PollRefines, TypeStep DEF PollInv, PipelineInv, StatusInv, OwnInv, CallInv, TypeOK
<1>1. ASSUME [Next]_vars, reading' \in {reading, [r \in Requests |-> Nothing]}, shown' = shown
      PROVE  PollType' /\ \A r \in Requests : PollInvOf(r)'
  <2>1. PollType'
    BY <1>0, <1>1 DEF PollType
  <2>2. ASSUME NEW r \in Requests PROVE PollInvOf(r)'
    <3>1. PollInvOf(r)
      BY DEF PollInv
    <3>2. reading'[r] \in {reading[r], Nothing} /\ shown'[r] = shown[r]
      BY <1>1
    <3>3. /\ status[r] # "absent" => Follows(status[r], answer[r], status'[r], answer'[r])
          /\ WholeRow(status'[r], answer'[r])
      BY <1>0, <3>1, RowStep DEF PollInvOf
    <3>4. ASSUME NEW s \in Statuses, NEW a, Follows(s, a, status[r], answer[r])
          PROVE  Follows(s, a, status'[r], answer'[r])
      <4>1. Follows(status[r], answer[r], status'[r], answer'[r])
        BY <3>3, <3>4 DEF Follows
      <4> QED BY <1>0, <3>4, <4>1, FollowsTrans
    <3>5. /\ reading[r] # Nothing => reading[r].status \in Statuses
          /\ shown[r] # Nothing => shown[r].status \in Statuses
      BY <1>0 DEF PollType, Row, Response
    <3> QED BY <3>1, <3>2, <3>3, <3>4, <3>5 DEF PollInvOf
  <2> QED BY <2>1, <2>2
<1>2. ASSUME NEW r \in Polled, ReadRow(r)
      PROVE  PollType' /\ \A s \in Requests : PollInvOf(s)'
  <2> DEFINE row == [status |-> status[r], answer |-> answer[r]]
  <2>0. r \in Requests
    BY PollAssumption
  <2>1. row \in Row
    BY <1>0, <2>0 DEF Row
  <2>2. /\ reading' = [reading EXCEPT ![r] = row]
        /\ shown' = shown /\ status' = status /\ answer' = answer
    BY <1>2 DEF ReadRow, vars
  <2>3. PollType'
    BY <1>0, <2>1, <2>2 DEF PollType
  <2>4. /\ reading'[r].status = status[r] /\ reading'[r].answer = answer[r]
        /\ \A s \in Requests : s # r => reading'[s] = reading[s]
    BY <1>0, <2>0, <2>2 DEF PollType
  <2>5. status[r] # "absent"
    BY <1>0, <1>2, <2>0 DEF ReadRow, ReplyInv, ReplyInvOf, CallInv, CallInvOf
  <2>6. Follows(status[r], answer[r], status[r], answer[r])
    BY <1>0, <2>0, <2>5, FollowsRefl
  <2>7. ASSUME NEW s \in Requests PROVE PollInvOf(s)'
    <3>1. PollInvOf(s)
      BY DEF PollInv
    <3>2. CASE s = r
      BY <2>2, <2>4, <2>6, <3>1, <3>2 DEF PollInvOf
    <3>3. CASE s # r
      BY <2>2, <2>4, <3>1, <3>3 DEF PollInvOf
    <3> QED BY <3>2, <3>3
  <2> QED BY <2>3, <2>7
<1>3. ASSUME NEW r \in Polled, ReadSources(r)
      PROVE  PollType' /\ \A s \in Requests : PollInvOf(s)'
  <2> DEFINE response == [status |-> reading[r].status, answer |-> reading[r].answer,
                          sources |-> sources[r]]
  <2>0. r \in Requests
    BY PollAssumption
  <2>1. /\ reading[r] # Nothing /\ shown' = [shown EXCEPT ![r] = response]
        /\ reading' = [reading EXCEPT ![r] = Nothing]
        /\ status' = status /\ answer' = answer
    BY <1>3 DEF ReadSources, vars
  <2>2. response \in Response
    BY <1>0, <2>0, <2>1 DEF PollType, Row, Response
  <2>3. PollType'
    BY <1>0, <2>0, <2>1, <2>2 DEF PollType
  <2>4. /\ shown'[r].status = reading[r].status /\ shown'[r].answer = reading[r].answer
        /\ reading'[r] = Nothing
        /\ \A s \in Requests : s # r => reading'[s] = reading[s] /\ shown'[s] = shown[s]
    BY <1>0, <2>0, <2>1 DEF PollType
  <2>5. ASSUME NEW s \in Requests PROVE PollInvOf(s)'
    <3>1. PollInvOf(s)
      BY DEF PollInv
    <3>2. CASE s = r
      BY <2>1, <2>4, <3>1, <3>2 DEF PollInvOf
    <3>3. CASE s # r
      BY <2>1, <2>4, <3>1, <3>3 DEF PollInvOf
    <3> QED BY <3>2, <3>3
  <2> QED BY <2>3, <2>5
<1>4. CASE UNCHANGED allVars
  BY <1>1, <1>4 DEF allVars, pollVars
<1> QED BY <1>1, <1>2, <1>3, <1>4 DEF PollNext, PipelineStep

(* The row and its sources are read by two statements, and a response is    *)
(* whole all the same: done with the answer and its sources, or without an  *)
(* answer (get_request, repository.py).                                     *)
THEOREM ResponsesWhole ==
  ASSUME AtMostOnce, NoLostAck PROVE PollSpec => ResponseIsWhole
<1> DEFINE Whole ==
      \A r \in Requests :
        shown'[r] # shown[r] =>
          IF shown'[r].status = "done"
          THEN /\ shown'[r].answer # NoAnswer
               /\ shown'[r].sources = shown'[r].answer \cap kb
          ELSE shown'[r].answer = NoAnswer
<1>1. PollInv /\ [PollNext]_allVars => PollInv'
  BY PollInvStep
<1>2. PollInv /\ [PollNext]_allVars => [Whole]_allVars
  <2> SUFFICES ASSUME PollInv, PollNext, NEW s \in Requests, shown'[s] # shown[s]
               PROVE  IF shown'[s].status = "done"
                      THEN /\ shown'[s].answer # NoAnswer
                           /\ shown'[s].sources = shown'[s].answer \cap kb
                      ELSE shown'[s].answer = NoAnswer
    OBVIOUS
  <2>1. PICK r \in Polled : ReadSources(r)
    BY DEF PollNext, PipelineStep, ReadRow
  <2>2. r = s /\ shown'[s] = [status |-> reading[s].status, answer |-> reading[s].answer,
                              sources |-> sources[s]]
    BY <2>1, PollAssumption DEF ReadSources, PollInv, PollType
  <2>3. /\ WholeRow(reading[s].status, reading[s].answer)
        /\ Follows(reading[s].status, reading[s].answer, status[s], answer[s])
    BY <2>1, <2>2 DEF ReadSources, PollInv, PollInvOf
  <2>4. sources[s] = IF answer[s] = NoAnswer THEN {} ELSE answer[s] \cap kb
    BY DEF PollInv, PipelineInv, TraceInv, TraceInvOf
  <2> QED BY <2>2, <2>3, <2>4 DEF WholeRow, Follows
<1> QED BY <1>1, <1>2, PollInvInit, PTL DEF PollSpec, ResponseIsWhole

(* Polled again, a request never falls back, and an outcome once shown is   *)
(* shown for ever.                                                          *)
THEOREM PollsNeverFallBack ==
  ASSUME AtMostOnce, NoLostAck PROVE PollSpec => PollsAdvance
<1> DEFINE Advance ==
      \A r \in Requests :
        shown[r] # Nothing =>
          /\ Rank(shown'[r].status) >= Rank(shown[r].status)
          /\ shown[r].status \in {"done", "failed"} =>
               /\ shown'[r].status = shown[r].status
               /\ shown'[r].answer = shown[r].answer
<1>1. PollInv /\ [PollNext]_allVars => PollInv'
  BY PollInvStep
<1>2. PollInv /\ [PollNext]_allVars => [Advance]_allVars
  <2> SUFFICES ASSUME PollInv, PollNext, NEW s \in Requests, shown[s] # Nothing
               PROVE  /\ Rank(shown'[s].status) >= Rank(shown[s].status)
                      /\ shown[s].status \in {"done", "failed"} =>
                           /\ shown'[s].status = shown[s].status
                           /\ shown'[s].answer = shown[s].answer
    OBVIOUS
  <2>1. CASE shown'[s] = shown[s]
    <3>1. Rank(shown[s].status) \in Nat
      BY DEF Rank
    <3> QED BY <2>1, <3>1
  <2>2. CASE shown'[s] # shown[s]
    <3>1. PICK r \in Polled : ReadSources(r)
      BY <2>2 DEF PollNext, PipelineStep, ReadRow
    <3>2. /\ r = s /\ reading[s] # Nothing
          /\ shown'[s].status = reading[s].status /\ shown'[s].answer = reading[s].answer
      BY <2>2, <3>1, PollAssumption DEF ReadSources, PollInv, PollType
    <3>3. Follows(shown[s].status, shown[s].answer, reading[s].status, reading[s].answer)
      BY <3>2 DEF PollInv, PollInvOf
    <3> QED BY <3>2, <3>3 DEF Follows
  <2> QED BY <2>1, <2>2
<1> QED BY <1>1, <1>2, PollInvInit, PTL DEF PollSpec, PollsAdvance

(* A poll only reads: with the clients polling, the pipeline behaves as     *)
(* without them, so that what is proved of Spec holds under the polls too.  *)
THEOREM PollsDisturbNothing == PollSpec => Spec
<1>1. PollInit => Init
  BY DEF PollInit
<1> QED BY <1>1, PollRefines, PTL DEF PollSpec, Spec
=============================================================================
