----------------------------- MODULE Evaluation -----------------------------
(***************************************************************************)
(* python -m app.evaluation: the labelled requests of a dataset are run    *)
(* through retrieval, routing and anonymization, and on demand through the *)
(* agent and a sweep over relevance thresholds; the report divides by the  *)
(* counts.  What pgvector ranks for a text is the environment's choice,    *)
(* the same every time the text is searched for.                           *)
(***************************************************************************)
EXTENDS Anonymizer

CONSTANTS
  Datasets,    \* the datasets: sequences of items
  None,        \* no expected document, no threshold given
  EnableTools, \* settings.enable_tools
  TopK,        \* settings.top_k
  MinScore,    \* settings.min_score
  Thresholds   \* thresholds of the sweep

REFUSE_CATEGORIES == {"out_of_scope", "ambiguous", "faithfulness_trap"}
Categories == REFUSE_CATEGORIES \cup {"topic", "status_lookup"}

IsSeq(s) == s \in Seq({s[i] : i \in DOMAIN s})

ASSUME EvaluationAssumption ==
  /\ MinScore \in Thresholds /\ \A T \in Thresholds : T \in Nat \ {0}
  /\ TopK \in Nat \ {0} /\ None \notin Nat
  /\ \A D \in Datasets : IsSeq(D) /\ \A i \in DOMAIN D :
       /\ D[i].category \in Categories /\ IsSeq(D[i].ranking)
       /\ \A k \in DOMAIN D[i].ranking : D[i].ranking[k].score \in Nat
       /\ IsSeq(D[i].sep) /\ IsSeq(D[i].parts)
       /\ \A j \in DOMAIN D[i].parts : IsSeq(D[i].parts[j].text)

(* An item has a text, made of parts with a separator between them, a       *)
(* category, an expected document or None, a flag has_pii, a note that says *)
(* "pii-negative" or not, and the ranking of the chunks for its text:       *)
(* [doc, score] with the scores, 1 - distance, descending.                  *)
Join(item, spelling(_)) ==
  LET J[i \in 0 .. Len(item.parts)] ==
        IF i = 0 THEN <<>>
        ELSE J[i - 1] \o (IF i = 1 THEN <<>> ELSE item.sep) \o spelling(item.parts[i])
  IN J[Len(item.parts)]

Spelled(part) == part.text
text(item) == Join(item, Spelled)

VARIABLES
  items,       \* the dataset
  pc,          \* the evaluation that is next; or how the run has ended
  overall,     \* RetrievalStats over all items with an expected document
  per_cat,     \* and by category
  routing,     \* tp, fp, tn, fn
  anonymized,  \* what the anonymizer made of each item
  masked,      \* the counts of eval_anonymization
  answers,     \* counters of eval_answers, and the number of items asked
  rows         \* the sweep: by threshold, its counters; or None

vars == <<items, pc, overall, per_cat, routing, anonymized, masked, answers, rows>>

oos(it) == it.category \in {"out_of_scope", "ambiguous"}
answerable(it) == it.expected_doc # None /\ it.category \notin REFUSE_CATEGORIES
ftrap(it) == it.category = "faithfulness_trap"

Count(P(_)) == Cardinality({i \in DOMAIN items : P(items[i])})

RetrievalStats == [n : Nat, hits : Nat, p_at_1 : Nat, mrr_sum : Nat]
MaskedCounters ==
  [pii_n : Nat, pii_hit : Nat, neg_n : Nat, neg_fp : Nat, clean_n : Nat, clean_fp : Nat]
AnswerCounters ==
  [asked : Nat, refuse_total : Nat, refuse_ok : Nat, answer_total : Nat,
   answer_wrong_refuse : Nat, failed : Nat]

TypeOK ==
  /\ pc \in {"retrieval", "routing", "anonymization", "answers", "sweep", "report",
             "reported", "aborted", "divided"}
  /\ overall \in RetrievalStats /\ DOMAIN per_cat \subseteq Categories
  /\ \A c \in DOMAIN per_cat : per_cat[c] \in RetrievalStats /\ per_cat[c].n > 0
  /\ routing \in [tp : Nat, fp : Nat, tn : Nat, fn : Nat]
  /\ anonymized = None \/ DOMAIN anonymized = DOMAIN items
  /\ masked \in MaskedCounters
  /\ answers \in AnswerCounters /\ answers.asked <= Len(items)
  /\ rows = None \/ DOMAIN rows = Thresholds

NoStats == [n |-> 0, hits |-> 0, p_at_1 |-> 0, mrr_sum |-> 0]

Init ==
  /\ items \in Datasets
  /\ pc = "retrieval"
  /\ overall = NoStats /\ per_cat = <<>>
  /\ routing = [tp |-> 0, fp |-> 0, tn |-> 0, fn |-> 0]
  /\ anonymized = None
  /\ masked = [pii_n |-> 0, pii_hit |-> 0, neg_n |-> 0, neg_fp |-> 0, clean_n |-> 0, clean_fp |-> 0]
  /\ answers = [asked |-> 0, refuse_total |-> 0, refuse_ok |-> 0, answer_total |-> 0,
                answer_wrong_refuse |-> 0, failed |-> 0]
  /\ rows = None

-----------------------------------------------------------------------------
(* Retrieval                                                                *)

(* The elements of s that are in S, in their order.                         *)
Selected(s, S) ==
  LET upTo[i \in 0 .. Len(s)] ==
        IF i = 0 THEN <<>>
        ELSE IF s[i] \in S THEN Append(upTo[i - 1], s[i]) ELSE upTo[i - 1]
  IN upTo[Len(s)]

AtLeast(chunks, T) == {c \in Range(chunks) : c.score >= T}

(* Mutant of search: "min_score or settings.min_score". *)
searchFalsy(item, min_score) ==
  LET threshold == IF min_score \in {None, 0} THEN MinScore ELSE min_score
      top == SubSeq(item.ranking, 1, Min({TopK, Len(item.ranking)}))
  IN Selected(top, AtLeast(top, threshold))

(* Mutant of search: a chunk that only just reaches the threshold is left   *)
(* out.                                                                     *)
searchStrict(item, min_score) ==
  LET threshold == IF min_score = None THEN MinScore ELSE min_score
      top == SubSeq(item.ranking, 1, Min({TopK, Len(item.ranking)}))
  IN Selected(top, AtLeast(top, threshold + 1))

(* search_text: the best TopK chunks, of these the ones that reach the      *)
(* threshold.                                                               *)
search(item, min_score) ==
  LET threshold == IF min_score = None THEN MinScore ELSE min_score
      top == SubSeq(item.ranking, 1, Min({TopK, Len(item.ranking)}))
  IN Selected(top, AtLeast(top, threshold))

docs(chunks) == {chunks[i].doc : i \in DOMAIN chunks}

(* The place of a document among the documents found, 0 for none.           *)
rank(chunks, doc) ==
  IF doc \notin docs(chunks) THEN 0
  ELSE 1 + Cardinality(docs(SubSeq(chunks, 1, Min({i \in DOMAIN chunks : chunks[i].doc = doc}) - 1)))

Unit == 60  \* mrr_sum is counted in sixtieths, for ranks up to 6

add(s, r) ==
  [n |-> s.n + 1,
   hits |-> s.hits + (IF r = 0 THEN 0 ELSE 1),
   p_at_1 |-> s.p_at_1 + (IF r = 1 THEN 1 ELSE 0),
   mrr_sum |-> s.mrr_sum + (IF r = 0 THEN 0 ELSE Unit \div r)]

Stats(its) ==
  LET S[i \in 0 .. Len(its)] ==
        IF i = 0 THEN NoStats
        ELSE add(S[i - 1], rank(search(its[i], None), its[i].expected_doc))
  IN S[Len(its)]

subset == Selected(items, {it \in Range(items) : it.expected_doc # None})
ofCategory(c) == Selected(subset, {it \in Range(subset) : it.category = c})

(* Mutant of EvalRetrieval: every category has its statistics, seen or not. *)
EvalRetrievalOfAll ==
  /\ pc = "retrieval"
  /\ overall' = Stats(subset)
  /\ per_cat' = [c \in Categories |-> Stats(ofCategory(c))]
  /\ pc' = "routing"
  /\ UNCHANGED <<items, routing, anonymized, masked, answers, rows>>

(* eval_retrieval; the exception of a search that fails ends the run.       *)
EvalRetrieval ==
  LET cats == {it.category : it \in Range(subset)} IN
  /\ pc = "retrieval"
  /\ \/ /\ overall' = Stats(subset)
        /\ per_cat' = [c \in cats |-> Stats(ofCategory(c))]
        /\ pc' = "routing"
     \/ /\ subset # <<>>
        /\ pc' = "aborted" /\ UNCHANGED <<overall, per_cat>>
  /\ UNCHANGED <<items, routing, anonymized, masked, answers, rows>>

-----------------------------------------------------------------------------
(* Routing and anonymization                                                *)

(* A number, or words of STATUS_INTENT_RE, here the symbol "status".        *)
looks_like_status_query(t) ==
  Matches(CODE_RE, t) \/ \E i \in DOMAIN t : t[i] = "status"

EvalRouting ==
  LET actual(it) == it.category = "status_lookup"
      pred(it) == looks_like_status_query(text(it))
  IN
  /\ pc = "routing"
  /\ routing' = [tp |-> Count(LAMBDA it : actual(it) /\ pred(it)),
                 fn |-> Count(LAMBDA it : actual(it) /\ ~pred(it)),
                 fp |-> Count(LAMBDA it : ~actual(it) /\ pred(it)),
                 tn |-> Count(LAMBDA it : ~actual(it) /\ ~pred(it))]
  /\ pc' = "anonymization"
  /\ UNCHANGED <<items, overall, per_cat, anonymized, masked, answers, rows>>

(* The items whose text holds personal data, those that only look so, and,  *)
(* with neither label, the clean ones.  An item may have both labels.       *)
pii == {i \in DOMAIN items : items[i].has_pii}
neg == {i \in DOMAIN items : items[i].negative}


clean == DOMAIN items \ (pii \cup neg)

(* Mutant of EvalAnonymization: what is masked leaves no tag. *)
EvalAnonymizationErasing ==
  /\ pc = "anonymization"
  /\ anonymized' =
       [i \in DOMAIN items |->
          [RegexAnonymize(text(items[i])) EXCEPT !.text = SelectSeq(@, LAMBDA x : x \notin Kinds)]]
  /\ UNCHANGED masked
  /\ pc' \in {"answers", "sweep", "report"}
  /\ UNCHANGED <<items, overall, per_cat, routing, answers, rows>>

(* eval_anonymization: of each group the size, and how many have an entity. *)
(* Where --full and --sweep lead from there.                                *)
EvalAnonymization ==
  LET hit == {i \in DOMAIN items : anonymized'[i].entities > 0} IN
  /\ pc = "anonymization"
  /\ anonymized' = [i \in DOMAIN items |-> RegexAnonymize(text(items[i]))]
  /\ masked' =
       [pii_n |-> Cardinality(pii), pii_hit |-> Cardinality(pii \cap hit),
        neg_n |-> Cardinality(neg), neg_fp |-> Cardinality(neg \cap hit),
        clean_n |-> Cardinality(clean), clean_fp |-> Cardinality(clean \cap hit)]
  /\ pc' \in {"answers", "sweep", "report"}
  /\ UNCHANGED <<items, overall, per_cat, routing, answers, rows>>

-----------------------------------------------------------------------------
(* Answers                                                                  *)

(* agent.answer: what may come back for an item, told by _is_refusal.       *)
(* NO_CONTEXT_ANSWER is one of the REFUSAL_MARKERS.                         *)
routed(item) == EnableTools /\ looks_like_status_query(text(item))

(* Mutant of Replies: the model is asked without any source. *)
RepliesAlways(item) == {"answer", "refusal", "exception"}

Replies(item) ==
  IF routed(item) \/ search(item, None) # <<>>
  THEN {"answer", "refusal", "exception"}
  ELSE {"refusal", "exception"}

one(b) == IF b THEN 1 ELSE 0

EvalAnswer ==
  LET it == items[answers.asked + 1]
      refusable == it.category \in REFUSE_CATEGORIES
  IN
  /\ pc = "answers" /\ answers.asked < Len(items)
  /\ \E reply \in Replies(it) :
       LET came == reply # "exception"
           refused == reply = "refusal"
       IN answers' =
            [asked |-> answers.asked + 1,
             failed |-> answers.failed + one(~came),
             refuse_total |-> answers.refuse_total + one(came /\ refusable),
             refuse_ok |-> answers.refuse_ok + one(refused /\ refusable),
             answer_total |-> answers.answer_total + one(came /\ answerable(it)),
             answer_wrong_refuse |-> answers.answer_wrong_refuse + one(refused /\ answerable(it))]
  /\ UNCHANGED <<items, pc, overall, per_cat, routing, anonymized, masked, rows>>

AnswersDone ==
  /\ pc = "answers" /\ answers.asked = Len(items)
  /\ pc' \in {"sweep", "report"}
  /\ UNCHANGED <<items, overall, per_cat, routing, anonymized, masked, answers, rows>>

-----------------------------------------------------------------------------
(* The sweep and the report                                                 *)

max_score(item) == Max({0} \cup {c.score : c \in Range(search(item, 0))})
kept(item, T) == {c.doc : c \in AtLeast(search(item, 0), T)}

(* eval_min_score_sweep; the exception of a search that fails ends the run. *)
EvalMinScoreSweep ==
  /\ pc = "sweep"
  /\ \/ /\ rows' = [T \in Thresholds |->
              [oos_refused |-> Count(LAMBDA it : oos(it) /\ max_score(it) < T),
               ans_refused |-> Count(LAMBDA it : answerable(it) /\ max_score(it) < T),
               ans_kept |-> Count(LAMBDA it : answerable(it) /\ it.expected_doc \in kept(it, T)),
               ft_refused |-> Count(LAMBDA it : ftrap(it) /\ max_score(it) < T)]]
        /\ pc' = "report"
     \/ /\ Count(LAMBDA it : oos(it) \/ answerable(it) \/ ftrap(it)) > 0
        /\ pc' = "aborted" /\ UNCHANGED rows
  /\ UNCHANGED <<items, overall, per_cat, routing, anonymized, masked, answers>>

(* print_report and then, when --out is given, _to_serializable divide by   *)
(* the number of items with an expected document, and by that number in     *)
(* every category met; neither is asked for first.  The rates the earlier   *)
(* evaluations have computed are 0 where they would divide by 0.            *)
PrintReport ==
  /\ pc = "report"
  /\ pc' = IF overall.n = 0 \/ \E c \in DOMAIN per_cat : per_cat[c].n = 0
           THEN "divided" ELSE "reported"
  /\ UNCHANGED <<items, overall, per_cat, routing, anonymized, masked, answers, rows>>

Next ==
  \/ EvalRetrieval \/ EvalRouting \/ EvalAnonymization
  \/ EvalAnswer \/ AnswersDone \/ EvalMinScoreSweep \/ PrintReport

Spec == Init /\ [][Next]_vars

-----------------------------------------------------------------------------
(* Properties                                                               *)

SetApart(item) == item.sep = <<",", " ">>
Personal(item) == {j \in DOMAIN item.parts : item.parts[j].kind \in Kinds}
Certified(item) == {j \in DOMAIN item.parts : item.parts[j].kind = "certificate"}

(* What becomes of a part.  Ten digits that stand alone are a tax number to *)
(* the patterns, whatever they are.                                         *)
Tag(part) ==
  IF part.kind \in Kinds THEN <<part.kind>>
  ELSE IF part.kind = "certificate" THEN <<"No", "IPN">>
  ELSE part.text

(* The order of _PATTERNS works (anonymize.py:18-19): in a text whose parts *)
(* are set apart by a comma every phone, card, tax number, IBAN, passport   *)
(* and e-mail becomes its own tag and one entity.  A date, a sum and an     *)
(* application number of up to six digits stay as they are.  The number of  *)
(* a certificate does not: it has ten digits and is masked as a tax number, *)
(* though hotline_requests.jsonl:44 labels it "pii-negative ... не PII".    *)
MaskedExactly ==
  anonymized # None =>
    \A i \in DOMAIN items : SetApart(items[i]) =>
      /\ anonymized[i].text = Join(items[i], Tag)
      /\ anonymized[i].entities = Cardinality(Personal(items[i]) \cup Certified(items[i]))

(* However the parts run into each other, so that one match swallows a part *)
(* of the next, no personal datum is left whole that no letter or digit     *)
(* touches.  One that is written on behind a letter may be: the patterns    *)
(* ask for a word boundary at their ends, only the phone's not on its left. *)
Touches(t, i) == i \in DOMAIN t /\ t[i] \in Word
Occurrences(s, t) == {i \in 0 .. Len(t) - Len(s) : SubSeq(t, i + 1, i + Len(s)) = s}
FreeStanding(s, t) == \E i \in Occurrences(s, t) : ~Touches(t, i) /\ ~Touches(t, i + Len(s) + 1)

NoneSurvives ==
  anonymized # None =>
    \A i \in DOMAIN items : \A j \in Personal(items[i]) :
      LET datum == items[i].parts[j].text IN
      FreeStanding(datum, text(items[i])) => Occurrences(datum, anonymized[i].text) = {}

(* What the report says of the anonymizer is true of it when the labels are *)
(* true of the texts: every request with personal data is a hit, no clean   *)
(* one a false positive, and of the requests noted as "pii-negative" those  *)
(* with a number of a certificate, or with personal data as well, are the   *)
(* false positives.                                                         *)
TrulyLabelled(item) ==
  /\ SetApart(item)
  /\ item.has_pii <=> Personal(item) # {}
  /\ Certified(item) # {} => item.negative


(* eval_routing judges the raw text, the API looks for a number in the      *)
(* anonymized one.  However the parts run into each other, an application   *)
(* number that is found between the tags stands in the text as well, symbol *)
(* by symbol: masking never makes a number that nobody has given.           *)
NoNumberInvented ==
  anonymized # None =>
    \A i \in DOMAIN items :
      LET t == text(items[i])
          w == anonymized[i].text
      IN \A j \in DOMAIN w : Ends(CODE_RE, w, j) # {} =>
           \E q \in 1 .. Len(t) - 10 : \A k \in 0 .. 10 : w[j + k] = t[q + k]

(* The sweep searches once without a threshold and filters: at every T it   *)
(* tells what search with min_score = T would have returned.                *)
SweepPredicts ==
  rows # None =>
    \A T \in Thresholds :
      /\ rows[T].oos_refused = Count(LAMBDA it : oos(it) /\ search(it, T) = <<>>)
      /\ rows[T].ans_refused = Count(LAMBDA it : answerable(it) /\ search(it, T) = <<>>)
      /\ rows[T].ans_kept =
           Count(LAMBDA it : answerable(it) /\ it.expected_doc \in docs(search(it, T)))

(* At the configured threshold the sweep, which filters afterwards, agrees  *)
(* with the recall of eval_retrieval, which searches with the threshold.    *)
SweepAgrees ==
  LET hits(c) == IF c \in DOMAIN per_cat THEN per_cat[c].hits ELSE 0 IN
  rows # None => rows[MinScore].ans_kept = hits("topic") + hits("status_lookup")

(* What the sweep refuses at the configured threshold the agent refuses too,*)
(* unless the item failed or went to the tool.                              *)
RefusalsForetold ==
  rows # None /\ answers.asked > 0 =>
    /\ rows[MinScore].oos_refused
         <= answers.refuse_ok + answers.failed + Count(LAMBDA it : oos(it) /\ routed(it))
    /\ rows[MinScore].ans_refused
         <= answers.answer_wrong_refuse + answers.failed
              + Count(LAMBDA it : answerable(it) /\ routed(it))

(* A run whose searches succeed ends in a report just when some item of its *)
(* dataset has an expected document.  No category is entered in per_cat     *)
(* without an item, so of the divisions nobody guards (evaluation.py:294-   *)
(* 300, 350-354) only those by the number of all such items can fail.       *)
ReportCompletes ==
  pc \in {"reported", "divided"} =>
    (pc = "reported" <=> \E i \in DOMAIN items : items[i].expected_doc # None)

(* agent.py:12: the tool's number is no personal datum, "so it is           *)
(* compatible with anonymization": a number given in a request is still     *)
(* found in its anonymized text.                                            *)
CodeSurvives ==
  anonymized # None =>
    \A i \in DOMAIN items :
      Matches(CODE_RE, text(items[i])) => Matches(CODE_RE, anonymized[i].text)
=============================================================================
