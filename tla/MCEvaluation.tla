--------------------------- MODULE MCEvaluation ---------------------------
(* Instances of Evaluation for TLC: datasets of one request of one to three *)
(* parts, of one request with any category and ranking, and of two.         *)
EXTENDS Evaluation, SequencesExt

CONSTANT Scores  \* scores of a ranking; 0 stands for all below 0 as well

d(n) == [i \in 1 .. n |-> "d"]
Grouped(groups, gap) ==
  LET G[i \in 1 .. Len(groups)] ==
        IF i = 1 THEN groups[1] ELSE G[i - 1] \o gap \o groups[i]
  IN G[Len(groups)]

Zero(n) == <<"0">> \o d(n - 1)
Number(n) == <<"APP", "-", "d", "0", "d", "d", "-">> \o [i \in 1 .. n |-> IF i < 4 THEN "0" ELSE "d"]

Phones == {Zero(10), <<"+", "3", "8">> \o Zero(10),
           Grouped(<<Zero(3), d(3), d(2), d(2)>>, <<" ">>),
           <<"(">> \o Zero(3) \o <<")", " ">> \o Grouped(<<d(3), d(2), d(2)>>, <<"-">>)}
Dates == {Grouped(<<Zero(2), d(2), d(4)>>, <<" ">>), Grouped(<<d(2), Zero(2), d(4)>>, <<" ">>)}
SpacedNumber == <<"APP", " ", "d", "0", "d", "d", " ", "0", "0", "0", "d", "d", "d">>
Others == Dates \cup {d(2), d(4), SpacedNumber, <<"w">>, <<"status">>}
Certificate == <<"No">> \o d(10)

(* The forms of test_anonymize.py, hotline_requests.jsonl and mock_crm.py,  *)
(* one text for each: among the digits no pattern names there may be other  *)
(* 0s, 3s and 8s in the data.  Certificate is that of req-044, SpacedNumber *)
(* the number of req-091.                                                   *)
Parts ==
       [kind : {"PHONE"}, text : Phones]
  \cup [kind : {"CARD"}, text : {d(16), Grouped(<<d(4), d(4), d(4), d(4)>>, <<" ">>)}]
  \cup [kind : {"IPN"}, text : {d(10)}]
  \cup [kind : {"IBAN"}, text : {<<"UA">> \o d(27)}]
  \cup [kind : {"PASSPORT"}, text : {<<"C", "C">> \o d(6), <<"C", "C", " ">> \o d(6)}]
  \cup [kind : {"EMAIL"}, text : {<<"w", ".", "d", "d", "@", "w", ".", "w">>}]
  \cup [kind : {"number"}, text : {Number(4), Number(6)}]
  \cup [kind : {"other"}, text : Others]
  \cup [kind : {"certificate"}, text : {Certificate}]

Found == [doc |-> "d1", score |-> 3]

(* An item with the labels that are true of it.                             *)
Item(parts, sep, category, expected, ranking) ==
  [parts |-> parts, sep |-> sep, category |-> category, expected_doc |-> expected,
   has_pii |-> \E j \in DOMAIN parts : parts[j].kind \in Kinds,
   negative |-> \E j \in DOMAIN parts : parts[j].kind = "certificate",
   ranking |-> ranking]

Request(parts, sep) == Item(parts, sep, "topic", "d1", <<Found>>)

Requests(n, P) ==
  {<<Request(parts, sep)>> : parts \in [1 .. n -> P], sep \in {<<",", " ">>, <<" ">>}}

(* Two parts written on without a space.  STATUS_INTENT_RE begins and ends  *)
(* with letters, which its one symbol does not say.                         *)
Unspaced ==
  {<<Request(parts, <<>>)>> : parts \in [1 .. 2 -> {p \in Parts : p.text # <<"status">>}]}

(* Parts a card may run through, the spaces between them included: one text *)
(* for each way their digits are grouped.                                   *)
Joining ==
  {p \in Parts : \/ p.kind \in {"PHONE", "IPN"} /\ p.text[1] \notin {"+", "("}
                 \/ p.text \in {Number(6), Grouped(<<Zero(2), d(2), d(4)>>, <<" ">>), d(4)}}

(* A phone inside of a number.                                              *)
Broken(phone) ==
  <<[kind |-> "other", text |-> SubSeq(Number(4), 1, 6)], [kind |-> "PHONE", text |-> phone],
    [kind |-> "other", text |-> SubSeq(Number(4), 7, 11)]>>
BrokenNumbers == {<<Request(Broken(p), <<>>)>> : p \in Phones}

(* Labels of any kind, true or not: two items of one part each.             *)
Marked ==
  {[Request(<<p>>, <<",", " ">>) EXCEPT !.has_pii = h, !.negative = n] :
     p \in {q \in Parts : q.text \in {d(10), Certificate, d(2)}}, h \in BOOLEAN, n \in BOOLEAN}

Rankings ==
  {r \in BoundedSeq([doc : {"d1", "d2"}, score : Scores], TopK + 1) :
     \A i \in 1 .. Len(r) - 1 : r[i].score >= r[i + 1].score}

Labelled ==
  {Item(<<[kind |-> "other", text |-> t]>>, <<" ">>, c, e, r) :
     t \in {<<"w">>, <<"status">>}, c \in Categories, e \in {"d1", None}, r \in Rankings}

Usual ==
  {it \in Labelled : /\ Len(it.ranking) <= 1
                     /\ it.expected_doc = "d1" <=> it.category \in {"topic", "faithfulness_trap"}
                     /\ it.parts[1].text = <<"status">> <=> it.category = "status_lookup"}

MCDatasets ==
  Requests(1, Parts) \cup Requests(2, Parts) \cup Unspaced \cup Requests(3, Joining)
    \cup BrokenNumbers \cup {<<a, b>> : a, b \in Marked}
    \cup {<<>>} \cup {<<it>> : it \in Labelled} \cup {<<a, b>> : a, b \in Usual}

(* Numbers CODE_RE allows beside those of six digits.                       *)
MCLongNumbers == Requests(1, [kind : {"number"}, text : {Number(n) : n \in 6 .. 9}])
===========================================================================
