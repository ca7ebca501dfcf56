----------------------------- MODULE Anonymizer -----------------------------
(***************************************************************************)
(* The regular expressions of app/anonymize.py and CODE_RE of app/agent.py *)
(* over texts of character classes.  A text is a sequence of symbols: the  *)
(* digits the patterns name and "d" for every other one, "C" for a capital *)
(* of the Ukrainian alphabet, "w" for any other letter, the literals "UA"  *)
(* and "APP" as one symbol each, punctuation, and the kind of an entity    *)
(* where sub has put its tag.  Presidio is an extra the image lacks.       *)
(***************************************************************************)
EXTENDS Naturals, Sequences, FiniteSetsExt

Digit == {"0", "3", "8", "d"}
Word == Digit \cup {"w", "C", "UA", "APP"}
Kinds == {"EMAIL", "IBAN", "CARD", "PHONE", "PASSPORT", "IPN"}

MaxRun == 40  \* bound: the longest run of a "+"

(* A pattern is a set of forms, a form a sequence of items, an item a run   *)
(* of symbols of one class; Edge is \b.                                     *)
Times(n, S) == [of |-> S, least |-> n, most |-> n]
One(S) == Times(1, S)
Maybe(S) == [of |-> S, least |-> 0, most |-> 1]
Many(S) == [of |-> S, least |-> 1, most |-> MaxRun]
Edge == Times(0, {})

Repeat(n, form) == [i \in 1 .. n * Len(form) |-> form[1 + ((i - 1) % Len(form))]]

Gap == {" ", "-"}

EMAIL ==
  [kind |-> "EMAIL",
   forms |-> {<<Edge, Many(Word \cup {".", "+", "-"}), One({"@"}), Many(Word \cup {"-"}),
                One({"."}), Many(Word \cup {".", "-"}), Edge>>}]

IBAN == [kind |-> "IBAN", forms |-> {<<Edge, One({"UA"}), Times(27, Digit), Edge>>}]

(* Mutant of CARD: no separators. *)
CARDUnspaced == [kind |-> "CARD", forms |-> {<<Edge, Times(n, Digit), Edge>> : n \in 13 .. 19}]

CARD ==
  [kind |-> "CARD",
   forms |-> {<<Edge>> \o Repeat(n, <<One(Digit), Maybe(Gap)>>) \o <<Edge>> : n \in 13 .. 19}]

LocalNumber ==
  <<Maybe({"("}), One({"0"}), Times(2, Digit), Maybe({")"}), Maybe(Gap), Times(3, Digit),
    Maybe(Gap), Times(2, Digit), Maybe(Gap), Times(2, Digit), Edge>>

PHONE ==
  [kind |-> "PHONE",
   forms |-> {LocalNumber, <<Maybe({"+"}), One({"3"}), One({"8"}), Maybe(Gap)>> \o LocalNumber}]

PASSPORT ==
  [kind |-> "PASSPORT", forms |-> {<<Edge, Times(2, {"C"}), Maybe({" "}), Times(6, Digit), Edge>>}]

IPN == [kind |-> "IPN", forms |-> {<<Edge, Times(10, Digit), Edge>>}]

(* Mutant of Patterns: the short ones first. *)
PatternsShortFirst == <<EMAIL, IPN, PASSPORT, PHONE, CARD, IBAN>>

Patterns == <<EMAIL, IBAN, CARD, PHONE, PASSPORT, IPN>>

CODE_RE == {<<One({"APP"}), One({"-"}), Times(4, Digit), One({"-"}), Times(4, Digit)>>}

-----------------------------------------------------------------------------
IsWord(t, i) == i \in DOMAIN t /\ t[i] \in Word

(* Where a match may stand after an item, if it stood in P before.          *)
After(t, item, P) ==
  IF item = Edge
  THEN {i \in P : IsWord(t, i) # IsWord(t, i - 1)}
  ELSE UNION {{i + n : n \in {m \in item.least .. item.most :
                                \A j \in i .. i + m - 1 : j \in DOMAIN t /\ t[j] \in item.of}} :
              i \in P}

Reach(form, t, i) ==
  LET P[k \in 0 .. Len(form)] == IF k = 0 THEN {i} ELSE After(t, form[k], P[k - 1])
  IN P[Len(form)]

Ends(forms, t, i) == UNION {Reach(f, t, i) : f \in forms}

Matches(forms, t) == \E i \in DOMAIN t : Ends(forms, t, i) # {}

(* pattern.sub: the matches from the left that do not overlap, each as long *)
(* as it can be, which is what these patterns match greedily.               *)
Sub(p, t) ==
  LET S[i \in 0 .. Len(t)] ==
        IF i = 0 THEN [next |-> 1, out |-> <<>>, found |-> 0]
        ELSE LET s == S[i - 1] IN
             IF i < s.next THEN s
             ELSE LET E == Ends(p.forms, t, i) IN
                  IF E = {} THEN [s EXCEPT !.next = i + 1, !.out = Append(@, t[i])]
                  ELSE [next |-> Max(E), out |-> Append(s.out, p.kind), found |-> s.found + 1]
  IN S[Len(t)]

RegexAnonymize(text) ==
  LET R[k \in 0 .. Len(Patterns)] ==
        IF k = 0 THEN [text |-> text, entities |-> 0]
        ELSE LET s == Sub(Patterns[k], R[k - 1].text)
             IN [text |-> s.out, entities |-> R[k - 1].entities + s.found]
  IN R[Len(Patterns)]
=============================================================================
