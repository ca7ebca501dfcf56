--------------------------- MODULE ChunkingProofs ---------------------------
(***************************************************************************)
(* What chunk_text promises for every text, size and overlap: chunks are   *)
(* never longer than chunk_size and are passages of the text; with an      *)
(* overlap below the size none of the text is lost, and a chunk that       *)
(* begins inside a paragraph repeats a character of the one before it.     *)
(***************************************************************************)
EXTENDS Chunking, SequenceTheorems, FiniteSetTheorems, WellFoundedInduction, TLAPS

IInv == TypeOK /\ ChunksFit

Fitting(s) == s \in Seq(Seq(Symbols)) /\ \A c \in DOMAIN s : Len(s[c]) <= size

(* Taking a piece of a string gives a string no longer than asked for. *)
LEMMA SubSeqFits ==
  ASSUME NEW s \in Seq(Symbols), NEW m \in Nat \ {0}, NEW n \in Nat, n <= Len(s),
         NEW bound \in Nat, n <= m - 1 + bound
  PROVE  SubSeq(s, m, n) \in Seq(Symbols) /\ Len(SubSeq(s, m, n)) <= bound
<1>1. \A i \in m .. n : s[i] \in Symbols
  <2> TAKE i \in m .. n
  <2>1. i \in 1 .. Len(s)
    BY LenProperties
  <2> QED BY <2>1, ElementOfSeq
<1>2. /\ SubSeq(s, m, n) \in Seq(Symbols)
      /\ Len(SubSeq(s, m, n)) = IF m <= n THEN n - m + 1 ELSE 0
  BY <1>1, SubSeqProperties
<1> QED BY <1>2

LEMMA LastOfFits ==
  ASSUME NEW s \in Seq(Symbols), NEW n \in Nat
  PROVE  LastOf(s, n) \in Seq(Symbols) /\ Len(LastOf(s, n)) <= n
<1> DEFINE l == Least(n, Len(s))
<1>1. Len(s) \in Nat /\ l \in Nat /\ l <= n /\ l <= Len(s)
  BY LenProperties DEF Least
<1>2. Len(s) - l + 1 \in Nat \ {0}
  BY <1>1
<1> HIDE DEF l
<1>3. SubSeq(s, Len(s) - l + 1, Len(s)) \in Seq(Symbols)
      /\ Len(SubSeq(s, Len(s) - l + 1, Len(s))) <= l
  BY <1>1, <1>2, SubSeqFits
<1> QED BY <1>1, <1>3 DEF LastOf, l

LEMMA JoinedFits ==
  ASSUME NEW head \in Seq(Symbols), NEW tail \in Seq(Symbols)
  PROVE  /\ Joined(head, tail) \in Seq(Symbols)
         /\ Len(Joined(head, tail)) <= IF head = <<>> THEN Len(tail) ELSE Len(head) + Len(tail) + 2
<1>1. Separator \in Seq(Symbols) /\ Len(Separator) = 2
  BY DEF Separator, Symbols
<1> DEFINE front == head \o Separator
<1>2. front \in Seq(Symbols) /\ Len(front) = Len(head) + Len(Separator)
  BY <1>1, ConcatProperties, Zenon
<1> HIDE DEF front
<1>3. front \o tail \in Seq(Symbols) /\ Len(front \o tail) = Len(front) + Len(tail)
  BY <1>2, ConcatProperties, Zenon
<1>4. Len(head) \in Nat /\ Len(tail) \in Nat /\ Len(Separator) = 2
  BY <1>1, LenProperties
<1>5. Joined(head, tail) = IF head = <<>> THEN tail ELSE front \o tail
  BY DEF Joined, front
<1> QED BY <1>2, <1>3, <1>4, <1>5

LEMMA PendingFits ==
  ASSUME buf \in Seq(Symbols), Len(buf) <= size
  PROVE  Fitting(Pending)
BY DEF Fitting, Pending

(* Every piece of a hard split is at most as long as the window. *)
LEMMA PiecesFit ==
  ASSUME size \in Nat \ {0}, over \in Nat, over # size, NEW p \in Seq(Symbols)
  PROVE  Fitting(Pieces(p))
<1>1. CASE over > size
  BY <1>1 DEF Fitting, Pieces
<1>2. CASE over < size
  <2> DEFINE step == size - over
             n == (Len(p) + step - 1) \div step
             piece(j) == SubSeq(p, (j - 1) * step + 1, Least((j - 1) * step + size, Len(p)))
  <2>1. step \in Nat \ {0} /\ Len(p) \in Nat
    BY <1>2, LenProperties
  <2>2. n \in Nat
    BY <2>1
  <2>3. \A j \in 1 .. n : piece(j) \in Seq(Symbols) /\ Len(piece(j)) <= size
    <3> TAKE j \in 1 .. n
    <3> DEFINE b == (j - 1) * step
    <3>1. b \in Nat
      BY <2>1, <2>2
    <3> HIDE DEF b
    <3>2. Least(b + size, Len(p)) \in Nat /\ Least(b + size, Len(p)) <= Len(p)
          /\ Least(b + size, Len(p)) <= (b + 1) - 1 + size
      BY <2>1, <3>1 DEF Least
    <3>3. SubSeq(p, b + 1, Least(b + size, Len(p))) \in Seq(Symbols)
          /\ Len(SubSeq(p, b + 1, Least(b + size, Len(p)))) <= size
      BY <3>1, <3>2, SubSeqFits
    <3> QED BY <3>3 DEF b
  <2>4. Pieces(p) = [j \in 1 .. n |-> piece(j)]
    BY <1>2 DEF Pieces
  <2> HIDE DEF n, piece
  <2>5. Pieces(p) \in Seq(Seq(Symbols))
    BY <2>2, <2>3, <2>4, IsASeq
  <2> QED BY <2>2, <2>3, <2>4, <2>5 DEF Fitting
<1> QED BY <1>1, <1>2

LEMMA ConcatFits ==
  ASSUME NEW s, NEW t, Fitting(s), Fitting(t), size \in Nat
  PROVE  Fitting(s \o t)
<1>1. s \in Seq(Seq(Symbols)) /\ t \in Seq(Seq(Symbols))
  BY DEF Fitting
<1>2. /\ s \o t \in Seq(Seq(Symbols))
      /\ Len(s \o t) = Len(s) + Len(t)
      /\ \A i \in 1 .. Len(s) + Len(t) :
           (s \o t)[i] = IF i <= Len(s) THEN s[i] ELSE t[i - Len(s)]
  BY <1>1, ConcatProperties
<1>3. Len(s) \in Nat /\ Len(t) \in Nat /\ DOMAIN s = 1 .. Len(s) /\ DOMAIN t = 1 .. Len(t)
      /\ DOMAIN (s \o t) = 1 .. Len(s) + Len(t)
  BY <1>1, <1>2, LenProperties
<1>4. ASSUME NEW c \in 1 .. Len(s) + Len(t) PROVE Len((s \o t)[c]) <= size
  <2>1. CASE c <= Len(s)
    <3>1. c \in DOMAIN s /\ (s \o t)[c] = s[c]
      BY <1>2, <1>3, <2>1
    <3> QED BY <3>1 DEF Fitting
  <2>2. CASE c > Len(s)
    <3>1. c - Len(s) \in DOMAIN t /\ (s \o t)[c] = t[c - Len(s)]
      BY <1>2, <1>3, <2>2
    <3> QED BY <3>1 DEF Fitting
  <2> QED BY <1>3, <2>1, <2>2
<1> QED BY <1>2, <1>3, <1>4 DEF Fitting

-----------------------------------------------------------------------------
LEMMA FitInit == Init => IInv
BY ChunkingAssumption DEF Init, IInv, TypeOK, ChunksFit

(* What a turn of the loop may assume. *)
LEMMA TurnFacts ==
  ASSUME TypeOK, Turn
  PROVE  /\ size \in Nat \ {0} /\ over \in Nat
         /\ para \in Seq(Symbols) /\ Len(para) \in Nat
         /\ next + 1 \in 1 .. Len(paragraphs) + 1
<1>1. size \in Nat \ {0} /\ over \in Nat
  BY ChunkingAssumption DEF TypeOK
<1>2. paragraphs \in Seq(Seq(Char)) /\ next \in 1 .. Len(paragraphs)
  BY LenProperties DEF TypeOK, Turn
<1>3. para \in Seq(Char)
  BY <1>2, ElementOfSeq DEF para
<1>4. Seq(Char) \subseteq Seq(Symbols)
  BY SeqMonotonic DEF Symbols
<1> QED BY <1>1, <1>2, <1>3, <1>4, LenProperties

LEMMA FitStep == IInv /\ [Next]_vars => IInv'
<1> SUFFICES ASSUME IInv, [Next]_vars PROVE IInv'
  OBVIOUS
<1>0. /\ TypeOK /\ ChunksFit /\ Fitting(chunks)
      /\ size \in Nat \ {0} /\ buf \in Seq(Symbols) /\ Len(buf) \in Nat /\ Len(buf) <= size
      /\ \A s : UNCHANGED arguments /\ Fitting(s) => Fitting(s)'
  <2>1. TypeOK /\ ChunksFit
    BY DEF IInv
  <2>2. size \in Nat \ {0} /\ buf \in Seq(Symbols) /\ Len(buf) <= size
    BY <2>1, ChunkingAssumption DEF TypeOK
  <2> QED BY <2>1, <2>2, LenProperties DEF TypeOK, ChunksFit, Fitting, arguments
<1>1. CASE HardSplit
  <2>1. CASE over = size
    BY <1>0, <1>1, <2>1 DEF HardSplit, arguments, IInv, TypeOK, ChunksFit
  <2>2. CASE over # size
    <3>1. Fitting(Pending) /\ Fitting(Pieces(para))
      BY <1>0, <1>1, <2>2, TurnFacts, PendingFits, PiecesFit DEF HardSplit
    <3>2. Fitting((chunks \o Pending) \o Pieces(para))
      BY <1>0, <3>1, ConcatFits
    <3>3. chunks' \in Seq(Seq(Symbols)) /\ ChunksFit'
      BY <1>1, <2>2, <3>2 DEF HardSplit, arguments, Fitting, ChunksFit
    <3>4. buf' \in Seq(Symbols) /\ Len(buf') <= size'
      BY <1>0, <1>1, <2>2 DEF HardSplit, arguments
    <3>5. next' \in 1 .. Len(paragraphs') + 1
      BY <1>0, <1>1, <2>2, TurnFacts DEF HardSplit, arguments
    <3> QED BY <1>0, <1>1, <2>2, <3>3, <3>4, <3>5 DEF HardSplit, arguments, IInv, TypeOK
  <2> QED BY <2>1, <2>2
<1>2. CASE Accumulate
  <2>1. para \in Seq(Symbols) /\ Len(para) \in Nat /\ next + 1 \in 1 .. Len(paragraphs) + 1
    BY <1>0, <1>2, TurnFacts DEF Accumulate
  <2>2. /\ Joined(buf, para) \in Seq(Symbols)
        /\ Len(Joined(buf, para)) <= IF buf = <<>> THEN Len(para) ELSE Len(buf) + Len(para) + 2
    BY <1>0, <2>1, JoinedFits
  <2>3. buf' \in Seq(Symbols) /\ Len(buf') <= size
    BY <1>0, <1>2, <2>1, <2>2, LenProperties DEF Accumulate
  <2> QED BY <1>0, <1>2, <2>1, <2>3 DEF Accumulate, arguments, IInv, TypeOK, ChunksFit
<1>3. CASE StartChunk
  <2> DEFINE room == IF size >= Len(para) + 2 THEN size - Len(para) - 2 ELSE 0
             k == Least(over, room)
             tail == LastOf(buf, k)
  <2>1. /\ para \in Seq(Symbols) /\ Len(para) \in Nat /\ next + 1 \in 1 .. Len(paragraphs) + 1
        /\ over \in Nat /\ Len(para) <= size
    BY <1>0, <1>3, TurnFacts DEF StartChunk
  <2>2. k \in Nat /\ (k > 0 => k + Len(para) + 2 <= size)
    BY <1>0, <2>1 DEF Least
  <2>3. /\ buf' = Joined(tail, para) /\ chunks' = Append(chunks, buf) /\ next' = next + 1
        /\ UNCHANGED <<arguments, pc>>
    BY <1>3 DEF StartChunk
  <2> HIDE DEF k
  <2>4. tail \in Seq(Symbols) /\ Len(tail) \in Nat /\ Len(tail) <= k
    BY <1>0, <2>2, LastOfFits, LenProperties
  <2> HIDE DEF tail
  <2>5. tail = <<>> <=> Len(tail) = 0
    BY <2>4, EmptySeq
  <2>6. Joined(tail, para) \in Seq(Symbols) /\ Len(Joined(tail, para)) <= size
    <3>1. /\ Joined(tail, para) \in Seq(Symbols)
          /\ Len(Joined(tail, para)) <= IF tail = <<>> THEN Len(para) ELSE Len(tail) + Len(para) + 2
          /\ Len(Joined(tail, para)) \in Nat
      BY <2>1, <2>4, JoinedFits, LenProperties
    <3>2. CASE tail = <<>>
      BY <1>0, <2>1, <3>1, <3>2
    <3>3. CASE tail # <<>>
      BY <1>0, <2>1, <2>2, <2>4, <2>5, <3>1, <3>3
    <3> QED BY <3>2, <3>3
  <2>7. chunks' \in Seq(Seq(Symbols)) /\ ChunksFit'
    <3>1. chunks \in Seq(Seq(Symbols)) /\ buf \in Seq(Symbols)
      BY <1>0 DEF TypeOK
    <3>2. /\ chunks' \in Seq(Seq(Symbols)) /\ Len(chunks') = Len(chunks) + 1
          /\ \A i \in 1 .. Len(chunks) : chunks'[i] = chunks[i]
          /\ chunks'[Len(chunks) + 1] = buf
      BY <2>3, <3>1, AppendProperties
    <3>3. DOMAIN chunks = 1 .. Len(chunks) /\ DOMAIN chunks' = 1 .. Len(chunks) + 1
          /\ Len(chunks) \in Nat
      BY <3>1, <3>2, LenProperties
    <3> QED BY <1>0, <2>3, <3>2, <3>3 DEF ChunksFit, arguments
  <2> QED BY <1>0, <2>1, <2>6, <2>3, <2>7 DEF arguments, IInv, TypeOK
<1>4. CASE Finish
  <2>1. Fitting(chunks \o Pending)
    BY <1>0, PendingFits, ConcatFits
  <2> QED BY <1>0, <1>4, <2>1 DEF Finish, arguments, IInv, TypeOK, ChunksFit, Fitting
<1>5. CASE UNCHANGED vars
  BY <1>0, <1>5 DEF vars, IInv, TypeOK, ChunksFit
<1> QED BY <1>1, <1>2, <1>3, <1>4, <1>5 DEF Next

(* chunk_text never returns a chunk longer than chunk_size: not after a     *)
(* hard split, not with the tail of the chunk before, not for an overlap    *)
(* that exceeds the size (chunking.py:31-54).                               *)
THEOREM ChunksAlwaysFit == Spec => []ChunksFit
<1>1. Init => IInv
  BY FitInit
<1>2. IInv /\ [Next]_vars => IInv'
  BY FitStep
<1>3. IInv => ChunksFit
  BY DEF IInv
<1> QED BY <1>1, <1>2, <1>3, PTL DEF Spec

(* Every state of chunk_text has the declared type: its index stays within   *)
(* the paragraphs, and the chunk under construction within chunk_size.      *)
THEOREM TypeCorrect == Spec => []TypeOK
<1>1. Init => IInv
  BY FitInit
<1>2. IInv /\ [Next]_vars => IInv'
  BY FitStep
<1>3. IInv => TypeOK
  BY DEF IInv
<1> QED BY <1>1, <1>2, <1>3, PTL DEF Spec

-----------------------------------------------------------------------------
(* The windows of range(0, L, s) *)

LEMMA DivBounds ==
  ASSUME NEW a \in Nat, NEW s \in Nat \ {0}
  PROVE  /\ a \div s \in Nat
         /\ (a \div s) * s <= a /\ a < (a \div s) * s + s
OBVIOUS

(* Position k of L characters lies in a window of s that starts at a multiple *)
(* of s.                                                                    *)
LEMMA WindowOf ==
  ASSUME NEW L \in Nat, NEW s \in Nat \ {0}, NEW k \in 1 .. L
  PROVE  \E j \in 1 .. ((L + s - 1) \div s) : (j - 1) * s < k /\ k <= j * s
<1> DEFINE q == (k - 1) \div s
           n == (L + s - 1) \div s
<1>1. q \in Nat /\ q * s <= k - 1 /\ k - 1 < q * s + s
  BY DivBounds
<1>2. n \in Nat /\ L + s - 1 < n * s + s
  BY DivBounds
<1> HIDE DEF q, n
<1>3. L - 1 < n * s
  BY <1>2
<1>4. q < n
  <2>1. q * s < n * s
    <3>1. q * s \in Nat /\ n * s \in Nat
      BY <1>1, <1>2
    <3> QED BY <1>1, <1>3, <3>1
  <2>2. n <= q => n * s <= q * s
    BY <1>1, <1>2
  <2> QED BY <1>1, <1>2, <2>1, <2>2
<1>5. (q + 1) * s = q * s + s /\ q * s \in Nat
  BY <1>1
<1>6. q + 1 \in 1 .. n /\ (q + 1) - 1 = q
  BY <1>1, <1>2, <1>4
<1>7. ((q + 1) - 1) * s < k /\ k <= (q + 1) * s
  BY <1>1, <1>5, <1>6
<1> QED BY <1>6, <1>7 DEF n

(* Every window starts inside the L characters. *)
LEMMA WindowInside ==
  ASSUME NEW L \in Nat, NEW s \in Nat \ {0}, NEW j \in 1 .. ((L + s - 1) \div s)
  PROVE  (j - 1) * s < L
<1> DEFINE n == (L + s - 1) \div s
<1>1. n \in Nat /\ n * s <= L + s - 1
  BY DivBounds
<1> HIDE DEF n
<1>2. j \in 1 .. n
  BY DEF n
<1>3. j * s <= n * s
  BY <1>1, <1>2
<1>4. j * s = (j - 1) * s + s
  BY <1>2
<1> QED BY <1>1, <1>2, <1>3, <1>4

-----------------------------------------------------------------------------
(* Characters of strings and chunks *)

Has(s, x) == \E k \in DOMAIN s : s[k] = x
In(cs, x) == \E c \in DOMAIN cs : Has(cs[c], x)

LEMMA ConcatParts ==
  ASSUME NEW S, NEW s \in Seq(S), NEW t \in Seq(S)
  PROVE  /\ \A i \in DOMAIN s : i \in DOMAIN (s \o t) /\ (s \o t)[i] = s[i]
         /\ \A i \in DOMAIN t : Len(s) + i \in DOMAIN (s \o t) /\ (s \o t)[Len(s) + i] = t[i]
         /\ Len(s) \in Nat /\ Len(t) \in Nat /\ Len(s \o t) = Len(s) + Len(t)
         /\ DOMAIN s = 1 .. Len(s) /\ DOMAIN t = 1 .. Len(t)
         /\ s \o t \in Seq(S)
<1>1. /\ s \o t \in Seq(S) /\ Len(s \o t) = Len(s) + Len(t)
      /\ \A i \in 1 .. Len(s) + Len(t) : (s \o t)[i] = IF i <= Len(s) THEN s[i] ELSE t[i - Len(s)]
  BY ConcatProperties
<1>2. Len(s) \in Nat /\ Len(t) \in Nat /\ DOMAIN s = 1 .. Len(s) /\ DOMAIN t = 1 .. Len(t)
      /\ DOMAIN (s \o t) = 1 .. Len(s) + Len(t)
  BY <1>1, LenProperties
<1>3. ASSUME NEW i \in 1 .. Len(s)
      PROVE  i \in 1 .. Len(s) + Len(t) /\ (s \o t)[i] = s[i]
  BY <1>1, <1>2
<1>4. ASSUME NEW i \in 1 .. Len(t)
      PROVE  Len(s) + i \in 1 .. Len(s) + Len(t) /\ (s \o t)[Len(s) + i] = t[i]
  <2>1. /\ Len(s) + i \in 1 .. Len(s) + Len(t) /\ ~(Len(s) + i <= Len(s))
        /\ (Len(s) + i) - Len(s) = i
    BY <1>2
  <2> QED BY <1>1, <2>1
<1> QED BY <1>1, <1>2, <1>3, <1>4

LEMMA HasConcat ==
  ASSUME NEW S, NEW s \in Seq(S), NEW t \in Seq(S), NEW x, Has(s, x) \/ Has(t, x)
  PROVE  Has(s \o t, x)
<1>1. CASE Has(s, x)
  BY <1>1, ConcatParts DEF Has
<1>2. CASE Has(t, x)
  <2>1. PICK k \in DOMAIN t : t[k] = x
    BY <1>2 DEF Has
  <2>2. Len(s) + k \in DOMAIN (s \o t) /\ (s \o t)[Len(s) + k] = t[k]
    BY ConcatParts
  <2> QED BY <2>1, <2>2 DEF Has
<1> QED BY <1>1, <1>2

LEMMA InConcat ==
  ASSUME NEW s \in Seq(Seq(Symbols)), NEW t \in Seq(Seq(Symbols)), NEW x, In(s, x) \/ In(t, x)
  PROVE  In(s \o t, x)
<1>1. CASE In(s, x)
  <2>1. PICK c \in DOMAIN s : Has(s[c], x)
    BY <1>1 DEF In
  <2>2. c \in DOMAIN (s \o t) /\ (s \o t)[c] = s[c]
    BY ConcatParts
  <2> QED BY <2>1, <2>2 DEF In
<1>2. CASE In(t, x)
  <2>1. PICK c \in DOMAIN t : Has(t[c], x)
    BY <1>2 DEF In
  <2>2. Len(s) + c \in DOMAIN (s \o t) /\ (s \o t)[Len(s) + c] = t[c]
    BY ConcatParts
  <2> QED BY <2>1, <2>2 DEF In
<1> QED BY <1>1, <1>2

(* What the last characters of a chunk and the paragraph joined to them    *)
(* hold, and begin with.                                                   *)
LEMMA JoinedParts ==
  ASSUME NEW head \in Seq(Symbols), NEW tail \in Seq(Symbols)
  PROVE  /\ \A x : Has(head, x) \/ Has(tail, x) => Has(Joined(head, tail), x)
         /\ head = <<>> => Joined(head, tail) = tail
         /\ head # <<>> => Joined(head, tail)[1] = head[1]
<1>1. CASE head = <<>>
  BY <1>1 DEF Joined, Has
<1>2. CASE head # <<>>
  <2> DEFINE front == head \o Separator
  <2>1. Separator \in Seq(Symbols)
    BY DEF Separator, Symbols
  <2>2. front \in Seq(Symbols)
    BY <2>1, ConcatParts
  <2>3. Joined(head, tail) = front \o tail
    BY <1>2 DEF Joined
  <2>4. \A x : Has(head, x) => Has(front, x)
    BY <2>1, HasConcat
  <2>5. 1 \in DOMAIN head
    BY <1>2, EmptySeq, LenProperties
  <2>6. 1 \in DOMAIN front /\ front[1] = head[1]
    BY <2>1, <2>5, ConcatParts
  <2> HIDE DEF front
  <2>7. \A x : Has(front, x) \/ Has(tail, x) => Has(front \o tail, x)
    BY <2>2, HasConcat
  <2>8. (front \o tail)[1] = front[1]
    BY <2>2, <2>6, ConcatParts
  <2> QED BY <1>2, <2>3, <2>4, <2>6, <2>7, <2>8
<1> QED BY <1>1, <1>2

(* A tail that is not empty begins with a character of the chunk.          *)
LEMMA LastOfParts ==
  ASSUME NEW s \in Seq(Symbols), NEW n \in Nat, LastOf(s, n) # <<>>
  PROVE  Has(s, LastOf(s, n)[1])
<1> DEFINE l == Least(n, Len(s))
           m == Len(s) - l + 1
<1>1. Len(s) \in Nat /\ l \in Nat /\ l <= Len(s) /\ DOMAIN s = 1 .. Len(s)
  BY LenProperties DEF Least
<1>2. m \in 1 .. Len(s) + 1 /\ LastOf(s, n) = SubSeq(s, m, Len(s))
  BY <1>1 DEF LastOf
<1> HIDE DEF m
<1>3. m <= Len(s)
  <2>1. m > Len(s) => SubSeq(s, m, Len(s)) = <<>>
    BY <1>1, <1>2, SubSeqEmpty
  <2> QED BY <1>1, <1>2, <2>1
<1>4. SubSeq(s, m, Len(s))[1] = s[m]
  <2>1. \A i \in m .. Len(s) : s[i] \in Symbols
    BY <1>1, <1>2, ElementOfSeq
  <2>2. \A i \in 1 .. Len(s) - m + 1 : SubSeq(s, m, Len(s))[i] = s[m + i - 1]
    <3>1. PICK z \in Nat : z = Len(s)
      BY <1>1
    <3>2. m \in Int /\ z \in Int /\ \A i \in m .. z : s[i] \in Symbols
      BY <1>2, <2>1, <3>1
    <3>3. \A i \in 1 .. z - m + 1 : SubSeq(s, m, z)[i] = s[m + i - 1]
      BY <3>2, SubSeqProperties
    <3> QED BY <3>1, <3>3
  <2>3. 1 \in 1 .. Len(s) - m + 1 /\ m + 1 - 1 = m
    BY <1>1, <1>2, <1>3
  <2> QED BY <2>2, <2>3
<1>5. m \in DOMAIN s
  BY <1>1, <1>2, <1>3
<1> QED BY <1>2, <1>4, <1>5 DEF Has

(* The pieces of a paragraph that is cut: piece j holds the characters of   *)
(* its window.                                                              *)
LEMMA PieceParts ==
  ASSUME size \in Nat \ {0}, over \in Nat, over < size, NEW p \in Seq(Symbols)
  PROVE  LET step == size - over IN
         /\ Pieces(p) \in Seq(Seq(Symbols))
         /\ step \in Nat \ {0}
         /\ DOMAIN Pieces(p) = 1 .. ((Len(p) + step - 1) \div step)
         /\ \A j \in DOMAIN Pieces(p) :
              /\ (j - 1) * step + 1 \in DOMAIN p
              /\ Pieces(p)[j][1] = p[(j - 1) * step + 1]
              /\ \A k \in DOMAIN p :
                   (j - 1) * step < k /\ k <= (j - 1) * step + size => Has(Pieces(p)[j], p[k])
<1> DEFINE step == size - over
           n == (Len(p) + step - 1) \div step
<1>1. step \in Nat \ {0} /\ Len(p) \in Nat /\ DOMAIN p = 1 .. Len(p)
  BY LenProperties
<1>2. Pieces(p) = [j \in 1 .. n |-> SubSeq(p, (j - 1) * step + 1, Least((j - 1) * step + size, Len(p)))]
  BY DEF Pieces
<1>3. Pieces(p) \in Seq(Seq(Symbols))
  BY PiecesFit DEF Fitting
<1>4. \A j \in 1 .. n : (j - 1) * step < Len(p)
  BY <1>1, WindowInside
<1>5. n \in Nat
  BY <1>1, DivBounds
<1> HIDE DEF n, step
<1>6. ASSUME NEW j \in 1 .. n
      PROVE  /\ (j - 1) * step + 1 \in DOMAIN p
             /\ Pieces(p)[j][1] = p[(j - 1) * step + 1]
             /\ \A k \in DOMAIN p :
                  (j - 1) * step < k /\ k <= (j - 1) * step + size => Has(Pieces(p)[j], p[k])
  <2> DEFINE b == (j - 1) * step
             e == Least(b + size, Len(p))
             q == SubSeq(p, b + 1, e)
  <2>1. b \in Nat /\ b < Len(p)
    BY <1>1, <1>4, <1>5
  <2>2. Pieces(p)[j] = q
    BY <1>2
  <2> HIDE DEF b
  <2>3. e \in Nat /\ e <= Len(p) /\ b < e
        /\ \A k \in 1 .. Len(p) : k <= b + size => k <= e
    BY <1>1, <2>1 DEF Least
  <2> HIDE DEF e
  <2>4. \A i \in b + 1 .. e : p[i] \in Symbols
    <3> TAKE i \in b + 1 .. e
    <3>1. i \in 1 .. Len(p)
      BY <1>1, <2>1, <2>3
    <3> QED BY <3>1, ElementOfSeq
  <2>5. /\ q \in Seq(Symbols) /\ Len(q) = e - b
        /\ \A i \in 1 .. e - (b + 1) + 1 : q[i] = p[(b + 1) + i - 1]
    BY <2>1, <2>3, <2>4, SubSeqProperties
  <2>6. DOMAIN q = 1 .. e - b
    BY <2>5, LenProperties
  <2> HIDE DEF q
  <2>7. \A i \in 1 .. e - b : q[i] = p[b + i]
    <3> SUFFICES ASSUME NEW i \in 1 .. e - b PROVE q[i] = p[b + i]
      OBVIOUS
    <3>1. b \in Nat /\ e \in Nat
      BY <2>1, <2>3
    <3>2. i \in 1 .. e - (b + 1) + 1 /\ (b + 1) + i - 1 = b + i
      BY <3>1
    <3> QED BY <2>5, <3>2
  <2>8. \A k \in 1 .. Len(p) : b < k /\ k <= b + size => Has(q, p[k])
    <3> SUFFICES ASSUME NEW k \in 1 .. Len(p), b < k, k <= b + size PROVE Has(q, p[k])
      OBVIOUS
    <3>1. k - b \in 1 .. e - b /\ b + (k - b) = k
      BY <1>1, <2>1, <2>3
    <3>2. q[k - b] = p[k]
      BY <2>7, <3>1
    <3> QED BY <2>6, <3>1, <3>2 DEF Has
  <2>9. 1 \in 1 .. e - b /\ b + 1 \in 1 .. Len(p)
    BY <1>1, <2>1, <2>3
  <2>10. q[1] = p[b + 1]
    BY <2>7, <2>9
  <2> QED BY <1>1, <2>2, <2>8, <2>9, <2>10 DEF b
<1>7. DOMAIN Pieces(p) = 1 .. n
  BY <1>2
<1> QED BY <1>1, <1>3, <1>6, <1>7 DEF n, step

-----------------------------------------------------------------------------
(* A character is kept when it is in a chunk or in the one under construction. *)
Kept(x) == In(chunks, x) \/ (pc # "done" /\ Has(buf, x))

KeptInv ==
  /\ IInv
  /\ over < size => \A i \in 1 .. next - 1 : \A k \in DOMAIN paragraphs[i] : Kept(paragraphs[i][k])
  /\ pc = "done" => next = Len(paragraphs) + 1

LEMMA PendingParts ==
  ASSUME buf \in Seq(Symbols)
  PROVE  Pending \in Seq(Seq(Symbols)) /\ \A x : Has(buf, x) => In(Pending, x)
<1>1. CASE buf = <<>>
  BY <1>1 DEF Pending, Has
<1>2. CASE buf # <<>>
  <2>1. Pending = <<buf>>
    BY <1>2 DEF Pending
  <2>2. 1 \in DOMAIN <<buf>> /\ <<buf>>[1] = buf /\ <<buf>> \in Seq(Seq(Symbols))
    OBVIOUS
  <2> QED BY <2>1, <2>2 DEF In
<1> QED BY <1>1, <1>2

(* Cutting a paragraph loses none of it: each character is in the piece of  *)
(* its window, as windows are at least as long as the step between them.    *)
LEMMA PiecesKeep ==
  ASSUME size \in Nat \ {0}, over \in Nat, over < size, NEW p \in Seq(Symbols),
         NEW k \in DOMAIN p
  PROVE  In(Pieces(p), p[k])
<1> DEFINE step == size - over
           n == (Len(p) + step - 1) \div step
<1>1. /\ step \in Nat \ {0} /\ DOMAIN Pieces(p) = 1 .. n
      /\ \A j \in DOMAIN Pieces(p) :
           \A i \in DOMAIN p :
             (j - 1) * step < i /\ i <= (j - 1) * step + size => Has(Pieces(p)[j], p[i])
  BY PieceParts
<1>2. Len(p) \in Nat /\ k \in 1 .. Len(p)
  BY LenProperties
<1>3. PICK j \in 1 .. n : (j - 1) * step < k /\ k <= j * step
  BY <1>1, <1>2, WindowOf
<1>4. step <= size
  OBVIOUS
<1>5. n \in Nat
  BY <1>1, <1>2, DivBounds
<1> HIDE DEF step, n
<1>6. j * step = (j - 1) * step + step /\ (j - 1) * step \in Nat
  BY <1>1, <1>3, <1>5
<1>7. k <= (j - 1) * step + size
  BY <1>1, <1>2, <1>3, <1>4, <1>6
<1> QED BY <1>1, <1>3, <1>7 DEF In

LEMMA KeptInit == Init => KeptInv
<1> SUFFICES ASSUME Init PROVE KeptInv
  OBVIOUS
<1>1. next - 1 = 0 /\ pc # "done"
  BY DEF Init
<1> QED BY <1>1, FitInit DEF KeptInv

(* A turn that takes the next paragraph. *)
LEMMA KeptTurn ==
  ASSUME KeptInv, IInv', UNCHANGED arguments, next' = next + 1, pc # "done", pc' = pc,
         over < size => \A x : Kept(x) \/ Has(para, x) => Kept(x)'
  PROVE  KeptInv'
<1>1. /\ next \in Nat /\ pc' # "done" /\ over' = over /\ size' = size /\ paragraphs' = paragraphs
  BY LenProperties DEF arguments, KeptInv, IInv, TypeOK
<1>2. ASSUME over < size, NEW i \in 1 .. (next + 1) - 1, NEW k \in DOMAIN paragraphs[i]
      PROVE  Kept(paragraphs[i][k])'
  <2>1. PICK x : x = paragraphs[i][k]
    OBVIOUS
  <2>2. x = paragraphs'[i][k]
    BY <1>1, <2>1
  <2>3. Kept(x) \/ Has(para, x)
    <3>1. CASE i \in 1 .. next - 1
      BY <1>2, <2>1, <3>1 DEF KeptInv
    <3>2. CASE i = next
      BY <1>2, <2>1, <3>2 DEF para, Has
    <3> QED BY <1>1, <1>2, <3>1, <3>2
  <2> QED BY <1>2, <2>2, <2>3
<1> QED BY <1>1, <1>2 DEF KeptInv

LEMMA KeptStep == KeptInv /\ [Next]_vars => KeptInv'
<1> SUFFICES ASSUME KeptInv, [Next]_vars PROVE KeptInv'
  OBVIOUS
<1>0. /\ IInv /\ IInv' /\ TypeOK
      /\ chunks \in Seq(Seq(Symbols)) /\ buf \in Seq(Symbols)
      /\ size \in Nat \ {0} /\ over \in Nat
      /\ Pending \in Seq(Seq(Symbols))
  <2>1. IInv /\ IInv'
    BY FitStep DEF KeptInv
  <2>2. TypeOK
    BY <2>1 DEF IInv
  <2> QED BY <2>1, <2>2, PendingParts, ChunkingAssumption DEF TypeOK
<1>1. CASE HardSplit
  <2>1. CASE over = size
    BY <1>0, <1>1, <2>1 DEF HardSplit, Turn, arguments, KeptInv, Kept
  <2>2. CASE over # size
    <3>1. /\ chunks' = chunks \o Pending \o Pieces(para) /\ buf' = <<>> /\ next' = next + 1
          /\ UNCHANGED <<arguments, pc>> /\ pc = "loop" /\ Turn
      BY <1>1, <2>2 DEF HardSplit, Turn
    <3>2. ASSUME over < size, NEW x, Kept(x) \/ Has(para, x) PROVE Kept(x)'
      <4>1. para \in Seq(Symbols) /\ Pieces(para) \in Seq(Seq(Symbols))
        BY <1>0, <3>1, <3>2, TurnFacts, PieceParts
      <4>2. chunks \o Pending \in Seq(Seq(Symbols))
        BY <1>0, ConcatParts
      <4>3. CASE In(chunks, x) \/ Has(buf, x)
        <5>1. In(chunks \o Pending, x)
          BY <1>0, <4>3, InConcat, PendingParts
        <5>2. In(chunks', x)
          BY <3>1, <4>1, <4>2, <5>1, InConcat
        <5> QED BY <5>2 DEF Kept
      <4>4. CASE Has(para, x)
        <5>1. In(Pieces(para), x)
          BY <1>0, <3>2, <4>1, <4>4, PiecesKeep DEF Has
        <5>2. In(chunks', x)
          BY <3>1, <4>1, <4>2, <5>1, InConcat
        <5> QED BY <5>2 DEF Kept
      <4> QED BY <3>2, <4>3, <4>4 DEF Kept
    <3> QED BY <1>0, <3>1, <3>2, KeptTurn
  <2> QED BY <2>1, <2>2
<1>2. CASE Accumulate
  <2>1. /\ buf' = Joined(buf, para) /\ next' = next + 1 /\ chunks' = chunks
        /\ UNCHANGED <<arguments, pc>> /\ pc = "loop" /\ Turn
    BY <1>2 DEF Accumulate, Turn
  <2>2. ASSUME NEW x, Kept(x) \/ Has(para, x) PROVE Kept(x)'
    <3>1. Has(buf, x) \/ Has(para, x) => Has(buf', x)
      BY <1>0, <2>1, TurnFacts, JoinedParts
    <3> QED BY <2>1, <2>2, <3>1 DEF Kept
  <2> QED BY <1>0, <2>1, <2>2, KeptTurn
<1>3. CASE StartChunk
  <2>1. PICK k \in Nat :
        /\ buf' = Joined(LastOf(buf, k), para) /\ next' = next + 1 /\ chunks' = Append(chunks, buf)
        /\ UNCHANGED <<arguments, pc>> /\ pc = "loop" /\ Turn
    <3> DEFINE room == IF size >= Len(para) + 2 THEN size - Len(para) - 2 ELSE 0
    <3>1. Least(over, room) \in Nat
      BY <1>0, <1>3, TurnFacts DEF StartChunk, Least
    <3> QED BY <1>3, <3>1 DEF StartChunk, Turn
  <2>2. ASSUME NEW x, Kept(x) \/ Has(para, x) PROVE Kept(x)'
    <3>1. para \in Seq(Symbols) /\ LastOf(buf, k) \in Seq(Symbols)
      BY <1>0, <2>1, TurnFacts, LastOfFits
    <3>2. Has(para, x) => Has(buf', x)
      BY <2>1, <3>1, JoinedParts
    <3>3. /\ chunks' = chunks \o <<buf>> /\ <<buf>> \in Seq(Seq(Symbols))
          /\ (Has(buf, x) => In(<<buf>>, x))
      <4>1. 1 \in DOMAIN <<buf>> /\ <<buf>>[1] = buf
        OBVIOUS
      <4> QED BY <1>0, <2>1, <4>1, AppendIsConcat DEF In
    <3>4. In(chunks, x) \/ Has(buf, x) => In(chunks', x)
      BY <1>0, <3>3, InConcat
    <3> QED BY <2>1, <2>2, <3>2, <3>4 DEF Kept
  <2> QED BY <1>0, <2>1, <2>2, KeptTurn
<1>4. CASE Finish
  <2>1. /\ chunks' = chunks \o Pending /\ pc' = "done" /\ pc = "loop" /\ next > Len(paragraphs)
        /\ UNCHANGED <<arguments, next, buf>>
    BY <1>4 DEF Finish
  <2>2. next = Len(paragraphs) + 1
    BY <1>0, <2>1, LenProperties DEF TypeOK
  <2>3. ASSUME NEW x, Kept(x) PROVE Kept(x)'
    BY <1>0, <2>1, <2>3, InConcat, PendingParts DEF Kept
  <2>4. paragraphs' = paragraphs /\ next' = next /\ over' = over /\ size' = size
    BY <2>1 DEF arguments
  <2>5. ASSUME over < size, NEW i \in 1 .. next - 1, NEW k \in DOMAIN paragraphs[i]
        PROVE  Kept(paragraphs[i][k])'
    <3>1. PICK x : x = paragraphs[i][k]
      OBVIOUS
    <3>2. Kept(x)'
      BY <2>3, <2>5, <3>1 DEF KeptInv
    <3> QED BY <2>4, <3>1, <3>2
  <2> QED BY <1>0, <2>1, <2>2, <2>4, <2>5 DEF KeptInv
<1>5. CASE UNCHANGED vars
  BY <1>0, <1>5 DEF vars, KeptInv, Kept
<1> QED BY <1>1, <1>2, <1>3, <1>4, <1>5 DEF Next

(* When chunk_text returns, every character of the document is in a chunk,  *)
(* provided the overlap is smaller than the size (chunking.py:27-54): what  *)
(* a hard split flushes, what the windows cut and what the tail repeats     *)
(* leave nothing out.                                                       *)
THEOREM NothingIsLost == Spec => []NothingLost
<1>1. Init => KeptInv
  BY KeptInit
<1>2. KeptInv /\ [Next]_vars => KeptInv'
  BY KeptStep
<1>3. KeptInv => NothingLost
  <2> SUFFICES ASSUME KeptInv, pc = "done", over < size,
                      NEW i \in DOMAIN paragraphs, NEW k \in DOMAIN paragraphs[i]
               PROVE  \E c \in DOMAIN chunks : Holds(c, paragraphs[i][k])
    BY DEF NothingLost
  <2>1. i \in 1 .. next - 1
    BY LenProperties DEF KeptInv, IInv, TypeOK
  <2>2. In(chunks, paragraphs[i][k])
    BY <2>1 DEF KeptInv, Kept
  <2> QED BY <2>2 DEF In, Has, Holds
<1> QED BY <1>1, <1>2, <1>3, PTL DEF Spec

-----------------------------------------------------------------------------
(* The start of a paragraph or of the text owes nothing to the chunk before. *)
Fresh(s) == s = <<>> \/ s[1] = NewLine \/ Begins(s[1])

LinkedTo(cs, s) == Fresh(s) \/ (cs # <<>> /\ Has(cs[Len(cs)], s[1]))
Linked(cs) == \A c \in 2 .. Len(cs) : Fresh(cs[c]) \/ Has(cs[c - 1], cs[c][1])

(* Every chunk repeats a character of the one before it, and the chunk under *)
(* construction one of the last, unless it is at the start of a paragraph.   *)
LinkInv ==
  /\ IInv
  /\ over \in 1 .. size - 1 =>
       /\ Linked(chunks)
       /\ pc = "loop" => LinkedTo(chunks, buf)

LEMMA LinkedConcat ==
  ASSUME NEW cs \in Seq(Seq(Symbols)), NEW ds \in Seq(Seq(Symbols)),
         Linked(cs), Linked(ds), ds = <<>> \/ LinkedTo(cs, ds[1])
  PROVE  Linked(cs \o ds)
<1>1. /\ \A i \in 1 .. Len(cs) : (cs \o ds)[i] = cs[i]
      /\ \A i \in 1 .. Len(ds) : (cs \o ds)[Len(cs) + i] = ds[i]
      /\ Len(cs) \in Nat /\ Len(ds) \in Nat /\ Len(cs \o ds) = Len(cs) + Len(ds)
  BY ConcatParts
<1>2. SUFFICES ASSUME NEW c \in 2 .. Len(cs) + Len(ds)
               PROVE  Fresh((cs \o ds)[c]) \/ Has((cs \o ds)[c - 1], (cs \o ds)[c][1])
  BY <1>1 DEF Linked
<1>3. CASE c <= Len(cs)
  <2>1. c \in 2 .. Len(cs) /\ (cs \o ds)[c] = cs[c] /\ (cs \o ds)[c - 1] = cs[c - 1]
    BY <1>1, <1>2, <1>3
  <2> QED BY <2>1 DEF Linked
<1>4. CASE c = Len(cs) + 1
  <2>1. (cs \o ds)[c] = ds[1] /\ (cs # <<>> => (cs \o ds)[c - 1] = cs[Len(cs)]) /\ ds # <<>>
    <3>1. 1 \in 1 .. Len(ds) /\ ds # <<>>
      BY <1>1, <1>2, <1>4, EmptySeq
    <3>2. (cs \o ds)[c] = ds[1]
      BY <1>1, <1>4, <3>1
    <3>3. Len(cs) \in 1 .. Len(cs) /\ c - 1 = Len(cs)
      BY <1>1, <1>2, <1>4
    <3> QED BY <1>1, <3>1, <3>2, <3>3
  <2> QED BY <2>1 DEF LinkedTo
<1>5. CASE c > Len(cs) + 1
  <2> DEFINE i == c - Len(cs)
  <2>1. /\ i \in 2 .. Len(ds) /\ i - 1 \in 1 .. Len(ds)
        /\ Len(cs) + i = c /\ Len(cs) + (i - 1) = c - 1
    BY <1>1, <1>2, <1>5
  <2> HIDE DEF i
  <2>2. (cs \o ds)[c] = ds[i] /\ (cs \o ds)[c - 1] = ds[i - 1]
    <3>1. i \in 1 .. Len(ds)
      BY <1>1, <2>1
    <3> QED BY <1>1, <2>1, <3>1
  <2> QED BY <2>1, <2>2 DEF Linked
<1>6. c <= Len(cs) \/ c = Len(cs) + 1 \/ c > Len(cs) + 1
  BY <1>1, <1>2
<1> QED BY <1>3, <1>4, <1>5, <1>6

(* The chunk under construction is linked when it is closed. *)
LEMMA LinkedPending ==
  ASSUME NEW cs \in Seq(Seq(Symbols)), buf \in Seq(Symbols), Linked(cs), LinkedTo(cs, buf)
  PROVE  Linked(cs \o <<buf>>) /\ Linked(cs \o Pending)
<1>1. /\ <<buf>> \in Seq(Seq(Symbols)) /\ <<buf>>[1] = buf /\ Len(<<buf>>) = 1
  OBVIOUS
<1>2. Linked(<<buf>>) /\ Linked(<<>>)
  BY <1>1 DEF Linked
<1>3. Linked(cs \o <<buf>>)
  BY <1>1, <1>2, LinkedConcat
<1>4. <<>> \in Seq(Seq(Symbols))
  OBVIOUS
<1>5. Linked(cs \o <<>>)
  BY <1>2, <1>4, LinkedConcat
<1> QED BY <1>3, <1>5 DEF Pending

LEMMA ParaBegins ==
  ASSUME TypeOK, Turn
  PROVE  Begins(para[1])
<1>1. next \in DOMAIN paragraphs
  BY LenProperties DEF Turn, TypeOK
<1> QED BY <1>1 DEF Begins, para

(* A window begins within the one before it, which is longer than the step.  *)
LEMMA PiecesLink ==
  ASSUME TypeOK, Turn, over \in 1 .. size - 1
  PROVE  Linked(Pieces(para)) /\ (Pieces(para) = <<>> \/ Fresh(Pieces(para)[1]))
<1> DEFINE step == size - over
           n == (Len(para) + step - 1) \div step
<1>1. size \in Nat \ {0} /\ over \in Nat /\ over < size /\ para \in Seq(Symbols)
  BY TurnFacts
<1>2. /\ step \in Nat \ {0} /\ DOMAIN Pieces(para) = 1 .. n /\ Pieces(para) \in Seq(Seq(Symbols))
      /\ \A j \in DOMAIN Pieces(para) :
           /\ (j - 1) * step + 1 \in DOMAIN para
           /\ Pieces(para)[j][1] = para[(j - 1) * step + 1]
           /\ \A k \in DOMAIN para :
                (j - 1) * step < k /\ k <= (j - 1) * step + size => Has(Pieces(para)[j], para[k])
  BY <1>1, PieceParts
<1>3. Len(Pieces(para)) = n /\ n \in Nat /\ step + 1 <= size /\ Len(para) \in Nat
      /\ DOMAIN para = 1 .. Len(para)
  <2>1. Len(para) \in Nat /\ DOMAIN para = 1 .. Len(para)
    BY <1>1, LenProperties
  <2>2. n \in Nat
    BY <1>2, <2>1, DivBounds
  <2> HIDE DEF n
  <2>3. Len(Pieces(para)) = n
    BY <1>2, <2>2, LenProperties
  <2> QED BY <1>1, <2>1, <2>2, <2>3
<1> HIDE DEF step, n
<1>4. ASSUME NEW c \in 2 .. n PROVE Has(Pieces(para)[c - 1], Pieces(para)[c][1])
  <2>1. c \in 1 .. n /\ c - 1 \in 1 .. n
    BY <1>3
  <2> DEFINE k == (c - 1) * step + 1
  <2>2. k \in DOMAIN para /\ Pieces(para)[c][1] = para[k]
    BY <1>2, <2>1
  <2>3. ((c - 1) - 1) * step \in Nat /\ (c - 1) * step = ((c - 1) - 1) * step + step
    BY <1>2, <1>3
  <2>4. ((c - 1) - 1) * step < k /\ k <= ((c - 1) - 1) * step + size
    BY <1>1, <1>2, <1>3, <2>3
  <2> HIDE DEF k
  <2> QED BY <1>2, <2>1, <2>2, <2>4
<1>5. Pieces(para) = <<>> \/ Fresh(Pieces(para)[1])
  <2>1. CASE n = 0
    BY <1>2, <1>3, <2>1, EmptySeq
  <2>2. CASE n # 0
    <3>1. 1 \in 1 .. n /\ (1 - 1) * step + 1 = 1
      BY <1>2, <1>3, <2>2
    <3>2. Pieces(para)[1][1] = para[1]
      BY <1>2, <3>1
    <3>3. Begins(para[1])
      BY ParaBegins
    <3> QED BY <3>2, <3>3 DEF Fresh
  <2> QED BY <2>1, <2>2
<1> QED BY <1>3, <1>4, <1>5 DEF Linked

(* What a step leaves, when it leaves the paragraphs. *)
LEMMA LinkTurn ==
  ASSUME IInv', UNCHANGED arguments, NEW cs, NEW s, chunks' = cs, buf' = s,
         over \in 1 .. size - 1 => Linked(cs) /\ (pc' = "loop" => LinkedTo(cs, s))
  PROVE  LinkInv'
<1>1. paragraphs' = paragraphs /\ over' = over /\ size' = size
  BY DEF arguments
<1>2. \A t : Fresh(t) => Fresh(t)'
  BY <1>1 DEF Fresh, Begins
<1>3. Linked(cs) => Linked(cs)'
  BY <1>2 DEF Linked
<1>4. LinkedTo(cs, s) => LinkedTo(cs, s)'
  BY <1>2 DEF LinkedTo
<1>5. Linked(chunks)' <=> Linked(cs)'
  BY DEF Linked, Fresh, Begins
<1>6. LinkedTo(chunks, buf)' <=> LinkedTo(cs, s)'
  BY DEF LinkedTo, Fresh, Begins
<1> QED BY <1>1, <1>3, <1>4, <1>5, <1>6 DEF LinkInv

LEMMA LinkInit == Init => LinkInv
BY FitInit DEF Init, LinkInv, Linked, LinkedTo, Fresh

LEMMA LinkStep == LinkInv /\ [Next]_vars => LinkInv'
<1> SUFFICES ASSUME LinkInv, [Next]_vars PROVE LinkInv'
  OBVIOUS
<1>0. /\ IInv /\ IInv' /\ TypeOK
      /\ chunks \in Seq(Seq(Symbols)) /\ buf \in Seq(Symbols)
      /\ size \in Nat \ {0} /\ over \in Nat
      /\ Pending \in Seq(Seq(Symbols))
  <2>1. IInv /\ IInv'
    BY FitStep DEF LinkInv
  <2>2. TypeOK
    BY <2>1 DEF IInv
  <2> QED BY <2>1, <2>2, PendingParts, ChunkingAssumption DEF TypeOK
<1>1. CASE HardSplit
  <2>1. CASE over = size
    BY <1>0, <1>1, <2>1, LinkTurn DEF HardSplit, arguments
  <2>2. CASE over # size
    <3>1. /\ chunks' = (chunks \o Pending) \o Pieces(para) /\ buf' = <<>>
          /\ UNCHANGED <<arguments, pc>> /\ pc = "loop" /\ Turn
      BY <1>1, <2>2 DEF HardSplit, Turn
    <3>2. ASSUME over \in 1 .. size - 1
          PROVE  Linked((chunks \o Pending) \o Pieces(para)) /\ LinkedTo(chunks', <<>>)
      <4>1. Linked(chunks \o Pending) /\ chunks \o Pending \in Seq(Seq(Symbols))
        BY <1>0, <3>1, <3>2, LinkedPending, ConcatParts DEF LinkInv
      <4>2. over < size /\ para \in Seq(Symbols)
        BY <1>0, <3>1, <3>2, TurnFacts
      <4>3. Pieces(para) \in Seq(Seq(Symbols))
        BY <1>0, <4>2, PieceParts
      <4>4. Linked(Pieces(para)) /\ (Pieces(para) = <<>> \/ Fresh(Pieces(para)[1]))
        BY <1>0, <3>1, <3>2, PiecesLink
      <4> QED BY <4>1, <4>3, <4>4, LinkedConcat DEF LinkedTo, Fresh
    <3> QED BY <1>0, <3>1, <3>2, LinkTurn
  <2> QED BY <2>1, <2>2
<1>2. CASE Accumulate
  <2>1. /\ buf' = Joined(buf, para) /\ chunks' = chunks
        /\ UNCHANGED <<arguments, pc>> /\ pc = "loop" /\ Turn
    BY <1>2 DEF Accumulate, Turn
  <2>2. ASSUME over \in 1 .. size - 1
        PROVE  Linked(chunks) /\ LinkedTo(chunks, Joined(buf, para))
    <3>1. Linked(chunks) /\ LinkedTo(chunks, buf)
      BY <2>1, <2>2 DEF LinkInv
    <3>2. para \in Seq(Symbols) /\ Begins(para[1])
      BY <1>0, <2>1, TurnFacts, ParaBegins
    <3>3. CASE buf = <<>>
      BY <3>1, <3>2, <3>3 DEF Joined, LinkedTo, Fresh
    <3>4. CASE buf # <<>>
      <4>1. Joined(buf, para)[1] = buf[1]
        BY <1>0, <3>2, <3>4, JoinedParts
      <4> QED BY <3>1, <3>4, <4>1 DEF LinkedTo, Fresh
    <3> QED BY <3>3, <3>4
  <2> QED BY <1>0, <2>1, <2>2, LinkTurn
<1>3. CASE StartChunk
  <2>1. PICK k \in Nat :
        /\ buf' = Joined(LastOf(buf, k), para) /\ chunks' = Append(chunks, buf)
        /\ UNCHANGED <<arguments, pc>> /\ pc = "loop" /\ Turn
    <3> DEFINE room == IF size >= Len(para) + 2 THEN size - Len(para) - 2 ELSE 0
    <3>1. Least(over, room) \in Nat
      BY <1>0, <1>3, TurnFacts DEF StartChunk, Least
    <3> QED BY <1>3, <3>1 DEF StartChunk, Turn
  <2> DEFINE tail == LastOf(buf, k)
  <2>2. chunks' = chunks \o <<buf>>
    BY <1>0, <2>1, AppendIsConcat
  <2>3. ASSUME over \in 1 .. size - 1
        PROVE  Linked(chunks \o <<buf>>) /\ LinkedTo(chunks \o <<buf>>, Joined(tail, para))
    <3>1. Linked(chunks \o <<buf>>)
      BY <1>0, <2>1, <2>3, LinkedPending DEF LinkInv
    <3>2. para \in Seq(Symbols) /\ Begins(para[1]) /\ tail \in Seq(Symbols)
      <4>1. para \in Seq(Symbols) /\ Begins(para[1])
        BY <1>0, <2>1, TurnFacts, ParaBegins
      <4> QED BY <1>0, <4>1, LastOfFits
    <3>3. CASE tail = <<>>
      BY <3>1, <3>2, <3>3 DEF Joined, LinkedTo, Fresh
    <3>4. CASE tail # <<>>
      <4>1. Joined(tail, para)[1] = tail[1]
        BY <3>2, <3>4, JoinedParts
      <4>2. Has(buf, tail[1])
        BY <1>0, <3>4, LastOfParts
      <4>3. Append(chunks, buf) # <<>> /\ Append(chunks, buf)[Len(Append(chunks, buf))] = buf
        <5> DEFINE cs == Append(chunks, buf)
        <5>1. Len(chunks) \in Nat
          BY <1>0, LenProperties
        <5>2. Len(cs) = Len(chunks) + 1 /\ cs[Len(chunks) + 1] = buf /\ cs \in Seq(Seq(Symbols))
          BY <1>0, AppendProperties
        <5> HIDE DEF cs
        <5>3. cs # <<>> /\ cs[Len(cs)] = buf
          BY <5>1, <5>2, EmptySeq
        <5> QED BY <5>3 DEF cs
      <4>4. chunks \o <<buf>> = Append(chunks, buf)
        BY <2>1, <2>2
      <4> QED BY <3>1, <4>1, <4>2, <4>3, <4>4 DEF LinkedTo
    <3> QED BY <3>3, <3>4
  <2> QED BY <1>0, <2>1, <2>2, <2>3, LinkTurn
<1>4. CASE Finish
  <2>1. /\ chunks' = chunks \o Pending /\ pc' = "done" /\ pc = "loop" /\ UNCHANGED <<arguments, buf>>
    BY <1>4 DEF Finish
  <2>2. over \in 1 .. size - 1 => Linked(chunks \o Pending)
    BY <1>0, <2>1, LinkedPending DEF LinkInv
  <2> QED BY <1>0, <2>1, <2>2, LinkTurn
<1>5. CASE UNCHANGED vars
  BY <1>0, <1>5, LinkTurn DEF vars, arguments, LinkInv
<1> QED BY <1>1, <1>2, <1>3, <1>4, <1>5 DEF Next

(* A chunk that begins inside a paragraph repeats a character of the chunk   *)
(* before it, for every overlap of at least one character that is smaller    *)
(* than the size (chunking.py:4-5 and 27-54).                                *)
THEOREM CutsAlwaysOverlap == Spec => []CutsOverlap
<1>1. Init => LinkInv
  BY LinkInit
<1>2. LinkInv /\ [Next]_vars => LinkInv'
  BY LinkStep
<1>3. LinkInv => CutsOverlap
  BY DEF LinkInv, Linked, Fresh, Has, Holds, CutsOverlap
<1> QED BY <1>1, <1>2, <1>3, PTL DEF Spec

-----------------------------------------------------------------------------
(* Induction over the paragraphs, by a least counterexample.                 *)
LEMMA NatMin ==
  ASSUME NEW S, S \subseteq Nat, S # {}
  PROVE  \E m \in S : \A k \in S : m <= k
<1> DEFINE R == {ss \in Nat \X Nat : ss[1] < ss[2]}
<1>1. IsWellFoundedOn(R, Nat)
  BY NatLessThanWellFounded DEF OpToRel
<1> HIDE DEF R
<1>2. PICK m \in S : \A k \in S : ~(<<k, m>> \in R)
  BY <1>1, WFMin
<1>3. \A k \in S : ~(k < m)
  BY <1>2 DEF R
<1> QED BY <1>3

(* A function whose values up to m obey the recursion of UpTo. *)
Obeys(u, m) ==
  u = [n \in 0 .. m |-> IF n = 0 THEN <<>> ELSE Joined(u[n - 1], paragraphs[n])]

LEMMA UpToExists ==
  ASSUME NEW l \in Nat
  PROVE  \E u : Obeys(u, l)
<1> DEFINE S == {m \in Nat : ~ \E u : Obeys(u, m)}
<1> SUFFICES ASSUME S # {} PROVE FALSE
  OBVIOUS
<1>1. PICK m \in S : \A k \in S : m <= k
  BY NatMin
<1>2. m \in Nat /\ ~ \E u : Obeys(u, m)
  OBVIOUS
<1>3. m # 0
  <2> DEFINE u == [n \in 0 .. 0 |-> <<>>]
  <2>1. Obeys(u, 0)
    BY DEF Obeys
  <2> QED BY <1>2, <2>1
<1>4. PICK v : Obeys(v, m - 1)
  <2>1. m - 1 \in Nat /\ m - 1 \notin S
    BY <1>1, <1>2, <1>3
  <2> QED BY <2>1
<1> DEFINE w == [n \in 0 .. m |-> IF n = m THEN Joined(v[m - 1], paragraphs[m]) ELSE v[n]]
<1>5. \A n \in 0 .. m : w[n] = IF n = 0 THEN <<>> ELSE Joined(w[n - 1], paragraphs[n])
  <2> TAKE n \in 0 .. m
  <2>0. \A k \in 0 .. m - 1 : v[k] = IF k = 0 THEN <<>> ELSE Joined(v[k - 1], paragraphs[k])
    BY <1>4 DEF Obeys
  <2>1. CASE n = m
    <3>1. n - 1 \in 0 .. m /\ n - 1 # m /\ n \in 0 .. m
      BY <1>2, <1>3, <2>1
    <3>2. w[n - 1] = v[n - 1] /\ w[n] = Joined(v[m - 1], paragraphs[m])
      BY <2>1, <3>1
    <3> QED BY <1>3, <2>1, <3>2
  <2>2. CASE n # m
    <3>1. n \in 0 .. m - 1 /\ w[n] = v[n]
      BY <1>2, <2>2
    <3>2. n # 0 => w[n - 1] = v[n - 1]
      <4>1. n # 0 => n - 1 \in 0 .. m /\ n - 1 # m
        BY <1>2, <3>1
      <4> QED BY <4>1
    <3> QED BY <2>0, <3>1, <3>2
  <2> QED BY <2>1, <2>2
<1>6. DOMAIN w = 0 .. m /\ w = [n \in DOMAIN w |-> w[n]]
  OBVIOUS
<1> HIDE DEF w
<1>7. Obeys(w, m)
  BY <1>5, <1>6 DEF Obeys
<1> QED BY <1>2, <1>7

LEMMA UpToObeys ==
  ASSUME paragraphs \in Seq(Seq(Char))
  PROVE  /\ UpTo[0] = <<>>
         /\ \A n \in 1 .. Len(paragraphs) : UpTo[n] = Joined(UpTo[n - 1], paragraphs[n])
<1>1. Len(paragraphs) \in Nat
  BY LenProperties
<1>2. UpTo = CHOOSE u : Obeys(u, Len(paragraphs))
  BY DEF UpTo, Obeys
<1>3. Obeys(UpTo, Len(paragraphs))
  BY <1>1, <1>2, UpToExists
<1>4. \A n \in 0 .. Len(paragraphs) :
         UpTo[n] = IF n = 0 THEN <<>> ELSE Joined(UpTo[n - 1], paragraphs[n])
  <2>1. PICK u : u = UpTo
    OBVIOUS
  <2>2. \A n \in 0 .. Len(paragraphs) :
           u[n] = IF n = 0 THEN <<>> ELSE Joined(u[n - 1], paragraphs[n])
    BY <1>3, <2>1 DEF Obeys
  <2> QED BY <2>1, <2>2
<1> QED BY <1>1, <1>4

LEMMA UpToText ==
  ASSUME paragraphs \in Seq(Seq(Char)), NEW n \in 0 .. Len(paragraphs)
  PROVE  UpTo[n] \in Seq(Symbols)
<1> DEFINE S == {m \in 0 .. Len(paragraphs) : UpTo[m] \notin Seq(Symbols)}
<1> SUFFICES ASSUME S # {} PROVE FALSE
  OBVIOUS
<1>1. Len(paragraphs) \in Nat /\ S \subseteq Nat
  BY LenProperties
<1>2. PICK m \in S : \A k \in S : m <= k
  BY <1>1, NatMin
<1>3. m # 0
  <2>1. UpTo[0] = <<>> /\ <<>> \in Seq(Symbols)
    BY UpToObeys
  <2> QED BY <2>1, Zenon
<1>4. m \in 1 .. Len(paragraphs) /\ m - 1 \in 0 .. Len(paragraphs) /\ m - 1 \notin S
  BY <1>1, <1>2, <1>3
<1>5. UpTo[m - 1] \in Seq(Symbols)
  BY <1>4
<1>6. paragraphs[m] \in Seq(Symbols)
  <2>1. paragraphs[m] \in Seq(Char)
    BY <1>4, ElementOfSeq
  <2> QED BY <2>1, SeqMonotonic DEF Symbols
<1>7. UpTo[m] \in Seq(Symbols)
  BY <1>4, <1>5, <1>6, UpToObeys, JoinedFits
<1> QED BY <1>2, <1>7

(* s stands in t after its first o characters. *)
At(s, t, o) == o + Len(s) <= Len(t) /\ \A k \in 1 .. Len(s) : s[k] = t[o + k]

Excerpt(s, t) == \E o \in Nat : At(s, t, o)
Ending(s, t) == \E o \in Nat : At(s, t, o) /\ o + Len(s) = Len(t)

LEMMA ConcatAt ==
  ASSUME NEW s \in Seq(Symbols), NEW t \in Seq(Symbols), NEW u, u = s \o t
  PROVE  /\ u \in Seq(Symbols) /\ Len(u) = Len(s) + Len(t)
         /\ Len(s) \in Nat /\ Len(t) \in Nat
         /\ \A k \in 1 .. Len(s) : u[k] = s[k]
         /\ \A k \in 1 .. Len(t) : u[Len(s) + k] = t[k]
<1>1. /\ s \o t \in Seq(Symbols) /\ Len(s \o t) = Len(s) + Len(t)
      /\ Len(s) \in Nat /\ Len(t) \in Nat
      /\ DOMAIN s = 1 .. Len(s) /\ DOMAIN t = 1 .. Len(t)
  BY ConcatParts
<1>2. \A k \in DOMAIN s : (s \o t)[k] = s[k]
  BY ConcatParts
<1>3. \A k \in DOMAIN t : (s \o t)[Len(s) + k] = t[k]
  BY ConcatParts
<1> QED BY <1>1, <1>2, <1>3

LEMMA JoinedAt ==
  ASSUME NEW head \in Seq(Symbols), NEW tail \in Seq(Symbols), head # <<>>
  PROVE  /\ Len(Joined(head, tail)) = Len(head) + 2 + Len(tail)
         /\ \A k \in 1 .. Len(head) : Joined(head, tail)[k] = head[k]
         /\ \A k \in 1 .. 2 : Joined(head, tail)[Len(head) + k] = NewLine
         /\ \A k \in 1 .. Len(tail) : Joined(head, tail)[Len(head) + 2 + k] = tail[k]
<1>1. /\ Separator \in Seq(Symbols) /\ Len(Separator) = 2
      /\ \A k \in 1 .. 2 : Separator[k] = NewLine
  BY DEF Separator, Symbols
<1>2. PICK front : front = head \o Separator
  OBVIOUS
<1>3. /\ front \in Seq(Symbols) /\ Len(front) = Len(head) + 2 /\ Len(head) \in Nat
      /\ \A k \in 1 .. Len(head) : front[k] = head[k]
      /\ \A k \in 1 .. 2 : front[Len(head) + k] = NewLine
  <2>0. Separator \in Seq(Symbols)
    BY <1>1
  <2>1. front \in Seq(Symbols) /\ Len(front) = Len(head) + Len(Separator) /\ Len(head) \in Nat
    BY <1>2, <2>0, ConcatAt
  <2>2. \A k \in 1 .. Len(head) : front[k] = head[k]
    BY <1>2, <2>0, ConcatAt
  <2>3. \A k \in 1 .. Len(Separator) : front[Len(head) + k] = Separator[k]
    BY <1>2, <2>0, ConcatAt
  <2> QED BY <1>1, <2>1, <2>2, <2>3
<1>4. PICK j : j = front \o tail
  OBVIOUS
<1>0. front \in Seq(Symbols) /\ j = Joined(head, tail)
  BY <1>2, <1>3, <1>4 DEF Joined
<1>5. Len(j) = Len(front) + Len(tail)
  BY <1>0, <1>4, ConcatAt
<1>6. \A k \in 1 .. Len(front) : j[k] = front[k]
  BY <1>0, <1>4, ConcatAt
<1>7. \A k \in 1 .. Len(tail) : j[Len(front) + k] = tail[k]
  BY <1>0, <1>4, ConcatAt
<1>8. \A k \in 1 .. 2 : j[Len(head) + k] = NewLine
  <2>1. \A k \in 1 .. 2 : Len(head) + k \in 1 .. Len(front)
    BY <1>3
  <2> QED BY <1>3, <1>6, <2>1
<1>9. \A k \in 1 .. Len(head) : j[k] = head[k]
  <2>1. \A k \in 1 .. Len(head) : k \in 1 .. Len(front)
    BY <1>3
  <2> QED BY <1>3, <1>6, <2>1
<1> QED BY <1>0, <1>3, <1>5, <1>7, <1>8, <1>9

LEMMA SelfEnding ==
  ASSUME NEW s \in Seq(Symbols)
  PROVE  Ending(s, s) /\ Ending(<<>>, s) /\ Excerpt(<<>>, s)
<1>1. Len(s) \in Nat /\ Len(<<>>) = 0
  BY LenProperties
<1>2. At(s, s, 0) /\ 0 + Len(s) = Len(s)
  BY <1>1 DEF At
<1>3. At(<<>>, s, Len(s)) /\ Len(s) + Len(<<>>) = Len(s)
  BY <1>1 DEF At
<1> QED BY <1>1, <1>2, <1>3 DEF Ending, Excerpt

(* The ends of a text grow with it.  *)
LEMMA EndingJoined ==
  ASSUME NEW s \in Seq(Symbols), NEW t \in Seq(Symbols), NEW p \in Seq(Symbols), Ending(s, t)
  PROVE  Ending(Joined(s, p), Joined(t, p))
<1>0. Len(s) \in Nat /\ Len(t) \in Nat /\ Len(p) \in Nat
  BY LenProperties
<1>1. PICK o \in Nat : At(s, t, o) /\ o + Len(s) = Len(t)
  BY DEF Ending
<1>2. CASE t = <<>>
  <2>1. s = <<>>
    BY <1>0, <1>1, <1>2, EmptySeq
  <2> QED BY <1>2, <2>1, SelfEnding DEF Joined
<1>3. CASE t # <<>> /\ s = <<>>
  <2>1. At(p, Joined(t, p), Len(t) + 2) /\ (Len(t) + 2) + Len(p) = Len(Joined(t, p))
    BY <1>0, <1>3, JoinedAt DEF At
  <2> QED BY <1>0, <1>3, <2>1 DEF Ending, Joined
<1>4. CASE t # <<>> /\ s # <<>>
  <2>1. PICK ls \in Nat, lt \in Nat, lp \in Nat : ls = Len(s) /\ lt = Len(t) /\ lp = Len(p)
    BY <1>0
  <2>2. PICK js, jt : js = Joined(s, p) /\ jt = Joined(t, p)
    OBVIOUS
  <2>3. /\ Len(js) = ls + 2 + lp
        /\ \A k \in 1 .. ls : js[k] = s[k]
        /\ \A k \in 1 .. 2 : js[ls + k] = NewLine
        /\ \A k \in 1 .. lp : js[ls + 2 + k] = p[k]
    BY <1>4, <2>1, <2>2, JoinedAt
  <2>4. /\ Len(jt) = lt + 2 + lp
        /\ \A k \in 1 .. lt : jt[k] = t[k]
        /\ \A k \in 1 .. 2 : jt[lt + k] = NewLine
        /\ \A k \in 1 .. lp : jt[lt + 2 + k] = p[k]
    BY <1>4, <2>1, <2>2, JoinedAt
  <2>5. o + ls = lt /\ \A k \in 1 .. ls : s[k] = t[o + k]
    <3>1. o + Len(s) = Len(t) /\ \A k \in 1 .. Len(s) : s[k] = t[o + k]
      BY <1>1 DEF At
    <3> QED BY <2>1, <3>1, Zenon
  <2>6. \A k \in 1 .. ls + 2 + lp : js[k] = jt[o + k]
    <3> SUFFICES ASSUME NEW k \in 1 .. ls + 2 + lp PROVE js[k] = jt[o + k]
      OBVIOUS
    <3>1. CASE k <= ls
      <4>1. k \in 1 .. ls /\ o + k \in 1 .. lt
        BY <2>5, <3>1
      <4> QED BY <2>3, <2>4, <2>5, <4>1
    <3>2. CASE k > ls /\ k <= ls + 2
      <4>0. o + ls = lt
        BY <2>5
      <4>1. k - ls \in 1 .. 2 /\ ls + (k - ls) = k /\ lt + (k - ls) = o + k
        BY <4>0, <3>2
      <4>2. js[ls + (k - ls)] = NewLine /\ jt[lt + (k - ls)] = NewLine
        BY <2>3, <2>4, <4>1
      <4> QED BY <4>1, <4>2
    <3>3. CASE k > ls + 2
      <4> DEFINE i == k - ls - 2
      <4>1. i \in 1 .. lp /\ ls + 2 + i = k /\ lt + 2 + i = o + k
        BY <2>5, <3>3
      <4> HIDE DEF i
      <4>2. js[ls + 2 + i] = p[i] /\ jt[lt + 2 + i] = p[i]
        BY <2>3, <2>4, <4>1
      <4> QED BY <4>1, <4>2
    <3> QED BY <3>1, <3>2, <3>3
  <2>7. o + (ls + 2 + lp) = lt + 2 + lp /\ o + (ls + 2 + lp) <= lt + 2 + lp
    BY <2>5
  <2>8. At(js, jt, o) /\ o + Len(js) = Len(jt)
    BY <2>3, <2>4, <2>6, <2>7 DEF At
  <2> QED BY <2>2, <2>8 DEF Ending
<1> QED BY <1>2, <1>3, <1>4

LEMMA EndingIsExcerpt ==
  ASSUME NEW s, NEW t, Ending(s, t)
  PROVE  Excerpt(s, t)
BY DEF Ending, Excerpt

(* An excerpt of an excerpt, and of the end of a text. *)
LEMMA ExcerptTrans ==
  ASSUME NEW s \in Seq(Symbols), NEW t \in Seq(Symbols), NEW u \in Seq(Symbols),
         Excerpt(s, t), Excerpt(t, u)
  PROVE  Excerpt(s, u)
<1>0. Len(s) \in Nat /\ Len(t) \in Nat /\ Len(u) \in Nat
  BY LenProperties
<1>1. PICK o \in Nat : At(s, t, o)
  BY DEF Excerpt
<1>2. PICK q \in Nat : At(t, u, q)
  BY DEF Excerpt
<1>3. \A k \in 1 .. Len(s) : o + k \in 1 .. Len(t) /\ q + (o + k) = (q + o) + k
  BY <1>0, <1>1 DEF At
<1>4. At(s, u, q + o)
  BY <1>0, <1>1, <1>2, <1>3 DEF At
<1> QED BY <1>4 DEF Excerpt

LEMMA EndingTrans ==
  ASSUME NEW s \in Seq(Symbols), NEW t \in Seq(Symbols), NEW u \in Seq(Symbols),
         Ending(s, t), Ending(t, u)
  PROVE  Ending(s, u)
<1>0. Len(s) \in Nat /\ Len(t) \in Nat /\ Len(u) \in Nat
  BY LenProperties
<1>1. PICK o \in Nat : At(s, t, o) /\ o + Len(s) = Len(t)
  BY DEF Ending
<1>2. PICK q \in Nat : At(t, u, q) /\ q + Len(t) = Len(u)
  BY DEF Ending
<1>3. \A k \in 1 .. Len(s) : o + k \in 1 .. Len(t) /\ q + (o + k) = (q + o) + k
  BY <1>0, <1>1
<1>4. At(s, u, q + o) /\ (q + o) + Len(s) = Len(u)
  BY <1>0, <1>1, <1>2, <1>3 DEF At
<1> QED BY <1>4 DEF Ending

LEMMA PartAt ==
  ASSUME NEW s \in Seq(Symbols), NEW m \in Nat \ {0}, NEW n \in Nat, n <= Len(s), m <= n + 1
  PROVE  At(SubSeq(s, m, n), s, m - 1) /\ Len(SubSeq(s, m, n)) = n - m + 1
<1>1. \A i \in m .. n : s[i] \in Symbols
  <2> TAKE i \in m .. n
  <2>1. i \in 1 .. Len(s)
    BY LenProperties
  <2> QED BY <2>1, ElementOfSeq
<1>2. /\ Len(SubSeq(s, m, n)) = IF m <= n THEN n - m + 1 ELSE 0
      /\ \A i \in 1 .. n - m + 1 : SubSeq(s, m, n)[i] = s[m + i - 1]
  BY <1>1, SubSeqProperties
<1>3. Len(s) \in Nat /\ Len(SubSeq(s, m, n)) = n - m + 1
  BY <1>2, LenProperties
<1>4. \A i \in 1 .. n - m + 1 : m + i - 1 = (m - 1) + i
  OBVIOUS
<1>5. (m - 1) + Len(SubSeq(s, m, n)) <= Len(s)
  BY <1>3
<1> QED BY <1>2, <1>3, <1>4, <1>5 DEF At

LEMMA LastOfEnding ==
  ASSUME NEW s \in Seq(Symbols), NEW n \in Nat
  PROVE  Ending(LastOf(s, n), s)
<1> DEFINE l == Least(n, Len(s))
           m == Len(s) - l + 1
<1>1. Len(s) \in Nat /\ l \in Nat /\ l <= Len(s)
  BY LenProperties DEF Least
<1>2. m \in Nat \ {0} /\ m - 1 \in Nat /\ m <= Len(s) + 1 /\ LastOf(s, n) = SubSeq(s, m, Len(s))
  BY <1>1 DEF LastOf
<1> HIDE DEF m
<1>3. At(SubSeq(s, m, Len(s)), s, m - 1) /\ Len(SubSeq(s, m, Len(s))) = Len(s) - m + 1
  BY <1>1, <1>2, PartAt
<1>4. (m - 1) + (Len(s) - m + 1) = Len(s)
  BY <1>1, <1>2
<1> QED BY <1>2, <1>3, <1>4 DEF Ending

LEMMA PiecesAreExcerpts ==
  ASSUME size \in Nat \ {0}, over \in Nat, over # size, NEW p \in Seq(Symbols),
         NEW j \in DOMAIN Pieces(p)
  PROVE  Excerpt(Pieces(p)[j], p)
<1>1. CASE over > size
  BY <1>1 DEF Pieces
<1>2. CASE over < size
  <2> DEFINE step == size - over
             n == (Len(p) + step - 1) \div step
             b == (j - 1) * step
  <2>1. step \in Nat \ {0} /\ Len(p) \in Nat
    BY <1>2, LenProperties
  <2>2. j \in 1 .. n /\ Pieces(p)[j] = SubSeq(p, b + 1, Least(b + size, Len(p)))
    <3>1. DOMAIN Pieces(p) = 1 .. n
      BY <1>2, PieceParts
    <3>2. Pieces(p) = [i \in 1 .. n |-> SubSeq(p, (i - 1) * step + 1, Least((i - 1) * step + size, Len(p)))]
      BY <1>2 DEF Pieces
    <3> HIDE DEF n, step
    <3> QED BY <3>1, <3>2
  <2>3. n \in Nat
    BY <2>1, DivBounds
  <2>4. b < Len(p)
    BY <2>1, <2>2, WindowInside
  <2> HIDE DEF step, n
  <2>5. b \in Nat
    BY <2>1, <2>2, <2>3
  <2> HIDE DEF b
  <2> DEFINE e == Least(b + size, Len(p))
  <2>6. e \in Nat /\ e <= Len(p) /\ b + 1 <= e + 1 /\ b + 1 \in Nat \ {0} /\ (b + 1) - 1 = b
    BY <2>1, <2>4, <2>5 DEF Least
  <2> HIDE DEF e
  <2>7. At(SubSeq(p, b + 1, e), p, b)
    BY <2>6, PartAt
  <2> QED BY <2>2, <2>5, <2>7 DEF Excerpt, e
<1> QED BY <1>1, <1>2
LEMMA ExcerptJoined ==
  ASSUME NEW s \in Seq(Symbols), NEW t \in Seq(Symbols), NEW p \in Seq(Symbols), Excerpt(s, t)
  PROVE  Excerpt(s, Joined(t, p))
<1>0. Len(s) \in Nat /\ Len(t) \in Nat /\ Len(p) \in Nat /\ Joined(t, p) \in Seq(Symbols)
  BY LenProperties, JoinedFits
<1>1. CASE t = <<>>
  <2>1. Len(s) = 0
    BY <1>0, <1>1 DEF Excerpt, At
  <2>2. s = <<>>
    BY <2>1, EmptySeq
  <2> QED BY <1>0, <2>2, SelfEnding
<1>2. CASE t # <<>>
  <2>1. PICK o \in Nat : At(s, t, o)
    BY DEF Excerpt
  <2>2. At(t, Joined(t, p), 0)
    BY <1>0, <1>2, JoinedAt DEF At
  <2>3. Excerpt(t, Joined(t, p))
    BY <2>2 DEF Excerpt
  <2> QED BY <1>0, <2>3, ExcerptTrans
<1> QED BY <1>1, <1>2

(* A passage is a subsequence in the sense of SubSeq. *)
LEMMA ExcerptIsPart ==
  ASSUME NEW s \in Seq(Symbols), NEW t \in Seq(Symbols), Excerpt(s, t)
  PROVE  \E i \in 1 .. Len(t) + 1 :
           i + Len(s) <= Len(t) + 1 /\ s = SubSeq(t, i, i + Len(s) - 1)
<1>0. Len(s) \in Nat /\ Len(t) \in Nat
  BY LenProperties
<1>1. PICK o \in Nat : At(s, t, o)
  BY DEF Excerpt
<1>2. o + Len(s) <= Len(t) /\ \A k \in 1 .. Len(s) : s[k] = t[o + k]
  BY <1>1 DEF At
<1> DEFINE i == o + 1
           n == o + Len(s)
           q == SubSeq(t, i, n)
<1>3. /\ i \in 1 .. Len(t) + 1 /\ i \in Nat \ {0} /\ n \in Nat /\ n <= Len(t) /\ i <= n + 1
      /\ i + Len(s) <= Len(t) + 1 /\ i + Len(s) - 1 = n /\ n - i + 1 = Len(s) /\ i - 1 = o
  BY <1>0, <1>2
<1> HIDE DEF i, n
<1>4. At(q, t, o) /\ Len(q) = Len(s) /\ q \in Seq(Symbols)
  BY <1>0, <1>3, PartAt, SubSeqFits
<1>5. \A k \in 1 .. Len(s) : q[k] = t[o + k]
  BY <1>4 DEF At
<1>6. q = s
  BY <1>0, <1>2, <1>4, <1>5, SeqEqual
<1> QED BY <1>3, <1>6 DEF q

(* What is of the text up to a paragraph is of the text. *)
LEMMA UpToGrows ==
  ASSUME paragraphs \in Seq(Seq(Char)), NEW m \in 0 .. Len(paragraphs), NEW n \in m .. Len(paragraphs),
         NEW s \in Seq(Symbols), Excerpt(s, UpTo[m])
  PROVE  Excerpt(s, UpTo[n])
<1> DEFINE S == {k \in m .. Len(paragraphs) : ~ Excerpt(s, UpTo[k])}
<1> SUFFICES ASSUME S # {} PROVE FALSE
  OBVIOUS
<1>1. Len(paragraphs) \in Nat /\ S \subseteq Nat
  BY LenProperties
<1>2. PICK k \in S : \A i \in S : k <= i
  BY <1>1, NatMin
<1>3. k # m
  OBVIOUS
<1>4. k \in 1 .. Len(paragraphs) /\ k - 1 \in 0 .. Len(paragraphs) /\ k - 1 \in m .. Len(paragraphs)
      /\ k - 1 \notin S
  BY <1>1, <1>2, <1>3
<1>5. Excerpt(s, UpTo[k - 1])
  BY <1>4
<1>6. /\ UpTo[k - 1] \in Seq(Symbols) /\ UpTo[k] \in Seq(Symbols)
      /\ UpTo[k] = Joined(UpTo[k - 1], paragraphs[k])
  BY <1>1, <1>4, UpToObeys, UpToText
<1>7. paragraphs[k] \in Seq(Symbols)
  <2>1. paragraphs[k] \in Seq(Char)
    BY <1>4, ElementOfSeq
  <2> QED BY <2>1, SeqMonotonic DEF Symbols
<1>8. Excerpt(s, UpTo[k])
  BY <1>5, <1>6, <1>7, ExcerptJoined
<1> QED BY <1>2, <1>8

(* Every chunk is a passage of the text, and the chunk under construction    *)
(* its end.                                                                  *)
PassagesOf(cs, s, t) == (\A c \in DOMAIN cs : Excerpt(cs[c], t)) /\ Ending(s, t)

ExcerptInv == IInv /\ PassagesOf(chunks, buf, UpTo[next - 1])

LEMMA ConcatPassages ==
  ASSUME NEW cs \in Seq(Seq(Symbols)), NEW ds \in Seq(Seq(Symbols)), NEW t,
         \A c \in DOMAIN cs : Excerpt(cs[c], t), \A c \in DOMAIN ds : Excerpt(ds[c], t)
  PROVE  \A c \in DOMAIN (cs \o ds) : Excerpt((cs \o ds)[c], t)
<1>1. /\ \A i \in DOMAIN cs : (cs \o ds)[i] = cs[i]
      /\ \A i \in DOMAIN ds : (cs \o ds)[Len(cs) + i] = ds[i]
      /\ Len(cs) \in Nat /\ Len(ds) \in Nat /\ Len(cs \o ds) = Len(cs) + Len(ds)
      /\ DOMAIN cs = 1 .. Len(cs) /\ DOMAIN ds = 1 .. Len(ds)
      /\ cs \o ds \in Seq(Seq(Symbols))
  BY ConcatParts
<1>2. DOMAIN (cs \o ds) = 1 .. Len(cs) + Len(ds)
  BY <1>1, LenProperties
<1>3. ASSUME NEW c \in 1 .. Len(cs) + Len(ds) PROVE Excerpt((cs \o ds)[c], t)
  <2>1. CASE c <= Len(cs)
    <3>1. c \in DOMAIN cs
      BY <1>1, <2>1
    <3> QED BY <1>1, <3>1
  <2>2. CASE c > Len(cs)
    <3>1. c - Len(cs) \in DOMAIN ds /\ Len(cs) + (c - Len(cs)) = c
      BY <1>1, <2>2
    <3> QED BY <1>1, <3>1
  <2> QED BY <1>1, <2>1, <2>2
<1> QED BY <1>2, <1>3

LEMMA TextTurn ==
  ASSUME TypeOK, Turn
  PROVE  /\ UpTo[next - 1] \in Seq(Symbols)
         /\ UpTo[next] = Joined(UpTo[next - 1], para) /\ UpTo[next] \in Seq(Symbols)
         /\ (next + 1) - 1 = next
<1>1. paragraphs \in Seq(Seq(Char)) /\ next \in 1 .. Len(paragraphs) /\ next - 1 \in 0 .. Len(paragraphs)
      /\ next \in 0 .. Len(paragraphs) /\ (next + 1) - 1 = next
  BY LenProperties DEF TypeOK, Turn
<1> QED BY <1>1, UpToObeys, UpToText DEF para

LEMMA ExcerptInit == Init => ExcerptInv
<1> SUFFICES ASSUME Init PROVE ExcerptInv
  OBVIOUS
<1>1. IInv /\ paragraphs \in Seq(Seq(Char)) /\ next - 1 = 0
  BY FitInit DEF Init, IInv, TypeOK
<1>2. UpTo[next - 1] = <<>>
  BY <1>1, UpToObeys
<1>3. Ending(<<>>, <<>>)
  <2>1. <<>> \in Seq(Symbols)
    OBVIOUS
  <2> QED BY <2>1, SelfEnding
<1> QED BY <1>1, <1>2, <1>3 DEF Init, ExcerptInv, PassagesOf

(* A turn that takes the next paragraph, from the text t so far to u. *)
LEMMA PassagesTurn ==
  ASSUME IInv', UNCHANGED arguments, next' = next + 1, TypeOK, Turn,
         PassagesOf(chunks', buf', Joined(UpTo[next - 1], para))
  PROVE  ExcerptInv'
<1>1. UpTo' = UpTo
  BY DEF UpTo, arguments
<1>2. UpTo[next] = Joined(UpTo[next - 1], para) /\ next' - 1 = next
  BY TextTurn
<1> QED BY <1>1, <1>2 DEF ExcerptInv

LEMMA ExcerptStep == ExcerptInv /\ [Next]_vars => ExcerptInv'
<1> SUFFICES ASSUME ExcerptInv, [Next]_vars PROVE ExcerptInv'
  OBVIOUS
<1> DEFINE t == UpTo[next - 1]
           u == Joined(t, para)
<1>0. /\ IInv /\ IInv' /\ TypeOK
      /\ chunks \in Seq(Seq(Symbols)) /\ buf \in Seq(Symbols)
      /\ size \in Nat \ {0} /\ over \in Nat
      /\ Pending \in Seq(Seq(Symbols))
      /\ \A c \in DOMAIN chunks : Excerpt(chunks[c], t) /\ chunks[c] \in Seq(Symbols)
      /\ Ending(buf, t)
  <2>1. IInv /\ IInv'
    BY FitStep DEF ExcerptInv
  <2>2. TypeOK
    BY <2>1 DEF IInv
  <2>3. \A c \in DOMAIN chunks : chunks[c] \in Seq(Symbols)
    BY <2>2, ElementOfSeq, LenProperties DEF TypeOK
  <2> QED BY <2>1, <2>2, <2>3, PendingParts, ChunkingAssumption DEF TypeOK, ExcerptInv, PassagesOf
<1>t. ASSUME Turn
      PROVE  /\ t \in Seq(Symbols) /\ para \in Seq(Symbols) /\ u \in Seq(Symbols)
             /\ \A s \in Seq(Symbols) : Excerpt(s, t) => Excerpt(s, u)
             /\ Ending(<<>>, u) /\ Ending(para, u)
  <2>1. t \in Seq(Symbols) /\ para \in Seq(Symbols) /\ u \in Seq(Symbols)
    BY <1>0, <1>t, TextTurn, TurnFacts
  <2>2. \A s \in Seq(Symbols) : Excerpt(s, t) => Excerpt(s, u)
    BY <2>1, ExcerptJoined
  <2>3. Joined(<<>>, para) = para
    BY DEF Joined
  <2>4. <<>> \in Seq(Symbols)
    OBVIOUS
  <2>5. Ending(Joined(<<>>, para), Joined(t, para))
    BY <2>1, <2>4, SelfEnding, EndingJoined
  <2> QED BY <2>1, <2>2, <2>3, <2>5, SelfEnding
<1>p. \A c \in DOMAIN Pending : Excerpt(Pending[c], t) /\ Pending[c] \in Seq(Symbols)
  BY <1>0, EndingIsExcerpt DEF Pending
<1> HIDE DEF t, u
<1>u. u = Joined(UpTo[next - 1], para)
  BY DEF t, u
<1>1. CASE HardSplit
  <2>1. CASE over = size
    <3>1. UNCHANGED <<arguments, next, buf, chunks>>
      BY <1>1, <2>1 DEF HardSplit
    <3>2. UpTo' = UpTo
      BY <3>1 DEF UpTo, arguments
    <3> QED BY <1>0, <3>1, <3>2 DEF ExcerptInv
  <2>2. CASE over # size
    <3>1. /\ chunks' = (chunks \o Pending) \o Pieces(para) /\ buf' = <<>> /\ next' = next + 1
          /\ UNCHANGED arguments /\ Turn
      BY <1>1, <2>2 DEF HardSplit
    <3>2. \A c \in DOMAIN (chunks \o Pending) : Excerpt((chunks \o Pending)[c], u)
      BY <1>0, <1>p, <1>t, <3>1, ConcatPassages
    <3>3. \A c \in DOMAIN Pieces(para) : Excerpt(Pieces(para)[c], u)
      <4>1. Pieces(para) \in Seq(Seq(Symbols)) /\ para \in Seq(Symbols) /\ Excerpt(para, u)
        BY <1>0, <1>t, <2>2, <3>1, PiecesFit, EndingIsExcerpt DEF Fitting
      <4> TAKE c \in DOMAIN Pieces(para)
      <4>2. Pieces(para)[c] \in Seq(Symbols)
        BY <4>1, ElementOfSeq, LenProperties
      <4>3. Excerpt(Pieces(para)[c], para)
        BY <1>0, <2>2, <4>1, PiecesAreExcerpts
      <4> QED BY <1>t, <3>1, <4>1, <4>2, <4>3, ExcerptTrans
    <3>4. chunks \o Pending \in Seq(Seq(Symbols)) /\ Pieces(para) \in Seq(Seq(Symbols))
      BY <1>0, <1>t, <2>2, <3>1, ConcatParts, PiecesFit DEF Fitting
    <3>5. \A c \in DOMAIN chunks' : Excerpt(chunks'[c], u)
      BY <3>1, <3>2, <3>3, <3>4, ConcatPassages
    <3>6. PassagesOf(chunks', buf', u)
      BY <1>t, <3>1, <3>5 DEF PassagesOf
    <3> QED BY <1>0, <1>u, <3>1, <3>6, PassagesTurn
  <2> QED BY <2>1, <2>2
<1>2. CASE Accumulate
  <2>1. /\ buf' = Joined(buf, para) /\ next' = next + 1 /\ chunks' = chunks
        /\ UNCHANGED arguments /\ Turn
    BY <1>2 DEF Accumulate
  <2>2. Ending(Joined(buf, para), u)
    BY <1>0, <1>t, <2>1, EndingJoined DEF u
  <2>3. PassagesOf(chunks', buf', u)
    BY <1>0, <1>t, <2>1, <2>2 DEF PassagesOf
  <2> QED BY <1>0, <1>u, <2>1, <2>3, PassagesTurn
<1>3. CASE StartChunk
  <2>1. PICK k \in Nat :
        /\ buf' = Joined(LastOf(buf, k), para) /\ next' = next + 1 /\ chunks' = Append(chunks, buf)
        /\ UNCHANGED arguments /\ Turn
    <3> DEFINE room == IF size >= Len(para) + 2 THEN size - Len(para) - 2 ELSE 0
    <3>0. Turn
      BY <1>3 DEF StartChunk
    <3>1. Least(over, room) \in Nat
      BY <1>0, <3>0, TurnFacts DEF Least
    <3> QED BY <1>3, <3>1 DEF StartChunk
  <2>2. Ending(Joined(LastOf(buf, k), para), u)
    <3>1. LastOf(buf, k) \in Seq(Symbols) /\ Ending(LastOf(buf, k), buf)
      BY <1>0, LastOfFits, LastOfEnding
    <3>2. t \in Seq(Symbols) /\ para \in Seq(Symbols)
      BY <1>t, <2>1
    <3>3. Ending(LastOf(buf, k), t)
      BY <1>0, <3>1, <3>2, EndingTrans
    <3> QED BY <3>1, <3>2, <3>3, EndingJoined DEF u
  <2>3. \A c \in DOMAIN chunks' : Excerpt(chunks'[c], u)
    <3>1. chunks' = chunks \o <<buf>> /\ <<buf>> \in Seq(Seq(Symbols))
      BY <1>0, <2>1, AppendIsConcat
    <3>2. \A c \in DOMAIN <<buf>> : Excerpt(<<buf>>[c], u)
      BY <1>0, <1>t, <2>1, EndingIsExcerpt
    <3> QED BY <1>0, <1>t, <2>1, <3>1, <3>2, ConcatPassages
  <2>4. PassagesOf(chunks', buf', u)
    BY <2>1, <2>2, <2>3 DEF PassagesOf
  <2> QED BY <1>0, <1>u, <2>1, <2>4, PassagesTurn
<1>4. CASE Finish
  <2>1. chunks' = chunks \o Pending /\ UNCHANGED <<arguments, next, buf>>
    BY <1>4 DEF Finish
  <2>2. UpTo' = UpTo
    BY <2>1 DEF UpTo, arguments
  <2>3. PassagesOf(chunks', buf', t)
    BY <1>0, <1>p, <2>1, ConcatPassages DEF PassagesOf
  <2> QED BY <1>0, <2>1, <2>2, <2>3 DEF ExcerptInv, t
<1>5. CASE UNCHANGED vars
  <2>1. UpTo' = UpTo
    BY <1>5 DEF UpTo, vars
  <2> QED BY <1>0, <1>5, <2>1 DEF ExcerptInv, vars
<1> QED BY <1>1, <1>2, <1>3, <1>4, <1>5 DEF Next

(* No chunk joins passages that the document does not have next to each      *)
(* other (chunking.py:27-54): each is a passage of the text of its           *)
(* paragraphs, one empty line apart.                                         *)
THEOREM ChunksAreAlwaysExcerpts == Spec => []ChunksAreExcerpts
<1>1. Init => ExcerptInv
  BY ExcerptInit
<1>2. ExcerptInv /\ [Next]_vars => ExcerptInv'
  BY ExcerptStep
<1>3. ExcerptInv => ChunksAreExcerpts
  <2> SUFFICES ASSUME ExcerptInv, NEW c \in DOMAIN chunks
               PROVE  \E i \in 1 .. Len(Normalised) + 1 :
                        /\ i + Len(chunks[c]) <= Len(Normalised) + 1
                        /\ chunks[c] = SubSeq(Normalised, i, i + Len(chunks[c]) - 1)
    BY DEF ChunksAreExcerpts
  <2>1. /\ TypeOK /\ paragraphs \in Seq(Seq(Char)) /\ next - 1 \in 0 .. Len(paragraphs)
        /\ Len(paragraphs) \in (next - 1) .. Len(paragraphs) /\ Len(paragraphs) \in 0 .. Len(paragraphs)
    BY LenProperties DEF ExcerptInv, IInv, TypeOK
  <2>2. chunks[c] \in Seq(Symbols)
    BY <2>1, ElementOfSeq, LenProperties DEF TypeOK
  <2>3. Excerpt(chunks[c], Normalised) /\ Normalised \in Seq(Symbols)
    <3>1. Excerpt(chunks[c], UpTo[next - 1])
      BY DEF ExcerptInv, PassagesOf
    <3> QED BY <2>1, <2>2, <3>1, UpToGrows, UpToText DEF Normalised
  <2> QED BY <2>2, <2>3, ExcerptIsPart
<1> QED BY <1>1, <1>2, <1>3, PTL DEF Spec

-----------------------------------------------------------------------------
(* Empty chunks                                                            *)

Vacant(cs) == {c \in DOMAIN cs : cs[c] = <<>>}
Lonely == {i \in Nat : Alone(i)}

(* The chunk under construction is empty before the first paragraph and     *)
(* after one that was cut.                                                  *)
Emptied == buf = <<>> <=> next = 1 \/ Len(paragraphs[next - 1]) > size

CountInv ==
  /\ IInv /\ Emptied
  /\ \A i \in DOMAIN paragraphs : paragraphs[i] # <<>>
  /\ Cardinality(Vacant(chunks)) = Cardinality((1 .. next - 1) \cap Lonely)

(* One more number counts itself, if it is in the set. *)
LEMMA CountOneMore ==
  ASSUME NEW k \in Nat, NEW S
  PROVE  /\ Cardinality((1 .. k) \cap S) \in Nat
         /\ k + 1 \in S => Cardinality((1 .. k + 1) \cap S) = Cardinality((1 .. k) \cap S) + 1
         /\ k + 1 \notin S => (1 .. k + 1) \cap S = (1 .. k) \cap S
<1> DEFINE A == (1 .. k) \cap S
           B == (1 .. k + 1) \cap S
<1>1. IsFiniteSet(A) /\ Cardinality(A) \in Nat
  <2>1. IsFiniteSet(1 .. k)
    BY FS_Interval
  <2> QED BY <2>1, FS_Subset, FS_CardinalityType
<1>2. \A i : i \in 1 .. k + 1 <=> i \in 1 .. k \/ i = k + 1
  OBVIOUS
<1>3. k + 1 \notin A
  OBVIOUS
<1>4. ASSUME k + 1 \in S PROVE Cardinality(B) = Cardinality(A) + 1
  <2>1. B = A \cup {k + 1}
    BY <1>2, <1>4
  <2> HIDE DEF A, B
  <2> QED BY <1>1, <1>3, <2>1, FS_AddElement
<1>5. k + 1 \notin S => B = A
  BY <1>2
<1> QED BY <1>1, <1>4, <1>5

LEMMA VacantConcat ==
  ASSUME NEW cs \in Seq(Seq(Symbols)), NEW ds \in Seq(Seq(Symbols)),
         \A c \in DOMAIN ds : ds[c] # <<>>
  PROVE  Vacant(cs \o ds) = Vacant(cs)
<1>1. /\ \A i \in DOMAIN cs : i \in DOMAIN (cs \o ds) /\ (cs \o ds)[i] = cs[i]
      /\ \A i \in DOMAIN ds : (cs \o ds)[Len(cs) + i] = ds[i]
      /\ Len(cs) \in Nat /\ Len(ds) \in Nat /\ Len(cs \o ds) = Len(cs) + Len(ds)
      /\ DOMAIN cs = 1 .. Len(cs) /\ DOMAIN ds = 1 .. Len(ds)
      /\ cs \o ds \in Seq(Seq(Symbols))
  BY ConcatParts
<1>2. DOMAIN (cs \o ds) = 1 .. Len(cs) + Len(ds)
  BY <1>1, LenProperties
<1>3. ASSUME NEW c \in Vacant(cs \o ds) PROVE c \in DOMAIN cs
  <2>1. c \in 1 .. Len(cs) + Len(ds) /\ (cs \o ds)[c] = <<>>
    BY <1>2 DEF Vacant
  <2>2. c > Len(cs) => c - Len(cs) \in DOMAIN ds /\ Len(cs) + (c - Len(cs)) = c
    BY <1>1, <2>1
  <2>3. ~(c > Len(cs))
    BY <1>1, <2>1, <2>2
  <2> QED BY <1>1, <2>1, <2>3
<1> QED BY <1>1, <1>3 DEF Vacant

LEMMA VacantAppend ==
  ASSUME NEW cs \in Seq(Seq(Symbols)), NEW s \in Seq(Symbols)
  PROVE  /\ s # <<>> => Vacant(Append(cs, s)) = Vacant(cs)
         /\ s = <<>> => Cardinality(Vacant(Append(cs, s))) = Cardinality(Vacant(cs)) + 1
<1>1. PICK n \in Nat : n = Len(cs)
  BY LenProperties
<1>2. /\ Append(cs, s) \in Seq(Seq(Symbols)) /\ Len(Append(cs, s)) = n + 1
      /\ \A i \in 1 .. n : Append(cs, s)[i] = cs[i]
      /\ Append(cs, s)[n + 1] = s
  BY <1>1, AppendProperties
<1>3. DOMAIN cs = 1 .. n /\ DOMAIN Append(cs, s) = 1 .. n + 1
  BY <1>1, <1>2, LenProperties
<1>4. \A i : i \in 1 .. n + 1 <=> i \in 1 .. n \/ i = n + 1
  OBVIOUS
<1>5. ~(n + 1 \in 1 .. n)
  OBVIOUS
<1>6. CASE s # <<>>
  BY <1>2, <1>3, <1>4, <1>6 DEF Vacant
<1>7. CASE s = <<>>
  <2>1. Vacant(Append(cs, s)) = Vacant(cs) \cup {n + 1}
    BY <1>2, <1>3, <1>4, <1>7 DEF Vacant
  <2>2. n + 1 \notin Vacant(cs)
    BY <1>3, <1>5 DEF Vacant
  <2>3. IsFiniteSet(1 .. n)
    BY FS_Interval
  <2>4. Vacant(cs) \in SUBSET (1 .. n)
    BY <1>3 DEF Vacant
  <2>5. IsFiniteSet(Vacant(cs))
    BY <2>3, <2>4, FS_Subset
  <2> QED BY <1>7, <2>1, <2>2, <2>5, FS_AddElement
<1> QED BY <1>6, <1>7

(* A string that has a character is not empty. *)
LEMMA HasFilled ==
  ASSUME NEW s, NEW x, Has(s, x)
  PROVE  s # <<>>
BY DEF Has

LEMMA PiecesFilled ==
  ASSUME size \in Nat \ {0}, over \in Nat, over # size, NEW p \in Seq(Symbols),
         NEW j \in DOMAIN Pieces(p)
  PROVE  Pieces(p)[j] # <<>>
<1>1. over < size
  BY DEF Pieces
<1> DEFINE step == size - over
           b == (j - 1) * step
<1>2. /\ b + 1 \in DOMAIN p
      /\ \A k \in DOMAIN p : b < k /\ k <= b + size => Has(Pieces(p)[j], p[k])
  BY <1>1, PieceParts
<1>3. b + 1 \in Nat /\ b \in Int
  <2>1. DOMAIN p = 1 .. Len(p) /\ Len(p) \in Nat
    BY LenProperties
  <2>2. DOMAIN Pieces(p) = 1 .. ((Len(p) + step - 1) \div step) /\ step \in Nat \ {0}
    BY <1>1, PieceParts
  <2>3. (Len(p) + step - 1) \div step \in Nat
    BY <2>1, <2>2, DivBounds
  <2>4. j \in Int
    BY <2>2, <2>3
  <2> HIDE DEF step
  <2>5. b \in Int
    BY <2>2, <2>4
  <2> QED BY <1>2, <2>1, <2>5
<1> HIDE DEF b
<1>4. b < b + 1 /\ b + 1 <= b + size
  BY <1>3
<1>5. Has(Pieces(p)[j], p[b + 1])
  BY <1>2, <1>4
<1> QED BY <1>5, HasFilled

(* A paragraph that is not empty leaves a chunk that is not.                *)
LEMMA JoinedFilled ==
  ASSUME NEW head \in Seq(Symbols), NEW tail \in Seq(Symbols), tail # <<>>
  PROVE  Joined(head, tail) # <<>>
<1>1. 1 \in DOMAIN tail
  BY EmptySeq, LenProperties
<1>2. Has(tail, tail[1])
  BY <1>1 DEF Has
<1>3. Has(Joined(head, tail), tail[1])
  BY <1>2, JoinedParts
<1> QED BY <1>3, HasFilled

LEMMA CountInit == Init => CountInv
<1> SUFFICES ASSUME Init PROVE CountInv
  OBVIOUS
<1>1. IInv /\ chunks = <<>> /\ next = 1 /\ buf = <<>> /\ paragraphs \in Texts
  BY FitInit DEF Init
<1>2. Vacant(chunks) = {} /\ (1 .. next - 1) \cap Lonely = {}
  BY <1>1 DEF Vacant
<1> QED BY <1>1, <1>2, ChunkingAssumption DEF CountInv, Emptied

(* A turn that takes the next paragraph. *)
LEMMA CountTurn ==
  ASSUME CountInv, IInv', Turn, UNCHANGED arguments, next' = next + 1,
         buf' = <<>> <=> Len(para) > size,
         next \in Lonely => Cardinality(Vacant(chunks')) = Cardinality(Vacant(chunks)) + 1,
         next \notin Lonely => Vacant(chunks') = Vacant(chunks)
  PROVE  CountInv'
<1>1. TypeOK /\ next \in Nat \ {0} /\ next - 1 \in Nat /\ (next - 1) + 1 = next /\ (next + 1) - 1 = next
  BY LenProperties DEF CountInv, IInv, TypeOK
<1>2. Lonely' = Lonely
  BY DEF Lonely, Alone, arguments
<1>3. Emptied'
  <2>1. next' # 1 /\ next' - 1 = next
    BY <1>1
  <2>2. paragraphs'[next' - 1] = para /\ size' = size
    BY <2>1 DEF arguments, para
  <2> QED BY <2>1, <2>2 DEF Emptied
<1>4. /\ Cardinality((1 .. next - 1) \cap Lonely) \in Nat
      /\ next \in Lonely => Cardinality((1 .. next) \cap Lonely) = Cardinality((1 .. next - 1) \cap Lonely) + 1
      /\ next \notin Lonely => (1 .. next) \cap Lonely = (1 .. next - 1) \cap Lonely
  <2>1. PICK k \in Nat : k = next - 1 /\ k + 1 = next
    BY <1>1
  <2>2. /\ Cardinality((1 .. k) \cap Lonely) \in Nat
        /\ k + 1 \in Lonely => Cardinality((1 .. k + 1) \cap Lonely) = Cardinality((1 .. k) \cap Lonely) + 1
        /\ k + 1 \notin Lonely => (1 .. k + 1) \cap Lonely = (1 .. k) \cap Lonely
    BY CountOneMore
  <2> QED BY <2>1, <2>2
<1>5. Cardinality(Vacant(chunks)) = Cardinality((1 .. next - 1) \cap Lonely)
  BY DEF CountInv
<1>6. Cardinality(Vacant(chunks')) = Cardinality((1 .. next) \cap Lonely)
  BY <1>4, <1>5
<1>7. next' - 1 = next
  BY <1>1
<1>8. \A i \in DOMAIN paragraphs' : paragraphs'[i] # <<>>
  BY DEF CountInv, arguments
<1>9. Cardinality(Vacant(chunks')) = Cardinality((1 .. next' - 1) \cap Lonely')
  BY <1>2, <1>6, <1>7
<1> QED BY <1>3, <1>8, <1>9 DEF CountInv, Vacant

LEMMA CountStep == CountInv /\ [Next]_vars => CountInv'
<1> SUFFICES ASSUME CountInv, [Next]_vars PROVE CountInv'
  OBVIOUS
<1>0. /\ IInv /\ IInv' /\ TypeOK /\ Emptied
      /\ chunks \in Seq(Seq(Symbols)) /\ buf \in Seq(Symbols)
      /\ size \in Nat \ {0} /\ over \in Nat /\ next \in Nat
      /\ Pending \in Seq(Seq(Symbols))
      /\ \A c \in DOMAIN Pending : Pending[c] # <<>>
  <2>1. IInv /\ IInv' /\ Emptied
    BY FitStep DEF CountInv
  <2>2. TypeOK
    BY <2>1 DEF IInv
  <2>3. next \in Nat
    BY <2>2, LenProperties DEF TypeOK
  <2>4. \A c \in DOMAIN Pending : Pending[c] # <<>>
    BY DEF Pending
  <2> QED BY <2>1, <2>2, <2>3, <2>4, PendingParts, ChunkingAssumption DEF TypeOK
<1>t. ASSUME Turn
      PROVE  /\ para \in Seq(Symbols) /\ Len(para) \in Nat /\ para # <<>>
             /\ next \in Lonely <=> /\ next = 1 \/ Len(paragraphs[next - 1]) > size
                                    /\ Len(para) \in {size - 1, size}
  <2>1. para \in Seq(Symbols) /\ Len(para) \in Nat
    BY <1>0, <1>t, TurnFacts
  <2>2. para # <<>>
    <3>1. next \in DOMAIN paragraphs
      BY <1>0, <1>t, LenProperties DEF Turn, TypeOK
    <3> QED BY <3>1 DEF CountInv, para
  <2>3. next \in Lonely <=> Alone(next)
    BY <1>0 DEF Lonely
  <2> QED BY <2>1, <2>2, <2>3 DEF Alone, para
<1>1. CASE HardSplit
  <2>1. CASE over = size
    <3>1. UNCHANGED <<arguments, next, buf, chunks>>
      BY <1>1, <2>1 DEF HardSplit
    <3> QED BY <1>0, <3>1 DEF CountInv, Emptied, Lonely, Alone, Vacant, arguments
  <2>2. CASE over # size
    <3>1. /\ chunks' = (chunks \o Pending) \o Pieces(para) /\ buf' = <<>> /\ next' = next + 1
          /\ UNCHANGED arguments /\ Turn /\ Len(para) > size
      BY <1>1, <2>2 DEF HardSplit
    <3>2. para \in Seq(Symbols) /\ Len(para) \in Nat /\ next \notin Lonely
      <4>1. para \in Seq(Symbols) /\ Len(para) \in Nat
            /\ (next \in Lonely => Len(para) \in {size - 1, size})
        BY <1>t, <3>1
      <4> QED BY <1>0, <3>1, <4>1
    <3>3. Vacant(chunks \o Pending) = Vacant(chunks) /\ chunks \o Pending \in Seq(Seq(Symbols))
      BY <1>0, VacantConcat, ConcatParts
    <3>4. /\ Pieces(para) \in Seq(Seq(Symbols))
          /\ \A c \in DOMAIN Pieces(para) : Pieces(para)[c] # <<>>
      BY <1>0, <2>2, <3>2, PiecesFit, PiecesFilled DEF Fitting
    <3>5. Vacant(chunks') = Vacant(chunks)
      BY <3>1, <3>3, <3>4, VacantConcat
    <3> QED BY <1>0, <3>1, <3>2, <3>5, CountTurn
  <2> QED BY <2>1, <2>2
<1>2. CASE Accumulate
  <2>1. /\ buf' = Joined(buf, para) /\ next' = next + 1 /\ chunks' = chunks
        /\ UNCHANGED arguments /\ Turn /\ Len(para) <= size
        /\ Len(buf) + Len(para) + 2 <= size
    BY <1>2 DEF Accumulate
  <2>2. buf' # <<>>
    BY <1>0, <1>t, <2>1, JoinedFilled
  <2>3. next \notin Lonely
    <3>1. Len(para) \in Nat /\ Len(buf) \in Nat /\ (next \in Lonely => Len(para) \in {size - 1, size})
      BY <1>0, <1>t, <2>1, LenProperties
    <3> QED BY <1>0, <2>1, <3>1
  <2>4. ~(Len(para) > size)
    <3>1. Len(para) \in Nat
      BY <1>t, <2>1
    <3> QED BY <1>0, <2>1, <3>1
  <2> QED BY <1>0, <2>1, <2>2, <2>3, <2>4, CountTurn
<1>3. CASE StartChunk
  <2>1. PICK k \in Nat :
        /\ buf' = Joined(LastOf(buf, k), para) /\ next' = next + 1 /\ chunks' = Append(chunks, buf)
        /\ UNCHANGED arguments /\ Turn /\ Len(para) <= size /\ Len(buf) + Len(para) + 2 > size
    <3> DEFINE room == IF size >= Len(para) + 2 THEN size - Len(para) - 2 ELSE 0
    <3>0. Turn
      BY <1>3 DEF StartChunk
    <3>1. Least(over, room) \in Nat
      BY <1>0, <3>0, TurnFacts DEF Least
    <3> QED BY <1>3, <3>1 DEF StartChunk
  <2>2. buf' # <<>>
    <3>1. LastOf(buf, k) \in Seq(Symbols)
      BY <1>0, LastOfFits
    <3> QED BY <1>t, <2>1, <3>1, JoinedFilled
  <2>3. next \in Lonely <=> buf = <<>>
    <3>1. /\ Len(para) \in Nat /\ Len(buf) \in Nat
          /\ next \in Lonely <=> buf = <<>> /\ Len(para) \in {size - 1, size}
      BY <1>0, <1>t, <2>1, LenProperties DEF Emptied
    <3>2. buf = <<>> => Len(buf) = 0
      OBVIOUS
    <3>3. buf = <<>> => Len(para) \in {size - 1, size}
      <4>1. PICK n \in Nat, l \in Nat, z \in Nat : n = Len(buf) /\ l = Len(para) /\ z = size
        BY <1>0, <3>1
      <4>2. l <= z /\ n + l + 2 > z
        BY <2>1, <4>1
      <4>3. n = 0 => l \in {z - 1, z}
        BY <4>1, <4>2
      <4> QED BY <3>2, <4>1, <4>3
    <3> QED BY <3>1, <3>3
  <2>4. ~(Len(para) > size)
    <3>1. Len(para) \in Nat
      BY <1>t, <2>1
    <3> QED BY <1>0, <2>1, <3>1
  <2>5. /\ buf # <<>> => Vacant(chunks') = Vacant(chunks)
        /\ buf = <<>> => Cardinality(Vacant(chunks')) = Cardinality(Vacant(chunks)) + 1
    BY <1>0, <2>1, VacantAppend
  <2> QED BY <1>0, <2>1, <2>2, <2>3, <2>4, <2>5, CountTurn
<1>4. CASE Finish
  <2>1. chunks' = chunks \o Pending /\ UNCHANGED <<arguments, next, buf>>
    BY <1>4 DEF Finish
  <2>2. Vacant(chunks') = Vacant(chunks)
    BY <1>0, <2>1, VacantConcat
  <2> QED BY <1>0, <2>1, <2>2 DEF CountInv, Emptied, Lonely, Alone, Vacant, arguments
<1>5. CASE UNCHANGED vars
  BY <1>0, <1>5 DEF CountInv, Emptied, Lonely, Alone, Vacant, vars
<1> QED BY <1>1, <1>2, <1>3, <1>4, <1>5 DEF Next

(* chunk_text appends one empty chunk for each paragraph of size or size - 1 *)
(* characters that comes first or after one that was cut, and no other       *)
(* (chunking.py:44): neither a hard split nor the last flush makes one.      *)
THEOREM EmptyChunksAlwaysCounted == Spec => []EmptyChunksCounted
<1>1. Init => CountInv
  BY CountInit
<1>2. CountInv /\ [Next]_vars => CountInv'
  BY CountStep
<1>3. CountInv => EmptyChunksCounted
  <2> SUFFICES ASSUME CountInv PROVE EmptyChunksCounted
    OBVIOUS
  <2>1. {i \in 1 .. next - 1 : Alone(i)} = (1 .. next - 1) \cap Lonely
    BY DEF Lonely
  <2> QED BY <2>1 DEF CountInv, EmptyChunksCounted, Vacant
<1> QED BY <1>1, <1>2, <1>3, PTL DEF Spec
=============================================================================
