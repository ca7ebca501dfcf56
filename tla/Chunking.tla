------------------------------ MODULE Chunking ------------------------------
(***************************************************************************)
(* chunk_text of app/chunking.py: the text of a document, as the sequence  *)
(* of its paragraphs, is cut into chunks of at most size characters.  One  *)
(* action is one turn of the loop over the paragraphs.                     *)
(***************************************************************************)
EXTENDS Naturals, Sequences, FiniteSets

CONSTANTS
  Char,      \* characters of paragraphs
  NewLine,
  Texts,     \* what _split_paragraphs can return
  Sizes,     \* chunk_size
  Overlaps   \* overlap

ASSUME ChunkingAssumption ==
  /\ NewLine \notin Char
  /\ Texts \subseteq Seq(Seq(Char))
  /\ \A t \in Texts : \A i \in DOMAIN t : t[i] # <<>>
  /\ Sizes \subseteq Nat \ {0} /\ Overlaps \subseteq Nat

VARIABLES
  paragraphs, size, over,  \* the arguments
  next,                    \* the paragraph of the next turn
  buf,                     \* the chunk under construction
  chunks,
  pc

vars == <<paragraphs, size, over, next, buf, chunks, pc>>
arguments == <<paragraphs, size, over>>

Symbols == Char \cup {NewLine}

TypeOK ==
  /\ paragraphs \in Seq(Seq(Char)) /\ size \in Sizes /\ over \in Overlaps
  /\ next \in 1 .. Len(paragraphs) + 1
  /\ buf \in Seq(Symbols) /\ Len(buf) <= size
  /\ chunks \in Seq(Seq(Symbols))
  /\ pc \in {"loop", "done", "raised"}

Init ==
  /\ paragraphs \in Texts /\ size \in Sizes /\ over \in Overlaps
  /\ next = 1 /\ buf = <<>> /\ chunks = <<>> /\ pc = "loop"

-----------------------------------------------------------------------------
Least(m, n) == IF m <= n THEN m ELSE n
Separator == <<NewLine, NewLine>>

para == paragraphs[next]
Turn == pc = "loop" /\ next <= Len(paragraphs)

(* The chunk under construction, if there is one. *)
Pending == IF buf = <<>> THEN <<>> ELSE <<buf>>

(* The last n characters of s: s[-n:], and all of s when n exceeds them. *)
LastOf(s, n) == SubSeq(s, Len(s) - Least(n, Len(s)) + 1, Len(s))

Joined(head, tail) == IF head = <<>> THEN tail ELSE head \o Separator \o tail

(* Mutant of Pieces: the window moves by its whole size. *)
PiecesApart(p) ==
  [j \in 1 .. ((Len(p) + size - 1) \div size) |->
     SubSeq(p, (j - 1) * size + 1, Least(j * size, Len(p)))]

(* p[i : i + size] for i in range(0, len(p), size - over): with an overlap  *)
(* greater than size the range is empty.                                    *)
Pieces(p) ==
  LET step == size - over IN
  IF over > size THEN <<>>
  ELSE [j \in 1 .. ((Len(p) + step - 1) \div step) |->
          SubSeq(p, (j - 1) * step + 1, Least((j - 1) * step + size, Len(p)))]

-----------------------------------------------------------------------------
(* Mutant of HardSplit: no continue, the paragraph is also accumulated. *)
HardSplitAndKeep ==
  /\ Turn /\ Len(para) > size
  /\ over # size
  /\ chunks' = chunks \o Pending \o Pieces(para)
  /\ buf' = para
  /\ next' = next + 1
  /\ UNCHANGED <<arguments, pc>>

(* Mutant of HardSplit: the chunk under construction is not flushed first. *)
HardSplitOnly ==
  /\ Turn /\ Len(para) > size
  /\ over # size
  /\ chunks' = chunks \o Pieces(para)
  /\ buf' = <<>>
  /\ next' = next + 1
  /\ UNCHANGED <<arguments, pc>>

(* A paragraph longer than a chunk is cut by characters.  range refuses a   *)
(* step of 0.                                                               *)
HardSplit ==
  /\ Turn /\ Len(para) > size
  /\ IF over = size
     THEN pc' = "raised" /\ UNCHANGED <<next, buf, chunks>>
     ELSE /\ chunks' = chunks \o Pending \o Pieces(para)
          /\ buf' = <<>>
          /\ next' = next + 1
          /\ UNCHANGED pc
  /\ UNCHANGED arguments

Accumulate ==
  /\ Turn /\ Len(para) <= size
  /\ Len(buf) + Len(para) + 2 <= size
  /\ buf' = Joined(buf, para)
  /\ next' = next + 1
  /\ UNCHANGED <<arguments, chunks, pc>>

(* Mutant of StartChunk: the tail is as long as the overlap in any case. *)
StartChunkOverfull ==
  /\ Turn /\ Len(para) <= size
  /\ Len(buf) + Len(para) + 2 > size
  /\ chunks' = Append(chunks, buf)
  /\ buf' = Joined(LastOf(buf, over), para)
  /\ next' = next + 1
  /\ UNCHANGED <<arguments, pc>>

(* Mutant of StartChunk: buf[:tail_len] for buf[-tail_len:]. *)
StartChunkWithHead ==
  LET room == IF size >= Len(para) + 2 THEN size - Len(para) - 2 ELSE 0 IN
  /\ Turn /\ Len(para) <= size
  /\ Len(buf) + Len(para) + 2 > size
  /\ chunks' = Append(chunks, buf)
  /\ buf' = Joined(SubSeq(buf, 1, Least(Least(over, room), Len(buf))), para)
  /\ next' = next + 1
  /\ UNCHANGED <<arguments, pc>>

(* Mutant of StartChunk: >= for >, so a chunk that would be just full is    *)
(* closed before the paragraph that fills it.                               *)
StartChunkEarly ==
  LET room == IF size >= Len(para) + 2 THEN size - Len(para) - 2 ELSE 0 IN
  /\ Turn /\ Len(para) <= size
  /\ Len(buf) + Len(para) + 2 >= size
  /\ chunks' = Append(chunks, buf)
  /\ buf' = Joined(LastOf(buf, Least(over, room)), para)
  /\ next' = next + 1
  /\ UNCHANGED <<arguments, pc>>

(* The chunk is closed, and the next begins with as much of its end as the  *)
(* overlap asks for and the new paragraph leaves room for.  It is closed    *)
(* also when it is empty: before a first paragraph of nearly size.          *)
StartChunk ==
  LET room == IF size >= Len(para) + 2 THEN size - Len(para) - 2 ELSE 0 IN
  /\ Turn /\ Len(para) <= size
  /\ Len(buf) + Len(para) + 2 > size
  /\ chunks' = Append(chunks, buf)
  /\ buf' = Joined(LastOf(buf, Least(over, room)), para)
  /\ next' = next + 1
  /\ UNCHANGED <<arguments, pc>>

Finish ==
  /\ pc = "loop" /\ next > Len(paragraphs)
  /\ chunks' = chunks \o Pending
  /\ pc' = "done"
  /\ UNCHANGED <<arguments, next, buf>>

Next == HardSplit \/ Accumulate \/ StartChunk \/ Finish

Spec == Init /\ [][Next]_vars

-----------------------------------------------------------------------------
(* No chunk is longer than chunk_size, whatever the overlap                 *)
(* (tests/test_chunking.py, and the comment at chunking.py:45-46).          *)
ChunksFit == \A c \in DOMAIN chunks : Len(chunks[c]) <= size

(* The first n paragraphs, one empty line apart; the chunks are cut from    *)
(* all of them.                                                             *)
UpTo[n \in 0 .. Len(paragraphs)] ==
  IF n = 0 THEN <<>> ELSE Joined(UpTo[n - 1], paragraphs[n])

Normalised == UpTo[Len(paragraphs)]

(* Every chunk is a passage of the text: a tail and the paragraph after it  *)
(* are never joined out of order or with something missing between them.    *)
ChunksAreExcerpts ==
  LET text == Normalised IN
  \A c \in DOMAIN chunks :
    \E i \in 1 .. Len(text) + 1 :
      i + Len(chunks[c]) <= Len(text) + 1 /\ chunks[c] = SubSeq(text, i, i + Len(chunks[c]) - 1)

Holds(c, x) == \E k \in DOMAIN chunks[c] : chunks[c][k] = x

(* With an overlap smaller than the size every character of the document    *)
(* is in some chunk, so no part of it is beyond the reach of a search.      *)
NothingLost ==
  pc = "done" /\ over < size =>
    \A i \in DOMAIN paragraphs : \A k \in DOMAIN paragraphs[i] :
      \E c \in DOMAIN chunks : Holds(c, paragraphs[i][k])

(* chunking.py:44 closes the chunk under construction without asking        *)
(* whether there is one, and an empty chunk is embedded and stored like any *)
(* other.  It happens exactly where a paragraph of size or size - 1         *)
(* characters comes first or after one that was cut, once for each: there   *)
(* are as many empty chunks as such paragraphs so far.                      *)
Alone(i) ==
  /\ i = 1 \/ Len(paragraphs[i - 1]) > size
  /\ Len(paragraphs[i]) \in {size - 1, size}

EmptyChunksCounted ==
  Cardinality({c \in DOMAIN chunks : chunks[c] = <<>>})
    = Cardinality({i \in 1 .. next - 1 : Alone(i)})

(* What is left of chunking.py:4-5, "щоб не розривати думку на межі": a     *)
(* chunk that begins inside a paragraph repeats the end of the chunk before *)
(* it; adjacent chunks that begin with a paragraph need not overlap.        *)
Begins(x) == \E i \in DOMAIN paragraphs : paragraphs[i][1] = x

CutsOverlap ==
  over \in 1 .. size - 1 =>
    \A c \in 2 .. Len(chunks) :
      chunks[c] # <<>> /\ chunks[c][1] # NewLine /\ ~Begins(chunks[c][1])
        => Holds(c - 1, chunks[c][1])
=============================================================================
