---------------------------- MODULE MCChunking ----------------------------
(* Instances of Chunking for TLC: all texts of at most MaxParagraphs        *)
(* paragraphs of at most MaxLength characters, every character different    *)
(* from every other, so that a chunk tells what it was cut from.            *)
EXTENDS Chunking

CONSTANTS MaxParagraphs, MaxLength

MCChar == (1 .. MaxParagraphs) \X (1 .. MaxLength)
MCNewLine == <<0, 0>>

Paragraph(i, n) == [k \in 1 .. n |-> <<i, k>>]
MCTexts ==
  UNION {{[i \in 1 .. m |-> Paragraph(i, lengths[i])] : lengths \in [1 .. m -> 1 .. MaxLength]}
         : m \in 0 .. MaxParagraphs}
===========================================================================
