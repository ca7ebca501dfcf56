------------------------------ MODULE Indexing ------------------------------
(***************************************************************************)
(* Indexing of the knowledge base (app/indexing.py): processes running     *)
(* `python -m app.indexing`, each taking the files of the folder one after *)
(* the other and indexing each in one READ COMMITTED transaction on the    *)
(* tables kb_documents and kb_chunks of migrations/001_init.sql.           *)
(*                                                                         *)
(* What a transaction has done and not committed is in tx; a statement     *)
(* that meets a row another transaction has written waits for its end.     *)
(* A row of kb_chunks is what it was cut from, its index, and which         *)
(* transaction of its document wrote it.                                   *)
(***************************************************************************)
EXTENDS Naturals, FiniteSets

CONSTANTS
  Indexers,   \* processes
  Uris,       \* files of the folder
  Contents,   \* what a file can contain
  Length,     \* Length[c]: the number of chunks chunk_text cuts c into
  Initially,  \* Initially[u]: what the file contains at first
  MaxDocs,    \* bound: ids of kb_documents
  Nil,        \* no file, no document, no transaction
  MaxEdits,   \* bound: edits and removals of files
  MaxAborts   \* bound: crashes of indexers and failures of the embedding service

ASSUME IndexingAssumption ==
  /\ Length \in [Contents -> Nat]
  /\ Initially \in [Uris -> Contents]
  /\ MaxDocs \in Nat /\ MaxEdits \in Nat /\ MaxAborts \in Nat

DocIds == 1 .. MaxDocs

VARIABLES
  files,   \* the folder: files[u], or Nil
  docs,    \* committed rows of kb_documents: docs[d], or Nil
  chunks,  \* committed rows of kb_chunks: chunks[d]
  nextId,  \* of the identity sequence; a rolled back id is not used again
  pc,      \* where an indexer is
  todo,    \* the files it has still to index in this run
  tx,      \* its open transaction
  told,    \* told[p]: what it printed last, and whether chunks had come or gone
  edits, aborts

vars == <<files, docs, chunks, nextId, pc, todo, tx, told, edits, aborts>>

Rows(c, v) == {[sum |-> c, idx |-> i, version |-> v] : i \in 0 .. Length[c] - 1}
AllRows == [sum : Contents, idx : Nat, version : Nat]
Documents == [uri : Uris, sum : Contents, version : Nat]

Transactions ==
  [uri : Uris,               \* the file
   sum : Contents,           \* what was read from it
   doc : DocIds \cup {Nil},  \* the document the SELECT found or the INSERT made
   snap : SUBSET AllRows,    \* the rows the DELETE statement saw when it began
   dels : SUBSET AllRows]    \* the rows it has deleted, and holds

ASSUME NilAssumption == Nil \notin DocIds /\ Nil \notin Documents /\ Nil \notin Transactions

TypeOK ==
  /\ files \in [Uris -> Contents \cup {Nil}]
  /\ \A d \in DocIds : docs[d] = Nil \/ docs[d] \in Documents
  /\ \A d \in DocIds : chunks[d] \subseteq AllRows
  /\ nextId \in 1 .. MaxDocs + 1
  /\ pc \in [Indexers -> {"idle", "select", "delete", "deleting", "update", "insertDoc",
                          "embed", "insert"}]
  /\ todo \in [Indexers -> SUBSET Uris]
  /\ \A p \in Indexers :
       /\ tx[p] = Nil <=> pc[p] = "idle"
       /\ tx[p] # Nil => tx[p] \in Transactions /\ tx[p].dels \subseteq tx[p].snap
  /\ told \in [Indexers -> {Nil} \cup [message : {"indexed", "unchanged"}, changed : BOOLEAN]]
  /\ edits \in 0 .. MaxEdits /\ aborts \in 0 .. MaxAborts

Init ==
  /\ files = Initially
  /\ docs = [d \in DocIds |-> Nil]
  /\ chunks = [d \in DocIds |-> {}]
  /\ nextId = 1
  /\ pc = [p \in Indexers |-> "idle"]
  /\ todo = [p \in Indexers |-> {}]
  /\ tx = [p \in Indexers |-> Nil]
  /\ told = [p \in Indexers |-> Nil]
  /\ edits = 0 /\ aborts = 0

-----------------------------------------------------------------------------
Goto(p, l) == pc' = [pc EXCEPT ![p] = l]

(* Rows of document d deleted by a transaction still open, other than p's. *)
HeldChunks(p, d) == UNION {tx[q].dels : q \in {q \in Indexers \ {p} : tx[q] # Nil /\ tx[q].doc = d}}

(* A transaction that has updated row d of kb_documents holds it. *)
Holds(q, d) == tx[q] # Nil /\ tx[q].doc = d /\ pc[q] \in {"embed", "insert"}

(* The transaction of p ends, and index_directory reports its n new chunks. *)
End(p, n, changed) ==
  /\ told' = [told EXCEPT ![p] = [message |-> IF n > 0 THEN "indexed" ELSE "unchanged",
                                  changed |-> changed]]
  /\ tx' = [tx EXCEPT ![p] = Nil]
  /\ Goto(p, "idle")

(* Mutant of Rollback: the connection goes back to the pool with its        *)
(* transaction open.                                                        *)
RollbackMissing(p) ==
  /\ todo' = [todo EXCEPT ![p] = {}]
  /\ Goto(p, "idle")
  /\ UNCHANGED tx

(* An exception rolls the transaction back and ends the whole run. *)
Rollback(p) ==
  /\ tx' = [tx EXCEPT ![p] = Nil]
  /\ todo' = [todo EXCEPT ![p] = {}]
  /\ Goto(p, "idle")

-----------------------------------------------------------------------------
(* index_directory *)

StartRun(p) ==
  /\ pc[p] = "idle" /\ todo[p] = {}
  /\ todo' = [todo EXCEPT ![p] = {u \in Uris : files[u] # Nil}]
  /\ UNCHANGED <<files, docs, chunks, nextId, pc, tx, told, edits, aborts>>

ReadFile(p, u) ==
  /\ pc[p] = "idle" /\ u \in todo[p] /\ files[u] # Nil
  /\ todo' = [todo EXCEPT ![p] = @ \ {u}]
  /\ tx' = [tx EXCEPT ![p] = [uri |-> u, sum |-> files[u], doc |-> Nil, snap |-> {}, dels |-> {}]]
  /\ Goto(p, "select")
  /\ UNCHANGED <<files, docs, chunks, nextId, told, edits, aborts>>

(* The file was removed after the listing: read_text raises, the files that *)
(* are left are not indexed.                                                *)
FileVanished(p, u) ==
  /\ pc[p] = "idle" /\ u \in todo[p] /\ files[u] = Nil
  /\ todo' = [todo EXCEPT ![p] = {}]
  /\ UNCHANGED <<files, docs, chunks, nextId, pc, tx, told, edits, aborts>>

-----------------------------------------------------------------------------
(* index_document *)

(* Mutant of SelectDocument: it looks for the uri and the checksum. *)
SelectByChecksum(p) ==
  LET found == {d \in DocIds : /\ docs[d] # Nil /\ docs[d].uri = tx[p].uri
                               /\ docs[d].sum = tx[p].sum} IN
  /\ pc[p] = "select"
  /\ IF found = {} THEN Goto(p, "insertDoc") /\ UNCHANGED <<tx, told>> ELSE End(p, 0, FALSE)
  /\ UNCHANGED <<files, docs, chunks, nextId, todo, edits, aborts>>

(* Without an ORDER BY, fetchone takes any row of that uri. *)
SelectDocument(p) ==
  LET found == {d \in DocIds : docs[d] # Nil /\ docs[d].uri = tx[p].uri} IN
  /\ pc[p] = "select"
  /\ \/ /\ found = {}
        /\ Goto(p, "insertDoc")
        /\ UNCHANGED <<tx, told>>
     \/ \E d \in found :
          IF docs[d].sum = tx[p].sum
          THEN End(p, 0, FALSE)
          ELSE /\ tx' = [tx EXCEPT ![p].doc = d]
               /\ Goto(p, "delete")
               /\ UNCHANGED told
  /\ UNCHANGED <<files, docs, chunks, nextId, todo, edits, aborts>>

(* The DELETE takes its snapshot. *)
DeleteBegins(p) ==
  /\ pc[p] = "delete"
  /\ tx' = [tx EXCEPT ![p].snap = chunks[tx[p].doc]]
  /\ Goto(p, "deleting")
  /\ UNCHANGED <<files, docs, chunks, nextId, todo, told, edits, aborts>>

(* It waits for the rows of its snapshot that others have deleted, skips    *)
(* those that are gone then, and never sees the rows committed meanwhile.   *)
DeleteEnds(p) ==
  /\ pc[p] = "deleting"
  /\ HeldChunks(p, tx[p].doc) \cap tx[p].snap = {}
  /\ tx' = [tx EXCEPT ![p].dels = tx[p].snap \cap chunks[tx[p].doc]]
  /\ Goto(p, "update")
  /\ UNCHANGED <<files, docs, chunks, nextId, todo, told, edits, aborts>>

(* Mutant of UpdateDocument: DELETE and UPDATE are committed before the     *)
(* embeddings are there.                                                    *)
UpdateCommitted(p) ==
  /\ pc[p] = "update"
  /\ docs' = [docs EXCEPT ![tx[p].doc].sum = tx[p].sum]
  /\ chunks' = [chunks EXCEPT ![tx[p].doc] = @ \ tx[p].dels]
  /\ Goto(p, "embed")
  /\ UNCHANGED <<files, nextId, todo, tx, told, edits, aborts>>

UpdateDocument(p) ==
  /\ pc[p] = "update"
  /\ \A q \in Indexers \ {p} : ~Holds(q, tx[p].doc)
  /\ Goto(p, "embed")
  /\ UNCHANGED <<files, docs, chunks, nextId, todo, tx, told, edits, aborts>>

InsertDocument(p) ==
  /\ pc[p] = "insertDoc"
  /\ nextId <= MaxDocs
  /\ nextId' = nextId + 1
  /\ tx' = [tx EXCEPT ![p].doc = nextId]
  /\ Goto(p, "embed")
  /\ UNCHANGED <<files, docs, chunks, todo, told, edits, aborts>>

(* COMMIT of what p has done to its document, with the new chunks. *)
Commit(p) ==
  LET d == tx[p].doc
      v == IF docs[d] = Nil THEN 1 ELSE docs[d].version + 1
  IN
  /\ docs' = [docs EXCEPT ![d] = [uri |-> tx[p].uri, sum |-> tx[p].sum, version |-> v]]
  /\ chunks' = [chunks EXCEPT ![d] = (@ \ tx[p].dels) \cup Rows(tx[p].sum, v)]
  /\ End(p, Length[tx[p].sum], Length[tx[p].sum] > 0 \/ tx[p].dels # {})

(* chunk_text and embed_texts; an empty text is committed without chunks. *)
EmbedChunks(p) ==
  /\ pc[p] = "embed"
  /\ IF Length[tx[p].sum] = 0
     THEN Commit(p)
     ELSE Goto(p, "insert") /\ UNCHANGED <<docs, chunks, tx, told>>
  /\ UNCHANGED <<files, nextId, todo, edits, aborts>>

(* Committed rows with the (document_id, chunk_index) of a row p inserts. *)
Conflicts(p) ==
  {c \in chunks[tx[p].doc] \ tx[p].dels : c.idx < Length[tx[p].sum]}

(* Mutant of InsertChunks: no UNIQUE (document_id, chunk_index). *)
InsertUnchecked(p) ==
  /\ pc[p] = "insert"
  /\ Commit(p)
  /\ UNCHANGED <<files, nextId, todo, edits, aborts>>

InsertChunks(p) ==
  /\ pc[p] = "insert" /\ Conflicts(p) = {}
  /\ Commit(p)
  /\ UNCHANGED <<files, nextId, todo, edits, aborts>>

(* UNIQUE (document_id, chunk_index) rejects a row.  If the row it clashes  *)
(* with has been deleted by a transaction still open, p waits for it; but   *)
(* that one waits for p at the UPDATE, and PostgreSQL aborts either.        *)
InsertRejected(p) ==
  /\ pc[p] = "insert" /\ Conflicts(p) # {}
  /\ \E v \in {p} \cup {q \in Indexers \ {p} : /\ tx[q] # Nil /\ tx[q].doc = tx[p].doc
                                               /\ tx[q].dels \cap Conflicts(p) # {}} :
       Rollback(v)
  /\ UNCHANGED <<files, docs, chunks, nextId, told, edits, aborts>>

-----------------------------------------------------------------------------
(* The embedding service fails, or the process is killed. *)
Abort(p) ==
  /\ pc[p] # "idle" \/ todo[p] # {}
  /\ aborts < MaxAborts
  /\ Rollback(p)
  /\ aborts' = aborts + 1
  /\ UNCHANGED <<files, docs, chunks, nextId, told, edits>>

(* Somebody writes c into the file u, or removes it. *)
Edit(u, c) ==
  /\ edits < MaxEdits /\ c # files[u]
  /\ files' = [files EXCEPT ![u] = c]
  /\ edits' = edits + 1
  /\ UNCHANGED <<docs, chunks, nextId, pc, todo, tx, told, aborts>>

IndexStep(p) ==
  \/ StartRun(p)
  \/ \E u \in Uris : ReadFile(p, u) \/ FileVanished(p, u)
  \/ SelectDocument(p)
  \/ DeleteBegins(p)
  \/ DeleteEnds(p)
  \/ UpdateDocument(p)
  \/ InsertDocument(p)
  \/ EmbedChunks(p)
  \/ InsertChunks(p)
  \/ InsertRejected(p)

Next ==
  \/ \E p \in Indexers : IndexStep(p) \/ Abort(p)
  \/ \E u \in Uris, c \in Contents \cup {Nil} : Edit(u, c)

Spec == Init /\ [][Next]_vars

(* Somebody keeps running the indexer, and a run that is not killed goes on. *)
FairSpec == Spec /\ \A p \in Indexers : WF_vars(IndexStep(p))

-----------------------------------------------------------------------------
Whole(d) == chunks[d] = Rows(docs[d].sum, docs[d].version)

(* A document whose text is not empty has exactly the chunks of the text    *)
(* its checksum is of: never those of two versions, never some of them,     *)
(* however indexers overlap, crash and wait for each other.                 *)
ChunksOfOneVersion ==
  \A d \in DocIds : docs[d] # Nil /\ Length[docs[d].sum] > 0 => Whole(d)

(* With one indexer, a uri has at most one document.                        *)
OneDocument ==
  \A d, e \in DocIds :
    docs[d] # Nil /\ docs[e] # Nil /\ docs[d].uri = docs[e].uri => d = e

(* With one indexer the same holds of an empty text too, which leaves no    *)
(* chunk behind; two indexers may leave the chunks of one under the empty   *)
(* text of the other.                                                       *)
EveryDocumentWhole == \A d \in DocIds : docs[d] # Nil => Whole(d)

(* With one indexer, once the files are left alone every file there is is   *)
(* in the knowledge base with its text and no other, and stays so, although *)
(* runs are killed, files vanish under them and the embedding service fails.*)
Current(u) ==
  \E d \in DocIds : docs[d] # Nil /\ docs[d].uri = u /\ docs[d].sum = files[u] /\ Whole(d)

Converges == \A u \in Uris : <>[](files[u] # Nil => Current(u))

(* What the indexers do together, however they overlap, is to replace the   *)
(* chunks of one document after the other, each by one commit that leaves   *)
(* no old chunk and brings none back: no search, and no answer that is      *)
(* being saved, meets a document half indexed or the mixture of two texts.  *)
Indexes == UNION {0 .. Length[c] - 1 : c \in Contents}
Past(d) ==
  [sum : Contents, idx : Indexes, version : 1 .. IF docs[d] = Nil THEN 0 ELSE docs[d].version]

Base == INSTANCE KnowledgeBase
          WITH Docs <- DocIds, content <- chunks, spent <- [d \in DocIds |-> Past(d)]
ImplementsKnowledgeBase == Base!Spec

(* indexing.py:110 prints "без змін" only for a document whose chunks it    *)
(* has left alone.                                                          *)
UnchangedMeansUntouched ==
  \A p \in Indexers : told[p] # Nil => (told[p].message = "unchanged" => ~told[p].changed)
=============================================================================
