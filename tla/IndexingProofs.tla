---------------------------- MODULE IndexingProofs ----------------------------
(***************************************************************************)
(* For any indexers, files, texts, edits and crashes: the chunks of a      *)
(* document are those of one version of its text.  With a single indexer a *)
(* file has one document, and the empty text leaves no chunk behind.       *)
(***************************************************************************)
EXTENDS Indexing, TLAPS

Total ==
  /\ docs \in [DocIds -> Documents \cup {Nil}]
  /\ chunks \in [DocIds -> SUBSET AllRows]
  /\ tx \in [Indexers -> Transactions \cup {Nil}]

(* What a transaction has deleted, and the document it is at.               *)
Held(p) == IF tx[p] = Nil THEN {} ELSE tx[p].dels

(* The rows there are have the first chunk of a text among them, and none  *)
(* is of a version still to come.                                           *)
GoodRows(d) ==
  /\ docs[d] = Nil => chunks[d] = {}
  /\ chunks[d] # {} => \E c \in chunks[d] : c.idx = 0
  /\ \A c \in chunks[d] : c.version <= docs[d].version

(* A transaction deletes all the rows of its document or none: those of its *)
(* snapshot that are still there are all there are, or they are all gone.   *)
GoodTx(p) ==
  LET d == tx[p].doc IN
  /\ pc[p] \in {"select", "insertDoc", "delete"} => tx[p].snap = {}
  /\ pc[p] \in {"select", "insertDoc", "delete", "deleting"} => tx[p].dels = {}
  /\ pc[p] \in {"delete", "deleting", "update", "embed", "insert"} =>
       /\ d \in DocIds
       /\ \A c \in tx[p].snap : docs[d] # Nil /\ c.version <= docs[d].version
  /\ pc[p] = "deleting" => tx[p].snap \cap chunks[d] \in {{}, chunks[d]}
  /\ pc[p] \in {"update", "embed", "insert"} => tx[p].dels \in {{}, chunks[d]}

(* No row is deleted by two transactions.                                   *)
Disjoint(p, q) ==
  tx[p] # Nil /\ tx[q] # Nil /\ tx[p].doc = tx[q].doc => tx[p].dels \cap tx[q].dels = {}

IInv ==
  /\ Total /\ TypeOK
  /\ \A d \in DocIds : GoodRows(d)
  /\ \A p \in Indexers : tx[p] # Nil => GoodTx(p)
  /\ \A p, q \in Indexers : p # q => Disjoint(p, q)
  /\ ChunksOfOneVersion

-----------------------------------------------------------------------------
(* The chunks of a text are rows of its version, and if there is one there  *)
(* is the first.                                                            *)
LEMMA RowsFacts ==
  ASSUME NEW c \in Contents, NEW v \in Nat
  PROVE  /\ Rows(c, v) \subseteq AllRows
         /\ \A r \in Rows(c, v) : r.version = v
         /\ Rows(c, v) # {} => \E r \in Rows(c, v) : r.idx = 0
         /\ Length[c] = 0 => Rows(c, v) = {}
<1>1. Length[c] \in Nat
  BY IndexingAssumption
<1>2. Rows(c, v) \subseteq AllRows /\ \A r \in Rows(c, v) : r.version = v
  BY <1>1 DEF Rows, AllRows
<1>3. Length[c] = 0 => Rows(c, v) = {}
  BY DEF Rows
<1>4. ASSUME Length[c] > 0 PROVE \E r \in Rows(c, v) : r.idx = 0
  <2>1. [sum |-> c, idx |-> 0, version |-> v] \in Rows(c, v)
    BY <1>1, <1>4 DEF Rows
  <2> QED BY <2>1
<1> QED BY <1>1, <1>2, <1>3, <1>4

LEMMA InitInv == Init => IInv
<1> SUFFICES ASSUME Init PROVE IInv
  OBVIOUS
<1>1. Total
  BY DEF Init, Total
<1>2. TypeOK
  BY IndexingAssumption DEF Init, TypeOK
<1>3. ASSUME NEW d \in DocIds PROVE docs[d] = Nil /\ chunks[d] = {}
  BY <1>3 DEF Init
<1>4. \A p \in Indexers : tx[p] = Nil
  BY DEF Init
<1> QED BY <1>1, <1>2, <1>3, <1>4 DEF IInv, GoodRows, Disjoint, ChunksOfOneVersion

(* A transaction goes from one statement to another: the tables are as they *)
(* were, and the others' transactions too.                                  *)
LEMMA TxStep ==
  ASSUME IInv, NEW p \in Indexers, Total', TypeOK', UNCHANGED <<docs, chunks>>,
         \A q \in Indexers : q # p => tx'[q] = tx[q] /\ pc'[q] = pc[q],
         tx'[p] # Nil => GoodTx(p)',
         \A q \in Indexers : q # p => Disjoint(p, q)'
  PROVE  IInv'
<1>1. \A d \in DocIds : GoodRows(d)'
  BY DEF IInv, GoodRows
<1>2. ChunksOfOneVersion'
  BY DEF IInv, ChunksOfOneVersion, Whole, Rows
<1>3. ASSUME NEW q \in Indexers, tx'[q] # Nil PROVE GoodTx(q)'
  <2>1. CASE q = p
    BY <1>3, <2>1
  <2>2. CASE q # p
    BY <1>3, <2>2 DEF IInv, GoodTx
  <2> QED BY <2>1, <2>2
<1>4. ASSUME NEW q \in Indexers, NEW r \in Indexers, q # r PROVE Disjoint(q, r)'
  <2>1. CASE q = p
    BY <1>4, <2>1
  <2>2. CASE r = p
    <3>1. Disjoint(p, q)'
      BY <1>4, <2>2
    <3> QED BY <2>2, <3>1 DEF Disjoint
  <2>3. CASE q # p /\ r # p
    BY <1>4, <2>3 DEF IInv, Disjoint
  <2> QED BY <2>1, <2>2, <2>3
<1> QED BY <1>1, <1>2, <1>3, <1>4 DEF IInv

(* A transaction ends without having written anything.                      *)
LEMMA TxEnds ==
  ASSUME IInv, NEW p \in Indexers, UNCHANGED <<files, docs, chunks, nextId, edits>>,
         aborts' \in 0 .. MaxAborts,
         tx' = [tx EXCEPT ![p] = Nil], Goto(p, "idle"),
         todo' \in [Indexers -> SUBSET Uris],
         told' \in [Indexers -> {Nil} \cup [message : {"indexed", "unchanged"}, changed : BOOLEAN]]
  PROVE  IInv'
<1>1. Total' /\ TypeOK'
  BY DEF IInv, Total, TypeOK, Goto
<1>2. tx'[p] = Nil /\ \A q \in Indexers : q # p => tx'[q] = tx[q] /\ pc'[q] = pc[q]
  BY DEF IInv, Total, TypeOK, Goto
<1>3. \A q \in Indexers : Disjoint(p, q)'
  BY <1>2 DEF Disjoint
<1> QED BY <1>1, <1>2, <1>3, TxStep

LEMMA TxAt ==
  ASSUME IInv, NEW p \in Indexers, NEW l, l # "idle", pc[p] = l
  PROVE  tx[p] # Nil /\ tx[p] \in Transactions /\ GoodTx(p)
BY DEF IInv, Total, TypeOK

-----------------------------------------------------------------------------
LEMMA RunSteps ==
  ASSUME IInv, NEW p \in Indexers, StartRun(p) \/ \E u \in Uris : ReadFile(p, u) \/ FileVanished(p, u)
  PROVE  IInv'
<1>1. CASE StartRun(p)
  <2>1. Total' /\ TypeOK'
    BY <1>1 DEF IInv, StartRun, Total, TypeOK
  <2> QED BY <1>1, <2>1 DEF StartRun, IInv, GoodRows, GoodTx, Disjoint, ChunksOfOneVersion, Whole, Rows
<1>2. CASE \E u \in Uris : FileVanished(p, u)
  <2>1. Total' /\ TypeOK'
    BY <1>2 DEF IInv, FileVanished, Total, TypeOK
  <2> QED BY <1>2, <2>1 DEF FileVanished, IInv, GoodRows, GoodTx, Disjoint, ChunksOfOneVersion, Whole, Rows
<1>3. ASSUME NEW u \in Uris, ReadFile(p, u) PROVE IInv'
  <2> DEFINE t == [uri |-> u, sum |-> files[u], doc |-> Nil, snap |-> {}, dels |-> {}]
  <2>1. t \in Transactions /\ t # Nil
    BY <1>3, NilAssumption DEF IInv, TypeOK, ReadFile, Transactions
  <2>2. Total' /\ TypeOK'
    BY <1>3, <2>1 DEF IInv, ReadFile, Total, TypeOK, Goto
  <2>3. tx'[p] = t /\ pc'[p] = "select" /\ \A q \in Indexers : q # p => tx'[q] = tx[q] /\ pc'[q] = pc[q]
    BY <1>3 DEF IInv, ReadFile, Total, TypeOK, Goto
  <2>4. GoodTx(p)' /\ \A q \in Indexers : Disjoint(p, q)'
    BY <2>3 DEF GoodTx, Disjoint
  <2>5. UNCHANGED <<docs, chunks>>
    BY <1>3 DEF ReadFile
  <2> QED BY <2>2, <2>3, <2>4, <2>5, TxStep
<1> QED BY <1>1, <1>2, <1>3

(* What an exception or a report without new chunks leaves behind.          *)
LEMMA RollbackInv ==
  ASSUME IInv, NEW p \in Indexers, Rollback(p), UNCHANGED <<files, docs, chunks, nextId, told, edits>>,
         aborts' \in 0 .. MaxAborts
  PROVE  IInv'
<1>1. /\ todo' \in [Indexers -> SUBSET Uris]
      /\ told' \in [Indexers -> {Nil} \cup [message : {"indexed", "unchanged"}, changed : BOOLEAN]]
  BY DEF IInv, TypeOK, Rollback
<1> QED BY <1>1, TxEnds DEF Rollback

LEMMA SelectSteps ==
  ASSUME IInv, NEW p \in Indexers, SelectDocument(p) \/ InsertDocument(p)
  PROVE  IInv'
<1>1. tx[p] # Nil /\ tx[p] \in Transactions /\ GoodTx(p) /\ pc[p] \in {"select", "insertDoc"}
  BY TxAt DEF SelectDocument, InsertDocument
<1>2. tx[p].snap = {} /\ tx[p].dels = {}
  BY <1>1 DEF GoodTx
<1>3. ASSUME End(p, 0, FALSE), UNCHANGED <<files, docs, chunks, nextId, todo, edits, aborts>> PROVE IInv'
  <2>1. /\ told' \in [Indexers -> {Nil} \cup [message : {"indexed", "unchanged"}, changed : BOOLEAN]]
        /\ todo' \in [Indexers -> SUBSET Uris] /\ aborts' \in 0 .. MaxAborts
    BY <1>3 DEF IInv, TypeOK, End
  <2> QED BY <1>3, <2>1, TxEnds DEF End
<1>4. ASSUME NEW d \in DocIds, NEW l \in {"delete", "embed"},
             tx' = [tx EXCEPT ![p].doc = d], Goto(p, l), nextId' \in 1 .. MaxDocs + 1,
             UNCHANGED <<files, docs, chunks, todo, told, edits, aborts>>
      PROVE  IInv'
  <2>1. /\ tx'[p] = [tx[p] EXCEPT !.doc = d] /\ pc'[p] = l
        /\ \A q \in Indexers : q # p => tx'[q] = tx[q] /\ pc'[q] = pc[q]
    BY <1>4 DEF IInv, Total, TypeOK, Goto
  <2>2. /\ tx'[p] \in Transactions /\ tx'[p] # Nil
        /\ tx'[p].doc = d /\ tx'[p].snap = {} /\ tx'[p].dels = {}
    BY <1>1, <1>2, <2>1, NilAssumption DEF Transactions
  <2>3. Total'
    BY <1>4, <2>1, <2>2 DEF IInv, Total
  <2>4. TypeOK'
    BY <1>4, <2>1, <2>2 DEF IInv, TypeOK, Goto
  <2>5. GoodTx(p)' /\ \A q \in Indexers : Disjoint(p, q)'
    BY <2>1, <2>2 DEF GoodTx, Disjoint
  <2> QED BY <1>4, <2>1, <2>3, <2>4, <2>5, TxStep
<1>5. ASSUME Goto(p, "insertDoc"), UNCHANGED <<files, docs, chunks, nextId, todo, tx, told, edits, aborts>>
      PROVE  IInv'
  <2>1. Total' /\ TypeOK'
    BY <1>5, <1>1 DEF IInv, Total, TypeOK, Goto
  <2>2. pc'[p] = "insertDoc" /\ \A q \in Indexers : q # p => tx'[q] = tx[q] /\ pc'[q] = pc[q]
    BY <1>5 DEF IInv, TypeOK, Goto
  <2>3. GoodTx(p)' /\ \A q \in Indexers : Disjoint(p, q)'
    BY <1>2, <1>5, <2>2 DEF GoodTx, Disjoint
  <2> QED BY <1>5, <2>1, <2>2, <2>3, TxStep
<1>6. CASE SelectDocument(p)
  BY <1>3, <1>4, <1>5, <1>6 DEF SelectDocument, IInv, TypeOK
<1>7. CASE InsertDocument(p)
  <2>1. nextId \in DocIds /\ nextId' \in 1 .. MaxDocs + 1
    BY <1>7, IndexingAssumption DEF InsertDocument, IInv, TypeOK, DocIds
  <2> QED BY <1>4, <1>7, <2>1 DEF InsertDocument
<1> QED BY <1>6, <1>7

LEMMA DeleteSteps ==
  ASSUME IInv, NEW p \in Indexers, DeleteBegins(p) \/ DeleteEnds(p) \/ UpdateDocument(p)
  PROVE  IInv'
<1>1. /\ tx[p] # Nil /\ tx[p] \in Transactions /\ GoodTx(p)
      /\ pc[p] \in {"delete", "deleting", "update"}
  BY TxAt DEF DeleteBegins, DeleteEnds, UpdateDocument
<1> DEFINE d == tx[p].doc
<1>2. d \in DocIds /\ chunks[d] \subseteq AllRows /\ GoodRows(d)
  BY <1>1 DEF GoodTx, IInv, Total
<1>3. CASE DeleteBegins(p)
  <2>1. /\ tx'[p] = [tx[p] EXCEPT !.snap = chunks[d]] /\ pc'[p] = "deleting"
        /\ \A q \in Indexers : q # p => tx'[q] = tx[q] /\ pc'[q] = pc[q]
    BY <1>3 DEF IInv, Total, TypeOK, DeleteBegins, Goto
  <2>2. /\ tx'[p] \in Transactions /\ tx'[p] # Nil
        /\ tx'[p].doc = d /\ tx'[p].snap = chunks[d] /\ tx'[p].dels = {}
    BY <1>1, <1>2, <1>3, <2>1, NilAssumption DEF Transactions, GoodTx, DeleteBegins
  <2>3. Total'
    BY <1>3, <2>1, <2>2 DEF IInv, Total, DeleteBegins
  <2>4. TypeOK'
    BY <1>3, <2>1, <2>2 DEF IInv, TypeOK, Goto, DeleteBegins
  <2>5. GoodTx(p)'
    BY <1>2, <1>3, <2>1, <2>2 DEF GoodTx, GoodRows, DeleteBegins
  <2>6. \A q \in Indexers : Disjoint(p, q)'
    BY <2>2 DEF Disjoint
  <2> QED BY <1>3, <2>1, <2>3, <2>4, <2>5, <2>6, TxStep DEF DeleteBegins
<1>4. CASE DeleteEnds(p)
  <2>1. /\ tx'[p] = [tx[p] EXCEPT !.dels = tx[p].snap \cap chunks[d]] /\ pc'[p] = "update"
        /\ \A q \in Indexers : q # p => tx'[q] = tx[q] /\ pc'[q] = pc[q]
    BY <1>4 DEF IInv, Total, TypeOK, DeleteEnds, Goto
  <2>2. /\ tx'[p] \in Transactions /\ tx'[p] # Nil
        /\ tx'[p].doc = d /\ tx'[p].snap = tx[p].snap /\ tx'[p].dels = tx[p].snap \cap chunks[d]
    BY <1>1, <1>2, <2>1, NilAssumption DEF Transactions
  <2>3. Total'
    BY <1>4, <2>1, <2>2 DEF IInv, Total, DeleteEnds
  <2>4. TypeOK'
    BY <1>4, <2>1, <2>2 DEF IInv, TypeOK, Goto, DeleteEnds
  <2>5. GoodTx(p)'
    BY <1>1, <1>2, <1>4, <2>1, <2>2 DEF GoodTx, DeleteEnds
  <2>6. ASSUME NEW q \in Indexers, q # p PROVE Disjoint(p, q)'
    <3> SUFFICES ASSUME tx[q] # Nil, tx[q].doc = d PROVE tx'[p].dels \cap tx[q].dels = {}
      BY <2>1, <2>2, <2>6 DEF Disjoint
    <3>1. tx[q].dels \subseteq HeldChunks(p, d)
      BY <2>6 DEF HeldChunks
    <3>2. HeldChunks(p, d) \cap tx[p].snap = {}
      BY <1>4 DEF DeleteEnds
    <3> QED BY <2>2, <3>1, <3>2
  <2> QED BY <1>4, <2>1, <2>3, <2>4, <2>5, <2>6, TxStep DEF DeleteEnds
<1>5. CASE UpdateDocument(p)
  <2>1. Total' /\ TypeOK'
    BY <1>1, <1>5 DEF IInv, Total, TypeOK, Goto, UpdateDocument
  <2>2. /\ tx' = tx /\ pc[p] = "update" /\ pc'[p] = "embed"
        /\ \A q \in Indexers : q # p => pc'[q] = pc[q]
    BY <1>5 DEF IInv, TypeOK, Goto, UpdateDocument
  <2>3. GoodTx(p)'
    BY <1>1, <1>5, <2>2 DEF GoodTx, UpdateDocument
  <2>4. \A q \in Indexers : q # p => Disjoint(p, q)'
    BY <2>2 DEF IInv, Disjoint
  <2> QED BY <1>5, <2>1, <2>2, <2>3, <2>4, TxStep DEF UpdateDocument
<1> QED BY <1>3, <1>4, <1>5

-----------------------------------------------------------------------------
(* A document gets its next version, and either the rows of a text in that  *)
(* version and no other, or it keeps its rows.                              *)
NextVersion(d, c, v) ==
  /\ v = IF docs[d] = Nil THEN 1 ELSE docs[d].version + 1
  /\ docs'[d] # Nil /\ docs'[d].version = v
  /\ chunks'[d] = Rows(c, v) \/ chunks'[d] = chunks[d]
  /\ \A e \in DocIds : e # d => docs'[e] = docs[e] /\ chunks'[e] = chunks[e]

(* A commit: what it deletes is everything or nothing, and if it inserts    *)
(* rows nothing of another version is left.                                 *)
LEMMA CommitFacts ==
  ASSUME IInv, NEW p \in Indexers, pc[p] \in {"embed", "insert"}, Commit(p),
         UNCHANGED <<files, nextId, todo, edits, aborts>>,
         Length[tx[p].sum] > 0 => Conflicts(p) = {}
  PROVE  IInv' /\ \E d \in DocIds, c \in Contents : \E v : NextVersion(d, c, v)
<1> DEFINE d == tx[p].doc
           c == tx[p].sum
           v == IF docs[d] = Nil THEN 1 ELSE docs[d].version + 1
           row == [uri |-> tx[p].uri, sum |-> c, version |-> v]
           left == chunks[d] \ tx[p].dels
<1>1. tx[p] # Nil /\ tx[p] \in Transactions /\ GoodTx(p)
  BY TxAt
<1>2. d \in DocIds /\ tx[p].dels \in {{}, chunks[d]} /\ c \in Contents /\ tx[p].uri \in Uris
  BY <1>1 DEF GoodTx, Transactions
<1>3. /\ GoodRows(d) /\ chunks[d] \subseteq AllRows /\ docs[d] \in Documents \cup {Nil}
      /\ Length[c] \in Nat
  BY <1>2, IndexingAssumption DEF IInv, Total
<1>4. v \in Nat /\ row \in Documents /\ row # Nil /\ \A r \in chunks[d] : r.version < v
  BY <1>2, <1>3, NilAssumption DEF Documents, GoodRows, AllRows
<1>5. /\ docs' = [docs EXCEPT ![d] = row]
      /\ chunks' = [chunks EXCEPT ![d] = left \cup Rows(c, v)]
  BY DEF Commit
<1>6. /\ docs'[d] = row /\ chunks'[d] = left \cup Rows(c, v)
      /\ \A e \in DocIds : e # d => docs'[e] = docs[e] /\ chunks'[e] = chunks[e]
  BY <1>2, <1>5 DEF IInv, Total
<1>7. /\ tx'[p] = Nil /\ pc'[p] = "idle"
      /\ \A q \in Indexers : q # p => tx'[q] = tx[q] /\ pc'[q] = pc[q]
  BY DEF Commit, End, Goto, IInv, Total, TypeOK
<1>8. left \in {{}, chunks[d]} /\ left = chunks[d] \ tx[p].dels
  BY <1>2
<1>0. /\ row.version = v /\ row.sum = c
      /\ docs[d] # Nil => docs[d].version \in Nat /\ v = docs[d].version + 1
  BY <1>3 DEF Documents
<1>18. v = IF docs[d] = Nil THEN 1 ELSE docs[d].version + 1
  OBVIOUS
<1> HIDE DEF v, row, left
<1>9. /\ Rows(c, v) \subseteq AllRows
      /\ \A r \in Rows(c, v) : r.version = v
      /\ Rows(c, v) # {} => \E r \in Rows(c, v) : r.idx = 0
      /\ Length[c] = 0 => Rows(c, v) = {}
  BY <1>2, <1>4, RowsFacts
<1>10. ASSUME Length[c] > 0 PROVE left = {}
  <2> SUFFICES ASSUME left # {} PROVE FALSE
    OBVIOUS
  <2>1. PICK r \in chunks[d] : r.idx = 0
    BY <1>3, <1>8 DEF GoodRows
  <2>2. r \in Conflicts(p)
    BY <1>3, <1>8, <1>10, <2>1 DEF Conflicts
  <2> QED BY <1>10, <2>2
<1>11. \/ chunks'[d] = Rows(c, v)
       \/ Length[c] = 0 /\ chunks'[d] = chunks[d]
  <2>1. CASE Length[c] > 0
    BY <1>6, <1>10, <2>1
  <2>2. CASE Length[c] = 0
    <3>1. chunks'[d] = left /\ Rows(c, v) = {}
      BY <1>6, <1>9, <2>2
    <3> QED BY <1>8, <2>2, <3>1
  <2> QED BY <1>3, <2>1, <2>2
<1>12. Total'
  <2>1. docs' \in [DocIds -> Documents \cup {Nil}]
    BY <1>4, <1>5 DEF IInv, Total
  <2>2. left \cup Rows(c, v) \subseteq AllRows
    <3>1. left \subseteq AllRows
      BY <1>3, <1>8
    <3> QED BY <1>9, <3>1
  <2>3. chunks' \in [DocIds -> SUBSET AllRows]
    BY <1>5, <2>2 DEF IInv, Total
  <2>4. tx' \in [Indexers -> Transactions \cup {Nil}]
    BY DEF Commit, End, IInv, Total
  <2> QED BY <2>1, <2>3, <2>4 DEF Total
<1>13. TypeOK'
  <2>1. /\ pc' \in [Indexers -> {"idle", "select", "delete", "deleting", "update", "insertDoc",
                                 "embed", "insert"}]
        /\ told' \in [Indexers -> {Nil} \cup [message : {"indexed", "unchanged"}, changed : BOOLEAN]]
    BY DEF Commit, End, Goto, IInv, TypeOK
  <2>2. \A q \in Indexers :
          /\ tx'[q] = Nil <=> pc'[q] = "idle"
          /\ tx'[q] # Nil => tx'[q] \in Transactions /\ tx'[q].dels \subseteq tx'[q].snap
    BY <1>7 DEF IInv, TypeOK
  <2>3. \A e \in DocIds : (docs'[e] = Nil \/ docs'[e] \in Documents) /\ chunks'[e] \subseteq AllRows
    BY <1>12 DEF Total
  <2> QED BY <2>1, <2>2, <2>3 DEF IInv, TypeOK
<1>14. \A e \in DocIds : GoodRows(e)'
  <2>1. ASSUME NEW e \in DocIds, e = d PROVE GoodRows(e)'
    <3>0. \A r \in chunks[d] : r.version \in Nat
      BY <1>3 DEF AllRows
    <3>1. \A r \in chunks'[d] : r.version <= v
      <4>1. \A r \in Rows(c, v) : r.version <= v
        BY <1>4, <1>9
      <4>2. \A r \in chunks[d] : r.version <= v
        BY <1>4, <3>0
      <4> QED BY <1>11, <4>1, <4>2
    <3>2. chunks'[d] # {} => \E r \in chunks'[d] : r.idx = 0
      <4>1. chunks[d] # {} => \E r \in chunks[d] : r.idx = 0
        BY <1>3 DEF GoodRows
      <4> QED BY <1>9, <1>11, <4>1
    <3>3. docs'[d] # Nil /\ docs'[d].version = v
      BY <1>0, <1>4, <1>6
    <3> QED BY <2>1, <3>1, <3>2, <3>3 DEF GoodRows
  <2>2. \A e \in DocIds : e # d => GoodRows(e)'
    BY <1>6 DEF IInv, GoodRows
  <2> QED BY <2>1, <2>2
<1>15. ChunksOfOneVersion'
  <2>1. ASSUME NEW e \in DocIds, e = d PROVE Length[docs'[e].sum] > 0 => Whole(e)'
    <3>1. docs'[e].sum = c /\ docs'[e].version = v
      BY <1>0, <1>6, <2>1
    <3>2. Length[c] > 0 => chunks'[e] = Rows(c, v)
      BY <1>3, <1>6, <1>10, <2>1
    <3> QED BY <3>1, <3>2 DEF Whole, Rows
  <2>2. \A e \in DocIds : e # d /\ docs'[e] # Nil /\ Length[docs'[e].sum] > 0 => Whole(e)'
    BY <1>6 DEF IInv, ChunksOfOneVersion, Whole, Rows
  <2> QED BY <2>1, <2>2 DEF ChunksOfOneVersion
<1>16. ASSUME NEW q \in Indexers, tx'[q] # Nil PROVE GoodTx(q)'
  <2>1. q # p /\ tx'[q] = tx[q] /\ pc'[q] = pc[q] /\ tx[q] # Nil
    BY <1>7, <1>16
  <2>2. GoodTx(q)
    BY <2>1 DEF IInv
  <2>3. CASE tx[q].doc # d \/ pc[q] \notin {"delete", "deleting", "update", "embed", "insert"}
    BY <1>6, <2>1, <2>2, <2>3 DEF GoodTx
  <2>4. CASE tx[q].doc = d /\ pc[q] \in {"delete", "deleting", "update", "embed", "insert"}
    <3>1. tx[q] \in Transactions /\ tx[q].snap \subseteq AllRows
      BY <2>1 DEF IInv, Total, Transactions
    <3>2. \A r \in tx[q].snap : r.version < v
      <4>1. \A r \in tx[q].snap : docs[d] # Nil /\ r.version <= docs[d].version
        BY <2>2, <2>4 DEF GoodTx
      <4>2. \A r \in tx[q].snap : r.version \in Nat
        BY <3>1 DEF AllRows
      <4> QED BY <1>0, <4>1, <4>2
    <3>3. \A r \in tx[q].snap : docs'[d] # Nil /\ r.version <= docs'[d].version
      BY <1>0, <1>4, <1>6, <3>1, <3>2 DEF AllRows
    <3>4. tx[q].snap \cap Rows(c, v) = {}
      BY <1>4, <1>9, <3>2
    <3>5. pc[q] = "deleting" => tx[q].snap \cap chunks'[d] \in {{}, chunks'[d]}
      BY <1>11, <2>2, <2>4, <3>4 DEF GoodTx
    <3>6. pc[q] \in {"update", "embed", "insert"} => tx[q].dels \in {{}, chunks'[d]}
      <4>1. Disjoint(p, q)
        BY <2>1 DEF IInv
      <4>2. tx[p].dels \cap tx[q].dels = {}
        BY <1>1, <2>1, <2>4, <4>1 DEF Disjoint
      <4>3. pc[q] \in {"update", "embed", "insert"} => tx[q].dels \in {{}, chunks[d]}
        BY <2>2, <2>4 DEF GoodTx
      <4>4. CASE left # {}
        <5>1. chunks'[d] = chunks[d]
          <6>1. Length[c] = 0 /\ left = chunks[d]
            BY <1>3, <1>8, <1>10, <4>4
          <6> QED BY <1>6, <1>9, <6>1
        <5> QED BY <4>3, <5>1
      <4>5. CASE left = {}
        <5>1. tx[p].dels = chunks[d]
          BY <1>2, <1>8, <4>5
        <5> QED BY <4>2, <4>3, <5>1
      <4> QED BY <4>4, <4>5
    <3> QED BY <2>1, <2>2, <2>4, <3>3, <3>5, <3>6 DEF GoodTx
  <2> QED BY <2>3, <2>4
<1>17. \A q, r \in Indexers : q # r => Disjoint(q, r)'
  BY <1>7 DEF IInv, Disjoint
<1>19. IInv'
  BY <1>12, <1>13, <1>14, <1>15, <1>16, <1>17 DEF IInv
<1>20. NextVersion(d, c, v)
  <2>1. docs'[d] # Nil /\ docs'[d].version = v
    BY <1>0, <1>4, <1>6
  <2> QED BY <1>6, <1>11, <1>18, <2>1 DEF NextVersion
<1> QED BY <1>2, <1>19, <1>20

LEMMA CommitInv ==
  ASSUME IInv, NEW p \in Indexers, pc[p] \in {"embed", "insert"}, Commit(p),
         UNCHANGED <<files, nextId, todo, edits, aborts>>,
         Length[tx[p].sum] > 0 => Conflicts(p) = {}
  PROVE  IInv'
BY CommitFacts

LEMMA InsertSteps ==
  ASSUME IInv, NEW p \in Indexers, EmbedChunks(p) \/ InsertChunks(p) \/ InsertRejected(p)
  PROVE  IInv'
<1>1. CASE EmbedChunks(p)
  <2>1. tx[p] # Nil /\ tx[p] \in Transactions /\ GoodTx(p) /\ pc[p] = "embed"
    BY <1>1, TxAt DEF EmbedChunks
  <2>2. CASE Length[tx[p].sum] = 0
    BY <1>1, <2>1, <2>2, CommitInv DEF EmbedChunks
  <2>3. CASE Length[tx[p].sum] # 0
    <3>1. /\ tx' = tx /\ UNCHANGED <<docs, chunks>>
          /\ pc'[p] = "insert" /\ \A q \in Indexers : q # p => pc'[q] = pc[q]
      BY <1>1, <2>3 DEF EmbedChunks, Goto, IInv, TypeOK
    <3>2. Total' /\ TypeOK'
      BY <1>1, <2>1, <2>3 DEF EmbedChunks, Goto, IInv, Total, TypeOK
    <3>3. GoodTx(p)' /\ \A q \in Indexers : q # p => Disjoint(p, q)'
      BY <2>1, <3>1 DEF IInv, GoodTx, Disjoint
    <3> QED BY <3>1, <3>2, <3>3, TxStep
  <2> QED BY <2>2, <2>3
<1>2. CASE InsertChunks(p)
  BY <1>2, CommitInv DEF InsertChunks
<1>3. CASE InsertRejected(p)
  <2>1. PICK w \in Indexers : Rollback(w)
    BY <1>3 DEF InsertRejected
  <2>2. aborts' \in 0 .. MaxAborts
    BY <1>3 DEF InsertRejected, IInv, TypeOK
  <2> QED BY <1>3, <2>1, <2>2, RollbackInv DEF InsertRejected
<1> QED BY <1>1, <1>2, <1>3

LEMMA AbortStep ==
  ASSUME IInv, NEW p \in Indexers, Abort(p)
  PROVE  IInv'
<1>1. aborts' \in 0 .. MaxAborts
  BY IndexingAssumption DEF Abort, IInv, TypeOK
<1> QED BY <1>1, RollbackInv DEF Abort

LEMMA EditStep ==
  ASSUME IInv, NEW u \in Uris, NEW c \in Contents \cup {Nil}, Edit(u, c)
  PROVE  IInv'
<1>1. Total' /\ TypeOK'
  BY IndexingAssumption DEF Edit, IInv, Total, TypeOK
<1>2. UNCHANGED <<docs, chunks, tx, pc>>
  BY DEF Edit
<1> QED BY <1>1, <1>2 DEF IInv, GoodRows, GoodTx, Disjoint, ChunksOfOneVersion, Whole, Rows

LEMMA StutterInv ==
  ASSUME IInv, UNCHANGED vars
  PROVE  IInv'
BY DEF vars, IInv, Total, TypeOK, GoodRows, GoodTx, Disjoint, ChunksOfOneVersion, Whole, Rows

LEMMA StepInv == IInv /\ [Next]_vars => IInv'
<1> SUFFICES ASSUME IInv, [Next]_vars PROVE IInv'
  OBVIOUS
<1>1. ASSUME NEW p \in Indexers, IndexStep(p) PROVE IInv'
  BY <1>1, RunSteps, SelectSteps, DeleteSteps, InsertSteps DEF IndexStep
<1> QED BY <1>1, AbortStep, EditStep, StutterInv DEF Next

-----------------------------------------------------------------------------
(* Every row, every open transaction and every counter has its type,        *)
(* through every statement of index_document.                               *)
THEOREM TypeCorrect == Spec => []TypeOK
<1>1. IInv => TypeOK
  BY DEF IInv
<1> QED BY InitInv, StepInv, <1>1, PTL DEF Spec

(* However many indexers overlap, wait for each other, are rejected by the  *)
(* UNIQUE constraint or killed, a document with a text has exactly the      *)
(* chunks of that text.                                                     *)
THEOREM OneVersion == Spec => []ChunksOfOneVersion
<1>1. IInv => ChunksOfOneVersion
  BY DEF IInv
<1> QED BY InitInv, StepInv, <1>1, PTL DEF Spec

-----------------------------------------------------------------------------
(* The refinement: a commit replaces the chunks of one document, or leaves  *)
(* them alone, and everything else stutters.                                *)

(* The versions of a document grow, so the ids of its past do.              *)
LEMMA PastOf ==
  ASSUME IInv, NEW d \in DocIds, NEW c \in Contents, NEW v, NextVersion(d, c, v)
  PROVE  /\ Past(d) \subseteq Past(d)'
         /\ Rows(c, v) \cap Past(d) = {}
         /\ Rows(c, v) \subseteq Past(d)'
<1>1. PICK n \in Nat : /\ n = IF docs[d] = Nil THEN 0 ELSE docs[d].version
                       /\ v = n + 1
  BY DEF IInv, Total, Documents, NextVersion
<1>2. Past(d) = [sum : Contents, idx : Indexes, version : 1 .. n]
  BY <1>1 DEF Past
<1>3. Past(d)' = [sum : Contents, idx : Indexes, version : 1 .. n + 1]
  BY <1>1 DEF Past, NextVersion, Indexes
<1>4. ASSUME NEW r \in Rows(c, v)
      PROVE  r \in [sum : Contents, idx : Indexes, version : {n + 1}] /\ r.version = n + 1
  <2>1. PICK i \in 0 .. Length[c] - 1 : r = [sum |-> c, idx |-> i, version |-> v]
    BY DEF Rows
  <2>2. i \in Indexes
    BY DEF Indexes
  <2> QED BY <1>1, <2>1, <2>2
<1>5. n + 1 \in 1 .. n + 1 /\ n + 1 \notin 1 .. n /\ 1 .. n \subseteq 1 .. n + 1
  OBVIOUS
<1>6. Past(d) \subseteq Past(d)'
  BY <1>2, <1>3, <1>5
<1>7. Rows(c, v) \cap Past(d) = {}
  <2>1. \A r \in Past(d) : r.version # n + 1
    BY <1>2, <1>5
  <2> QED BY <1>4, <2>1
<1>8. Rows(c, v) \subseteq Past(d)'
  BY <1>3, <1>4, <1>5
<1> QED BY <1>6, <1>7, <1>8

(* A commit is a step of the knowledge base.                                *)
LEMMA CommitReplaces ==
  ASSUME IInv, IInv', NEW d \in DocIds, NEW c \in Contents, NEW v, NextVersion(d, c, v)
  PROVE  Base!Next
<1>1. \A e \in DocIds : Past(e) \subseteq Past(e)'
  <2>1. \A e \in DocIds : e # d => Past(e)' = Past(e)
    BY DEF NextVersion, Past, Indexes
  <2> QED BY <2>1, PastOf
<1>2. Base!IdsStaySpent
  BY <1>1 DEF Base!IdsStaySpent
<1>3. CASE chunks'[d] = Rows(c, v)
  <2>1. chunks'[d] \cap Past(d) = {} /\ chunks'[d] \subseteq Past(d)'
    BY <1>3, PastOf
  <2>2. \A e \in DocIds \ {d} : chunks'[e] = chunks[e]
    BY DEF NextVersion
  <2>3. Base!Replace(d)
    BY <1>2, <2>1, <2>2 DEF Base!Replace
  <2> QED BY <2>3 DEF Base!Next
<1>4. CASE chunks'[d] = chunks[d]
  <2>1. \A e \in DocIds : chunks'[e] = chunks[e]
    BY <1>4 DEF NextVersion
  <2>2. chunks' = chunks
    BY <2>1 DEF IInv, Total
  <2> QED BY <1>2, <2>2 DEF Base!Next, Base!Leave
<1> QED BY <1>3, <1>4 DEF NextVersion

(* Every statement but a commit leaves the tables as they are.              *)
LEMMA StatementsStutter ==
  ASSUME UNCHANGED <<docs, chunks>>
  PROVE  UNCHANGED Base!vars
<1>1. \A d \in DocIds : Past(d)' = Past(d)
  BY DEF Past, Indexes
<1> QED BY <1>1 DEF Base!vars

LEMMA StepReplaces ==
  ASSUME IInv, IInv', [Next]_vars
  PROVE  [Base!Next]_(Base!vars)
<1>1. ASSUME NEW p \in Indexers, EmbedChunks(p) PROVE [Base!Next]_(Base!vars)
  <2>1. CASE Length[tx[p].sum] = 0
    <3>1. PICK d \in DocIds, c \in Contents : \E v : NextVersion(d, c, v)
      BY <1>1, <2>1, CommitFacts DEF EmbedChunks
    <3> QED BY <3>1, CommitReplaces
  <2>2. CASE Length[tx[p].sum] # 0
    BY <1>1, <2>2, StatementsStutter DEF EmbedChunks
  <2> QED BY <2>1, <2>2
<1>2. ASSUME NEW p \in Indexers, InsertChunks(p) PROVE [Base!Next]_(Base!vars)
  <2>1. PICK d \in DocIds, c \in Contents : \E v : NextVersion(d, c, v)
    BY <1>2, CommitFacts DEF InsertChunks
  <2> QED BY <2>1, CommitReplaces
<1>3. ASSUME NEW p \in Indexers, IndexStep(p), ~ EmbedChunks(p), ~ InsertChunks(p)
      PROVE  UNCHANGED <<docs, chunks>>
  <2>1. \A u \in Uris : ReadFile(p, u) \/ FileVanished(p, u) => UNCHANGED <<docs, chunks>>
    BY DEF ReadFile, FileVanished
  <2>2. /\ StartRun(p) \/ SelectDocument(p) => UNCHANGED <<docs, chunks>>
        /\ DeleteBegins(p) \/ DeleteEnds(p) \/ UpdateDocument(p) => UNCHANGED <<docs, chunks>>
        /\ InsertDocument(p) \/ InsertRejected(p) => UNCHANGED <<docs, chunks>>
    BY DEF StartRun, SelectDocument, DeleteBegins, DeleteEnds, UpdateDocument,
           InsertDocument, InsertRejected
  <2> QED BY <1>3, <2>1, <2>2 DEF IndexStep
<1>4. ASSUME NEW p \in Indexers, Abort(p) PROVE UNCHANGED <<docs, chunks>>
  BY <1>4 DEF Abort
<1>5. ASSUME NEW u \in Uris, NEW c \in Contents \cup {Nil}, Edit(u, c)
      PROVE  UNCHANGED <<docs, chunks>>
  BY <1>5 DEF Edit
<1>6. UNCHANGED vars => UNCHANGED <<docs, chunks>>
  BY DEF vars
<1>7. CASE Next
  BY <1>1, <1>2, <1>3, <1>4, <1>5, <1>7, StatementsStutter DEF Next
<1>8. CASE UNCHANGED vars
  BY <1>6, <1>8, StatementsStutter
<1> QED BY <1>7, <1>8

(* The indexers together implement a knowledge base whose documents are     *)
(* replaced whole, one by one and by chunks nobody has seen, which is how   *)
(* RequestPipeline has re-indexing, as one action (MeetsKnowledgeBase).     *)
THEOREM ReplacesWhole == Spec => ImplementsKnowledgeBase
<1>1. Init => Base!Init
  BY DEF Init, Base!Init, Past
<1>2. IInv /\ [Next]_vars => [Base!Next]_(Base!vars)
  BY StepInv, StepReplaces
<1> QED BY InitInv, StepInv, <1>1, <1>2, PTL DEF Spec, ImplementsKnowledgeBase, Base!Spec

-----------------------------------------------------------------------------
(* One indexer at a time.                                                   *)
OneIndexer == \A p, q \in Indexers : p = q

(* The document of a transaction is the only one of its file, if there is   *)
(* one, and the transaction deletes every row the document has.             *)
SerialTx(p) ==
  LET d == tx[p].doc IN
  /\ pc[p] = "insertDoc" => \A e \in DocIds : docs[e] # Nil => docs[e].uri # tx[p].uri
  /\ pc[p] \in {"delete", "deleting", "update", "embed", "insert"} =>
       /\ d < nextId
       /\ \A e \in DocIds : docs[e] # Nil => (docs[e].uri = tx[p].uri <=> e = d)
  /\ pc[p] = "deleting" => tx[p].snap = chunks[d]
  /\ pc[p] \in {"update", "embed", "insert"} => tx[p].dels = chunks[d]

SInv ==
  /\ IInv
  /\ \A d \in DocIds : docs[d] # Nil => d < nextId
  /\ \A p \in Indexers : tx[p] # Nil => SerialTx(p)
  /\ OneDocument /\ EveryDocumentWhole

LEMMA SerialInit == Init => SInv
<1>1. Init => IInv
  BY InitInv
<1>2. Init => \A d \in DocIds : docs[d] = Nil
  BY DEF Init
<1>3. Init => \A p \in Indexers : tx[p] = Nil
  BY DEF Init
<1> QED BY <1>1, <1>2, <1>3 DEF SInv, OneDocument, EveryDocumentWhole

(* A step that leaves the tables alone.                                     *)
LEMMA SerialTxStep ==
  ASSUME SInv, OneIndexer, NEW p \in Indexers, IInv', UNCHANGED <<docs, chunks>>,
         nextId' \in Nat, nextId <= nextId', tx'[p] # Nil => SerialTx(p)'
  PROVE  SInv'
<1>1. \A d \in DocIds : docs'[d] # Nil => d < nextId'
  BY DEF SInv, IInv, TypeOK, DocIds
<1>2. \A q \in Indexers : tx'[q] # Nil => SerialTx(q)'
  BY DEF OneIndexer
<1>3. OneDocument' /\ EveryDocumentWhole'
  BY DEF SInv, OneDocument, EveryDocumentWhole, Whole, Rows
<1> QED BY <1>1, <1>2, <1>3 DEF SInv

LEMMA SerialCommit ==
  ASSUME SInv, OneIndexer, NEW p \in Indexers, IInv', pc[p] \in {"embed", "insert"}, Commit(p),
         nextId' = nextId
  PROVE  SInv'
<1> DEFINE c == tx[p].sum
           v == IF docs[tx[p].doc] = Nil THEN 1 ELSE docs[tx[p].doc].version + 1
           row == [uri |-> tx[p].uri, sum |-> c, version |-> v]
<1>1. tx[p] # Nil /\ tx[p] \in Transactions /\ GoodTx(p) /\ SerialTx(p)
  BY TxAt DEF SInv
<1>2. PICK d \in DocIds : d = tx[p].doc
  BY <1>1 DEF GoodTx
<1>3. /\ d < nextId /\ tx[p].dels = chunks[d]
      /\ \A e \in DocIds : docs[e] # Nil => (docs[e].uri = tx[p].uri <=> e = d)
  BY <1>1, <1>2 DEF SerialTx
<1>4. /\ docs'[d] = row /\ chunks'[d] = Rows(c, v)
      /\ \A e \in DocIds : e # d => docs'[e] = docs[e] /\ chunks'[e] = chunks[e]
  <2>1. /\ docs' = [docs EXCEPT ![d] = row]
        /\ chunks' = [chunks EXCEPT ![d] = (@ \ tx[p].dels) \cup Rows(c, v)]
    BY <1>2 DEF Commit
  <2> HIDE DEF row, v
  <2>2. docs \in [DocIds -> Documents \cup {Nil}] /\ chunks \in [DocIds -> SUBSET AllRows]
    BY DEF SInv, IInv, Total
  <2>3. (chunks[d] \ tx[p].dels) \cup Rows(c, v) = Rows(c, v)
    BY <1>3
  <2> QED BY <2>1, <2>2, <2>3
<1>5. tx'[p] = Nil
  BY DEF Commit, End, SInv, IInv, Total
<1>6. \A e \in DocIds : docs'[e] # Nil => e < nextId'
  BY <1>3, <1>4 DEF SInv
<1>7. OneDocument'
  <2>1. \A e \in DocIds : docs'[e] # Nil /\ docs'[e].uri = tx[p].uri => e = d
    BY <1>3, <1>4
  <2> QED BY <1>4, <2>1 DEF SInv, OneDocument
<1>8. EveryDocumentWhole'
  <2>1. ASSUME NEW e \in DocIds, docs'[e] # Nil PROVE chunks'[e] = Rows(docs'[e].sum, docs'[e].version)
    <3>1. CASE e = d
      BY <1>4, <3>1
    <3>2. CASE e # d
      BY <1>4, <2>1, <3>2 DEF SInv, EveryDocumentWhole, Whole
    <3> QED BY <3>1, <3>2
  <2> QED BY <2>1 DEF EveryDocumentWhole, Whole, Rows
<1>9. \A q \in Indexers : tx'[q] # Nil => SerialTx(q)'
  BY <1>5 DEF OneIndexer
<1> QED BY <1>6, <1>7, <1>8, <1>9 DEF SInv

LEMMA SerialIndexStep ==
  ASSUME SInv, OneIndexer, NEW p \in Indexers, IInv', IndexStep(p)
  PROVE  SInv'
<1>0. /\ nextId \in Nat
      /\ \A q \in Indexers : q = p
  BY DEF SInv, IInv, TypeOK, OneIndexer
<1>1. CASE StartRun(p)
  <2>1. UNCHANGED <<docs, chunks, nextId, tx, pc>>
    BY <1>1 DEF StartRun
  <2>2. tx'[p] # Nil => SerialTx(p)'
    BY <2>1 DEF SInv, SerialTx
  <2> QED BY <1>0, <2>1, <2>2, SerialTxStep
<1>2. CASE \E u \in Uris : FileVanished(p, u)
  <2>1. UNCHANGED <<docs, chunks, nextId, tx, pc>>
    BY <1>2 DEF FileVanished
  <2>2. tx'[p] # Nil => SerialTx(p)'
    BY <2>1 DEF SInv, SerialTx
  <2> QED BY <1>0, <2>1, <2>2, SerialTxStep
<1>3. CASE \E u \in Uris : ReadFile(p, u)
  <2>1. UNCHANGED <<docs, chunks, nextId>> /\ pc'[p] = "select"
    BY <1>3 DEF ReadFile, Goto, SInv, IInv, TypeOK
  <2>2. SerialTx(p)'
    BY <2>1 DEF SerialTx
  <2> QED BY <1>0, <2>1, <2>2, SerialTxStep
<1>4. CASE SelectDocument(p)
  <2>1. tx[p] # Nil /\ tx[p] \in Transactions /\ UNCHANGED <<docs, chunks, nextId>>
    BY <1>4, TxAt DEF SelectDocument, SInv
  <2>2. CASE /\ \A e \in DocIds : docs[e] # Nil => docs[e].uri # tx[p].uri
             /\ Goto(p, "insertDoc") /\ tx' = tx
    <3>1. pc'[p] = "insertDoc"
      BY <2>2 DEF Goto, SInv, IInv, TypeOK
    <3>2. SerialTx(p)'
      BY <2>1, <2>2, <3>1 DEF SerialTx
    <3> QED BY <1>0, <2>1, <3>2, SerialTxStep
  <2>3. CASE End(p, 0, FALSE)
    <3>1. tx'[p] = Nil
      BY <2>3 DEF End, SInv, IInv, Total
    <3> QED BY <1>0, <2>1, <3>1, SerialTxStep
  <2>4. ASSUME NEW d \in DocIds, docs[d] # Nil, docs[d].uri = tx[p].uri,
               tx' = [tx EXCEPT ![p].doc = d], Goto(p, "delete")
        PROVE  SInv'
    <3>1. pc'[p] = "delete" /\ tx'[p] = [tx[p] EXCEPT !.doc = d]
      BY <2>4 DEF Goto, SInv, IInv, Total, TypeOK
    <3>2. tx'[p].doc = d /\ tx'[p].uri = tx[p].uri
      BY <2>1, <3>1 DEF Transactions
    <3>3. d < nextId /\ \A e \in DocIds : docs[e] # Nil => (docs[e].uri = tx[p].uri <=> e = d)
      BY <2>4 DEF SInv, OneDocument
    <3>4. SerialTx(p)'
      BY <2>1, <3>1, <3>2, <3>3 DEF SerialTx
    <3> QED BY <1>0, <2>1, <3>4, SerialTxStep
  <2> QED BY <1>4, <2>2, <2>3, <2>4 DEF SelectDocument
<1>5. CASE DeleteBegins(p) \/ DeleteEnds(p)
  <2>1. /\ tx[p] # Nil /\ tx[p] \in Transactions /\ SerialTx(p)
        /\ pc[p] \in {"delete", "deleting"} /\ UNCHANGED <<docs, chunks, nextId>>
    BY <1>5, TxAt DEF DeleteBegins, DeleteEnds, SInv
  <2>2. /\ tx'[p].doc = tx[p].doc /\ tx'[p].uri = tx[p].uri
        /\ \/ pc'[p] = "deleting" /\ tx'[p].snap = chunks[tx[p].doc]
           \/ pc'[p] = "update" /\ tx'[p].dels = tx[p].snap \cap chunks[tx[p].doc] /\ pc[p] = "deleting"
    <3>1. CASE DeleteBegins(p)
      <4>1. tx'[p] = [tx[p] EXCEPT !.snap = chunks[tx[p].doc]] /\ pc'[p] = "deleting"
        BY <3>1 DEF DeleteBegins, Goto, SInv, IInv, Total, TypeOK
      <4> QED BY <2>1, <4>1 DEF Transactions
    <3>2. CASE DeleteEnds(p)
      <4>1. /\ tx'[p] = [tx[p] EXCEPT !.dels = tx[p].snap \cap chunks[tx[p].doc]]
            /\ pc'[p] = "update" /\ pc[p] = "deleting"
        BY <3>2 DEF DeleteEnds, Goto, SInv, IInv, Total, TypeOK
      <4> QED BY <2>1, <4>1 DEF Transactions
    <3> QED BY <1>5, <3>1, <3>2
  <2>3. SerialTx(p)'
    BY <2>1, <2>2 DEF SerialTx
  <2> QED BY <1>0, <2>1, <2>3, SerialTxStep
<1>6. CASE UpdateDocument(p)
  <2>1. /\ tx[p] # Nil /\ SerialTx(p) /\ pc[p] = "update" /\ pc'[p] = "embed"
        /\ UNCHANGED <<docs, chunks, nextId, tx>>
    BY <1>6, TxAt DEF UpdateDocument, Goto, SInv, IInv, TypeOK
  <2>2. SerialTx(p)'
    BY <2>1 DEF SerialTx
  <2> QED BY <1>0, <2>1, <2>2, SerialTxStep
<1>7. CASE InsertDocument(p)
  <2>1. /\ tx[p] # Nil /\ tx[p] \in Transactions /\ SerialTx(p) /\ GoodTx(p)
        /\ UNCHANGED <<docs, chunks>> /\ nextId' = nextId + 1
        /\ pc[p] = "insertDoc" /\ pc'[p] = "embed"
        /\ tx'[p] = [tx[p] EXCEPT !.doc = nextId]
    BY <1>7, TxAt DEF InsertDocument, Goto, SInv, IInv, Total, TypeOK
  <2>2. tx'[p].doc = nextId /\ tx'[p].uri = tx[p].uri /\ tx'[p].dels = {}
    BY <2>1 DEF Transactions, GoodTx
  <2>3. nextId \in DocIds /\ docs[nextId] = Nil /\ chunks[nextId] = {}
    <3>1. nextId \in DocIds
      BY <1>7, IndexingAssumption DEF InsertDocument, SInv, IInv, TypeOK, DocIds
    <3>2. docs[nextId] = Nil
      BY <1>0, <3>1 DEF SInv
    <3> QED BY <3>1, <3>2 DEF SInv, IInv, GoodRows
  <2>4. \A e \in DocIds : docs[e] # Nil => (docs[e].uri = tx[p].uri <=> e = nextId)
    BY <2>1, <2>3 DEF SerialTx
  <2>5. nextId < nextId'
    BY <1>0, <2>1
  <2>6. SerialTx(p)'
    BY <2>1, <2>2, <2>3, <2>4, <2>5 DEF SerialTx
  <2> QED BY <1>0, <2>1, <2>6, SerialTxStep
<1>8. CASE EmbedChunks(p) \/ InsertChunks(p)
  <2>1. CASE Commit(p)
    BY <1>8, <2>1, SerialCommit DEF EmbedChunks, InsertChunks
  <2>2. CASE EmbedChunks(p) /\ Goto(p, "insert") /\ UNCHANGED <<docs, chunks, tx>>
    <3>1. pc[p] = "embed" /\ pc'[p] = "insert" /\ nextId' = nextId
      BY <2>2 DEF EmbedChunks, Goto, SInv, IInv, TypeOK
    <3>2. tx'[p] # Nil => SerialTx(p)'
      BY <2>2, <3>1 DEF SInv, SerialTx
    <3> QED BY <1>0, <2>2, <3>1, <3>2, SerialTxStep
  <2> QED BY <1>8, <2>1, <2>2 DEF EmbedChunks, InsertChunks
<1>9. CASE InsertRejected(p)
  <2>1. tx'[p] = Nil /\ UNCHANGED <<docs, chunks, nextId>>
    BY <1>0, <1>9 DEF InsertRejected, Rollback, SInv, IInv, Total
  <2> QED BY <1>0, <2>1, SerialTxStep
<1> QED BY <1>1, <1>2, <1>3, <1>4, <1>5, <1>6, <1>7, <1>8, <1>9 DEF IndexStep

LEMMA SerialStep == ASSUME OneIndexer PROVE SInv /\ [Next]_vars => SInv'
<1> SUFFICES ASSUME SInv, [Next]_vars PROVE SInv'
  OBVIOUS
<1>1. IInv'
  BY StepInv DEF SInv
<1>2. ASSUME NEW p \in Indexers, IndexStep(p) PROVE SInv'
  BY <1>1, <1>2, SerialIndexStep
<1>3. ASSUME NEW p \in Indexers, Abort(p) PROVE SInv'
  <2>1. tx'[p] = Nil /\ UNCHANGED <<docs, chunks, nextId>> /\ nextId \in Nat
    BY <1>3 DEF Abort, Rollback, SInv, IInv, Total, TypeOK
  <2> QED BY <1>1, <2>1, SerialTxStep
<1>4. ASSUME UNCHANGED <<docs, chunks, nextId, tx, pc>> PROVE SInv'
  <2>1. /\ \A p \in Indexers : tx'[p] # Nil => SerialTx(p)'
        /\ \A d \in DocIds : docs'[d] # Nil => d < nextId'
    BY <1>4 DEF SInv, SerialTx
  <2>2. OneDocument' /\ EveryDocumentWhole'
    BY <1>4 DEF SInv, OneDocument, EveryDocumentWhole, Whole, Rows
  <2> QED BY <1>1, <2>1, <2>2 DEF SInv
<1> QED BY <1>2, <1>3, <1>4 DEF Next, Edit, vars

(* With one indexer a file has one document, although index_document looks  *)
(* for it and inserts it in two statements and no constraint helps.         *)
THEOREM SerialOneDocument == ASSUME OneIndexer PROVE Spec => []OneDocument
<1>1. SInv => OneDocument
  BY DEF SInv
<1> QED BY SerialInit, SerialStep, <1>1, PTL DEF Spec

(* With one indexer the DELETE removes every chunk of the version before,   *)
(* so that a file that was emptied leaves none behind either.               *)
THEOREM SerialWhole == ASSUME OneIndexer PROVE Spec => []EveryDocumentWhole
<1>1. SInv => EveryDocumentWhole
  BY DEF SInv
<1> QED BY SerialInit, SerialStep, <1>1, PTL DEF Spec
=============================================================================
