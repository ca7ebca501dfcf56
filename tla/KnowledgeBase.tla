---------------------------- MODULE KnowledgeBase ----------------------------
(***************************************************************************)
(* The knowledge base as a request meets it: kb_chunks of                   *)
(* migrations/001_init.sql between two commits of app/indexing.py, with no *)
(* indexer, transaction, lock or failure.  A commit replaces all chunks of *)
(* one document by chunks nobody has seen before.  It is what Indexing is  *)
(* shown to implement, for any number of indexers; its Replace is the re-  *)
(* indexing that RequestPipeline has as one action.                        *)
(*                                                                         *)
(* The contents after a commit are stated as a relation between the two    *)
(* states, so that the text they come from does not appear.                *)
(***************************************************************************)

CONSTANT Docs  \* documents

VARIABLES
  content,  \* content[d]: the chunks of d that a search can return
  spent     \* spent[d]: the chunk ids that a chunk new to d does not have

vars == <<content, spent>>

Init ==
  /\ content = [d \in Docs |-> {}]
  /\ spent = [d \in Docs |-> {}]

IdsStaySpent == UNCHANGED spent \/ \A d \in Docs : spent[d] \subseteq spent'[d]

(* index_document: DELETE and INSERT of all chunks of d, in one commit.     *)
Replace(d) ==
  /\ content'[d] \cap spent[d] = {}
  /\ content'[d] \subseteq spent'[d]
  /\ \A e \in Docs \ {d} : content'[e] = content[e]
  /\ IdsStaySpent

(* A transaction that leaves the chunks alone; the ids it took are gone.    *)
Leave ==
  /\ UNCHANGED content
  /\ IdsStaySpent

Next == Leave \/ \E d \in Docs : Replace(d)

Spec == Init /\ [][Next]_vars

=============================================================================
