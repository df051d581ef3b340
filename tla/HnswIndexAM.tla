---------------------------- MODULE HnswIndexAM ----------------------------
(* The graph of HnswIndex as an index access method: what its elements     *)
(* hold is a set of heap TIDs.                                             *)
EXTENDS HnswIndex

\* A row is being inserted until hnswinsert has returned
RowOf ==
  [h \in HeapTid |->
     IF heap[h] = "live" /\ \E p \in Inserters : heaptid[p] = h THEN "inserting" ELSE heap[h]]

Indexed == UNION {heaptids[s] : s \in Slot}

AM == INSTANCE IndexAM WITH Tid <- HeapTid, row <- RowOf, indexed <- Indexed, dead <- deadTids

\* hnswinsert and hnswbulkdelete keep what PostgreSQL asks of an index: a heap TID enters the
\* index once, in one step and only while its row is inserted, hnswbulkdelete takes out none but
\* dead ones, and when it returns, after all its passes, none of those it was given is left,
\* whatever elements were added, reused and freed meanwhile.
HnswKeepsTids == AM!Spec
============================================================================
