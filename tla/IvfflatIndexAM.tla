--------------------------- MODULE IvfflatIndexAM ---------------------------
(* The page chains of IvfflatIndex as an index access method.              *)
EXTENDS IvfflatIndex

\* The row at a heap TID: one of norm zero stays out of the index
RowOf ==
  [t \in Tid |->
     IF heap[t] \in {"inserting", "live"} /\ ~Indexable(vec[t]) THEN "out" ELSE heap[t]]

Indexed == {e.tid : e \in UNION {items[b] : b \in Page}}

AM == INSTANCE IndexAM WITH row <- RowOf, indexed <- Indexed, dead <- deadTids

\* ivfflatinsert and ivfflatbulkdelete keep what PostgreSQL asks of an index: a heap TID enters
\* the index once, in one step and only while its row is inserted, ivfflatbulkdelete takes out
\* none but dead ones, and when it returns none of those it was given is left, although inserts
\* append pages to the lists behind it and in front of it.
IvfflatKeepsTids == AM!Spec
=============================================================================
