------------------------------- MODULE IndexAM -------------------------------
(***************************************************************************)
(* What PostgreSQL asks of an index access method that inserts and         *)
(* vacuums: aminsert puts the heap TID of a row into the index, and        *)
(* ambulkdelete takes out the TIDs of the rows that no snapshot sees any   *)
(* more, and no others, before the heap uses those TIDs again.  Here the   *)
(* index is the set of its heap TIDs; HnswIndexAM and IvfflatIndexAM show  *)
(* that the graph of elements and the chains of pages implement it.        *)
(***************************************************************************)
CONSTANT Tid     \* the heap TIDs of the table

VARIABLES
  row,           \* the row at each heap TID: "unused", "inserting", "live", "dead", or "out":
                 \* one that the index leaves out, for one since its vector has norm zero
  indexed,       \* the heap TIDs in the index
  dead           \* the heap TIDs that a running ambulkdelete is to take out

vars == <<row, indexed, dead>>

\* CREATE INDEX: the index holds the rows of the table
Init ==
  /\ row \in [Tid -> {"unused", "live", "out"}]
  /\ indexed = {t \in Tid : row[t] = "live"}
  /\ dead = {}

\* A row is added to the heap: its TID is in no index
Begin(t) ==
  /\ row[t] = "unused" /\ t \notin indexed
  /\ \E r \in {"inserting", "out"} : row' = [row EXCEPT ![t] = r]
  /\ UNCHANGED <<indexed, dead>>

\* aminsert: the TID becomes part of the index, once; the insert may end with that
Insert(t) ==
  /\ row[t] = "inserting" /\ t \notin indexed
  /\ indexed' = indexed \cup {t}
  /\ \E r \in {"inserting", "live"} : row' = [row EXCEPT ![t] = r]
  /\ UNCHANGED dead

\* aminsert has returned, and the transaction commits
Commit(t) ==
  /\ row[t] = "inserting" /\ t \in indexed
  /\ row' = [row EXCEPT ![t] = "live"]
  /\ UNCHANGED <<indexed, dead>>

\* Transactions abort or delete the rows; a crash also ends an ambulkdelete
Die(T) ==
  /\ \A t \in T : row[t] # "unused"
  /\ row' = [t \in Tid |-> IF t \in T THEN "dead" ELSE row[t]]
  /\ dead' \in {dead, {}}
  /\ UNCHANGED indexed

\* ambulkdelete is called
BulkDelete(D) ==
  /\ dead = {} /\ \A t \in D : row[t] = "dead"
  /\ dead' = D
  /\ UNCHANGED <<row, indexed>>

\* ambulkdelete takes some of the dead TIDs out
Remove(D) ==
  /\ D \subseteq dead
  /\ indexed' = indexed \ D
  /\ UNCHANGED <<row, dead>>

\* ambulkdelete has returned: none of the dead TIDs is left, and the heap may use them again
Free ==
  /\ dead \cap indexed = {}
  /\ row' = [t \in Tid |-> IF t \in dead THEN "unused" ELSE row[t]]
  /\ dead' = {}
  /\ UNCHANGED indexed

Next ==
  \/ \E t \in Tid : Begin(t) \/ Insert(t) \/ Commit(t)
  \/ \E D \in SUBSET Tid : Die(D) \/ BulkDelete(D) \/ Remove(D)
  \/ Free

Spec == Init /\ [][Next]_vars
=============================================================================
