---------------------------- MODULE MCHnswScan ----------------------------
(* Instances of HnswScan for TLC *)
EXTENDS HnswScan, TLC

Four == 1 .. 4

\* Element 2 has two heap TIDs and element 3, which is being deleted, none; TIDs are distinct
Tids == <<<<11>>, <<21, 22>>, <<>>, <<41>>>>

\* The distances have a tie
Distances == <<1, 2, 2, 3>>

\* One level: every graph with two neighbors per element at most, and the empty index
Few(e) == {N \in SUBSET (Four \ {e}) : Cardinality(N) <= 2}
Flat(entries) ==
  {[entry |-> e, level |-> [x \in Four |-> 0], distance |-> Distances,
    neighbors |-> (0 :> n)] :
     e \in entries,
     n \in {<<a, b, c, d>> : a \in Few(1), b \in Few(2), c \in Few(3), d \in Few(4)}}
FlatGraphs == Flat({2, 4})

\* Two levels: elements 1, 3 and 4 are at the upper one; in the second graph a link of the
\* upper level names element 2, which is not
Tall ==
  {[entry |-> 4, level |-> [x \in Four |-> IF x = 2 THEN 0 ELSE 1], distance |-> d,
    neighbors |-> (1 :> u) @@ (0 :> <<{2, 4}, {1}, {4}, {1, 3}>>)] :
     u \in {<<{3}, {}, {1, 4}, {3}>>, <<{3, 4}, {}, {1, 2}, {2, 3}>>},
     d \in {Distances, <<3, 1, 2, 2>>}}
Empty == {[entry |-> NoElement, level |-> [x \in Four |-> 0], distance |-> Distances,
           neighbors |-> [l \in 0 .. 1 |-> [x \in Four |-> {}]]]}
TallGraphs == Tall \cup Empty
===========================================================================
