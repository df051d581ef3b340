----------------------------- MODULE MCHnswIndex -----------------------------
(* Small instances of HnswIndex for TLC. *)
EXTENDS HnswIndexAM, TLC

\* The graph built over NBuilt points on a line: the (at most M) nearest points
\* are the neighbors, the higher one of two at the same distance.
Dist(s, t) == IF s < t THEN 2 * (t - s) - 1 ELSE 2 * (s - t)
LineGraph ==
  [s \in 1 .. NBuilt |->
     {t \in (1 .. NBuilt) \ {s} :
        Cardinality({u \in (1 .. NBuilt) \ {s} : Dist(s, u) < Dist(s, t)}) < M}]
=============================================================================
