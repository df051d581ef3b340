---------------------------- MODULE MCHnswBuild ----------------------------
(* Instances of HnswBuild for TLC *)
EXTENDS HnswBuild, TLC

\* The first and the last of the tuples have the same vector
ValueOf == [t \in Tuple |-> IF t = NTuples THEN 1 ELSE t]
============================================================================
