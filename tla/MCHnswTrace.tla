---------------------------- MODULE MCHnswTrace ----------------------------
(* Instances of HnswTrace for TLC *)
EXTENDS HnswTrace

\* The accesses of the two arrays are unordered blocks
Pages == 1 .. 4
============================================================================
