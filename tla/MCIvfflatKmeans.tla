-------------------------- MODULE MCIvfflatKmeans --------------------------
(* Instances of IvfflatKmeans for TLC *)
EXTENDS IvfflatKmeans

\* Up to four samples, multiples of twelve
Samples == {<<>>} \cup UNION {[1 .. n -> {0, 12, 24, 60}] : n \in 1 .. 4}
============================================================================
