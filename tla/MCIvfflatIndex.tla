--------------------------- MODULE MCIvfflatIndex ---------------------------
(* Instances of IvfflatIndex for TLC *)
EXTENDS IvfflatIndexAM, TLC

\* Vector 2 is as far from the first center as from the second
TwoCenters == <<1, 3>>

Symmetry == Permutations(Inserters)
=============================================================================
