---------------------------- MODULE MCIvfflatScan ----------------------------
(* Instances of IvfflatScan for TLC *)
EXTENDS IvfflatScan, TLC

TwoCenters == <<1, 3>>

\* One list after the other, with a max_probes above the number of lists; all lists in one batch;
\* and one list only
MixedSettings == {<<1, 9, TRUE>>, <<9, 1, FALSE>>, <<1, 1, FALSE>>}
=============================================================================
