---------------------------- MODULE MCArtifactRun ----------------------------
(* ArtifactRun on small instances.                                          *)
EXTENDS ArtifactRunInv, TLC

CONSTANTS c1, c2, w1, w2

\* Requests and workers are interchangeable: only used by runs that check no
\* liveness property.
Interchangeable == Permutations(Clients) \cup Permutations(Workers)
=============================================================================
