--------------------------- MODULE MCMediaUpload ---------------------------
(* MediaUpload on small instances.                                          *)
EXTENDS MediaUpload, TLC

CONSTANTS c1, c2, w1, m1, m2

\* Only used by runs that check no liveness property.
Interchangeable == Permutations(Clients) \cup Permutations(MediaIds)
=============================================================================
