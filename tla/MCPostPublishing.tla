-------------------------- MODULE MCPostPublishing --------------------------
(* PostPublishing on small instances.                                       *)
EXTENDS PostPublishing, TLC

CONSTANTS c1, c2, p1, p2, p3, w1

\* Only used by runs that check no liveness property.
ClientSymmetry  == Permutations(Clients)
Interchangeable == Permutations(Clients) \cup Permutations(Posts)
=============================================================================
