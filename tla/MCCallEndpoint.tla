--------------------------- MODULE MCCallEndpoint ---------------------------
(* Small instances of CallEndpoint for TLC.                                *)
EXTENDS CallEndpoint, TLC

Alike == Permutations(Endpoints) \cup Permutations(Threads)

\* Behaviours end where a pointer is overwritten: no property speaks of more.
Whole == ~ torn
=============================================================================
