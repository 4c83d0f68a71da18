-------------------------- MODULE MCSharedResources --------------------------
(* A small instance of SharedResources: resources, sets and hashes are        *)
(* interchangeable.                                                           *)
EXTENDS SharedResources, TLC

CONSTANTS r1, r2, s1, s2, h1, h2

Interchangeable == Permutations({r1, r2}) \cup Permutations({s1, s2}) \cup Permutations({h1, h2})
=============================================================================
