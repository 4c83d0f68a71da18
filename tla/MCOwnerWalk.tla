----------------------------- MODULE MCOwnerWalk -----------------------------
(* A small instance of OwnerWalk: the bindings and attribute sets below.     *)
EXTENDS OwnerWalk

CONSTANTS a, b, c

\* A service before its first promotion, one whose update is under way (its
\* candidate and active sets may name other owners), one which is rolled back.
MCRecords ==
    [binding : {"independent", "external"}, candidate : {Nothing}, active : {Empty},
     rollback : {Nothing}]
    \cup
    [binding : {"owned"}, candidate : {Nothing, Empty} \cup [owner : OwnerValues],
     active : {Nothing, [owner |-> a]}, rollback : {Nothing, [owner |-> b]}]
=============================================================================
