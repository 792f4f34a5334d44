------------------------- MODULE MCProvisioningSaga -------------------------
(***************************************************************************)
(* Model-checking instance of ProvisioningSaga: two request tasks, three   *)
(* uuids of which two share their leading 32 bits (a uuid_short            *)
(* collision), two node allocations.                                       *)
(***************************************************************************)
EXTENDS ProvisioningSaga, TLC

CONSTANTS u1, u2, u3

\* u1 and u2 collide on uuid_short; u3 does not.
MCShortOf == [u \in Uuids |-> IF u = u3 THEN 2 ELSE 1]

\* Every uuid has its own uuid_short.
MCDistinctShort == [u \in Uuids |-> CASE u = u1 -> 1 [] u = u2 -> 2 [] OTHER -> 3]

\* Request tasks and allocations are interchangeable (safety runs only).
MCSymmetry == Permutations(Workers) \cup Permutations(Allocs)
=============================================================================
