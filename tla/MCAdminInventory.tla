-------------------------- MODULE MCAdminInventory --------------------------
(***************************************************************************)
(* AdminInventory for TLC: admin requests, nodes, locations, names and    *)
(* allocations are model values given in the .cfg, and each of these sets *)
(* is symmetric.  Server ids are not: the serial column hands them out in  *)
(* order (CHOOSE).                                                        *)
(***************************************************************************)
EXTENDS AdminInventory, TLC

MCSymmetry == Permutations(Admins) \cup Permutations(Nodes)
                \cup Permutations(Locations) \cup Permutations(Names)
                \cup Permutations(Allocs)

\* Server create payloads with at most one of allocation_ids: a default and
\* one extra binding already meet in every way the transaction orders them.
MCServerPayloads ==
    [alloc : Allocs \cup {None}, extra : {{}} \cup {{a} : a \in Allocs}]
        \cup {Invalid}
=============================================================================
