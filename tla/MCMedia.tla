------------------------------- MODULE MCMedia -------------------------------
(* A post of alice, who is an author, and an author who may not delete there. *)
EXTENDS Media, TLC

CONSTANTS alice, bob

MCActor ==
    {[user |-> u, role |-> RoleAuthor, platform |-> FALSE, tenant |-> TRUE] :
        u \in {alice, bob}}

MCAuthorOf == [p \in Post |-> alice]

Symmetry == Permutations(Slot)
=============================================================================
