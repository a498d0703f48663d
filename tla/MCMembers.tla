------------------------------ MODULE MCMembers ------------------------------
(* Members for TLC: t1 has been seeded, with alice as its owner. *)
EXTENDS Members, TLC

CONSTANTS alice, t1

MCSeeded == {[tenant |-> t1, user |-> alice, role |-> RoleOwner]}

MCGrant == {RoleAdmin, RoleOwner}

Symmetry == Permutations(Token) \cup Permutations(Invitation) \cup Permutations(Req)
=============================================================================
