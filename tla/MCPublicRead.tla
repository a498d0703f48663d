----------------------------- MODULE MCPublicRead -----------------------------
(* Two tenants that may have one slug after the other; the posts of one. *)
EXTENDS PublicRead

CONSTANTS t1

MCHomeOf == [p \in Post |-> t1]
=============================================================================
