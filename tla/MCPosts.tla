------------------------------- MODULE MCPosts -------------------------------
(* The posts of a tenant with one author and one editor. *)
EXTENDS Posts, TLC

CONSTANTS alice, eve, other

MCActor ==
    {[user |-> alice, role |-> RoleAuthor, platform |-> FALSE, tenant |-> TRUE],
     [user |-> eve, role |-> RoleEditor, platform |-> FALSE, tenant |-> TRUE]}

\* ... and a super_admin who has chosen no tenant.
MCActorWithPlatform ==
    MCActor \cup
    {[user |-> eve, role |-> RoleAuthor, platform |-> TRUE, tenant |-> FALSE]}

NoReaderYet == \A c \in Client : clients[c].phase = "idle" /\ clients[c].etag = NoTag

\* Bound: the other post, which takes a slug from the rest, is but created, blank,
\* and is there before the last change and the first reader.
MCOther ==
    /\ posts[other].text = EmptyText
    /\ \A r \in Req : reqs[r].op # "idle" /\ reqs[r].post = other =>
         reqs[r].op = "create" /\ reqs[r].new.text = EmptyText
    /\ (\/ posts[other].status # "absent"
        \/ \E r \in Req : reqs[r].op # "idle" /\ reqs[r].post = other)
       => version < MaxVersion /\ NoReaderYet

\* Bound: a super_admin comes before the first change, the first reader and the
\* other post.
MCPlatform ==
    (\E r \in Req : reqs[r].op # "idle" /\ reqs[r].actor.platform)
       => /\ version = 0 /\ NoReaderYet
          /\ posts[other].status = "absent"
          /\ \A r \in Req : reqs[r].op # "idle" => reqs[r].post # other

MCBound == MCOther /\ MCPlatform

Symmetry == Permutations(Req)
=============================================================================
