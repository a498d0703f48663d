-------------------------------- MODULE Authz --------------------------------
(***************************************************************************)
(* internal/authz: the role ladder and what an actor may do with it.  An   *)
(* actor is one request's principal, resolved before the handler runs:     *)
(* tenant says whether it acts inside a tenant, platform whether the user  *)
(* is a super_admin.                                                       *)
(***************************************************************************)
EXTENDS Integers

RoleAuthor == 0
RoleEditor == 1
RoleAdmin  == 2
RoleOwner  == 3

Roles == RoleAuthor..RoleOwner

Capabilities == {"CreateDraft", "EditOwnDraft", "UploadMedia", "RunImport",
                 "EditAnyPost", "PublishArchive", "ViewMembers",
                 "InviteMembers", "RemoveMembers", "ChangeRoles",
                 "TenantSettings"}

RoleFor(cap) ==
    CASE cap \in {"EditAnyPost", "PublishArchive", "ViewMembers"} -> RoleEditor
      [] cap \in {"InviteMembers", "RemoveMembers", "ChangeRoles"} -> RoleAdmin
      [] cap = "TenantSettings" -> RoleOwner
      [] OTHER -> RoleAuthor

\* Platform bypasses the ladder; an actor without a tenant holds nothing else.
Can(a, cap) == a.platform \/ (a.tenant /\ a.role >= RoleFor(cap))

\* A plain author is confined to rows of its own.
PlainAuthor(a) == ~a.platform /\ a.role = RoleAuthor

OwnsPost(a, author) == PlainAuthor(a) => author = a.user
=============================================================================
