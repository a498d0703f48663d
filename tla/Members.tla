------------------------------- MODULE Members -------------------------------
(***************************************************************************)
(* Who may act in a tenant: sessions (internal/auth), the actor a request  *)
(* resolves to (internal/authz, the auth middleware), members, invitations *)
(* and tenants (internal/api), and the way an OAuth callback turns an      *)
(* invitation into a membership (internal/oauth).                          *)
(*                                                                         *)
(* A request reads its session, then its user's role, and only then runs   *)
(* its handler: the actor is a copy that other requests make stale.  An    *)
(* e-mail address is its user.                                             *)
(***************************************************************************)
EXTENDS Authz

CONSTANTS
    Tenant,
    NoTenant,    \* sessions.scope is null
    User,
    Super,       \* super_admins; only cmd/seed sets the flag
    Seeded,      \* memberships that cmd/seed has written
    Token,       \* session tokens; each is issued once
    NoToken,
    Invitation,  \* invitation ids
    Provider,    \* OAuth providers, each with one subject per e-mail
    Mailbox,     \* the users a provider vouches for
    Grant,       \* the roles that requests ask for
    Req          \* requests in flight

ASSUME MembersAssumption ==
    /\ NoTenant \notin Tenant
    /\ NoToken \notin Token
    /\ Tenant # {} /\ User # {}
    /\ Super \subseteq User
    /\ Seeded \subseteq [tenant: Tenant, user: User, role: Roles]
    /\ \A s, z \in Seeded : s.user = z.user /\ s.tenant = z.tenant => s = z
    /\ Mailbox \subseteq User
    /\ Grant \subseteq Roles

VARIABLES
    tenants,      \* the tenants table
    memberships,  \* the role of a user in a tenant, or NoRole
    accounts,     \* the users table: none, without a password, with one
    identities,   \* the providers a user is linked to
    sessions,
    invitations,
    reqs,         \* requests between their statements
    joined        \* history: <<tenant, user>> pairs that were ever members

vars == <<tenants, memberships, accounts, identities, sessions, invitations,
          reqs, joined>>

NoRole == -1

-----------------------------------------------------------------------------
Session == [state: {"none", "live", "expired", "gone"}, user: User,
            scope: Tenant \cup {NoTenant}]

\* used: consumed or expired.  The cascade of a tenant removes the row.
Invite == [state: {"none", "pending", "used"}, tenant: Tenant, email: User,
           role: Roles]

\* verified: Verify has read the session
\* acting:   ResolveActor is done, the handler runs
\* switch:   handleSetTenant has checked the membership in goal
Request == [at: {"idle", "verified", "acting", "switch"},
            token: Token \cup {NoToken}, user: User,
            tenant: Tenant \cup {NoTenant},
            role: Roles, platform: BOOLEAN, goal: Tenant \cup {NoTenant}]

MembersTypeOK ==
    /\ tenants \in [Tenant -> {"absent", "live", "deleted"}]
    /\ memberships \in [Tenant -> [User -> Roles \cup {NoRole}]]
    /\ accounts \in [User -> {"none", "sso", "password"}]
    /\ identities \in [User -> SUBSET Provider]
    /\ sessions \in [Token -> Session]
    /\ invitations \in [Invitation -> Invite]
    /\ reqs \in [Req -> Request]
    /\ joined \subseteq Tenant \X User

AnyUser == CHOOSE u \in User : TRUE

NoSession == [state |-> "none", user |-> AnyUser, scope |-> NoTenant]

NoInvite == [state |-> "none", tenant |-> CHOOSE t \in Tenant : TRUE,
             email |-> AnyUser, role |-> RoleAuthor]

UsedInvite == [NoInvite EXCEPT !.state = "used"]

NoRequest == [at |-> "idle", token |-> NoToken,
              user |-> AnyUser, tenant |-> NoTenant, role |-> RoleAuthor,
              platform |-> FALSE, goal |-> NoTenant]

\* cmd/seed has run for every element of Seeded and Super.  A super_admin that
\* is not in Seeded has been removed from the tenant it was seeded into.
Init ==
    /\ tenants = [t \in Tenant |-> IF \E s \in Seeded : s.tenant = t
                                   THEN "live" ELSE "absent"]
    /\ memberships = [t \in Tenant |-> [u \in User |->
         IF \E s \in Seeded : s.tenant = t /\ s.user = u
         THEN (CHOOSE s \in Seeded : s.tenant = t /\ s.user = u).role
         ELSE NoRole]]
    /\ accounts = [u \in User |-> IF u \in Super \/ \E s \in Seeded : s.user = u
                                  THEN "password" ELSE "none"]
    /\ identities = [u \in User |-> {}]
    /\ sessions = [k \in Token |-> NoSession]
    /\ invitations = [i \in Invitation |-> NoInvite]
    /\ reqs = [r \in Req |-> NoRequest]
    /\ joined = {<<s.tenant, s.user>> : s \in Seeded}

-----------------------------------------------------------------------------
(* Queries. *)

IsSuperAdmin(u) == u \in Super

MembershipRole(u, t) == memberships[t][u]

IsMember(u, t) == MembershipRole(u, t) # NoRole

Pending(u) == {i \in Invitation : /\ invitations[i].state = "pending"
                                  /\ invitations[i].email = u}

HasPendingInvitation(u) == Pending(u) # {}

\* update sessions ... where token_hash: an expired row is still a row, though
\* what it holds is read no more and so is not kept.
SessionRow(k) == sessions[k].state \in {"live", "expired"}

SetSessionScope(r, k, t) ==
    /\ SessionRow(k)
    /\ sessions' = [sessions EXCEPT ![k].scope =
         IF sessions[k].state = "live" THEN t ELSE @]

SetMembershipRole(t, u, l) ==
    /\ IsMember(u, t)
    /\ memberships' = [memberships EXCEPT ![t][u] = l]

RemoveMembership(t, u) ==
    /\ IsMember(u, t)
    /\ memberships' = [memberships EXCEPT ![t][u] = NoRole]

\* Mutant: on conflict do update.
AddMembershipUpsert(t, u, l) ==
    /\ memberships' = [memberships EXCEPT ![t][u] = l]
    /\ joined' = joined \cup {<<t, u>>}

AddMembershipIfAbsent(t, u, l) ==
    /\ memberships' = [memberships EXCEPT ![t][u] = IF @ = NoRole THEN l ELSE @]
    /\ joined' = joined \cup {<<t, u>>}

\* The foreign key wants a live tenant.
InsertInvitation(i, t, u, l) ==
    /\ invitations[i].state = "none"
    /\ tenants[t] = "live"
    /\ invitations' = [invitations EXCEPT
         ![i] = [state |-> "pending", tenant |-> t, email |-> u, role |-> l]]

ConsumePendingInvitation(i) ==
    invitations' = [invitations EXCEPT ![i] = UsedInvite]

CreateTenant(t) ==
    /\ tenants[t] = "absent"
    /\ tenants' = [tenants EXCEPT ![t] = "live"]

\* Mutant: invitations reference tenants without a cascade.
DeleteTenantKeepsInvites(t) ==
    /\ tenants' = [tenants EXCEPT ![t] = IF @ = "live" THEN "deleted" ELSE @]
    /\ memberships' = [memberships EXCEPT ![t] = [u \in User |-> NoRole]]
    /\ UNCHANGED invitations

\* Memberships and invitations go with their tenant; sessions.scope, which no
\* foreign key guards, keeps its id.  No row is no error.
DeleteTenant(t) ==
    /\ tenants' = [tenants EXCEPT ![t] = IF @ = "live" THEN "deleted" ELSE @]
    /\ memberships' = [memberships EXCEPT ![t] = [u \in User |-> NoRole]]
    /\ invitations' = [i \in Invitation |->
         IF invitations[i].state = "pending" /\ invitations[i].tenant = t
         THEN UsedInvite ELSE invitations[i]]

-----------------------------------------------------------------------------
(* Accounts and sessions. *)

Finish(r) == reqs' = [reqs EXCEPT ![r] = NoRequest]

\* Refused by a check, a lost connection or statement, a process that stops,
\* or a handler that only reads: the request ends and writes no more.
Ends(r) ==
    /\ reqs[r].at # "idle"
    /\ Finish(r)
    /\ UNCHANGED <<tenants, memberships, accounts, identities, sessions,
                   invitations, joined>>

\* The last step of Login and Callback; the token is new.
Issue(u, k) ==
    /\ sessions[k].state = "none"
    /\ sessions' = [sessions EXCEPT ![k] = [state |-> "live", scope |-> NoTenant,
                                            user |-> u]]

\* Nothing that another request does matters between the check of the password
\* and Issue: one step.
Login(u, k) ==
    /\ accounts[u] = "password"
    /\ Issue(u, k)
    /\ UNCHANGED <<tenants, memberships, accounts, identities, invitations,
                   reqs, joined>>

\* One pending invitation, if there is one, is consumed and its role given,
\* unless the user is a member already.
ClaimInvitation(u) ==
    \/ \E i \in Pending(u) :
         /\ ConsumePendingInvitation(i)
         /\ AddMembershipIfAbsent(invitations[i].tenant, u, invitations[i].role)
    \/ /\ ~HasPendingInvitation(u)
       /\ UNCHANGED <<invitations, memberships, joined>>

linkIdentityTx(u, p) == identities' = [identities EXCEPT ![u] = @ \cup {p}]

\* One transaction.  A user who is linked already is only looked up; the first
\* link of a verified e-mail creates the user if need be and claims one
\* invitation.
resolveIdentity(u, p) ==
    \/ /\ p \in identities[u]
       /\ UNCHANGED <<accounts, identities, invitations, memberships, joined>>
    \/ /\ p \notin identities[u]
       /\ accounts' = [accounts EXCEPT ![u] = IF @ = "none" THEN "sso" ELSE @]
       /\ linkIdentityTx(u, p)
       /\ ClaimInvitation(u)

\* From the exchanged code on (the flow row is consumed before).  The session is
\* inserted later, or not at all when the callback fails there.
Callback(u, p, k) ==
    /\ resolveIdentity(u, p)
    /\ Issue(u, k) \/ UNCHANGED sessions
    /\ UNCHANGED <<tenants, reqs>>

\* expires_at passes.
ExpireSession(k) ==
    /\ sessions[k].state = "live"
    /\ sessions' = [sessions EXCEPT ![k] = [NoSession EXCEPT !.state = "expired"]]
    /\ UNCHANGED <<tenants, memberships, accounts, identities, invitations,
                   reqs, joined>>

\* The sweep of the job worker.
SweepSession(k) ==
    /\ sessions[k].state = "expired"
    /\ sessions' = [sessions EXCEPT ![k] = [NoSession EXCEPT !.state = "gone"]]
    /\ UNCHANGED <<tenants, memberships, accounts, identities, invitations,
                   reqs, joined>>

ExpireInvitation(i) ==
    /\ invitations[i].state = "pending"
    /\ invitations' = [invitations EXCEPT ![i] = UsedInvite]
    /\ UNCHANGED <<tenants, memberships, accounts, identities, sessions,
                   reqs, joined>>

-----------------------------------------------------------------------------
(* The auth middleware. *)

Verify(r, k) ==
    /\ reqs[r].at = "idle"
    /\ sessions[k].state = "live"
    /\ reqs' = [reqs EXCEPT ![r] = [NoRequest EXCEPT
         !.at = "verified", !.token = k, !.user = sessions[k].user,
         !.tenant = sessions[k].scope]]
    /\ UNCHANGED <<tenants, memberships, accounts, identities, sessions,
                   invitations, joined>>

\* Mutant: a super_admin without a row keeps the role that was read.
ResolveActorUnranked(u, t) ==
    [ok |-> t = NoTenant \/ IsSuperAdmin(u) \/ IsMember(u, t),
     role |-> IF t = NoTenant THEN RoleAuthor ELSE MembershipRole(u, t),
     platform |-> IsSuperAdmin(u)]

\* A super_admin is an owner where it is no member.  Without a tenant there is
\* no role: a super_admin is platform-wide, anyone else a session-only actor.
ResolveActor(u, t) ==
    [ok |-> t = NoTenant \/ IsSuperAdmin(u) \/ IsMember(u, t),
     role |-> CASE t = NoTenant -> RoleAuthor
                [] t # NoTenant /\ IsMember(u, t) -> MembershipRole(u, t)
                [] OTHER -> RoleOwner,
     platform |-> IsSuperAdmin(u)]

\* auth: from the session to the actor the handler works with.
auth(r) ==
    LET a == ResolveActor(reqs[r].user, reqs[r].tenant)
    IN  /\ reqs[r].at = "verified"
        /\ a.ok
        /\ reqs' = [reqs EXCEPT ![r].at = "acting", ![r].role = a.role,
                                ![r].platform = a.platform]
        /\ UNCHANGED <<tenants, memberships, accounts, identities, sessions,
                       invitations, joined>>

-----------------------------------------------------------------------------
(* Handlers. *)

\* The actor in the form that Authz takes.
Actor(r) == [user |-> reqs[r].user, tenant |-> reqs[r].tenant # NoTenant,
             role |-> reqs[r].role, platform |-> reqs[r].platform]

Require(r, cap) == reqs[r].at = "acting" /\ Can(Actor(r), cap)

requireTenantScope(r) == ~reqs[r].platform /\ reqs[r].tenant # NoTenant

\* Mutant: any admin may make owners.
MayGrantAny(r, l) == l \in Roles

\* Only owners make owners.
MayGrant(r, l) == l = RoleOwner => reqs[r].role = RoleOwner

handleLogout(r) ==
    /\ reqs[r].at = "acting"
    /\ sessions' = [sessions EXCEPT ![reqs[r].token] =
         [NoSession EXCEPT !.state = "gone"]]
    /\ Finish(r)
    /\ UNCHANGED <<tenants, memberships, accounts, identities, invitations,
                   joined>>

\* Mutant: any tenant may be chosen.
MaySwitchAnywhere(r, t) == reqs[r].at = "acting" /\ tenants[t] # "absent"

\* A super_admin may name any id, that of a deleted tenant too.  (Ids are
\* minted by handleTenantsCreate: no request names one before.)
MaySwitch(r, t) ==
    /\ reqs[r].at = "acting"
    /\ tenants[t] # "absent"
    /\ reqs[r].platform \/ IsMember(reqs[r].user, t)

SetTenantCheck(r, t) ==
    /\ MaySwitch(r, t)
    /\ reqs' = [reqs EXCEPT ![r] = [NoRequest EXCEPT
         !.at = "switch", !.token = reqs[r].token, !.user = reqs[r].user,
         !.goal = t]]
    /\ UNCHANGED <<tenants, memberships, accounts, identities, sessions,
                   invitations, joined>>

SetTenantWrite(r) ==
    /\ reqs[r].at = "switch"
    /\ SetSessionScope(r, reqs[r].token, reqs[r].goal)
    /\ Finish(r)
    /\ UNCHANGED <<tenants, memberships, accounts, identities, invitations,
                   joined>>

handleMembersInvite(r, i, u, l) ==
    /\ Require(r, "InviteMembers")
    /\ requireTenantScope(r)
    /\ MayGrant(r, l)
    /\ InsertInvitation(i, reqs[r].tenant, u, l)
    /\ Finish(r)
    /\ UNCHANGED <<tenants, memberships, accounts, identities, sessions, joined>>

handleMembersSetRole(r, u, l) ==
    /\ Require(r, "ChangeRoles")
    /\ requireTenantScope(r)
    /\ MayGrant(r, l)
    /\ SetMembershipRole(reqs[r].tenant, u, l)
    /\ Finish(r)
    /\ UNCHANGED <<tenants, accounts, identities, sessions, invitations, joined>>

handleMembersRemove(r, u) ==
    /\ Require(r, "RemoveMembers")
    /\ requireTenantScope(r)
    /\ u # reqs[r].user
    /\ RemoveMembership(reqs[r].tenant, u)
    /\ Finish(r)
    /\ UNCHANGED <<tenants, accounts, identities, sessions, invitations, joined>>

\* The new tenant has no members.
handleTenantsCreate(r, t) ==
    /\ reqs[r].at = "acting"
    /\ reqs[r].platform
    /\ CreateTenant(t)
    /\ Finish(r)
    /\ UNCHANGED <<memberships, accounts, identities, sessions, invitations,
                   joined>>

tenantManageable(r, t) ==
    \/ reqs[r].platform
    \/ reqs[r].tenant = t /\ reqs[r].role = RoleOwner

\* The purge job that the transaction inserts, unless the tenant has one, is
\* there exactly when the tenant is deleted: it is no variable of its own.
handleTenantsDelete(r, t) ==
    /\ reqs[r].at = "acting"
    /\ tenantManageable(r, t)
    /\ tenants[t] # "absent"
    /\ DeleteTenant(t)
    /\ Finish(r)
    /\ UNCHANGED <<accounts, identities, sessions, joined>>

-----------------------------------------------------------------------------
Handler(r) ==
    \/ handleLogout(r)
    \/ \E t \in Tenant : \/ SetTenantCheck(r, t)
                         \/ handleTenantsCreate(r, t)
                         \/ handleTenantsDelete(r, t)
    \/ SetTenantWrite(r)
    \/ \E u \in User, l \in Grant :
         \/ \E i \in Invitation : handleMembersInvite(r, i, u, l)
         \/ handleMembersSetRole(r, u, l)
    \/ \E u \in User : handleMembersRemove(r, u)

Next ==
    \/ \E u \in User, k \in Token : Login(u, k)
    \/ \E u \in Mailbox, p \in Provider, k \in Token : Callback(u, p, k)
    \/ \E r \in Req : \/ \E k \in Token : Verify(r, k)
                      \/ auth(r)
                      \/ Handler(r)
                      \/ Ends(r)
    \/ \E k \in Token : ExpireSession(k) \/ SweepSession(k)
    \/ \E i \in Invitation : ExpireInvitation(i)

Spec == Init /\ [][Next]_vars

-----------------------------------------------------------------------------
(* Properties. *)

\* The roles held in t: by its members, by pending invitations, and by requests
\* that were authorised with one and still run.
Held(t) ==
    {memberships[t][u] : u \in {v \in User : IsMember(v, t)}}
    \cup {invitations[i].role : i \in {j \in Invitation :
           invitations[j].state = "pending" /\ invitations[j].tenant = t}}
    \cup {reqs[r].role : r \in {q \in Req :
           /\ reqs[q].at = "acting"
           /\ reqs[q].tenant = t
           /\ ~reqs[q].platform}}

\* A step leaves in a tenant no role above every role held in it before.
RaisesNothing ==
    \A t \in Tenant : \A l \in Held(t)' : \E h \in Held(t) : h >= l

\* The highest authority in a tenant never rises: whatever demotions, removals
\* and stale actors interleave, nobody reaches a role that nobody in the tenant
\* held.  A tenant that has lost its last owner never has one again, and one
\* made by handleTenantsCreate never has a member.
AuthorityNeverRises == [][RaisesNothing]_vars

\* Nobody but a super_admin is ever scoped to, or acts in, a tenant it has not
\* been a member of, although handleSetTenant writes the scope after its check
\* and no foreign key or later check of the session guards it.
TenantIsolation ==
    /\ \A k \in Token : LET s == sessions[k]
                         IN  s.scope # NoTenant =>
                               IsSuperAdmin(s.user) \/ <<s.scope, s.user>> \in joined
    /\ \A r \in Req : reqs[r].at = "acting" /\ requireTenantScope(r) =>
                         <<reqs[r].tenant, reqs[r].user>> \in joined

\* A member's role is what it was, or the step is one that may change it.
ChangesNoRoleAlone ==
    \A t \in Tenant, u \in User :
      IsMember(u, t) /\ memberships'[t][u] # memberships[t][u] =>
        \/ tenants'[t] = "deleted"
        \/ \E r \in Req :
             /\ reqs[r].at = "acting" /\ reqs'[r].at = "idle"
             /\ requireTenantScope(r) /\ reqs[r].tenant = t
             /\ reqs[r].role >= RoleAdmin
             /\ memberships'[t][u] = RoleOwner => reqs[r].role = RoleOwner
             /\ memberships'[t][u] = NoRole => reqs[r].user # u

\* The role of a member changes only through a request authorised as admin of
\* that tenant, as owner if the new role is owner, which is not the member's
\* own if it removes it; or with the tenant.  Invitations, even one sent by an
\* owner to a member, never change it.
RoleChangesByAdmins == [][ChangesNoRoleAlone]_memberships

\* A tenant that does not exist has no members and no pending invitations,
\* whatever requests were already authorised when it was deleted.
GoneTenantIsEmpty ==
    \A t \in Tenant : tenants[t] # "live" =>
        /\ \A u \in User : ~IsMember(u, t)
        /\ \A i \in Invitation : ~(/\ invitations[i].state = "pending"
                                   /\ invitations[i].tenant = t)
=============================================================================
