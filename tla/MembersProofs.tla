---------------------------- MODULE MembersProofs ----------------------------
(***************************************************************************)
(* Proofs about members, invitations, tenants and the sessions scoped to   *)
(* them, for every set of users, tenants, tokens and requests in flight.   *)
(***************************************************************************)
EXTENDS Members, TLAPS

(* Types. *)

\* What a table holds where it has no row has its type.
LEMMA DefaultTypes ==
  /\ AnyUser \in User
  /\ NoSession \in Session /\ NoInvite \in Invite /\ UsedInvite \in Invite
  /\ NoRequest \in Request
  <1>1. AnyUser \in User
    BY MembersAssumption DEF AnyUser
  <1>2. (CHOOSE t \in Tenant : TRUE) \in Tenant
    BY MembersAssumption
  <1>3. RoleAuthor \in Roles
    BY DEF RoleAuthor, RoleOwner, Roles
  <1>4. NoInvite \in Invite
    BY <1>1, <1>2, <1>3 DEF NoInvite, Invite
  <1> QED
    BY <1>1, <1>3, <1>4
    DEF NoSession, Session, UsedInvite, Invite, NoRequest, Request

\* The tables that cmd/seed leaves have their types.
LEMMA MembersTypeInit == Init => MembersTypeOK
  <1> SUFFICES ASSUME Init PROVE MembersTypeOK
    OBVIOUS
  <1>1. memberships \in [Tenant -> [User -> Roles \cup {NoRole}]]
    <2>1. ASSUME NEW t \in Tenant, NEW u \in User,
                 \E s \in Seeded : s.tenant = t /\ s.user = u
          PROVE  (CHOOSE s \in Seeded : s.tenant = t /\ s.user = u).role \in Roles
      BY <2>1, MembersAssumption
    <2> QED BY <2>1 DEF Init
  <1>2. joined \subseteq Tenant \X User
    BY MembersAssumption DEF Init
  <1> QED
    BY <1>1, <1>2, DefaultTypes DEF Init, MembersTypeOK

\* Every statement and every step of a request keeps the types.
LEMMA MembersTypeStep == MembersTypeOK /\ [Next]_vars => MembersTypeOK'
  <1> SUFFICES ASSUME MembersTypeOK, [Next]_vars PROVE MembersTypeOK'
    OBVIOUS
  <1> USE DefaultTypes
  <1>1. ASSUME NEW u \in User, NEW k \in Token, Login(u, k)
        PROVE  MembersTypeOK'
    BY <1>1, MembersAssumption DEF Login, Issue, MembersTypeOK, Session
  <1>2. ASSUME NEW u \in Mailbox, NEW p \in Provider, NEW k \in Token,
               Callback(u, p, k)
        PROVE  MembersTypeOK'
    <2>0. u \in User
      BY MembersAssumption
    <2>1. sessions' \in [Token -> Session] /\ tenants' = tenants /\ reqs' = reqs
      BY <1>2, <2>0 DEF Callback, Issue, MembersTypeOK, Session
    <2>2. CASE p \in identities[u] /\ UNCHANGED <<accounts, identities, invitations,
                                                  memberships, joined>>
      BY <2>1, <2>2 DEF MembersTypeOK
    <2>3. CASE /\ accounts' = [accounts EXCEPT ![u] = IF @ = "none" THEN "sso" ELSE @]
               /\ linkIdentityTx(u, p)
               /\ ClaimInvitation(u)
      <3>1. accounts' \in [User -> {"none", "sso", "password"}]
        BY <2>0, <2>3 DEF MembersTypeOK
      <3>2. identities' \in [User -> SUBSET Provider]
        BY <2>0, <2>3 DEF MembersTypeOK, linkIdentityTx
      <3>3. /\ memberships' \in [Tenant -> [User -> Roles \cup {NoRole}]]
            /\ invitations' \in [Invitation -> Invite]
            /\ joined' \subseteq Tenant \X User
        <4>1. CASE \E i \in Pending(u) :
                     /\ ConsumePendingInvitation(i)
                     /\ AddMembershipIfAbsent(invitations[i].tenant, u, invitations[i].role)
          <5>1. PICK i \in Pending(u) :
                     /\ ConsumePendingInvitation(i)
                     /\ AddMembershipIfAbsent(invitations[i].tenant, u, invitations[i].role)
            BY <4>1
          <5>2. /\ i \in Invitation /\ invitations[i].tenant \in Tenant
                /\ invitations[i].role \in Roles
            BY DEF Pending, MembersTypeOK, Invite
          <5> QED
            BY <2>0, <5>1, <5>2
            DEF ConsumePendingInvitation, AddMembershipIfAbsent, MembersTypeOK
        <4> QED BY <2>3, <4>1 DEF ClaimInvitation, MembersTypeOK
      <3> QED BY <2>1, <3>1, <3>2, <3>3 DEF MembersTypeOK
    <2> QED BY <1>2, <2>2, <2>3 DEF Callback, resolveIdentity
  <1>3. ASSUME NEW r \in Req, NEW k \in Token, Verify(r, k)
        PROVE  MembersTypeOK'
    BY <1>3 DEF Verify, MembersTypeOK, Session, Request, NoRequest
  <1>4. ASSUME NEW r \in Req, auth(r)
        PROVE  MembersTypeOK'
    <2>1. /\ reqs[r].user \in User /\ reqs[r].tenant \in Tenant \cup {NoTenant}
          /\ reqs[r] \in Request
      BY DEF MembersTypeOK, Request
    <2>2. RoleAuthor \in Roles /\ RoleOwner \in Roles
      BY DEF Roles, RoleAuthor, RoleOwner
    <2>3. /\ ResolveActor(reqs[r].user, reqs[r].tenant).role \in Roles
          /\ ResolveActor(reqs[r].user, reqs[r].tenant).platform \in BOOLEAN
      BY <2>1, <2>2 DEF ResolveActor, MembersTypeOK, IsMember, MembershipRole, IsSuperAdmin
    <2> QED
      BY <1>4, <2>1, <2>3 DEF auth, MembersTypeOK, Request
  <1>5. ASSUME NEW r \in Req, Ends(r)
        PROVE  MembersTypeOK'
    BY <1>5 DEF Ends, Finish, MembersTypeOK
  <1>6. ASSUME NEW r \in Req, handleLogout(r)
        PROVE  MembersTypeOK'
    BY <1>6 DEF handleLogout, Finish, MembersTypeOK, Session, NoSession
  <1>7. ASSUME NEW r \in Req, NEW t \in Tenant, SetTenantCheck(r, t)
        PROVE  MembersTypeOK'
    BY <1>7 DEF SetTenantCheck, MembersTypeOK, Request, NoRequest
  <1>8. ASSUME NEW r \in Req, NEW t \in Tenant, handleTenantsCreate(r, t)
        PROVE  MembersTypeOK'
    BY <1>8 DEF handleTenantsCreate, CreateTenant, Finish, MembersTypeOK
  <1>9. ASSUME NEW r \in Req, NEW t \in Tenant, handleTenantsDelete(r, t)
        PROVE  MembersTypeOK'
    BY <1>9 DEF handleTenantsDelete, DeleteTenant, Finish, MembersTypeOK
  <1>10. ASSUME NEW r \in Req, SetTenantWrite(r)
         PROVE  MembersTypeOK'
    BY <1>10 DEF SetTenantWrite, SetSessionScope, Finish, MembersTypeOK, Session, Request
  <1>11. ASSUME NEW r \in Req, NEW u \in User, NEW l \in Grant, NEW i \in Invitation,
                handleMembersInvite(r, i, u, l)
         PROVE  MembersTypeOK'
    <2>1. reqs[r].tenant \in Tenant
      BY <1>11 DEF handleMembersInvite, requireTenantScope, MembersTypeOK, Request
    <2> QED
      BY <1>11, <2>1, MembersAssumption
      DEF handleMembersInvite, InsertInvitation, Finish, MembersTypeOK, Invite
  <1>12. ASSUME NEW r \in Req, NEW u \in User, NEW l \in Grant,
                handleMembersSetRole(r, u, l)
         PROVE  MembersTypeOK'
    BY <1>12, MembersAssumption
    DEF handleMembersSetRole, SetMembershipRole, Finish, MembersTypeOK
  <1>13. ASSUME NEW r \in Req, NEW u \in User, handleMembersRemove(r, u)
         PROVE  MembersTypeOK'
    BY <1>13 DEF handleMembersRemove, RemoveMembership, Finish, MembersTypeOK
  <1>14. ASSUME NEW k \in Token, ExpireSession(k) \/ SweepSession(k)
         PROVE  MembersTypeOK'
    <2>1. /\ [NoSession EXCEPT !.state = "expired"] \in Session
          /\ [NoSession EXCEPT !.state = "gone"] \in Session
      BY DEF Session
    <2> QED BY <1>14, <2>1 DEF ExpireSession, SweepSession, MembersTypeOK
  <1>15. ASSUME NEW i \in Invitation, ExpireInvitation(i)
         PROVE  MembersTypeOK'
    BY <1>15 DEF ExpireInvitation, MembersTypeOK
  <1>16. CASE UNCHANGED vars
    BY <1>16 DEF vars, MembersTypeOK
  <1> QED
    BY <1>1, <1>2, <1>3, <1>4, <1>5, <1>6, <1>7, <1>8, <1>9, <1>10, <1>11, <1>12,
       <1>13, <1>14, <1>15, <1>16 DEF Next, Handler

\* The tables and the requests in flight keep their types.
THEOREM MembersTypeCorrect == Spec => []MembersTypeOK
  BY MembersTypeInit, MembersTypeStep, PTL DEF Spec

-----------------------------------------------------------------------------
(* Tenant isolation.  That a session's scope is one of its user's tenants is *)
(* not inductive: handleSetTenant writes a scope it checked in an earlier    *)
(* statement, for the user that Verify read before that.  The invariant says *)
(* what every request in flight still knows of its token.                    *)

\* u has been a member of t, or needs not be.
Known(u, t) == t = NoTenant \/ IsSuperAdmin(u) \/ <<t, u>> \in joined

\* The user that a request was verified for is still the one its token is for,
\* unless the token is dead; and the request names only tenants it may.
Vouched(r) == reqs[r].at # "idle" =>
  /\ reqs[r].token \in Token
  /\ sessions[reqs[r].token].state # "none"
  /\ sessions[reqs[r].token].state = "live" =>
       sessions[reqs[r].token].user = reqs[r].user
  /\ Known(reqs[r].user, reqs[r].tenant)
  /\ Known(reqs[r].user, reqs[r].goal)
  /\ reqs[r].at = "acting" => reqs[r].platform = IsSuperAdmin(reqs[r].user)

IsolationInv ==
  /\ MembersTypeOK
  /\ GoneTenantIsEmpty
  /\ \A t \in Tenant, u \in User : IsMember(u, t) => <<t, u>> \in joined
  /\ \A k \in Token : Known(sessions[k].user, sessions[k].scope)
  /\ \A r \in Req : Vouched(r)

\* The invariant gives the property, and holds after cmd/seed.
LEMMA IsolationImplies == IsolationInv => TenantIsolation /\ GoneTenantIsEmpty
  BY DEF IsolationInv, TenantIsolation, Known, Vouched, requireTenantScope, IsSuperAdmin

LEMMA IsolationInit == Init => IsolationInv
  <1> SUFFICES ASSUME Init PROVE IsolationInv
    OBVIOUS
  <1>1. MembersTypeOK
    BY MembersTypeInit
  <1>2. ASSUME NEW t \in Tenant, NEW u \in User, IsMember(u, t)
        PROVE  \E s \in Seeded : s.tenant = t /\ s.user = u
    BY <1>2 DEF Init, IsMember, MembershipRole
  <1>3. GoneTenantIsEmpty
    BY <1>2 DEF Init, GoneTenantIsEmpty, NoInvite
  <1>4. \A t \in Tenant, u \in User : IsMember(u, t) => <<t, u>> \in joined
    BY <1>2 DEF Init
  <1> QED
    BY <1>1, <1>3, <1>4 DEF Init, IsolationInv, Known, Vouched, NoSession, NoRequest

\* Memberships appear only in live tenants, through an invitation.
LEMMA GoneStep == IsolationInv /\ [Next]_vars => GoneTenantIsEmpty'
  <1> SUFFICES ASSUME IsolationInv, [Next]_vars PROVE GoneTenantIsEmpty'
    OBVIOUS
  <1> USE DEF IsMember, MembershipRole
  <1>0. MembersTypeOK /\ GoneTenantIsEmpty
    BY DEF IsolationInv
  <1>1. CASE UNCHANGED <<tenants, memberships, invitations>>
    BY <1>0, <1>1 DEF GoneTenantIsEmpty
  <1>2. ASSUME NEW u \in Mailbox, NEW p \in Provider, NEW k \in Token,
               Callback(u, p, k), ~UNCHANGED <<tenants, memberships, invitations>>
        PROVE  GoneTenantIsEmpty'
    <2>1. PICK i \in Pending(u) :
                 /\ ConsumePendingInvitation(i)
                 /\ AddMembershipIfAbsent(invitations[i].tenant, u, invitations[i].role)
      BY <1>2 DEF Callback, resolveIdentity, ClaimInvitation
    <2>2. /\ i \in Invitation /\ invitations[i].tenant \in Tenant
          /\ invitations[i].state = "pending" /\ tenants' = tenants
          /\ u \in User
      BY <1>0, <1>2, MembersAssumption DEF Pending, MembersTypeOK, Invite, Callback
    <2>3. tenants[invitations[i].tenant] = "live"
      BY <1>0, <2>2 DEF GoneTenantIsEmpty
    <2>4. /\ \A t \in Tenant \ {invitations[i].tenant} : memberships'[t] = memberships[t]
          /\ \A z \in Invitation \ {i} : invitations'[z] = invitations[z]
          /\ invitations'[i].state = "used"
      BY <1>0, <2>1, <2>2
      DEF MembersTypeOK, ConsumePendingInvitation, AddMembershipIfAbsent, UsedInvite, NoInvite
    <2> QED BY <1>0, <2>2, <2>3, <2>4 DEF GoneTenantIsEmpty
  <1>3. ASSUME NEW r \in Req, NEW t \in Tenant, handleTenantsCreate(r, t)
        PROVE  GoneTenantIsEmpty'
    BY <1>0, <1>3 DEF GoneTenantIsEmpty, MembersTypeOK, handleTenantsCreate, CreateTenant
  <1>4. ASSUME NEW r \in Req, NEW t \in Tenant, handleTenantsDelete(r, t)
        PROVE  GoneTenantIsEmpty'
    BY <1>0, <1>4
    DEF GoneTenantIsEmpty, MembersTypeOK, handleTenantsDelete, DeleteTenant, UsedInvite, NoInvite
  <1>5. ASSUME NEW r \in Req, NEW u \in User, NEW l \in Grant, NEW i \in Invitation,
               handleMembersInvite(r, i, u, l)
        PROVE  GoneTenantIsEmpty'
    BY <1>0, <1>5 DEF GoneTenantIsEmpty, MembersTypeOK, handleMembersInvite, InsertInvitation
  <1>6. ASSUME NEW r \in Req, NEW u \in User, NEW l \in Grant,
               handleMembersSetRole(r, u, l)
        PROVE  GoneTenantIsEmpty'
    BY <1>0, <1>6 DEF GoneTenantIsEmpty, MembersTypeOK, handleMembersSetRole, SetMembershipRole
  <1>7. ASSUME NEW r \in Req, NEW u \in User, handleMembersRemove(r, u)
        PROVE  GoneTenantIsEmpty'
    BY <1>0, <1>7 DEF GoneTenantIsEmpty, MembersTypeOK, handleMembersRemove, RemoveMembership
  <1>8. ASSUME NEW i \in Invitation, ExpireInvitation(i)
        PROVE  GoneTenantIsEmpty'
    BY <1>0, <1>8 DEF GoneTenantIsEmpty, MembersTypeOK, ExpireInvitation, UsedInvite, NoInvite
  <1> QED
    BY <1>1, <1>2, <1>3, <1>4, <1>5, <1>6, <1>7, <1>8
    DEF Next, Handler, Login, Verify, auth, Ends, handleLogout, SetTenantCheck,
        SetTenantWrite, ExpireSession, SweepSession, vars

\* What a step does to the memberships and to the history of who was a member.
LEMMA JoinedStep ==
  IsolationInv /\ [Next]_vars =>
    /\ joined \subseteq joined'
    /\ (\A t \in Tenant, u \in User : IsMember(u, t) => <<t, u>> \in joined)'
  <1> SUFFICES ASSUME IsolationInv, [Next]_vars
               PROVE  /\ joined \subseteq joined'
                      /\ \A t \in Tenant, u \in User :
                           memberships'[t][u] # NoRole => <<t, u>> \in joined'
    BY DEF IsMember, MembershipRole
  <1>0. /\ MembersTypeOK
        /\ \A t \in Tenant, u \in User : memberships[t][u] # NoRole => <<t, u>> \in joined
    BY DEF IsolationInv, IsMember, MembershipRole
  <1>1. CASE UNCHANGED <<memberships, joined>>
    BY <1>0, <1>1
  <1>2. ASSUME NEW u \in Mailbox, NEW p \in Provider, NEW k \in Token, Callback(u, p, k),
               ~UNCHANGED <<memberships, joined>>,
               NEW t \in Tenant, NEW v \in User
        PROVE  /\ joined \subseteq joined'
               /\ memberships'[t][v] # NoRole => <<t, v>> \in joined'
    <2>1. PICK i \in Pending(u) :
                 AddMembershipIfAbsent(invitations[i].tenant, u, invitations[i].role)
      BY <1>2 DEF Callback, resolveIdentity, ClaimInvitation
    <2>2. /\ u \in User /\ invitations[i].tenant \in Tenant
      BY <1>0, MembersAssumption DEF Pending, MembersTypeOK, Invite
    <2>3. CASE t = invitations[i].tenant /\ v = u
      BY <2>1, <2>3 DEF AddMembershipIfAbsent
    <2>4. CASE ~(t = invitations[i].tenant /\ v = u)
      <3>1. memberships'[t][v] = memberships[t][v] /\ joined \subseteq joined'
        BY <1>0, <2>1, <2>2, <2>4 DEF AddMembershipIfAbsent, MembersTypeOK
      <3> QED BY <1>0, <3>1
    <2> QED BY <2>3, <2>4
  <1>3. ASSUME NEW r \in Req, NEW t \in Tenant, handleTenantsDelete(r, t),
               NEW w \in Tenant, NEW v \in User, memberships'[w][v] # NoRole
        PROVE  joined' = joined /\ <<w, v>> \in joined'
    BY <1>0, <1>3 DEF handleTenantsDelete, DeleteTenant, MembersTypeOK
  <1>4. ASSUME NEW r \in Req, NEW u \in User, NEW l \in Grant, handleMembersSetRole(r, u, l),
               NEW w \in Tenant, NEW v \in User, memberships'[w][v] # NoRole
        PROVE  joined' = joined /\ <<w, v>> \in joined'
    <2>1. memberships[w][v] # NoRole
      BY <1>0, <1>4
      DEF handleMembersSetRole, SetMembershipRole, IsMember, MembershipRole, MembersTypeOK
    <2> QED BY <1>0, <1>4, <2>1 DEF handleMembersSetRole
  <1>5. ASSUME NEW r \in Req, NEW u \in User, handleMembersRemove(r, u),
               NEW w \in Tenant, NEW v \in User, memberships'[w][v] # NoRole
        PROVE  joined' = joined /\ <<w, v>> \in joined'
    <2>1. memberships[w][v] # NoRole
      BY <1>0, <1>5 DEF handleMembersRemove, RemoveMembership, MembersTypeOK
    <2> QED BY <1>0, <1>5, <2>1 DEF handleMembersRemove
  <1>6. joined \subseteq joined'
    BY <1>0
    DEF Next, Handler, Login, Verify, auth, Ends, handleLogout, SetTenantCheck,
        SetTenantWrite, ExpireSession, SweepSession, vars, ExpireInvitation, Callback,
        resolveIdentity, ClaimInvitation, AddMembershipIfAbsent,
        handleTenantsCreate, handleTenantsDelete, handleMembersInvite,
        handleMembersSetRole, handleMembersRemove
  <1> QED
    BY <1>1, <1>2, <1>3, <1>4, <1>5, <1>6
    DEF Next, Handler, Login, Verify, auth, Ends, handleLogout, SetTenantCheck,
        SetTenantWrite, ExpireSession, SweepSession, ExpireInvitation,
        handleTenantsCreate, handleMembersInvite, vars

\* Who was a member stays known to have been one.
LEMMA KnownStays ==
  ASSUME joined \subseteq joined', NEW u, NEW t, Known(u, t)
  PROVE  Known(u, t)'
  BY DEF Known, IsSuperAdmin

\* A token is issued once, and a live one never changes its user.
LEMMA TokenStep ==
  ASSUME MembersTypeOK, [Next]_vars, NEW k \in Token, sessions[k].state # "none"
  PROVE  /\ sessions'[k].state # "none"
         /\ sessions'[k].state = "live" =>
              sessions[k].state = "live" /\ sessions'[k].user = sessions[k].user
  <1>1. ASSUME NEW z \in Token, NEW u, Issue(u, z)
        PROVE  sessions'[k] = sessions[k]
    BY <1>1 DEF Issue, MembersTypeOK
  <1>2. ASSUME NEW r \in Req, handleLogout(r)
        PROVE  sessions'[k] = sessions[k] \/ sessions'[k].state = "gone"
    BY <1>2 DEF handleLogout, MembersTypeOK, NoSession
  <1>3. ASSUME NEW r \in Req, SetTenantWrite(r)
        PROVE  sessions'[k].state = sessions[k].state /\ sessions'[k].user = sessions[k].user
    BY <1>3 DEF SetTenantWrite, SetSessionScope, MembersTypeOK, Session
  <1>4. ASSUME NEW z \in Token, ExpireSession(z) \/ SweepSession(z)
        PROVE  sessions'[k] = sessions[k] \/ sessions'[k].state \in {"gone", "expired"}
    BY <1>4 DEF ExpireSession, SweepSession, MembersTypeOK, NoSession
  <1>5. sessions'[k] = sessions[k] =>
          /\ sessions'[k].state # "none"
          /\ sessions'[k].state = "live" =>
               sessions[k].state = "live" /\ sessions'[k].user = sessions[k].user
    OBVIOUS
  <1> QED
    BY <1>1, <1>2, <1>3, <1>4, <1>5
    DEF Next, Handler, Login, Callback, Verify, auth, Ends, SetTenantCheck,
        ExpireInvitation, handleTenantsCreate, handleTenantsDelete, handleMembersInvite,
        handleMembersSetRole, handleMembersRemove, vars

\* The only scope a session takes is the goal that a request has had checked.
LEMMA ScopeStep ==
  IsolationInv /\ [Next]_vars => (\A k \in Token : Known(sessions[k].user, sessions[k].scope))'
  <1> SUFFICES ASSUME IsolationInv, [Next]_vars, NEW k \in Token
               PROVE  Known(sessions[k].user, sessions[k].scope)'
    OBVIOUS
  <1>0. MembersTypeOK /\ joined \subseteq joined'
    BY JoinedStep DEF IsolationInv
  <1>s. ASSUME sessions'[k] = sessions[k]
        PROVE  Known(sessions[k].user, sessions[k].scope)'
    BY <1>s, <1>0 DEF IsolationInv, Known, IsSuperAdmin
  <1>n. ASSUME sessions'[k].scope = NoTenant
        PROVE  Known(sessions[k].user, sessions[k].scope)'
    BY <1>n DEF Known
  <1>1. ASSUME NEW z \in Token, NEW u, Issue(u, z)
        PROVE  Known(sessions[k].user, sessions[k].scope)'
    BY <1>0, <1>1, <1>s, <1>n DEF Issue, MembersTypeOK
  <1>2. ASSUME NEW r \in Req, handleLogout(r)
        PROVE  Known(sessions[k].user, sessions[k].scope)'
    BY <1>0, <1>2, <1>s, <1>n DEF handleLogout, MembersTypeOK, NoSession
  <1>3. ASSUME NEW r \in Req, SetTenantWrite(r)
        PROVE  Known(sessions[k].user, sessions[k].scope)'
    <2>1. /\ Vouched(r) /\ reqs[r].at = "switch"
          /\ sessions[k].state = "live" /\ k = reqs[r].token => sessions[k].user = reqs[r].user
      BY <1>3 DEF IsolationInv, SetTenantWrite, Vouched
    <2>2. CASE k = reqs[r].token /\ sessions[k].state = "live"
      <3>1. sessions'[k].scope = reqs[r].goal /\ sessions'[k].user = reqs[r].user
        BY <1>0, <1>3, <2>1, <2>2 DEF SetTenantWrite, SetSessionScope, MembersTypeOK, Session
      <3>2. Known(reqs[r].user, reqs[r].goal)
        BY <2>1 DEF Vouched
      <3> QED BY <1>0, <3>1, <3>2 DEF Known, IsSuperAdmin
    <2>3. CASE ~(k = reqs[r].token /\ sessions[k].state = "live")
      <3>1. sessions'[k] = sessions[k]
        BY <1>0, <1>3, <2>3 DEF SetTenantWrite, SetSessionScope, MembersTypeOK, Session
      <3> QED BY <1>s, <3>1
    <2> QED BY <2>2, <2>3
  <1>4. ASSUME NEW z \in Token, ExpireSession(z) \/ SweepSession(z)
        PROVE  Known(sessions[k].user, sessions[k].scope)'
    BY <1>0, <1>4, <1>s, <1>n DEF ExpireSession, SweepSession, MembersTypeOK, NoSession
  <1> QED
    BY <1>1, <1>2, <1>3, <1>4, <1>s
    DEF Next, Handler, Login, Callback, Verify, auth, Ends, SetTenantCheck,
        ExpireInvitation, handleTenantsCreate, handleTenantsDelete, handleMembersInvite,
        handleMembersSetRole, handleMembersRemove, vars

\* Every request that goes on keeps what it knows of its token and tenants.
LEMMA VouchedStep == IsolationInv /\ [Next]_vars => (\A r \in Req : Vouched(r))'
  <1> SUFFICES ASSUME IsolationInv, [Next]_vars, NEW q \in Req
               PROVE  Vouched(q)'
    OBVIOUS
  <1>0. MembersTypeOK /\ joined \subseteq joined' /\ Vouched(q) /\ MembersTypeOK'
    BY JoinedStep, MembersTypeStep DEF IsolationInv
  <1>s. ASSUME reqs'[q] = reqs[q]
        PROVE  Vouched(q)'
    <2>1. CASE reqs[q].at = "idle"
      BY <1>s, <2>1 DEF Vouched
    <2>2. CASE reqs[q].at # "idle"
      <3>1. PICK k \in Token : k = reqs[q].token
        BY <1>0, <2>2 DEF Vouched
      <3>2. /\ sessions'[k].state # "none"
            /\ sessions'[k].state = "live" =>
                 sessions[k].state = "live" /\ sessions'[k].user = sessions[k].user
        BY <1>0, <2>2, <3>1, TokenStep DEF Vouched
      <3>3. PICK u, t, g : u = reqs[q].user /\ t = reqs[q].tenant /\ g = reqs[q].goal
        OBVIOUS
      <3>4. Known(u, t)' /\ Known(u, g)'
        BY <1>0, <2>2, <3>3, KnownStays DEF Vouched
      <3> QED
        BY <1>0, <1>s, <2>2, <3>1, <3>2, <3>3, <3>4 DEF Vouched, IsSuperAdmin
    <2> QED BY <2>1, <2>2
  <1>i. ASSUME reqs'[q].at = "idle"
        PROVE  Vouched(q)'
    BY <1>i DEF Vouched
  <1>f. ASSUME NEW r \in Req, Finish(r)
        PROVE  Vouched(q)'
    <2>1. reqs'[q] = reqs[q] \/ reqs'[q].at = "idle"
      BY <1>0, <1>f DEF Finish, NoRequest, MembersTypeOK
    <2> QED BY <1>i, <1>s, <2>1
  <1>1. ASSUME NEW r \in Req, NEW k \in Token, Verify(r, k)
        PROVE  Vouched(q)'
    <2>1. CASE q = r
      <3>1. /\ reqs'[q].token = k /\ reqs'[q].user = sessions[k].user
            /\ reqs'[q].tenant = sessions[k].scope /\ reqs'[q].goal = NoTenant
            /\ reqs'[q].at = "verified" /\ sessions' = sessions /\ joined' = joined
            /\ sessions[k].state = "live"
        BY <1>0, <1>1, <2>1 DEF Verify, NoRequest, MembersTypeOK
      <3> QED BY <3>1 DEF Vouched, IsolationInv, Known, IsSuperAdmin
    <2>2. CASE q # r
      BY <1>0, <1>1, <1>s, <2>2 DEF Verify, MembersTypeOK
    <2> QED BY <2>1, <2>2
  <1>2. ASSUME NEW r \in Req, auth(r)
        PROVE  Vouched(q)'
    <2>1. CASE q = r
      <3>1. /\ reqs'[q].token = reqs[q].token /\ reqs'[q].user = reqs[q].user
            /\ reqs'[q].tenant = reqs[q].tenant /\ reqs'[q].goal = reqs[q].goal
            /\ reqs'[q].at = "acting" /\ sessions' = sessions /\ joined' = joined
            /\ reqs'[q].platform = IsSuperAdmin(reqs[q].user)
            /\ reqs[q].at = "verified"
        BY <1>0, <1>2, <2>1 DEF auth, ResolveActor, MembersTypeOK, Request
      <3> QED BY <1>0, <3>1 DEF Vouched, Known, IsSuperAdmin
    <2>2. CASE q # r
      BY <1>0, <1>2, <1>s, <2>2 DEF auth, MembersTypeOK
    <2> QED BY <2>1, <2>2
  <1>3. ASSUME NEW r \in Req, NEW t \in Tenant, SetTenantCheck(r, t)
        PROVE  Vouched(q)'
    <2>1. CASE q = r
      <3>1. /\ reqs'[q].token = reqs[q].token /\ reqs'[q].user = reqs[q].user
            /\ reqs'[q].tenant = NoTenant /\ reqs'[q].goal = t
            /\ reqs'[q].at = "switch" /\ sessions' = sessions /\ joined' = joined
            /\ reqs[q].at = "acting" /\ reqs[q].user \in User
        BY <1>0, <1>3, <2>1 DEF SetTenantCheck, MaySwitch, NoRequest, MembersTypeOK, Request
      <3>2. reqs[q].platform \/ IsMember(reqs[q].user, t)
        BY <1>3, <2>1 DEF SetTenantCheck, MaySwitch
      <3>3. Known(reqs[q].user, t)
        BY <1>0, <3>1, <3>2 DEF Known, IsolationInv, Vouched
      <3> QED BY <1>0, <3>1, <3>3 DEF Vouched, Known, IsSuperAdmin
    <2>2. CASE q # r
      BY <1>0, <1>3, <1>s, <2>2 DEF SetTenantCheck, MembersTypeOK
    <2> QED BY <2>1, <2>2
  <1> QED
    BY <1>1, <1>2, <1>3, <1>s, <1>f
    DEF Next, Handler, Login, Callback, Ends, handleLogout, SetTenantWrite,
        ExpireSession, SweepSession, ExpireInvitation, handleTenantsCreate,
        handleTenantsDelete, handleMembersInvite, handleMembersSetRole,
        handleMembersRemove, vars

LEMMA IsolationStep == IsolationInv /\ [Next]_vars => IsolationInv'
  BY MembersTypeStep, GoneStep, JoinedStep, ScopeStep, VouchedStep DEF IsolationInv

\* Nobody but a super_admin is ever scoped to, or acts in, a tenant it has not
\* been a member of.
THEOREM TenantsAreIsolated == Spec => []TenantIsolation
  BY IsolationInit, IsolationStep, IsolationImplies, PTL DEF Spec

\* A deleted or never created tenant has no members and no pending invitations.
THEOREM GoneTenantsStayEmpty == Spec => []GoneTenantIsEmpty
  BY IsolationInit, IsolationStep, IsolationImplies, PTL DEF Spec

-----------------------------------------------------------------------------
(* Roles. *)

\* An actor inside a tenant who may do what needs an admin is one.
LEMMA AdminActs ==
  ASSUME MembersTypeOK, NEW r \in Req, requireTenantScope(r),
         NEW cap \in {"InviteMembers", "RemoveMembers", "ChangeRoles"}, Require(r, cap)
  PROVE  /\ reqs[r].at = "acting" /\ ~reqs[r].platform /\ reqs[r].tenant \in Tenant
         /\ reqs[r].role \in Roles /\ reqs[r].role >= RoleAdmin
  <1>1. RoleFor(cap) = RoleAdmin
    BY DEF RoleFor
  <1> QED
    BY <1>1 DEF MembersTypeOK, Request, requireTenantScope, Require, Can, Actor

\* An admin can give no role above its own.
LEMMA GrantsAtMostOwn ==
  ASSUME NEW r \in Req, NEW l \in Grant, MayGrant(r, l),
         reqs[r].role \in Roles, reqs[r].role >= RoleAdmin
  PROVE  reqs[r].role >= l
  BY MembersAssumption DEF MayGrant, Roles, RoleAuthor, RoleAdmin, RoleOwner

\* An invitation adds a role only where there is none; a request that changes
\* one is an admin's.
LEMMA RoleStep == IsolationInv /\ [Next]_vars => ChangesNoRoleAlone
  <1> SUFFICES ASSUME IsolationInv, [Next]_vars, NEW t \in Tenant, NEW u \in User,
                      IsMember(u, t), memberships'[t][u] # memberships[t][u]
               PROVE  \/ tenants'[t] = "deleted"
                      \/ \E r \in Req :
                           /\ reqs[r].at = "acting" /\ reqs'[r].at = "idle"
                           /\ requireTenantScope(r) /\ reqs[r].tenant = t
                           /\ reqs[r].role >= RoleAdmin
                           /\ memberships'[t][u] = RoleOwner => reqs[r].role = RoleOwner
                           /\ memberships'[t][u] = NoRole => reqs[r].user # u
    BY DEF ChangesNoRoleAlone
  <1>0. MembersTypeOK /\ tenants[t] = "live" /\ memberships[t][u] # NoRole
    BY DEF IsolationInv, GoneTenantIsEmpty, IsMember, MembershipRole
  <1>1. ASSUME NEW v \in Mailbox, NEW p \in Provider, NEW k \in Token, Callback(v, p, k)
        PROVE  FALSE
    <2>1. PICK i \in Pending(v) :
                 AddMembershipIfAbsent(invitations[i].tenant, v, invitations[i].role)
      BY <1>1 DEF Callback, resolveIdentity, ClaimInvitation
    <2>2. v \in User /\ invitations[i].tenant \in Tenant
      BY <1>0, MembersAssumption DEF Pending, MembersTypeOK, Invite
    <2> QED BY <1>0, <2>1, <2>2 DEF AddMembershipIfAbsent, MembersTypeOK
  <1>2. ASSUME NEW r \in Req, NEW w \in Tenant, handleTenantsDelete(r, w)
        PROVE  tenants'[t] = "deleted"
    BY <1>0, <1>2 DEF handleTenantsDelete, DeleteTenant, MembersTypeOK
  <1>f. ASSUME NEW r \in Req, Finish(r)
        PROVE  reqs'[r].at = "idle"
    BY <1>0, <1>f DEF Finish, NoRequest, MembersTypeOK
  <1>3. ASSUME NEW r \in Req, NEW v \in User, NEW l \in Grant, handleMembersSetRole(r, v, l)
        PROVE  /\ reqs[r].at = "acting" /\ reqs'[r].at = "idle"
               /\ requireTenantScope(r) /\ reqs[r].tenant = t
               /\ reqs[r].role >= RoleAdmin
               /\ memberships'[t][u] = RoleOwner => reqs[r].role = RoleOwner
               /\ memberships'[t][u] # NoRole
    <2>1. reqs[r].tenant \in Tenant /\ requireTenantScope(r) /\ reqs[r].at = "acting"
          /\ reqs[r].role >= RoleAdmin /\ reqs'[r].at = "idle"
      BY <1>0, <1>3, <1>f, AdminActs DEF handleMembersSetRole
    <2>2. l # NoRole
      BY MembersAssumption DEF Roles, NoRole, RoleAuthor, RoleOwner
    <2>3. reqs[r].tenant = t /\ memberships'[t][u] = l
      BY <1>0, <1>3, <2>1 DEF handleMembersSetRole, SetMembershipRole, MembersTypeOK
    <2> QED BY <1>3, <2>1, <2>2, <2>3 DEF handleMembersSetRole, MayGrant
  <1>4. ASSUME NEW r \in Req, NEW v \in User, handleMembersRemove(r, v)
        PROVE  /\ reqs[r].at = "acting" /\ reqs'[r].at = "idle"
               /\ requireTenantScope(r) /\ reqs[r].tenant = t
               /\ reqs[r].role >= RoleAdmin
               /\ memberships'[t][u] # RoleOwner
               /\ reqs[r].user # u
    <2>1. reqs[r].tenant \in Tenant /\ requireTenantScope(r) /\ reqs[r].at = "acting"
          /\ reqs[r].role >= RoleAdmin /\ reqs'[r].at = "idle"
      BY <1>0, <1>4, <1>f, AdminActs DEF handleMembersRemove
    <2>2. reqs[r].tenant = t /\ v = u /\ memberships'[t][u] = NoRole
      BY <1>0, <1>4, <2>1 DEF handleMembersRemove, RemoveMembership, MembersTypeOK
    <2> QED BY <1>4, <2>1, <2>2 DEF handleMembersRemove, NoRole, RoleOwner
  <1> QED
    BY <1>1, <1>2, <1>3, <1>4
    DEF Next, Handler, Login, Verify, auth, Ends, handleLogout, SetTenantCheck,
        SetTenantWrite, ExpireSession, SweepSession, ExpireInvitation,
        handleTenantsCreate, handleMembersInvite, vars

\* The role of a member changes only through a request that an admin of that
\* tenant was authorised for, or with the tenant.
THEOREM OnlyAdminsChangeRoles == Spec => RoleChangesByAdmins
  <1>1. IsolationInv /\ [Next]_vars => [ChangesNoRoleAlone]_memberships
    BY RoleStep
  <1> QED
    BY <1>1, IsolationInit, IsolationStep, PTL DEF Spec, RoleChangesByAdmins

-----------------------------------------------------------------------------
(* Authority.  The three places a role is held in. *)

MemberHolds(t, l) == \E u \in User : IsMember(u, t) /\ memberships[t][u] = l

InviteHolds(t, l) ==
  \E i \in Invitation : /\ invitations[i].state = "pending"
                        /\ invitations[i].tenant = t
                        /\ invitations[i].role = l

ActorHolds(t, l) ==
  \E r \in Req : /\ reqs[r].at = "acting" /\ reqs[r].tenant = t
                 /\ ~reqs[r].platform /\ reqs[r].role = l

LEMMA HeldIs ==
  ASSUME NEW t, NEW l
  PROVE  l \in Held(t) <=> MemberHolds(t, l) \/ InviteHolds(t, l) \/ ActorHolds(t, l)
  BY DEF Held, MemberHolds, InviteHolds, ActorHolds

LEMMA HeldThenIs ==
  ASSUME NEW t, NEW l, l \in Held(t)'
  PROVE  MemberHolds(t, l)' \/ InviteHolds(t, l)' \/ ActorHolds(t, l)'
  BY DEF Held, MemberHolds, InviteHolds, ActorHolds

\* Roles are integers, so what is held is at least itself.
LEMMA HeldIsInt ==
  ASSUME MembersTypeOK, NEW t \in Tenant, NEW l \in Held(t)
  PROVE  \E h \in Held(t) : h >= l
  <1>1. l \in Int
    <2>1. \A r \in Roles : r \in Int
      BY DEF Roles, RoleAuthor, RoleOwner
    <2>2. l \in Roles
      BY HeldIs
      DEF MemberHolds, InviteHolds, ActorHolds, MembersTypeOK, Invite, Request, IsMember,
          MembershipRole
    <2> QED BY <2>1, <2>2
  <1> QED BY <1>1

\* An admin's own role covers what it grants.
LEMMA GrantHeld ==
  ASSUME MembersTypeOK, NEW r \in Req, requireTenantScope(r),
         NEW cap \in {"InviteMembers", "RemoveMembers", "ChangeRoles"}, Require(r, cap),
         NEW l \in Grant, MayGrant(r, l)
  PROVE  reqs[r].tenant \in Tenant /\ \E h \in Held(reqs[r].tenant) : h >= l
  <1>1. /\ reqs[r].at = "acting" /\ ~reqs[r].platform /\ reqs[r].tenant \in Tenant
        /\ reqs[r].role >= l
    BY AdminActs, GrantsAtMostOwn
  <1>2. ActorHolds(reqs[r].tenant, reqs[r].role)
    BY <1>1 DEF ActorHolds
  <1> QED BY <1>1, <1>2, HeldIs

\* A role that a member has after a step was the member's, an invitation's or
\* granted by an admin.
LEMMA MemberRises ==
  ASSUME IsolationInv, [Next]_vars, NEW t \in Tenant, NEW l, MemberHolds(t, l)'
  PROVE  \E h \in Held(t) : h >= l
  <1>0. MembersTypeOK
    BY DEF IsolationInv
  <1>1. PICK u \in User : memberships'[t][u] # NoRole /\ memberships'[t][u] = l
    BY DEF MemberHolds, IsMember, MembershipRole
  <1>2. CASE memberships'[t][u] = memberships[t][u]
    <2>1. MemberHolds(t, l)
      BY <1>1, <1>2 DEF MemberHolds, IsMember, MembershipRole
    <2> QED BY <1>0, <2>1, HeldIs, HeldIsInt
  <1>3. ASSUME NEW v \in Mailbox, NEW p \in Provider, NEW k \in Token, Callback(v, p, k),
               memberships'[t][u] # memberships[t][u]
        PROVE  \E h \in Held(t) : h >= l
    <2>1. PICK i \in Pending(v) :
                 AddMembershipIfAbsent(invitations[i].tenant, v, invitations[i].role)
      BY <1>3 DEF Callback, resolveIdentity, ClaimInvitation
    <2>2. /\ v \in User /\ i \in Invitation /\ invitations[i].tenant \in Tenant
          /\ invitations[i].state = "pending"
      BY <1>0, MembersAssumption DEF Pending, MembersTypeOK, Invite
    <2>3. invitations[i].tenant = t /\ invitations[i].role = l
      BY <1>0, <1>1, <1>3, <2>1, <2>2 DEF AddMembershipIfAbsent, MembersTypeOK
    <2>4. InviteHolds(t, l)
      BY <2>2, <2>3 DEF InviteHolds
    <2> QED BY <1>0, <2>4, HeldIs, HeldIsInt
  <1>4. ASSUME NEW r \in Req, NEW w \in Tenant, handleTenantsDelete(r, w)
        PROVE  memberships'[t][u] = memberships[t][u]
    BY <1>0, <1>1, <1>4 DEF handleTenantsDelete, DeleteTenant, MembersTypeOK
  <1>5. ASSUME NEW r \in Req, NEW v \in User, NEW g \in Grant, handleMembersSetRole(r, v, g),
               memberships'[t][u] # memberships[t][u]
        PROVE  \E h \in Held(t) : h >= l
    <2>1. reqs[r].tenant \in Tenant /\ \E h \in Held(reqs[r].tenant) : h >= g
      BY <1>0, <1>5, GrantHeld DEF handleMembersSetRole
    <2>2. reqs[r].tenant = t /\ g = l
      BY <1>0, <1>1, <1>5, <2>1 DEF handleMembersSetRole, SetMembershipRole, MembersTypeOK
    <2> QED BY <2>1, <2>2
  <1>6. ASSUME NEW r \in Req, NEW v \in User, handleMembersRemove(r, v)
        PROVE  memberships'[t][u] = memberships[t][u]
    BY <1>0, <1>1, <1>6 DEF handleMembersRemove, RemoveMembership, MembersTypeOK
  <1> QED
    BY <1>2, <1>3, <1>4, <1>5, <1>6
    DEF Next, Handler, Login, Verify, auth, Ends, handleLogout, SetTenantCheck,
        SetTenantWrite, ExpireSession, SweepSession, ExpireInvitation,
        handleTenantsCreate, handleMembersInvite, vars

\* So was one that a pending invitation offers.
LEMMA InviteRises ==
  ASSUME IsolationInv, [Next]_vars, NEW t \in Tenant, NEW l, InviteHolds(t, l)'
  PROVE  \E h \in Held(t) : h >= l
  <1>0. MembersTypeOK
    BY DEF IsolationInv
  <1>1. PICK i \in Invitation : /\ invitations'[i].state = "pending"
                                /\ invitations'[i].tenant = t
                                /\ invitations'[i].role = l
    BY DEF InviteHolds
  <1>2. CASE invitations'[i] = invitations[i]
    <2>1. InviteHolds(t, l)
      BY <1>1, <1>2 DEF InviteHolds
    <2> QED BY <1>0, <2>1, HeldIs, HeldIsInt
  <1>3. ASSUME NEW v \in Mailbox, NEW p \in Provider, NEW k \in Token, Callback(v, p, k)
        PROVE  invitations'[i] = invitations[i]
    <2>1. invitations' = invitations \/ \E z \in Pending(v) : ConsumePendingInvitation(z)
      BY <1>3 DEF Callback, resolveIdentity, ClaimInvitation
    <2> QED
      BY <1>0, <1>1, <2>1
      DEF ConsumePendingInvitation, Pending, UsedInvite, NoInvite, MembersTypeOK
  <1>4. ASSUME NEW r \in Req, NEW w \in Tenant, handleTenantsDelete(r, w)
        PROVE  invitations'[i] = invitations[i]
    BY <1>1, <1>4 DEF handleTenantsDelete, DeleteTenant, UsedInvite, NoInvite
  <1>5. ASSUME NEW r \in Req, NEW v \in User, NEW g \in Grant, NEW z \in Invitation,
               handleMembersInvite(r, z, v, g), invitations'[i] # invitations[i]
        PROVE  \E h \in Held(t) : h >= l
    <2>1. reqs[r].tenant \in Tenant /\ \E h \in Held(reqs[r].tenant) : h >= g
      BY <1>0, <1>5, GrantHeld DEF handleMembersInvite
    <2>2. reqs[r].tenant = t /\ g = l
      BY <1>0, <1>1, <1>5 DEF handleMembersInvite, InsertInvitation, MembersTypeOK
    <2> QED BY <2>1, <2>2
  <1>6. ASSUME NEW z \in Invitation, ExpireInvitation(z)
        PROVE  invitations'[i] = invitations[i]
    BY <1>0, <1>1, <1>6 DEF ExpireInvitation, UsedInvite, NoInvite, MembersTypeOK
  <1> QED
    BY <1>2, <1>3, <1>4, <1>5, <1>6
    DEF Next, Handler, Login, Verify, auth, Ends, handleLogout, SetTenantCheck,
        SetTenantWrite, ExpireSession, SweepSession,
        handleTenantsCreate, handleMembersSetRole, handleMembersRemove, vars

\* And one that an actor works with was read from its membership.
LEMMA ActorRises ==
  ASSUME IsolationInv, [Next]_vars, NEW t \in Tenant, NEW l, ActorHolds(t, l)'
  PROVE  \E h \in Held(t) : h >= l
  <1>0. MembersTypeOK
    BY DEF IsolationInv
  <1>1. PICK q \in Req : /\ reqs'[q].at = "acting" /\ reqs'[q].tenant = t
                         /\ ~reqs'[q].platform /\ reqs'[q].role = l
    BY DEF ActorHolds
  <1>2. CASE reqs'[q] = reqs[q]
    <2>1. ActorHolds(t, l)
      BY <1>1, <1>2 DEF ActorHolds
    <2> QED BY <1>0, <2>1, HeldIs, HeldIsInt
  <1>3. ASSUME NEW r \in Req, auth(r), reqs'[q] # reqs[q]
        PROVE  \E h \in Held(t) : h >= l
    <2>1. /\ q = r /\ reqs[q].tenant = t /\ reqs[q].user \in User
          /\ reqs'[q].platform = ResolveActor(reqs[q].user, t).platform
          /\ reqs'[q].role = ResolveActor(reqs[q].user, t).role
          /\ ResolveActor(reqs[q].user, t).ok
      BY <1>0, <1>1, <1>3 DEF auth, MembersTypeOK, Request
    <2>2. /\ ~IsSuperAdmin(reqs[q].user)
          /\ t # NoTenant
      BY <1>1, <2>1, MembersAssumption DEF ResolveActor
    <2>3. IsMember(reqs[q].user, t) /\ memberships[t][reqs[q].user] = l
      BY <1>1, <2>1, <2>2 DEF ResolveActor, MembershipRole
    <2>4. MemberHolds(t, l)
      BY <2>1, <2>3 DEF MemberHolds
    <2> QED BY <1>0, <2>4, HeldIs, HeldIsInt
  <1>4. ASSUME NEW r \in Req, Finish(r)
        PROVE  reqs'[q] = reqs[q]
    BY <1>0, <1>1, <1>4 DEF Finish, NoRequest, MembersTypeOK
  <1>5. ASSUME NEW r \in Req, NEW k \in Token, Verify(r, k)
        PROVE  reqs'[q] = reqs[q]
    BY <1>0, <1>1, <1>5 DEF Verify, NoRequest, MembersTypeOK
  <1>6. ASSUME NEW r \in Req, NEW w \in Tenant, SetTenantCheck(r, w)
        PROVE  reqs'[q] = reqs[q]
    BY <1>0, <1>1, <1>6 DEF SetTenantCheck, NoRequest, MembersTypeOK
  <1> QED
    BY <1>2, <1>3, <1>4, <1>5, <1>6
    DEF Next, Handler, Login, Callback, Ends, handleLogout, SetTenantWrite,
        ExpireSession, SweepSession, ExpireInvitation, handleTenantsCreate,
        handleTenantsDelete, handleMembersInvite, handleMembersSetRole,
        handleMembersRemove, vars

\* The highest authority in a tenant never rises, whatever demotions, removals
\* and stale actors interleave.
THEOREM AuthorityCannotRise == Spec => AuthorityNeverRises
  <1>1. IsolationInv /\ [Next]_vars => RaisesNothing
    <2> SUFFICES ASSUME IsolationInv, [Next]_vars, NEW t \in Tenant, NEW l \in Held(t)'
                 PROVE  \E h \in Held(t) : h >= l
      BY DEF RaisesNothing
    <2> QED BY HeldThenIs, MemberRises, InviteRises, ActorRises
  <1> QED
    BY <1>1, IsolationInit, IsolationStep, PTL DEF Spec, AuthorityNeverRises
=============================================================================
