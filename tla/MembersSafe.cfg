\* A super_admin, the owner of t1 and a stranger; two sessions, two requests in
\* flight, one invitation; t2 is made by the super_admin.
SPECIFICATION Spec
CONSTANTS
    alice = alice
    t1 = t1
    Tenant = {t1, t2}
    NoTenant = NoTenant
    User = {root, alice, bob}
    Super = {root}
    Seeded <- MCSeeded
    Token = {k1, k2}
    NoToken = NoToken
    Invitation = {i1}
    Provider = {google}
    Mailbox = {alice, bob}
    Grant <- MCGrant
    Req = {r1, r2}
SYMMETRY Symmetry
INVARIANTS
    MembersTypeOK
    TenantIsolation
    GoneTenantIsEmpty
PROPERTIES
    AuthorityNeverRises
    RoleChangesByAdmins
\* Every token is used up in the end.
CHECK_DEADLOCK FALSE
