\* Two requests interleaved on a post of either user and one reader, or with a
\* second post for its slug, and a super_admin without a tenant.
SPECIFICATION Spec
CONSTANTS
    alice = alice
    eve = eve
    Post = {p1, p2}
    other = p2
    User = {alice, eve}
    Actor <- MCActorWithPlatform
    Base = {b}
    Text = {e, t}
    EmptyText = e
    Keep = Keep
    Req = {r1, r2}
    Client = {c}
    NoTag = NoTag
    Meta = {}
    MaxVersion = 2
CONSTRAINT MCBound
SYMMETRY Symmetry
INVARIANTS
    TypeOK
    CurrentTagIsComplete
PROPERTIES
    PublicChangeBumps
    AuthorConfined
    HtmlStaysRendered
    PublishedSlugStays
