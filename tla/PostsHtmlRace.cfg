\* A transition that renders a text another request replaces.
SPECIFICATION Spec
CONSTANTS
    alice = alice
    eve = eve
    other = p2
    Post = {p1}
    User = {alice, eve}
    Actor <- MCActor
    Base = {b}
    Text = {e, t}
    EmptyText = e
    Keep = Keep
    Req = {r1, r2}
    Client = {c}
    NoTag = NoTag
    Meta = {FALSE, TRUE}
    MaxVersion = 2
INVARIANTS
    HtmlMatchesText
