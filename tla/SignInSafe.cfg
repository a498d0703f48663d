\* Two requests at a time, one hash at a time.
SPECIFICATION SignInSpec
CONSTANTS
    Req = {r1, r2}
    Email = {e1, e2}
    NoUser = NoUser
    Browser = {b1}
    Flow = {f1, f2}
    NoFlow = NoFlow
    Cap = 1
    Loads <- MCLoads
INVARIANTS
    SignInTypeOK
    HashesAreCounted
    UsersCanSignIn
    SessionIsTheIdentitys
    FlowYieldsOneSession
    StoredTokenWorks
PROPERTIES
    EveryRequestEnds
\* Flows are drawn once: when they are used up no request may come.
CHECK_DEADLOCK FALSE
