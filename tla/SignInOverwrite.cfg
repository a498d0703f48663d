\* A refresh that stores its token over one of a later consent.
SPECIFICATION SignInSpec
CONSTANTS
    Req = {r1, r2}
    Email = {e1, e2}
    NoUser = NoUser
    Browser = {b1}
    Flow = {f1, f2}
    NoFlow = NoFlow
    Cap = 1
    Loads <- MCTokenLoads
PROPERTIES
    LiveTokenStays
CHECK_DEADLOCK FALSE
