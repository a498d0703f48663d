------------------------------- MODULE SignIn -------------------------------
(***************************************************************************)
(* Signing up and in (internal/auth, internal/oauth): signups and logins   *)
(* that share the argon2 limiter and the database pool, OAuth callbacks,   *)
(* and the import jobs that fetch a Google token (GetGoogleToken).         *)
(*                                                                         *)
(* A transaction that is over in one step only needs a free connection;    *)
(* the two that are held longer, Login's and resolveIdentity's, take one.  *)
(* An e-mail address is its user (lower(email) is unique and never         *)
(* changes).  All callbacks bring one Google account, whose e-mail address *)
(* may be another from callback to callback.  Invitations are the subject  *)
(* of Members: here a signup may always be told of one.                    *)
(***************************************************************************)
EXTENDS Integers, FiniteSets

CONSTANTS
    Req,        \* requests and jobs in flight
    Email,
    NoUser,
    Browser,    \* session_token_hash of the browsers; that of a guest is one
    Flow,       \* OAuth states; each is drawn once
    NoFlow,
    Cap,        \* auth.go: argon2Concurrency
    Loads       \* what a process meets: the kinds of requests that come, the
                \* connections of its pool, and (a bound) the refresh tokens
                \* that Google issues

ASSUME SignInAssumption ==
    /\ NoUser \notin Email
    /\ NoFlow \notin Flow
    /\ IsFiniteSet(Req)
    /\ Email # {} /\ Browser # {}
    /\ Cap \in Nat \ {0}
    /\ Loads \subseteq [kinds: SUBSET {"signup", "login", "callback", "job"},
                        conns: Nat \ {0}, tokens: Nat]

VARIABLES
    pool,      \* the connections in use
    slots,     \* len(limiter.sem)
    dummy,     \* the sync.OnceValue of dummyHash
    users,     \* the users table
    identity,  \* the identities row of the Google account
    flows,     \* the oauth_flows table
    row,       \* refresh_token of the account's oauth_tokens row; 0: null or no row
    google,    \* the refresh tokens that work, the last one issued, the policy
    end,       \* history: why there is no stored refresh token that works, if so
    reqs,
    load       \* the element of Loads that comes

vars == <<pool, slots, dummy, users, identity, flows, row, google, end, reqs, load>>

-----------------------------------------------------------------------------
Tokens == 0..load.tokens

\* issued: history: the sessions that came of the flow
FlowRow == [state: {"none", "open", "gone"}, browser: Browser, issued: 0..2]

\* dummy:    in dummyHash; burning: argon2 runs for it, not for the limiter
\* slot:     in acquire, waiting for the limiter
\* hashing:  argon2 runs
\* create:   Signup, before CreateUser
\* exchange: Callback, between ConsumeOAuthFlow and the answers of Google
\* resolve, link, insert: resolveIdentity, by what it does next
\* refresh:  GetGoogleToken, before Google's answer
\* store, issue: before storeOAuthToken, before Issue
\* known:    the user as the transaction has read it
\* token:    the refresh token read or received; stale: revoked since
Request == [at: {"idle", "dummy", "burning", "slot", "hashing", "create",
                 "exchange", "resolve", "link", "insert", "refresh", "store", "issue"},
            kind: {"signup", "login", "callback", "job"},
            email: Email, known: {"none", "sso", "password"},
            flow: Flow \cup {NoFlow}, token: Tokens, stale: BOOLEAN]

SignInTypeOK ==
    /\ pool \in 0..load.conns
    /\ slots \in 0..Cap
    /\ dummy \in {"none", "running", "made"}
    /\ users \in [Email -> {"none", "sso", "password"}]
    /\ identity \in Email \cup {NoUser}
    /\ flows \in [Flow -> FlowRow]
    /\ row \in Tokens
    /\ google \in [live: SUBSET (1..load.tokens), last: Tokens, rotates: BOOLEAN]
    /\ end \in {"never", "none", "revoked", "lost", "overwritten"}
    /\ reqs \in [Req -> Request]
    /\ load \in Loads

NoRequest == [at |-> "idle", kind |-> "signup", known |-> "none",
              email |-> CHOOSE e \in Email : TRUE, flow |-> NoFlow,
              token |-> 0, stale |-> FALSE]

SignInInit ==
    /\ pool = 0
    /\ slots = 0
    /\ dummy = "none"
    /\ users = [e \in Email |-> "none"]
    /\ identity = NoUser
    /\ flows = [f \in Flow |-> [state |-> "none", issued |-> 0,
                                browser |-> CHOOSE b \in Browser : TRUE]]
    /\ row = 0
    /\ google \in [live: {{}}, last: {0}, rotates: BOOLEAN]
    /\ end = "never"
    /\ reqs = [r \in Req |-> NoRequest]
    /\ load \in Loads

-----------------------------------------------------------------------------
(* The pool and the limiter. *)

Comes(r, kind) == reqs[r].at = "idle" /\ kind \in load.kinds

Connection == pool < load.conns

Begin == Connection /\ pool' = pool + 1

EndTx == pool' = pool - 1

Go(r, at) == reqs' = [reqs EXCEPT ![r].at = at]

\* On to storeOAuthToken, or to Issue, with no more than they use.
GoStore(r, e) == reqs' = [reqs EXCEPT ![r].at = "store", ![r].email = e,
                                      ![r].known = "none"]

GoIssue(r) == reqs' = [reqs EXCEPT ![r] = [NoRequest EXCEPT !.at = "issue",
                !.kind = reqs[r].kind, !.email = reqs[r].email, !.flow = reqs[r].flow]]

Finish(r) == reqs' = [reqs EXCEPT ![r] = NoRequest]

\* Mutant: every request that fails rolls back.
HoldingAlways(r) == reqs[r].at # "idle"

\* The requests in a transaction that is held.
Holding(r) == \/ reqs[r].at \in {"link", "insert"}
              \/ /\ reqs[r].kind = "login"
                 /\ reqs[r].at \in {"dummy", "burning", "slot", "hashing"}

acquire(r) ==
    /\ reqs[r].at = "slot"
    /\ slots < Cap
    /\ slots' = slots + 1
    /\ Go(r, "hashing")
    /\ UNCHANGED <<pool, dummy, users, identity, flows, row, google, end>>

\* Mutant: release is deferred before acquire.
releaseAlways(r) ==
    slots' = IF reqs[r].at \in {"slot", "hashing"} /\ slots > 0 THEN slots - 1
             ELSE slots

\* The deferred release, however the request leaves acquire and argon2.
release(r) == slots' = IF reqs[r].at = "hashing" THEN slots - 1 ELSE slots

-----------------------------------------------------------------------------
(* Passwords. *)

\* An e-mail with a pending invitation is refused, and nothing has changed.
Signup(r, e) ==
    /\ Comes(r, "signup")
    /\ Connection
    /\ reqs' = [reqs EXCEPT ![r] = [NoRequest EXCEPT !.at = "slot",
                                      !.kind = "signup", !.email = e]]
    /\ UNCHANGED <<pool, slots, dummy, users, identity, flows, row, google, end>>

\* Mutant: the slot is held until the user is created.
SignupHashedHolds(r) ==
    /\ reqs[r].at = "hashing"
    /\ reqs[r].kind = "signup"
    /\ Connection
    /\ release(r)
    /\ Go(r, "create")
    /\ UNCHANGED <<pool, dummy, users, identity, flows, row, google, end>>

\* hashPassword returns.
SignupHashed(r) ==
    /\ reqs[r].at = "hashing"
    /\ reqs[r].kind = "signup"
    /\ release(r)
    /\ Go(r, "create")
    /\ UNCHANGED <<pool, dummy, users, identity, flows, row, google, end>>

\* The unique index waits for a transaction that is about to commit the e-mail.
EmailSettled(r, e) ==
    \A q \in Req \ {r} : reqs[q].at = "insert" /\ reqs[q].email = e
                         => reqs[q].known # "none"

CreateUser(r) ==
    LET e == reqs[r].email
    IN  /\ reqs[r].at = "create"
        /\ Connection
        /\ EmailSettled(r, e)
        /\ users' = [users EXCEPT ![e] = IF @ = "none" THEN "password" ELSE @]
        /\ Finish(r)
        /\ UNCHANGED <<pool, slots, dummy, identity, flows, row, google, end>>

\* The transaction stays open while the password is verified.  Without a stored
\* hash it is verified against dummyHash's, whose value is an argument of
\* verifyPassword and thus there before acquire.
Login(r, e) ==
    /\ Comes(r, "login")
    /\ Begin
    /\ reqs' = [reqs EXCEPT ![r] = [NoRequest EXCEPT
                  !.at = IF users[e] = "password" THEN "slot" ELSE "dummy",
                  !.kind = "login", !.email = e, !.known = users[e]]]
    /\ UNCHANGED <<slots, dummy, users, identity, flows, row, google, end>>

\* Mutant: without the sync.OnceValue, everybody makes a hash.
dummyHashEach(r) ==
    /\ reqs[r].at = "dummy"
    /\ dummy' = "running"
    /\ Go(r, "burning")
    /\ UNCHANGED <<pool, slots, users, identity, flows, row, google, end>>

\* The first caller of a process makes the hash, under a limiter of its own; who
\* comes meanwhile waits for it.
dummyHash(r) ==
    /\ reqs[r].at = "dummy"
    /\ \/ dummy = "none" /\ dummy' = "running" /\ Go(r, "burning")
       \/ dummy = "made" /\ UNCHANGED dummy /\ Go(r, "slot")
    /\ UNCHANGED <<pool, slots, users, identity, flows, row, google, end>>

dummyHashed(r) ==
    /\ reqs[r].at = "burning"
    /\ dummy' = "made"
    /\ Go(r, "slot")
    /\ UNCHANGED <<pool, slots, users, identity, flows, row, google, end>>

\* verifyPassword returns, and the transaction ends; only a password that is
\* there may match.
LoginVerified(r) ==
    /\ reqs[r].at = "hashing"
    /\ reqs[r].kind = "login"
    /\ release(r)
    /\ EndTx
    /\ \/ reqs[r].known = "password" /\ GoIssue(r)
       \/ Finish(r)
    /\ UNCHANGED <<dummy, users, identity, flows, row, google, end>>

-----------------------------------------------------------------------------
(* OAuth callbacks. *)

\* A flow that expires is one that no callback comes for.
Start(f, b) ==
    /\ flows[f].state = "none"
    /\ Connection
    /\ flows' = [flows EXCEPT ![f].state = "open", ![f].browser = b]
    /\ UNCHANGED <<pool, slots, dummy, users, identity, row, google, end, reqs>>

\* Mutant: a select, the row is left to the sweep.
SelectOAuthFlow(f, b) ==
    /\ flows[f].state = "open"
    /\ flows[f].browser = b
    /\ UNCHANGED flows

ConsumeOAuthFlow(f, b) ==
    /\ flows[f].state = "open"
    /\ flows[f].browser = b
    /\ flows' = [flows EXCEPT ![f].state = "gone"]

\* A replay, or another browser, finds no row, and nothing has changed.
Callback(r, f, b) ==
    /\ Comes(r, "callback")
    /\ Connection
    /\ ConsumeOAuthFlow(f, b)
    /\ reqs' = [reqs EXCEPT ![r] = [NoRequest EXCEPT !.at = "exchange",
                                      !.kind = "callback", !.flow = f]]
    /\ UNCHANGED <<pool, slots, dummy, users, identity, row, google, end>>

\* Google's tokens and claims.  There is a refresh token at the first consent,
\* and may be none later.
Exchange(r, e, k) ==
    /\ reqs[r].at = "exchange"
    /\ k \in {0, google.last + 1} \cap Tokens
    /\ google' = IF k = 0 THEN google
                 ELSE [google EXCEPT !.live = @ \cup {k}, !.last = k]
    /\ reqs' = [reqs EXCEPT ![r].at = "resolve", ![r].email = e, ![r].token = k]
    /\ UNCHANGED <<pool, slots, dummy, users, identity, flows, row, end>>

\* Mutant: a linked account is the user of the e-mail address it brings.
resolveIdentityByEmail(r) ==
    /\ reqs[r].at = "resolve"
    /\ Connection
    /\ \/ /\ identity # NoUser
          /\ GoStore(r, reqs[r].email)
          /\ UNCHANGED pool
       \/ /\ identity = NoUser
          /\ Begin
          /\ reqs' = [reqs EXCEPT ![r].at = "link",
                                  ![r].known = users[reqs[r].email]]
    /\ UNCHANGED <<slots, dummy, users, identity, flows, row, google, end>>

\* resolveIdentity, to the first write: an account that is linked is its user,
\* whatever its e-mail address.
resolveIdentity(r) ==
    /\ reqs[r].at = "resolve"
    /\ Connection
    /\ \/ /\ identity # NoUser
          /\ GoStore(r, identity)
          /\ UNCHANGED pool
       \/ /\ identity = NoUser
          /\ Begin
          /\ reqs' = [reqs EXCEPT ![r].at = "link",
                                  ![r].known = users[reqs[r].email]]
    /\ UNCHANGED <<slots, dummy, users, identity, flows, row, google, end>>

\* Rollback.
AbortTx(r) == EndTx /\ Finish(r) /\ UNCHANGED <<users, identity>>

\* Mutant: the user is created in a transaction of its own.
LinkUserCommits(r) ==
    LET e == reqs[r].email
    IN  /\ reqs[r].at = "link"
        /\ \/ /\ reqs[r].known = "none" => users[e] = "none"
              /\ identity = NoUser
              /\ users' = [users EXCEPT ![e] = IF @ = "none" THEN "sso" ELSE @]
              /\ Go(r, "insert")
              /\ UNCHANGED <<pool, identity>>
           \/ /\ (reqs[r].known = "none" /\ users[e] # "none") \/ identity # NoUser
              /\ AbortTx(r)
        /\ UNCHANGED <<slots, dummy, flows, row, google, end>>

\* CreateUser, if there was none, then linkIdentityTx, to its insert.  The e-mail
\* may be taken by now (the transaction fails), or the account linked: to this
\* user (commit) or to another (ErrIdentityTaken).
LinkUser(r) ==
    LET e == reqs[r].email
        conflict == reqs[r].known = "none" /\ users[e] # "none"
    IN  /\ reqs[r].at = "link"
        /\ reqs[r].known = "none" => EmailSettled(r, e)
        /\ \/ /\ ~conflict /\ identity = NoUser
              /\ Go(r, "insert")
              /\ UNCHANGED <<pool, users, identity>>
           \/ /\ ~conflict /\ identity = e
              /\ EndTx
              /\ GoStore(r, reqs[r].email)
              /\ UNCHANGED <<users, identity>>
           \/ /\ conflict \/ identity \notin {NoUser, e}
              /\ AbortTx(r)
        /\ UNCHANGED <<slots, dummy, flows, row, google, end>>

\* The insert and the commit.  When a concurrent callback has linked the account
\* the failed insert has aborted the transaction: the row is not read again,
\* and the callback fails for the same user too.
InsertIdentity(r) ==
    /\ reqs[r].at = "insert"
    /\ \/ /\ identity = NoUser
          /\ identity' = reqs[r].email
          /\ users' = [users EXCEPT ![reqs[r].email] = IF @ = "none" THEN "sso" ELSE @]
          /\ EndTx
          /\ GoStore(r, reqs[r].email)
       \/ identity # NoUser /\ AbortTx(r)
    /\ UNCHANGED <<slots, dummy, flows, row, google, end>>

\* Mutant: refresh_token = excluded.refresh_token.
UpsertOAuthTokenPlain(r) == row' = reqs[r].token

\* coalesce(excluded.refresh_token, oauth_tokens.refresh_token)
UpsertOAuthToken(r) == row' = IF reqs[r].token = 0 THEN row ELSE reqs[r].token

\* end: what was got from a consent, or in exchange for a token that was not
\* revoked meanwhile, has to work; what was revoked meanwhile may overwrite a
\* token that works.
storeOAuthToken(r) ==
    /\ reqs[r].at = "store"
    /\ Connection
    /\ UpsertOAuthToken(r)
    /\ end' = CASE reqs[r].token = 0 -> end
                [] reqs[r].token # 0 /\ ~reqs[r].stale -> "none"
                [] OTHER -> IF row \in google.live THEN "overwritten" ELSE end
    /\ IF reqs[r].kind = "callback" THEN GoIssue(r) ELSE Finish(r)
    /\ UNCHANGED <<pool, slots, dummy, users, identity, flows, google>>

Issue(r) ==
    /\ reqs[r].at = "issue"
    /\ Connection
    /\ flows' = [f \in Flow |-> IF f = reqs[r].flow
                                THEN [flows[f] EXCEPT !.issued = @ + 1]
                                ELSE flows[f]]
    /\ Finish(r)
    /\ UNCHANGED <<pool, slots, dummy, users, identity, row, google, end>>

-----------------------------------------------------------------------------
(* GetGoogleToken. *)

\* An access token that is not about to expire is returned, and nothing has
\* changed; neither has it without a refresh token.
GetGoogleToken(r) ==
    /\ Comes(r, "job")
    /\ Connection
    /\ identity # NoUser
    /\ row # 0
    /\ reqs' = [reqs EXCEPT ![r] = [NoRequest EXCEPT !.at = "refresh",
                  !.kind = "job", !.email = identity, !.token = row]]
    /\ UNCHANGED <<pool, slots, dummy, users, identity, flows, row, google, end>>

\* What Google makes of a refresh token that works: when it rotates them, a new
\* one in exchange.
Rotated(k) == IF google.rotates THEN google.last + 1 ELSE k

\* Mutant: the token that was sent is stored again.
ReceivedOld(k) == k

\* The refresh token that the oauth2 library returns: the new one, or the one
\* that was sent when there is none.
Received(k) == Rotated(k)

Spent(k) == [google EXCEPT !.live = (@ \ {k}) \cup {Rotated(k)},
                           !.last = IF google.rotates THEN @ + 1 ELSE @]

Refresh(r) ==
    LET k == reqs[r].token
    IN  /\ reqs[r].at = "refresh"
        /\ k \in google.live
        /\ Rotated(k) \in Tokens
        /\ google' = Spent(k)
        /\ reqs' = [reqs EXCEPT ![r].at = "store", ![r].token = Received(k)]
        /\ UNCHANGED <<pool, slots, dummy, users, identity, flows, row, end>>

\* The user withdraws the consent: no refresh token works any more.
Revoke ==
    /\ google.live # {}
    /\ google' = [google EXCEPT !.live = {}]
    /\ end' = "revoked"
    /\ reqs' = [r \in Req |-> [reqs[r] EXCEPT !.stale = reqs[r].token # 0]]
    /\ UNCHANGED <<pool, slots, dummy, users, identity, flows, row>>

-----------------------------------------------------------------------------
\* A failure, of Google or the database, or a client that goes away, wherever
\* the request is (but neither argon2 nor dummyHash is interrupted): an open
\* transaction is rolled back.  What was received in exchange for the stored
\* token is lost with it.
Fail(r) ==
    /\ reqs[r].at \notin {"idle", "dummy", "burning", "hashing"}
    /\ release(r)
    /\ IF Holding(r) THEN EndTx ELSE UNCHANGED pool
    /\ end' = IF /\ reqs[r].kind = "job" /\ reqs[r].at = "store"
                 /\ reqs[r].token \in google.live /\ row \notin google.live
              THEN "lost" ELSE end
    /\ Finish(r)
    /\ UNCHANGED <<dummy, users, identity, flows, row, google>>

Progress(r) ==
    \/ dummyHash(r) \/ dummyHashed(r) \/ acquire(r)
    \/ SignupHashed(r) \/ CreateUser(r) \/ LoginVerified(r)
    \/ resolveIdentity(r) \/ LinkUser(r) \/ InsertIdentity(r)
    \/ storeOAuthToken(r) \/ Issue(r)

Step ==
    \/ \E r \in Req, e \in Email : Signup(r, e) \/ Login(r, e)
    \/ \E f \in Flow, b \in Browser :
         Start(f, b) \/ \E r \in Req : Callback(r, f, b)
    \/ \E r \in Req, e \in Email, k \in Tokens : Exchange(r, e, k)
    \/ \E r \in Req : GetGoogleToken(r) \/ Refresh(r) \/ Progress(r) \/ Fail(r)
    \/ Revoke

SignInNext == Step /\ UNCHANGED load

\* A request that can go on does.  Connections and slots are given to waiters in
\* the order of their arrival (the pool's semaphore and Go's channels are
\* queues), hence strong fairness.  Nothing is assumed of Google: the HTTP
\* client has no timeout of its own.
SignInFairness == \A r \in Req : SF_vars(Progress(r) /\ UNCHANGED load)

SignInSpec == SignInInit /\ [][SignInNext]_vars /\ SignInFairness

-----------------------------------------------------------------------------
(* Properties. *)

Running == {r \in Req : reqs[r].at \in {"burning", "hashing"}}

\* limiter "bounds concurrent argon2": the semaphore holds one element for every
\* hash it admitted, never one less or more, also after requests were cancelled
\* while they waited, so that no slot leaks away.  The one hash outside it is
\* dummyHash's, once in a process: Cap + 1 run at most, and Cap once it is made.
HashesAreCounted ==
    /\ slots = Cardinality({r \in Req : reqs[r].at = "hashing"})
    /\ Cardinality(Running) <= IF dummy = "running" THEN Cap + 1 ELSE Cap

\* No user is out of reach: one without a password has the identity it was
\* created for, whatever failed or raced after resolveIdentity made it.
UsersCanSignIn == \A e \in Email : users[e] = "sso" => identity = e

\* Whoever Callback stores a token and issues a session for is the user the
\* account is linked to, also when callbacks of one account with different
\* e-mail addresses race to link it.
SessionIsTheIdentitys ==
    \A r \in Req : reqs[r].kind = "callback" /\ reqs[r].at \in {"store", "issue"}
                   => reqs[r].email = identity /\ users[identity] # "none"

\* "ConsumeOAuthFlow deletes+returns in one statement (single-use state)": two
\* deliveries of one callback do not both end in a session.
FlowYieldsOneSession == \A f \in Flow : flows[f].issued <= 1

\* Imports keep working: once stored, a refresh token works, or a job is about to
\* store its successor, or since the last one that works was stored one of three
\* things has happened: the user revoked the consent, the request that had the
\* successor failed, or a request that began before a revocation stored its dead
\* token over one of a later consent (LiveTokenStays).  Nothing else loses it.
StoredTokenWorks ==
    \/ row \in google.live
    \/ \E r \in Req : reqs[r].kind = "job" /\ reqs[r].at = "store"
                      /\ reqs[r].token \in google.live
    \/ end \in {"never", "revoked", "lost", "overwritten"}

\* "Keep the stored refresh token when the IdP does not rotate one": a refresh at
\* a Google that rotates none does not replace a stored token that works by one
\* that does not.
LiveTokenStays ==
    [][\A r \in Req :
         /\ ~google.rotates /\ row \in google.live
         /\ reqs[r].kind = "job" /\ reqs[r].at = "store" /\ reqs'[r].at = "idle"
         => row' \in google.live]_vars

\* Pool and limiter do not wait for one another: logins hold a connection while
\* they wait for a slot, but whoever has a slot gives it back without waiting.
\* Every request comes to its end, or to Google, although Google may not answer.
EveryRequestEnds ==
    \A r \in Req : reqs[r].at # "idle"
                   ~> reqs[r].at \in {"idle", "exchange", "refresh"}
=============================================================================
