----------------------------- MODULE SignInProofs -----------------------------
(***************************************************************************)
(* Proofs about signups, logins, OAuth callbacks and token refreshes, for  *)
(* every number of requests, e-mail addresses, flows, connections, hashes  *)
(* at a time and refresh tokens.                                           *)
(***************************************************************************)
EXTENDS SignIn, FiniteSetTheorems, TLAPS

-----------------------------------------------------------------------------
(* The inductive invariants. *)

Hashing == {r \in Req : reqs[r].at = "hashing"}

\* The semaphore holds one element for every hash it admitted.
SlotsAreCounted == slots = Cardinality(Hashing)

\* The OnceValue runs while one request makes the dummy hash, and none other does.
OneDummy ==
    /\ dummy = "running" <=> \E r \in Req : reqs[r].at = "burning"
    /\ \A r, q \in Req : reqs[r].at = "burning" /\ reqs[q].at = "burning" => r = q

Holders == {r \in Req : Holding(r)}

\* The pool's connections are counted as the limiter's slots are: one for every
\* request in a transaction that is held.  So a Rollback has one to give back.
ConnectionsAreCounted == pool = Cardinality(Holders)

\* The flow a request came with was consumed by it alone, and has given no
\* session; neither has one that is not consumed.
FlowsAreConsumed ==
    /\ \A r \in Req : reqs[r].flow # NoFlow =>
         /\ flows[reqs[r].flow].state = "gone"
         /\ flows[reqs[r].flow].issued = 0
         /\ \A q \in Req \ {r} : reqs[q].flow # reqs[r].flow
    /\ \A f \in Flow : flows[f].state # "gone" => flows[f].issued = 0

\* Types, counters and flows hold only together: what a counter gives back was
\* taken, and a flow is not issued a third session.
CountInv ==
    SignInTypeOK /\ SlotsAreCounted /\ OneDummy /\ ConnectionsAreCounted
    /\ FlowsAreConsumed /\ FlowYieldsOneSession

\* The user of the identity exists, and what waits for a refresh is no callback.
LinkedInv ==
    /\ UsersCanSignIn
    /\ SessionIsTheIdentitys
    /\ \A r \in Req : reqs[r].at = "refresh" => reqs[r].kind = "job"
    /\ identity # NoUser => users[identity] # "none"

\* A request that is about to store the token it has.
Bearing(r) == reqs[r].at \in {"resolve", "link", "insert", "store"} /\ reqs[r].token # 0

\* No token is newer than the last one issued; what is about to be stored works
\* unless it was revoked; and when Google rotates tokens, nobody else has it, so
\* that no other refresh spends it first.
TokenInv ==
    /\ StoredTokenWorks
    /\ row <= google.last
    /\ \A r \in Req : reqs[r].token <= google.last
    /\ \A r \in Req : Bearing(r) =>
         /\ ~reqs[r].stale => reqs[r].token \in google.live
         /\ google.rotates =>
              /\ reqs[r].token # row
              /\ \A q \in Req \ {r} : reqs[q].token # reqs[r].token

-----------------------------------------------------------------------------
(* Counting. *)

Ind(b) == IF b THEN 1 ELSE 0

\* When one request at most enters or leaves a set of requests, its size changes
\* by one at most; and a set that a request is in is not empty.
LEMMA Counting ==
  \A A, B \in SUBSET Req : \A r \in Req :
    /\ Cardinality(A) \in Nat
    /\ r \in A => Cardinality(A) >= 1
    /\ (\A q \in Req \ {r} : q \in A <=> q \in B)
       => Cardinality(B) = Cardinality(A) + Ind(r \in B) - Ind(r \in A)
  <1> SUFFICES ASSUME NEW A \in SUBSET Req, NEW B \in SUBSET Req, NEW r \in Req
               PROVE  /\ Cardinality(A) \in Nat
                      /\ r \in A => Cardinality(A) >= 1
                      /\ (\A q \in Req \ {r} : q \in A <=> q \in B)
                         => Cardinality(B) = Cardinality(A) + Ind(r \in B) - Ind(r \in A)
    OBVIOUS
  <1>1. IsFiniteSet(A) /\ IsFiniteSet(B)
    BY SignInAssumption, FS_Subset
  <1>2. Cardinality(A) \in Nat /\ Cardinality(B) \in Nat
    BY <1>1, FS_CardinalityType
  <1>3. ASSUME NEW S \in SUBSET Req, IsFiniteSet(S)
        PROVE  /\ Cardinality(S \ {r}) \in Nat
               /\ Cardinality(S) \in Nat
               /\ Cardinality(S) = Cardinality(S \ {r}) + Ind(r \in S)
    <2>1. /\ IsFiniteSet(S \ {r})
          /\ Cardinality(S \ {r}) = IF r \in S THEN Cardinality(S) - 1 ELSE Cardinality(S)
      BY <1>3, FS_RemoveElement
    <2>2. Cardinality(S) \in Nat /\ Cardinality(S \ {r}) \in Nat
      BY <1>3, <2>1, FS_CardinalityType
    <2> QED BY <2>1, <2>2 DEF Ind
  <1>4. r \in A => Cardinality(A) >= 1
    <2>1. Cardinality(A) = Cardinality(A \ {r}) + Ind(r \in A) /\ Cardinality(A \ {r}) \in Nat
      BY <1>1, <1>3
    <2> QED BY <2>1 DEF Ind
  <1>5. ASSUME \A q \in Req \ {r} : q \in A <=> q \in B
        PROVE  Cardinality(B) = Cardinality(A) + Ind(r \in B) - Ind(r \in A)
    <2>1. A \ {r} = B \ {r}
      BY <1>5
    <2>2. Cardinality(A) = Cardinality(A \ {r}) + Ind(r \in A) /\ Cardinality(A \ {r}) \in Nat
      BY <1>1, <1>3
    <2>3. Cardinality(B) = Cardinality(B \ {r}) + Ind(r \in B)
      BY <1>1, <1>3
    <2> QED BY <2>1, <2>2, <2>3 DEF Ind
  <1> QED BY <1>2, <1>4, <1>5

\* A request makes the dummy hash from the first call of dummyHash to its end.
Burns(r) ==
    \/ dummy' = dummy /\ reqs[r].at # "burning" /\ reqs'[r].at # "burning"
    \/ dummy = "none" /\ dummy' = "running" /\ reqs'[r].at = "burning"
    \/ reqs[r].at = "burning" /\ dummy' = "made" /\ reqs'[r].at # "burning"

\* A step of one request that counts what it takes and gives back.
Counts(r) ==
    /\ \A q \in Req \ {r} : reqs'[q] = reqs[q]
    /\ reqs' \in [Req -> Request]
    /\ slots' = slots + Ind((reqs[r].at = "hashing")') - Ind(reqs[r].at = "hashing")
    /\ pool' = pool + Ind(Holding(r)') - Ind(Holding(r))
    /\ Burns(r)

LEMMA CountsKeep ==
  ASSUME SlotsAreCounted, ConnectionsAreCounted, OneDummy, NEW r \in Req, Counts(r)
  PROVE  SlotsAreCounted' /\ ConnectionsAreCounted' /\ OneDummy'
  <1> USE DEF Counts
  <1>1. /\ Hashing \in SUBSET Req /\ Hashing' \in SUBSET Req
        /\ Holders \in SUBSET Req /\ Holders' \in SUBSET Req
    BY DEF Hashing, Holders
  <1>2. /\ \A q \in Req \ {r} : q \in Hashing <=> q \in Hashing'
        /\ r \in Hashing <=> reqs[r].at = "hashing"
        /\ r \in Hashing' <=> reqs'[r].at = "hashing"
    BY DEF Hashing
  <1>3. /\ \A q \in Req \ {r} : q \in Holders <=> q \in Holders'
        /\ r \in Holders <=> Holding(r)
        /\ r \in Holders' <=> Holding(r)'
    BY DEF Holders, Holding
  <1>4. Cardinality(Hashing') = Cardinality(Hashing) + Ind(r \in Hashing') - Ind(r \in Hashing)
    BY <1>1, <1>2, Counting
  <1>5. Cardinality(Holders') = Cardinality(Holders) + Ind(r \in Holders') - Ind(r \in Holders)
    BY <1>1, <1>3, Counting
  <1>6. slots' = Cardinality(Hashing')
    BY <1>2, <1>4 DEF SlotsAreCounted, Ind
  <1>7. pool' = Cardinality(Holders')
    BY <1>3, <1>5 DEF ConnectionsAreCounted, Ind
  <1>8. OneDummy'
    <2>1. CASE dummy' = dummy /\ reqs[r].at # "burning" /\ reqs'[r].at # "burning"
      BY <2>1 DEF OneDummy
    <2>2. CASE dummy = "none" /\ dummy' = "running" /\ reqs'[r].at = "burning"
      BY <2>2 DEF OneDummy
    <2>3. CASE reqs[r].at = "burning" /\ dummy' = "made" /\ reqs'[r].at # "burning"
      BY <2>3 DEF OneDummy
    <2> QED BY <2>1, <2>2, <2>3 DEF Burns
  <1> QED BY <1>6, <1>7, <1>8 DEF SlotsAreCounted, ConnectionsAreCounted

\* A slot or a connection that is in use has been counted.
LEMMA CountedIsPositive ==
  ASSUME SignInTypeOK, SlotsAreCounted, ConnectionsAreCounted, NEW r \in Req
  PROVE  /\ reqs[r].at = "hashing" => slots >= 1
         /\ Holding(r) => pool >= 1
  <1>1. Hashing \in SUBSET Req /\ Holders \in SUBSET Req
    BY DEF Hashing, Holders
  <1>2. r \in Hashing => Cardinality(Hashing) >= 1
    BY <1>1, Counting
  <1>3. r \in Holders => Cardinality(Holders) >= 1
    BY <1>1, Counting
  <1> QED BY <1>2, <1>3 DEF Hashing, Holders, SlotsAreCounted, ConnectionsAreCounted

-----------------------------------------------------------------------------
(* Types. *)

\* What a row or a request is before it is used has its type.
LEMMA DefaultTypes ==
  ASSUME load \in Loads
  PROVE  /\ load.conns \in Nat \ {0} /\ load.tokens \in Nat /\ 0 \in Tokens
         /\ NoRequest \in Request
         /\ (CHOOSE b \in Browser : TRUE) \in Browser
  <1>1. load.conns \in Nat \ {0} /\ load.tokens \in Nat
    BY SignInAssumption
  <1>2. (CHOOSE e \in Email : TRUE) \in Email /\ (CHOOSE b \in Browser : TRUE) \in Browser
    BY SignInAssumption
  <1> QED BY <1>1, <1>2 DEF NoRequest, Request, Tokens

\* A process that starts has nothing in use.
LEMMA CountInit == SignInInit => CountInv
  <1> SUFFICES ASSUME SignInInit PROVE CountInv
    OBVIOUS
  <1>1. load \in Loads
    BY DEF SignInInit
  <1>2. SignInTypeOK
    BY <1>1, DefaultTypes, SignInAssumption DEF SignInInit, SignInTypeOK, FlowRow, Tokens
  <1>3. Hashing = {} /\ Holders = {}
    BY DEF SignInInit, NoRequest, Hashing, Holders, Holding
  <1>4. SlotsAreCounted /\ ConnectionsAreCounted /\ OneDummy
    BY <1>3, FS_EmptySet
    DEF SignInInit, NoRequest, SlotsAreCounted, ConnectionsAreCounted, OneDummy
  <1>5. FlowsAreConsumed /\ FlowYieldsOneSession
    BY DEF SignInInit, FlowsAreConsumed, FlowYieldsOneSession, NoRequest
  <1> QED BY <1>2, <1>4, <1>5 DEF CountInv

\* The steps that a request takes.
StepOf(r) ==
    \/ \E e \in Email : Signup(r, e) \/ Login(r, e)
    \/ \E f \in Flow, b \in Browser : Callback(r, f, b)
    \/ \E e \in Email, k \in Tokens : Exchange(r, e, k)
    \/ GetGoogleToken(r) \/ Refresh(r) \/ Progress(r) \/ Fail(r)

\* A request counts what it takes and gives back, wherever it fails, and does
\* nothing to another request.
LEMMA StepCounts ==
  ASSUME SignInTypeOK, SlotsAreCounted, ConnectionsAreCounted,
         NEW r \in Req, StepOf(r)
  PROVE  Counts(r) /\ slots' \in 0..Cap /\ pool' \in 0..load.conns
  <1>0. /\ reqs \in [Req -> Request] /\ reqs[r] \in Request /\ NoRequest \in Request
        /\ slots \in 0..Cap /\ Cap \in Nat
        /\ pool \in 0..load.conns /\ load.conns \in Nat
        /\ row \in Tokens /\ users \in [Email -> {"none", "sso", "password"}]
        /\ identity \in Email \cup {NoUser}
    BY DefaultTypes, SignInAssumption DEF SignInTypeOK
  <1>p. /\ reqs[r].at = "hashing" => slots >= 1
        /\ Holding(r) => pool >= 1
    BY CountedIsPositive
  <1>m. ASSUME NEW w \in Request, reqs' = [reqs EXCEPT ![r] = w]
        PROVE  /\ \A q \in Req \ {r} : reqs'[q] = reqs[q]
               /\ reqs' \in [Req -> Request] /\ reqs'[r] = w
    BY <1>0, <1>m
  <1>1. ASSUME NEW e \in Email, Signup(r, e)
        PROVE  Counts(r) /\ slots' \in 0..Cap /\ pool' \in 0..load.conns
    <2> DEFINE w == [NoRequest EXCEPT !.at = "slot", !.kind = "signup", !.email = e]
    <2>1. w \in Request /\ w.at = "slot" /\ w.kind = "signup"
      BY <1>0 DEF Request, NoRequest
    <2>2. reqs' = [reqs EXCEPT ![r] = w]
      BY <1>1 DEF Signup
    <2>3. reqs[r].at = "idle" /\ slots' = slots /\ pool' = pool /\ dummy' = dummy
      BY <1>1 DEF Signup, Comes
    <2> HIDE DEF w
    <2> QED BY <1>0, <1>m, <2>1, <2>2, <2>3 DEF Counts, Burns, Holding, Ind
  <1>2. ASSUME NEW e \in Email, Login(r, e)
        PROVE  Counts(r) /\ slots' \in 0..Cap /\ pool' \in 0..load.conns
    <2> DEFINE at == IF users[e] = "password" THEN "slot" ELSE "dummy"
               w == [NoRequest EXCEPT !.at = at, !.kind = "login", !.email = e,
                                      !.known = users[e]]
    <2>1. w \in Request /\ w.at \in {"slot", "dummy"} /\ w.kind = "login"
      BY <1>0 DEF Request, NoRequest
    <2>2. reqs' = [reqs EXCEPT ![r] = w]
      BY <1>2 DEF Login
    <2>3. /\ reqs[r].at = "idle" /\ slots' = slots /\ dummy' = dummy
          /\ pool' = pool + 1 /\ pool < load.conns
      BY <1>2 DEF Login, Comes, Begin, Connection
    <2> HIDE DEF w
    <2> QED BY <1>0, <1>m, <2>1, <2>2, <2>3 DEF Counts, Burns, Holding, Ind
  <1>3. ASSUME NEW f \in Flow, NEW b \in Browser, Callback(r, f, b)
        PROVE  Counts(r) /\ slots' \in 0..Cap /\ pool' \in 0..load.conns
    <2> DEFINE w == [NoRequest EXCEPT !.at = "exchange", !.kind = "callback", !.flow = f]
    <2>1. w \in Request /\ w.at = "exchange" /\ w.kind = "callback"
      BY <1>0 DEF Request, NoRequest
    <2>2. reqs' = [reqs EXCEPT ![r] = w]
      BY <1>3 DEF Callback
    <2>3. reqs[r].at = "idle" /\ slots' = slots /\ pool' = pool /\ dummy' = dummy
      BY <1>3 DEF Callback, Comes
    <2> HIDE DEF w
    <2> QED BY <1>0, <1>m, <2>1, <2>2, <2>3 DEF Counts, Burns, Holding, Ind
  <1>4. ASSUME NEW e \in Email, NEW k \in Tokens, Exchange(r, e, k)
        PROVE  Counts(r) /\ slots' \in 0..Cap /\ pool' \in 0..load.conns
    <2> DEFINE w == [reqs[r] EXCEPT !.at = "resolve", !.email = e, !.token = k]
    <2>1. w \in Request /\ w.at = "resolve"
      BY <1>0 DEF Request
    <2>2. reqs' = [reqs EXCEPT ![r] = w]
      BY <1>0, <1>4 DEF Exchange
    <2>3. reqs[r].at = "exchange" /\ slots' = slots /\ pool' = pool /\ dummy' = dummy
      BY <1>4 DEF Exchange
    <2> HIDE DEF w
    <2> QED BY <1>0, <1>m, <2>1, <2>2, <2>3 DEF Counts, Burns, Holding, Ind
  <1>5. ASSUME GetGoogleToken(r)
        PROVE  Counts(r) /\ slots' \in 0..Cap /\ pool' \in 0..load.conns
    <2> DEFINE w == [NoRequest EXCEPT !.at = "refresh", !.kind = "job",
                                      !.email = identity, !.token = row]
    <2>1. w \in Request /\ w.at = "refresh" /\ w.kind = "job"
      BY <1>0, <1>5 DEF Request, NoRequest, GetGoogleToken
    <2>2. reqs' = [reqs EXCEPT ![r] = w]
      BY <1>5 DEF GetGoogleToken
    <2>3. reqs[r].at = "idle" /\ slots' = slots /\ pool' = pool /\ dummy' = dummy
      BY <1>5 DEF GetGoogleToken, Comes
    <2> HIDE DEF w
    <2> QED BY <1>0, <1>m, <2>1, <2>2, <2>3 DEF Counts, Burns, Holding, Ind
  <1>6. ASSUME Refresh(r)
        PROVE  Counts(r) /\ slots' \in 0..Cap /\ pool' \in 0..load.conns
    <2> DEFINE w == [reqs[r] EXCEPT !.at = "store", !.token = Received(reqs[r].token)]
    <2>1. w \in Request /\ w.at = "store"
      BY <1>0, <1>6 DEF Request, Refresh, Received
    <2>2. reqs' = [reqs EXCEPT ![r] = w]
      BY <1>0, <1>6 DEF Refresh
    <2>3. reqs[r].at = "refresh" /\ slots' = slots /\ pool' = pool /\ dummy' = dummy
      BY <1>6 DEF Refresh
    <2> HIDE DEF w
    <2> QED BY <1>0, <1>m, <2>1, <2>2, <2>3 DEF Counts, Burns, Holding, Ind
  <1>f. ASSUME Finish(r)
        PROVE  /\ \A q \in Req \ {r} : reqs'[q] = reqs[q]
               /\ reqs' \in [Req -> Request]
               /\ reqs'[r].at = "idle"
    BY <1>0, <1>f, <1>m DEF Finish, NoRequest
  <1>g. ASSUME NEW at \in {"burning", "slot", "hashing", "create", "insert"}, Go(r, at)
        PROVE  /\ \A q \in Req \ {r} : reqs'[q] = reqs[q]
               /\ reqs' \in [Req -> Request]
               /\ reqs'[r].at = at /\ reqs'[r].kind = reqs[r].kind
    <2> DEFINE w == [reqs[r] EXCEPT !.at = at]
    <2>1. w \in Request /\ w.at = at /\ w.kind = reqs[r].kind
      BY <1>0 DEF Request
    <2>2. reqs' = [reqs EXCEPT ![r] = w]
      BY <1>0, <1>g DEF Go
    <2> HIDE DEF w
    <2> QED BY <1>m, <2>1, <2>2
  <1>s. ASSUME NEW e \in Email, GoStore(r, e)
        PROVE  /\ \A q \in Req \ {r} : reqs'[q] = reqs[q]
               /\ reqs' \in [Req -> Request]
               /\ reqs'[r].at = "store"
    <2> DEFINE w == [reqs[r] EXCEPT !.at = "store", !.email = e, !.known = "none"]
    <2>1. w \in Request /\ w.at = "store"
      BY <1>0 DEF Request
    <2>2. reqs' = [reqs EXCEPT ![r] = w]
      BY <1>0, <1>s DEF GoStore
    <2> HIDE DEF w
    <2> QED BY <1>m, <2>1, <2>2
  <1>i. ASSUME GoIssue(r)
        PROVE  /\ \A q \in Req \ {r} : reqs'[q] = reqs[q]
               /\ reqs' \in [Req -> Request]
               /\ reqs'[r].at = "issue"
    <2> DEFINE w == [NoRequest EXCEPT !.at = "issue", !.kind = reqs[r].kind,
                                      !.email = reqs[r].email, !.flow = reqs[r].flow]
    <2>1. w \in Request /\ w.at = "issue"
      BY <1>0 DEF Request, NoRequest
    <2>2. reqs' = [reqs EXCEPT ![r] = w]
      BY <1>i DEF GoIssue
    <2> HIDE DEF w
    <2> QED BY <1>m, <2>1, <2>2
  <1>7. ASSUME acquire(r)
        PROVE  Counts(r) /\ slots' \in 0..Cap /\ pool' \in 0..load.conns
    BY <1>0, <1>7, <1>g DEF acquire, Counts, Burns, Holding, Ind
  <1>8. ASSUME SignupHashed(r)
        PROVE  Counts(r) /\ slots' \in 0..Cap /\ pool' \in 0..load.conns
    <2>1. /\ reqs[r].at = "hashing" /\ reqs[r].kind = "signup" /\ dummy' = dummy
          /\ slots' = slots - 1 /\ pool' = pool /\ Go(r, "create")
      BY <1>8 DEF SignupHashed, release
    <2> QED BY <1>0, <1>p, <1>g, <2>1 DEF Counts, Burns, Holding, Ind
  <1>9. ASSUME CreateUser(r)
        PROVE  Counts(r) /\ slots' \in 0..Cap /\ pool' \in 0..load.conns
    BY <1>0, <1>9, <1>f DEF CreateUser, Counts, Burns, Holding, Ind
  <1>10. ASSUME LoginVerified(r)
         PROVE  Counts(r) /\ slots' \in 0..Cap /\ pool' \in 0..load.conns
    <2>1. /\ reqs[r].at = "hashing" /\ reqs[r].kind = "login" /\ dummy' = dummy
          /\ slots' = slots - 1 /\ pool' = pool - 1 /\ (GoIssue(r) \/ Finish(r))
      BY <1>10 DEF LoginVerified, release, EndTx
    <2> QED BY <1>0, <1>p, <1>i, <1>f, <2>1 DEF Counts, Burns, Holding, Ind
  <1>11. ASSUME resolveIdentity(r)
         PROVE  Counts(r) /\ slots' \in 0..Cap /\ pool' \in 0..load.conns
    <2>0. reqs[r].at = "resolve" /\ slots' = slots /\ dummy' = dummy
      BY <1>11 DEF resolveIdentity
    <2>1. CASE identity # NoUser /\ GoStore(r, identity) /\ pool' = pool
      BY <1>0, <1>s, <2>0, <2>1 DEF Counts, Burns, Holding, Ind
    <2>2. CASE Begin /\ reqs' = [reqs EXCEPT ![r].at = "link",
                                             ![r].known = users[reqs[r].email]]
      <3> DEFINE w == [reqs[r] EXCEPT !.at = "link", !.known = users[reqs[r].email]]
      <3>1. w \in Request /\ w.at = "link"
        BY <1>0 DEF Request
      <3>2. reqs' = [reqs EXCEPT ![r] = w]
        BY <1>0, <2>2
      <3>3. pool' = pool + 1 /\ pool < load.conns
        BY <2>2 DEF Begin, Connection
      <3> HIDE DEF w
      <3> QED BY <1>0, <1>m, <2>0, <3>1, <3>2, <3>3 DEF Counts, Burns, Holding, Ind
    <2> QED BY <1>11, <2>1, <2>2 DEF resolveIdentity
  <1>12. ASSUME LinkUser(r)
         PROVE  Counts(r) /\ slots' \in 0..Cap /\ pool' \in 0..load.conns
    <2>0. /\ reqs[r].at = "link" /\ slots' = slots /\ dummy' = dummy
          /\ reqs[r].email \in Email
      BY <1>0, <1>12 DEF LinkUser, Request
    <2>1. CASE Go(r, "insert") /\ pool' = pool
      BY <1>0, <1>g, <2>0, <2>1 DEF Counts, Burns, Holding, Ind
    <2>2. CASE EndTx /\ GoStore(r, reqs[r].email)
      BY <1>0, <1>p, <1>s, <2>0, <2>2 DEF Counts, Burns, Holding, Ind, EndTx
    <2>3. CASE AbortTx(r)
      BY <1>0, <1>p, <1>f, <2>0, <2>3 DEF Counts, Burns, Holding, Ind, EndTx, AbortTx
    <2> QED BY <1>12, <2>1, <2>2, <2>3 DEF LinkUser
  <1>13. ASSUME InsertIdentity(r)
         PROVE  Counts(r) /\ slots' \in 0..Cap /\ pool' \in 0..load.conns
    <2>0. /\ reqs[r].at = "insert" /\ slots' = slots /\ dummy' = dummy
          /\ reqs[r].email \in Email
      BY <1>0, <1>13 DEF InsertIdentity, Request
    <2>1. CASE EndTx /\ GoStore(r, reqs[r].email)
      BY <1>0, <1>p, <1>s, <2>0, <2>1 DEF Counts, Burns, Holding, Ind, EndTx
    <2>2. CASE AbortTx(r)
      BY <1>0, <1>p, <1>f, <2>0, <2>2 DEF Counts, Burns, Holding, Ind, EndTx, AbortTx
    <2> QED BY <1>13, <2>1, <2>2 DEF InsertIdentity
  <1>14. ASSUME storeOAuthToken(r)
         PROVE  Counts(r) /\ slots' \in 0..Cap /\ pool' \in 0..load.conns
    <2>1. /\ reqs[r].at = "store" /\ slots' = slots /\ pool' = pool /\ dummy' = dummy
          /\ GoIssue(r) \/ Finish(r)
      BY <1>14 DEF storeOAuthToken
    <2> QED BY <1>0, <1>i, <1>f, <2>1 DEF Counts, Burns, Holding, Ind
  <1>15. ASSUME Issue(r)
         PROVE  Counts(r) /\ slots' \in 0..Cap /\ pool' \in 0..load.conns
    BY <1>0, <1>15, <1>f DEF Issue, Counts, Burns, Holding, Ind
  <1>16. ASSUME Fail(r)
         PROVE  Counts(r) /\ slots' \in 0..Cap /\ pool' \in 0..load.conns
    <2>1. /\ reqs[r].at \notin {"burning", "hashing"} /\ slots' = slots /\ dummy' = dummy
          /\ pool' = pool - Ind(Holding(r)) /\ Finish(r)
      BY <1>0, <1>16 DEF Fail, release, EndTx, Ind
    <2>2. /\ ~Holding(r)' /\ reqs'[r].at \notin {"burning", "hashing"}
      BY <1>f, <2>1 DEF Holding
    <2> QED BY <1>0, <1>p, <1>f, <2>1, <2>2 DEF Counts, Burns, Ind
  <1>17. ASSUME dummyHash(r)
         PROVE  Counts(r) /\ slots' \in 0..Cap /\ pool' \in 0..load.conns
    <2>1. reqs[r].at = "dummy" /\ slots' = slots /\ pool' = pool
      BY <1>17 DEF dummyHash
    <2>2. CASE dummy = "none" /\ dummy' = "running" /\ Go(r, "burning")
      BY <1>0, <1>g, <2>1, <2>2 DEF Counts, Burns, Holding, Ind
    <2>3. CASE dummy' = dummy /\ Go(r, "slot")
      BY <1>0, <1>g, <2>1, <2>3 DEF Counts, Burns, Holding, Ind
    <2> QED BY <1>17, <2>2, <2>3 DEF dummyHash
  <1>18. ASSUME dummyHashed(r)
         PROVE  Counts(r) /\ slots' \in 0..Cap /\ pool' \in 0..load.conns
    <2>1. /\ reqs[r].at = "burning" /\ dummy' = "made" /\ slots' = slots /\ pool' = pool
          /\ Go(r, "slot")
      BY <1>18 DEF dummyHashed
    <2> QED BY <1>0, <1>g, <2>1 DEF Counts, Burns, Holding, Ind
  <1> QED
    BY <1>1, <1>2, <1>3, <1>4, <1>5, <1>6, <1>7, <1>8, <1>9, <1>10, <1>11, <1>12,
       <1>13, <1>14, <1>15, <1>16, <1>17, <1>18
    DEF StepOf, Progress

\* A request leaves values of their types in the tables.
LEMMA StepTypes ==
  ASSUME SignInTypeOK, FlowsAreConsumed, NEW r \in Req, StepOf(r)
  PROVE  /\ users' \in [Email -> {"none", "sso", "password"}]
         /\ identity' \in Email \cup {NoUser}
         /\ flows' \in [Flow -> FlowRow]
         /\ row' \in Tokens
         /\ google' \in [live: SUBSET (1..load.tokens), last: Tokens, rotates: BOOLEAN]
         /\ end' \in {"never", "none", "revoked", "lost", "overwritten"}
         /\ dummy' \in {"none", "running", "made"}
  <1> DEFINE Google == [live: SUBSET (1..load.tokens), last: Tokens, rotates: BOOLEAN]
             Typed == /\ users' \in [Email -> {"none", "sso", "password"}]
                      /\ identity' \in Email \cup {NoUser}
                      /\ flows' \in [Flow -> FlowRow]
                      /\ row' \in Tokens
                      /\ google' \in Google
                      /\ end' \in {"never", "none", "revoked", "lost", "overwritten"}
                      /\ dummy' \in {"none", "running", "made"}
  <1>0. /\ reqs[r] \in Request /\ reqs[r].email \in Email /\ reqs[r].token \in Tokens
        /\ reqs[r].flow \in Flow \cup {NoFlow}
        /\ users \in [Email -> {"none", "sso", "password"}]
        /\ identity \in Email \cup {NoUser}
        /\ flows \in [Flow -> FlowRow]
        /\ row \in Tokens
        /\ google \in Google
        /\ end \in {"never", "none", "revoked", "lost", "overwritten"}
        /\ dummy \in {"none", "running", "made"}
        /\ load.tokens \in Nat
    BY DefaultTypes DEF SignInTypeOK, Request
  <1>1. CASE UNCHANGED <<dummy, users, identity, flows, row, google, end>>
    BY <1>0, <1>1
  <1>2. ASSUME NEW f \in Flow, NEW b \in Browser, Callback(r, f, b)
        PROVE  Typed
    BY <1>0, <1>2 DEF Callback, ConsumeOAuthFlow, FlowRow
  <1>3. ASSUME NEW e \in Email, NEW k \in Tokens, Exchange(r, e, k)
        PROVE  Typed
    <2>1. google' \in Google
      <3>1. CASE k = 0
        BY <1>0, <1>3, <3>1 DEF Exchange
      <3>2. CASE k # 0
        <4>1. k \in 1..load.tokens
          BY <1>0, <3>2 DEF Tokens
        <4>2. google' = [google EXCEPT !.live = @ \cup {k}, !.last = k]
          BY <1>3, <3>2 DEF Exchange
        <4>3. google.live \cup {k} \in SUBSET (1..load.tokens)
          BY <1>0, <4>1
        <4> QED BY <1>0, <4>2, <4>3
      <3> QED BY <3>1, <3>2
    <2> QED BY <1>0, <1>3, <2>1 DEF Exchange
  <1>4. ASSUME Refresh(r)
        PROVE  Typed
    <2> DEFINE k == reqs[r].token
    <2>1. Rotated(k) \in 1..load.tokens
      BY <1>0, <1>4 DEF Refresh, Rotated, Tokens
    <2>2. google' = [google EXCEPT !.live = (@ \ {k}) \cup {Rotated(k)},
                                   !.last = IF google.rotates THEN @ + 1 ELSE @]
      BY <1>4 DEF Refresh, Spent
    <2>3. google.rotates => google.last + 1 \in Tokens
      BY <1>4 DEF Refresh, Rotated
    <2>4. (IF google.rotates THEN google.last + 1 ELSE google.last) \in Tokens
      BY <1>0, <2>3
    <2>5. google' \in Google
      BY <1>0, <2>1, <2>2, <2>4
    <2> QED BY <1>0, <1>4, <2>5 DEF Refresh
  <1>5. ASSUME CreateUser(r)
        PROVE  Typed
    BY <1>0, <1>5 DEF CreateUser
  <1>6. ASSUME InsertIdentity(r)
        PROVE  Typed
    BY <1>0, <1>6 DEF InsertIdentity, AbortTx
  <1>7. ASSUME storeOAuthToken(r)
        PROVE  Typed
    BY <1>0, <1>7 DEF storeOAuthToken, UpsertOAuthToken
  <1>8. ASSUME Issue(r)
        PROVE  Typed
    <2>1. ASSUME NEW f \in Flow
          PROVE  flows'[f] \in FlowRow
      <3>1. CASE f = reqs[r].flow
        <4>1. f # NoFlow
          BY SignInAssumption
        <4>2. flows[f].issued = 0
          BY <3>1, <4>1 DEF FlowsAreConsumed
        <4>3. flows'[f] = [flows[f] EXCEPT !.issued = 1]
          BY <1>0, <1>8, <3>1, <4>2 DEF Issue, FlowRow
        <4>4. flows[f] \in FlowRow
          BY <1>0
        <4> QED BY <4>3, <4>4 DEF FlowRow
      <3> QED BY <1>0, <1>8, <3>1 DEF Issue
    <2>2. flows' \in [Flow -> FlowRow]
      BY <1>8, <2>1 DEF Issue
    <2> QED BY <1>0, <1>8, <2>2 DEF Issue
  <1>9. ASSUME Fail(r)
        PROVE  Typed
    BY <1>0, <1>9 DEF Fail
  <1>10. ASSUME dummyHash(r) \/ dummyHashed(r)
         PROVE  Typed
    BY <1>0, <1>10 DEF dummyHash, dummyHashed
  <1> QED
    BY <1>1, <1>2, <1>3, <1>4, <1>5, <1>6, <1>7, <1>8, <1>9, <1>10
    DEF StepOf, Progress, Signup, Login, GetGoogleToken, acquire, SignupHashed,
        LoginVerified, resolveIdentity, LinkUser, AbortTx

\* A request that keeps its flow, or is done with it, and leaves the flows alone
\* keeps them consumed.
LEMMA FlowsKept ==
  ASSUME FlowsAreConsumed, NEW r \in Req, flows' = flows,
         \A q \in Req \ {r} : reqs'[q] = reqs[q],
         reqs'[r].flow \in {NoFlow, reqs[r].flow}
  PROVE  FlowsAreConsumed'
  BY DEF FlowsAreConsumed

\* A flow is consumed by the callback that finds it, and gives its one session.
LEMMA StepConsumes ==
  ASSUME SignInTypeOK, FlowsAreConsumed, FlowYieldsOneSession,
         NEW r \in Req, StepOf(r), Counts(r)
  PROVE  FlowsAreConsumed' /\ FlowYieldsOneSession'
  <1>0. /\ reqs \in [Req -> Request] /\ reqs[r] \in Request
        /\ reqs[r].flow \in Flow \cup {NoFlow} /\ NoRequest \in Request
        /\ NoRequest.flow = NoFlow /\ NoFlow \notin Flow
        /\ flows \in [Flow -> FlowRow]
        /\ \A q \in Req \ {r} : reqs'[q] = reqs[q]
        /\ \A q \in Req : reqs[q].flow \in Flow \cup {NoFlow}
    BY SignInAssumption, DefaultTypes DEF SignInTypeOK, Request, NoRequest, Counts
  <1>1. ASSUME flows' = flows, reqs'[r].flow \in {NoFlow, reqs[r].flow}
        PROVE  FlowsAreConsumed' /\ FlowYieldsOneSession'
    BY <1>0, <1>1, FlowsKept DEF FlowYieldsOneSession
  <1>2. ASSUME NEW f \in Flow, NEW b \in Browser, Callback(r, f, b)
        PROVE  FlowsAreConsumed' /\ FlowYieldsOneSession'
    <2>1. /\ flows[f].state = "open"
          /\ flows' = [flows EXCEPT ![f].state = "gone"]
          /\ reqs'[r].flow = f
      BY <1>0, <1>2 DEF Callback, ConsumeOAuthFlow, NoRequest, Request
    <2>2. flows[f].issued = 0 /\ \A q \in Req : reqs[q].flow # f
      BY <1>0, <2>1 DEF FlowsAreConsumed
    <2>3. /\ flows'[f].state = "gone" /\ flows'[f].issued = 0
          /\ \A g \in Flow \ {f} : flows'[g] = flows[g]
      BY <1>0, <2>1, <2>2 DEF FlowRow
    <2> QED BY <1>0, <2>1, <2>2, <2>3 DEF FlowsAreConsumed, FlowYieldsOneSession
  <1>3. ASSUME Issue(r)
        PROVE  FlowsAreConsumed' /\ FlowYieldsOneSession'
    <2>1. reqs'[r].flow = NoFlow
      BY <1>0, <1>3 DEF Issue, Finish
    <2>2. ASSUME NEW f \in Flow
          PROVE  /\ flows'[f].state = flows[f].state
                 /\ f # reqs[r].flow => flows'[f] = flows[f]
                 /\ f = reqs[r].flow => flows'[f].issued = 1 /\ flows[f].state = "gone"
      <3>1. f = reqs[r].flow => flows[f].issued = 0 /\ flows[f].state = "gone"
        BY <1>0 DEF FlowsAreConsumed
      <3> QED BY <1>0, <1>3, <3>1 DEF Issue, FlowRow
    <2>3. \A q \in Req \ {r} : reqs[q].flow # NoFlow => reqs[q].flow # reqs[r].flow
      BY <1>0 DEF FlowsAreConsumed
    <2> QED BY <1>0, <2>1, <2>2, <2>3 DEF FlowsAreConsumed, FlowYieldsOneSession
  <1>4. ASSUME Finish(r) PROVE reqs'[r].flow = NoFlow
    BY <1>0, <1>4 DEF Finish
  <1>5. ASSUME GoIssue(r) PROVE reqs'[r].flow = reqs[r].flow
    BY <1>0, <1>5 DEF GoIssue, NoRequest
  <1>6. ASSUME NEW at, Go(r, at) PROVE reqs'[r].flow = reqs[r].flow
    BY <1>0, <1>6 DEF Go, Request
  <1>7. ASSUME NEW e, GoStore(r, e) PROVE reqs'[r].flow = reqs[r].flow
    BY <1>0, <1>7 DEF GoStore, Request
  <1>8. ASSUME NEW e \in Email, Signup(r, e) \/ Login(r, e)
        PROVE  flows' = flows /\ reqs'[r].flow = NoFlow
    BY <1>0, <1>8 DEF Signup, Login, NoRequest
  <1>9. ASSUME GetGoogleToken(r)
        PROVE  flows' = flows /\ reqs'[r].flow = NoFlow
    BY <1>0, <1>9 DEF GetGoogleToken, NoRequest
  <1>10. ASSUME NEW e \in Email, NEW k \in Tokens, Exchange(r, e, k)
         PROVE  flows' = flows /\ reqs'[r].flow = reqs[r].flow
    BY <1>0, <1>10 DEF Exchange, Request
  <1>11. ASSUME Refresh(r)
         PROVE  flows' = flows /\ reqs'[r].flow = reqs[r].flow
    BY <1>0, <1>11 DEF Refresh, Request
  <1>12. ASSUME resolveIdentity(r)
         PROVE  flows' = flows /\ reqs'[r].flow = reqs[r].flow
    BY <1>0, <1>12, <1>7 DEF resolveIdentity, Request
  <1>13. ASSUME \/ Fail(r) \/ CreateUser(r) \/ SignupHashed(r) \/ LoginVerified(r)
                \/ dummyHash(r) \/ dummyHashed(r) \/ acquire(r)
         PROVE  flows' = flows /\ reqs'[r].flow \in {NoFlow, reqs[r].flow}
    BY <1>13, <1>4, <1>5, <1>6
    DEF Fail, CreateUser, SignupHashed, LoginVerified, dummyHash, dummyHashed, acquire
  <1>14. ASSUME LinkUser(r) \/ InsertIdentity(r) \/ storeOAuthToken(r)
         PROVE  flows' = flows /\ reqs'[r].flow \in {NoFlow, reqs[r].flow}
    BY <1>14, <1>4, <1>5, <1>6, <1>7 DEF LinkUser, InsertIdentity, AbortTx, storeOAuthToken
  <1> QED
    BY <1>1, <1>2, <1>3, <1>8, <1>9, <1>10, <1>11, <1>12, <1>13, <1>14
    DEF StepOf, Progress

\* Every step is one of a request, the start of a flow, or a revocation.
LEMMA StepCases ==
  ASSUME Step
  PROVE  \/ \E r \in Req : StepOf(r)
         \/ \E f \in Flow, b \in Browser : Start(f, b)
         \/ Revoke
  <1>1. CASE \E r \in Req, e \in Email : Signup(r, e) \/ Login(r, e)
    BY <1>1 DEF StepOf
  <1>2. CASE \E f \in Flow, b \in Browser :
               Start(f, b) \/ \E r \in Req : Callback(r, f, b)
    BY <1>2 DEF StepOf
  <1>3. CASE \E r \in Req, e \in Email, k \in Tokens : Exchange(r, e, k)
    BY <1>3 DEF StepOf
  <1>4. CASE \E r \in Req : GetGoogleToken(r) \/ Refresh(r) \/ Progress(r) \/ Fail(r)
    BY <1>4 DEF StepOf
  <1> QED BY <1>1, <1>2, <1>3, <1>4 DEF Step

\* A revocation marks the tokens of the requests, and nothing else of them.
LEMMA RevokeMarks ==
  ASSUME SignInTypeOK, Revoke, NEW r \in Req
  PROVE  /\ reqs'[r] \in Request
         /\ reqs'[r].at = reqs[r].at /\ reqs'[r].kind = reqs[r].kind
         /\ reqs'[r].email = reqs[r].email /\ reqs'[r].flow = reqs[r].flow
         /\ reqs'[r].token = reqs[r].token
         /\ reqs'[r].stale = (reqs[r].token # 0)
  <1>1. reqs[r] \in Request
    BY DEF SignInTypeOK
  <1>2. reqs'[r] = [reqs[r] EXCEPT !.stale = (reqs[r].token # 0)]
    BY DEF Revoke
  <1> QED BY <1>1, <1>2 DEF Request

LEMMA CountStep == CountInv /\ [SignInNext]_vars => CountInv'
  <1> SUFFICES ASSUME CountInv, [SignInNext]_vars PROVE CountInv'
    OBVIOUS
  <1>0. /\ SignInTypeOK /\ SlotsAreCounted /\ ConnectionsAreCounted
        /\ OneDummy /\ FlowsAreConsumed /\ FlowYieldsOneSession /\ load \in Loads
    BY DEF CountInv, SignInTypeOK
  <1>1. CASE UNCHANGED vars
    BY <1>0, <1>1
    DEF vars, CountInv, SignInTypeOK, SlotsAreCounted, Hashing, OneDummy,
        ConnectionsAreCounted, Holders, Holding, FlowsAreConsumed, FlowYieldsOneSession, Request, Tokens
  <1>2. CASE Step /\ load' = load
    <2>0. Tokens' = Tokens /\ Request' = Request
      BY <1>2 DEF Tokens, Request
    <2>1. ASSUME NEW r \in Req, StepOf(r)
          PROVE  CountInv'
      <3>1. Counts(r) /\ slots' \in 0..Cap /\ pool' \in 0..load.conns
        BY <1>0, <2>1, StepCounts
      <3>2. SlotsAreCounted' /\ ConnectionsAreCounted' /\ OneDummy'
        BY <1>0, <3>1, CountsKeep
      <3>3. FlowsAreConsumed' /\ FlowYieldsOneSession'
        BY <1>0, <2>1, <3>1, StepConsumes
      <3>4. /\ users' \in [Email -> {"none", "sso", "password"}]
            /\ identity' \in Email \cup {NoUser}
            /\ flows' \in [Flow -> FlowRow]
            /\ row' \in Tokens
            /\ google' \in [live: SUBSET (1..load.tokens), last: Tokens, rotates: BOOLEAN]
            /\ end' \in {"never", "none", "revoked", "lost", "overwritten"}
            /\ dummy' \in {"none", "running", "made"}
        BY <1>0, <2>1, StepTypes
      <3>5. reqs' \in [Req -> Request]
        BY <3>1 DEF Counts
      <3>6. SignInTypeOK'
        BY <1>0, <1>2, <2>0, <3>1, <3>4, <3>5 DEF SignInTypeOK
      <3> QED BY <3>2, <3>3, <3>6 DEF CountInv
    <2>2. ASSUME NEW f \in Flow, NEW b \in Browser, Start(f, b)
          PROVE  CountInv'
      <3>1. /\ flows[f] \in FlowRow /\ flows[f].state = "none"
            /\ flows' = [flows EXCEPT ![f].state = "open", ![f].browser = b]
            /\ UNCHANGED <<pool, slots, dummy, users, identity, row, google, end, reqs>>
        BY <1>0, <2>2 DEF Start, SignInTypeOK
      <3>2. flows' \in [Flow -> FlowRow]
        BY <1>0, <3>1 DEF SignInTypeOK, FlowRow
      <3>3. SignInTypeOK'
        BY <1>0, <1>2, <2>0, <3>1, <3>2 DEF SignInTypeOK
      <3>4. SlotsAreCounted' /\ ConnectionsAreCounted' /\ OneDummy'
        BY <1>0, <3>1
        DEF SlotsAreCounted, Hashing, OneDummy, ConnectionsAreCounted, Holders, Holding
      <3>5. /\ flows'[f].issued = flows[f].issued
            /\ \A g \in Flow \ {f} : flows'[g] = flows[g]
        BY <1>0, <3>1 DEF SignInTypeOK, FlowRow
      <3>6. \A r \in Req : reqs[r].flow # f /\ reqs[r].flow \in Flow \cup {NoFlow}
        BY <1>0, <3>1, SignInAssumption DEF FlowsAreConsumed, SignInTypeOK, Request
      <3>7. FlowsAreConsumed' /\ FlowYieldsOneSession'
        <4>1. flows[f].issued = 0
          BY <1>0, <3>1 DEF FlowsAreConsumed
        <4>2. \A g \in Flow : flows'[g].issued = flows[g].issued
          BY <3>5
        <4>3. \A r \in Req : reqs[r].flow # NoFlow => flows'[reqs[r].flow] = flows[reqs[r].flow]
          BY <3>5, <3>6
        <4>4. \A g \in Flow : flows'[g].state # "gone" => flows'[g].issued = 0
          BY <1>0, <3>5, <4>1 DEF FlowsAreConsumed
        <4>5. FlowsAreConsumed'
          BY <1>0, <3>1, <4>3, <4>4 DEF FlowsAreConsumed
        <4> QED BY <1>0, <4>2, <4>5 DEF FlowYieldsOneSession
      <3> QED BY <3>3, <3>4, <3>7 DEF CountInv
    <2>3. ASSUME Revoke
          PROVE  CountInv'
      <3>1. /\ \A r \in Req : /\ reqs'[r] \in Request
                              /\ reqs'[r].at = reqs[r].at /\ reqs'[r].kind = reqs[r].kind
                              /\ reqs'[r].flow = reqs[r].flow
            /\ UNCHANGED <<pool, slots, dummy, users, identity, flows, row>>
            /\ reqs' \in [Req -> Request]
        <4>1. \A r \in Req : /\ reqs'[r] \in Request
                             /\ reqs'[r].at = reqs[r].at /\ reqs'[r].kind = reqs[r].kind
                             /\ reqs'[r].flow = reqs[r].flow
          BY <1>0, <2>3, RevokeMarks
        <4> QED BY <2>3, <4>1 DEF Revoke
      <3>2. SignInTypeOK'
        <4>1. google' = [google EXCEPT !.live = {}] /\ end' = "revoked"
          BY <2>3 DEF Revoke
        <4>2. google' \in [live: SUBSET (1..load.tokens), last: Tokens, rotates: BOOLEAN]
          BY <1>0, <4>1 DEF SignInTypeOK
        <4> QED BY <1>0, <1>2, <2>0, <3>1, <4>1, <4>2 DEF SignInTypeOK
      <3>3. Hashing' = Hashing /\ Holders' = Holders
        BY <3>1 DEF Hashing, Holders, Holding
      <3>4. SlotsAreCounted' /\ ConnectionsAreCounted' /\ OneDummy'
        BY <1>0, <3>1, <3>3 DEF SlotsAreCounted, ConnectionsAreCounted, OneDummy
      <3>5. FlowsAreConsumed' /\ FlowYieldsOneSession'
        BY <1>0, <3>1 DEF FlowsAreConsumed, FlowYieldsOneSession
      <3> QED BY <3>2, <3>4, <3>5 DEF CountInv
    <2> QED BY <1>2, <2>1, <2>2, <2>3, StepCases
  <1> QED BY <1>1, <1>2 DEF SignInNext

LEMMA CountInvariant == SignInSpec => []CountInv
  BY CountInit, CountStep, PTL DEF SignInSpec

\* SignInTypeOK: the columns, the counters of pool and limiter and what the
\* requests carry keep their types and bounds.
THEOREM SignInTypeCorrect == SignInSpec => []SignInTypeOK
  <1>1. CountInv => SignInTypeOK
    BY DEF CountInv
  <1> QED BY <1>1, CountInvariant, PTL

\* The hashes that run are those the limiter admitted and the dummy one.
LEMMA HashesThatRun ==
  ASSUME SignInTypeOK, SlotsAreCounted, OneDummy
  PROVE  HashesAreCounted
  <1>1. /\ Hashing \in SUBSET Req /\ Running \in SUBSET Req
        /\ slots \in 0..Cap /\ Cap \in Nat
    BY SignInAssumption DEF Hashing, Running, SignInTypeOK
  <1>2. CASE dummy = "running"
    <2>1. PICK b \in Req : reqs[b].at = "burning"
      BY <1>2 DEF OneDummy
    <2>2. /\ \A q \in Req \ {b} : q \in Hashing <=> q \in Running
          /\ b \notin Hashing /\ b \in Running
      BY <2>1 DEF OneDummy, Hashing, Running
    <2>3. Cardinality(Running) = Cardinality(Hashing) + Ind(b \in Running) - Ind(b \in Hashing)
      BY <1>1, <2>2, Counting
    <2>4. Cardinality(Running) = slots + 1
      BY <1>1, <2>2, <2>3 DEF SlotsAreCounted, Ind
    <2> QED BY <1>1, <1>2, <2>4 DEF HashesAreCounted, SlotsAreCounted, Hashing
  <1>3. CASE dummy # "running"
    <2>1. Running = Hashing
      BY <1>3 DEF OneDummy, Running, Hashing
    <2> QED BY <1>1, <1>3, <2>1 DEF HashesAreCounted, SlotsAreCounted, Hashing
  <1> QED BY <1>2, <1>3

\* HashesAreCounted: acquire and the deferred release balance, wherever a request
\* fails, so that no slot leaks; and besides the hashes that Cap bounds, only the
\* one of dummyHash runs, once.
THEOREM SlotsAreBalanced == SignInSpec => []HashesAreCounted
  <1>1. CountInv => HashesAreCounted
    BY HashesThatRun DEF CountInv
  <1> QED BY <1>1, CountInvariant, PTL

\* FlowYieldsOneSession: ConsumeOAuthFlow gives a flow to one callback, which
\* issues one session.
THEOREM OneSessionPerFlow == SignInSpec => []FlowYieldsOneSession
  <1>1. CountInv => FlowYieldsOneSession
    BY DEF CountInv
  <1> QED BY <1>1, CountInvariant, PTL

-----------------------------------------------------------------------------
(* Users and their identity. *)

\* Users and the identity once made stay; a step that makes none of them, and
\* takes a callback to storeOAuthToken or to Issue for the linked user only,
\* keeps the invariant.
LEMMA LinkedKept ==
  ASSUME SignInTypeOK, LinkedInv, NEW r \in Req,
         \A q \in Req \ {r} : reqs'[q] = reqs[q],
         UNCHANGED <<users, identity>>,
         reqs'[r].kind = "callback" /\ reqs'[r].at \in {"store", "issue"}
           => reqs'[r].email = identity /\ identity # NoUser,
         reqs'[r].at = "refresh" => reqs'[r].kind = "job"
  PROVE  LinkedInv'
  <1>1. UsersCanSignIn' /\ (identity # NoUser => users[identity] # "none")'
    BY DEF LinkedInv, UsersCanSignIn
  <1>2. SessionIsTheIdentitys'
    <2> SUFFICES ASSUME NEW q \in Req, reqs'[q].kind = "callback",
                        reqs'[q].at \in {"store", "issue"}
                 PROVE  reqs'[q].email = identity /\ users[identity] # "none"
      BY DEF SessionIsTheIdentitys
    <2>1. CASE q = r
      BY <2>1 DEF LinkedInv
    <2>2. CASE q # r
      BY <2>2 DEF LinkedInv, SessionIsTheIdentitys
    <2> QED BY <2>1, <2>2
  <1>3. \A q \in Req : reqs'[q].at = "refresh" => reqs'[q].kind = "job"
    BY DEF LinkedInv
  <1> QED BY <1>1, <1>2, <1>3 DEF LinkedInv

LEMMA StepLinks ==
  ASSUME SignInTypeOK, LinkedInv, NEW r \in Req, StepOf(r), Counts(r)
  PROVE  LinkedInv'
  <1>0. /\ reqs \in [Req -> Request] /\ reqs[r] \in Request /\ reqs[r].email \in Email
        /\ NoRequest \in Request /\ NoRequest.at = "idle"
        /\ users \in [Email -> {"none", "sso", "password"}]
        /\ identity \in Email \cup {NoUser} /\ NoUser \notin Email
        /\ \A q \in Req \ {r} : reqs'[q] = reqs[q]
    BY DefaultTypes, SignInAssumption DEF SignInTypeOK, Counts, Request, NoRequest
  <1>2. ASSUME Finish(r) PROVE reqs'[r].at = "idle"
    BY <1>0, <1>2 DEF Finish
  <1>3. ASSUME NEW at \in {"burning", "slot", "hashing", "create", "insert"}, Go(r, at)
        PROVE  reqs'[r].at = at
    BY <1>0, <1>3 DEF Go, Request
  <1>4. ASSUME NEW e \in Email, GoStore(r, e)
        PROVE  reqs'[r].email = e /\ reqs'[r].at = "store"
    BY <1>0, <1>4 DEF GoStore, Request
  <1>5. ASSUME GoIssue(r)
        PROVE  /\ reqs'[r].email = reqs[r].email /\ reqs'[r].kind = reqs[r].kind
               /\ reqs'[r].at = "issue"
    BY <1>0, <1>5 DEF GoIssue, NoRequest
  <1>j. reqs'[r].at = "refresh" => reqs'[r].kind = "job"
    <2>1. CASE GetGoogleToken(r)
      BY <1>0, <2>1 DEF GetGoogleToken, NoRequest
    <2>2. CASE \E e \in Email : Signup(r, e) \/ Login(r, e)
      <3>1. reqs'[r].at \in {"slot", "dummy"}
        <4>1. PICK e \in Email : Signup(r, e) \/ Login(r, e)
          BY <2>2
        <4>2. CASE Signup(r, e)
          BY <1>0, <4>2 DEF Signup, NoRequest
        <4>3. CASE Login(r, e)
          BY <1>0, <4>3 DEF Login, NoRequest
        <4> QED BY <4>1, <4>2, <4>3
      <3> QED BY <3>1
    <2>3. CASE \E f \in Flow, b \in Browser : Callback(r, f, b)
      <3>1. reqs'[r].at = "exchange"
        BY <1>0, <2>3 DEF Callback, NoRequest
      <3> QED BY <3>1
    <2>4. CASE \E e \in Email, k \in Tokens : Exchange(r, e, k)
      <3>1. reqs'[r].at = "resolve"
        <4>1. PICK e \in Email, k \in Tokens : Exchange(r, e, k)
          BY <2>4
        <4> QED BY <1>0, <4>1 DEF Exchange, Request
      <3> QED BY <3>1
    <2>5. CASE Refresh(r)
      <3>1. reqs'[r].at = "store"
        BY <1>0, <2>5 DEF Refresh, Request
      <3> QED BY <3>1
    <2>6. CASE resolveIdentity(r)
      <3>1. CASE GoStore(r, identity) /\ identity # NoUser
        BY <1>0, <1>4, <3>1
      <3>2. CASE reqs' = [reqs EXCEPT ![r].at = "link", ![r].known = users[reqs[r].email]]
        BY <1>0, <3>2 DEF Request
      <3> QED BY <2>6, <3>1, <3>2 DEF resolveIdentity
    <2>7. CASE Progress(r) /\ ~resolveIdentity(r)
      BY <1>0, <1>2, <1>3, <1>4, <1>5, <2>7
      DEF Progress, dummyHash, dummyHashed, acquire, SignupHashed, CreateUser,
          LoginVerified, LinkUser, InsertIdentity, AbortTx, storeOAuthToken, Issue
    <2>8. CASE Fail(r)
      BY <1>2, <2>8 DEF Fail
    <2> QED BY <2>1, <2>2, <2>3, <2>4, <2>5, <2>6, <2>7, <2>8 DEF StepOf
  <1>1. ASSUME UNCHANGED <<users, identity>>,
               reqs'[r].kind = "callback" /\ reqs'[r].at \in {"store", "issue"}
                 => reqs'[r].email = identity /\ identity # NoUser
        PROVE  LinkedInv'
    BY <1>0, <1>1, <1>j, LinkedKept
  <1>6. ASSUME NEW e \in Email, Signup(r, e) \/ Login(r, e)
        PROVE  LinkedInv'
    <2>1. UNCHANGED <<users, identity>> /\ reqs'[r].kind \in {"signup", "login"}
      BY <1>0, <1>6 DEF Signup, Login, NoRequest
    <2> QED BY <1>1, <2>1
  <1>7. ASSUME NEW f \in Flow, NEW b \in Browser, Callback(r, f, b)
        PROVE  LinkedInv'
    <2>1. UNCHANGED <<users, identity>> /\ reqs'[r].at = "exchange"
      BY <1>0, <1>7 DEF Callback, NoRequest
    <2> QED BY <1>1, <2>1
  <1>8. ASSUME NEW e \in Email, NEW k \in Tokens, Exchange(r, e, k)
        PROVE  LinkedInv'
    <2>1. UNCHANGED <<users, identity>> /\ reqs'[r].at = "resolve"
      BY <1>0, <1>8 DEF Exchange, Request
    <2> QED BY <1>1, <2>1
  <1>9. ASSUME GetGoogleToken(r)
        PROVE  LinkedInv'
    <2>1. UNCHANGED <<users, identity>> /\ reqs'[r].kind = "job"
      BY <1>0, <1>9 DEF GetGoogleToken, NoRequest
    <2> QED BY <1>1, <2>1
  <1>10. ASSUME Refresh(r)
         PROVE  LinkedInv'
    <2>1. UNCHANGED <<users, identity>> /\ reqs'[r].kind = "job"
      BY <1>0, <1>10 DEF LinkedInv, Refresh, Request
    <2> QED BY <1>1, <2>1
  <1>11. ASSUME dummyHash(r) \/ dummyHashed(r) \/ acquire(r) \/ SignupHashed(r)
         PROVE  LinkedInv'
    BY <1>1, <1>3, <1>11 DEF dummyHash, dummyHashed, acquire, SignupHashed
  <1>12. ASSUME CreateUser(r)
         PROVE  LinkedInv'
    <2>1. reqs'[r].at = "idle" /\ identity' = identity
      BY <1>2, <1>12 DEF CreateUser
    <2>2. \A e \in Email : \/ users'[e] = users[e]
                           \/ users[e] = "none" /\ users'[e] = "password"
      BY <1>0, <1>12 DEF CreateUser
    <2>3. UsersCanSignIn' /\ (identity' # NoUser => users'[identity'] # "none")
      BY <1>0, <2>1, <2>2 DEF LinkedInv, UsersCanSignIn
    <2>4. SessionIsTheIdentitys'
      <3> SUFFICES ASSUME NEW q \in Req, reqs'[q].kind = "callback",
                          reqs'[q].at \in {"store", "issue"}
                   PROVE  reqs'[q].email = identity /\ users'[identity] # "none"
        BY <2>1 DEF SessionIsTheIdentitys
      <3>1. reqs'[q] = reqs[q]
        BY <1>0, <2>1
      <3>2. /\ reqs[q].email = identity /\ users[identity] # "none"
            /\ reqs[q].email \in Email
        BY <1>0, <3>1 DEF LinkedInv, SessionIsTheIdentitys, Request
      <3> QED BY <2>2, <3>1, <3>2
    <2>5. \A q \in Req : reqs'[q].at = "refresh" => reqs'[q].kind = "job"
      BY <1>0, <1>j DEF LinkedInv
    <2> QED BY <2>3, <2>4, <2>5 DEF LinkedInv
  <1>13. ASSUME LoginVerified(r)
         PROVE  LinkedInv'
    <2>1. UNCHANGED <<users, identity>> /\ (reqs'[r].kind = "login" \/ reqs'[r].at = "idle")
      BY <1>2, <1>5, <1>13 DEF LoginVerified
    <2> QED BY <1>1, <2>1
  <1>14. ASSUME resolveIdentity(r)
         PROVE  LinkedInv'
    <2>1. CASE identity # NoUser /\ GoStore(r, identity)
      BY <1>0, <1>1, <1>4, <1>14, <2>1 DEF resolveIdentity
    <2>2. CASE reqs' = [reqs EXCEPT ![r].at = "link", ![r].known = users[reqs[r].email]]
      <3>1. reqs'[r].at = "link"
        BY <1>0, <2>2 DEF Request
      <3> QED BY <1>1, <1>14, <3>1 DEF resolveIdentity
    <2> QED BY <1>14, <2>1, <2>2 DEF resolveIdentity
  <1>15. ASSUME LinkUser(r)
         PROVE  LinkedInv'
    <2>0. UNCHANGED <<users, identity>>
      BY <1>15 DEF LinkUser, AbortTx
    <2>1. CASE Go(r, "insert")
      BY <1>1, <1>3, <2>0, <2>1
    <2>2. CASE identity = reqs[r].email /\ GoStore(r, reqs[r].email)
      BY <1>0, <1>1, <1>4, <2>0, <2>2
    <2>3. CASE AbortTx(r)
      BY <1>1, <1>2, <2>0, <2>3 DEF AbortTx
    <2> QED BY <1>15, <2>1, <2>2, <2>3 DEF LinkUser
  <1>16. ASSUME InsertIdentity(r)
         PROVE  LinkedInv'
    <2>1. CASE AbortTx(r)
      BY <1>1, <1>2, <2>1 DEF AbortTx
    <2>2. CASE /\ identity = NoUser
               /\ identity' = reqs[r].email
               /\ users' = [users EXCEPT ![reqs[r].email] = IF @ = "none" THEN "sso" ELSE @]
               /\ GoStore(r, reqs[r].email)
      <3>1. \A e \in Email : users[e] # "sso"
        BY <1>0, <2>2 DEF LinkedInv, UsersCanSignIn
      <3>2. \A e \in Email \ {reqs[r].email} : users'[e] = users[e]
        BY <1>0, <2>2
      <3>3. users'[reqs[r].email] # "none"
        BY <1>0, <2>2
      <3>4. \A q \in Req : ~(reqs[q].kind = "callback" /\ reqs[q].at \in {"store", "issue"})
        BY <1>0, <2>2 DEF LinkedInv, SessionIsTheIdentitys, SignInTypeOK, Request
      <3>5. reqs'[r].email = reqs[r].email
        BY <1>0, <1>4, <2>2
      <3>6. UsersCanSignIn'
        BY <1>0, <2>2, <3>1, <3>2 DEF UsersCanSignIn
      <3>7. SessionIsTheIdentitys'
        BY <1>0, <2>2, <3>3, <3>4, <3>5 DEF SessionIsTheIdentitys
      <3>8. \A q \in Req : reqs'[q].at = "refresh" => reqs'[q].kind = "job"
        BY <1>0, <1>j DEF LinkedInv
      <3> QED BY <2>2, <3>3, <3>6, <3>7, <3>8 DEF LinkedInv
    <2> QED BY <1>16, <2>1, <2>2 DEF InsertIdentity
  <1>17. ASSUME storeOAuthToken(r)
         PROVE  LinkedInv'
    <2>0. UNCHANGED <<users, identity>> /\ reqs[r].at = "store"
      BY <1>17 DEF storeOAuthToken
    <2>1. CASE reqs[r].kind = "callback" /\ GoIssue(r)
      <3>1. reqs[r].email = identity
        BY <2>0, <2>1 DEF LinkedInv, SessionIsTheIdentitys
      <3> QED BY <1>0, <1>1, <1>5, <2>0, <2>1, <3>1
    <2>2. CASE Finish(r)
      BY <1>1, <1>2, <2>0, <2>2
    <2> QED BY <1>17, <2>1, <2>2 DEF storeOAuthToken
  <1>18. ASSUME Issue(r) \/ Fail(r)
         PROVE  LinkedInv'
    BY <1>1, <1>2, <1>18 DEF Issue, Fail
  <1> QED
    BY <1>6, <1>7, <1>8, <1>9, <1>10, <1>11, <1>12, <1>13, <1>14, <1>15, <1>16, <1>17,
       <1>18
    DEF StepOf, Progress

LEMMA LinkedStep == CountInv /\ LinkedInv /\ [SignInNext]_vars => LinkedInv'
  <1> SUFFICES ASSUME CountInv, LinkedInv, [SignInNext]_vars PROVE LinkedInv'
    OBVIOUS
  <1>0. SignInTypeOK /\ SlotsAreCounted /\ OneDummy /\ ConnectionsAreCounted
    BY DEF CountInv
  <1>1. ASSUME UNCHANGED <<users, identity>>,
               \A r \in Req : /\ reqs'[r].at = reqs[r].at /\ reqs'[r].kind = reqs[r].kind
                              /\ reqs'[r].email = reqs[r].email
        PROVE  LinkedInv'
    BY <1>1 DEF LinkedInv, UsersCanSignIn, SessionIsTheIdentitys
  <1>2. CASE UNCHANGED vars
    BY <1>1, <1>2 DEF vars
  <1>3. CASE Step
    <2>1. ASSUME NEW r \in Req, StepOf(r)
          PROVE  LinkedInv'
      BY <1>0, <2>1, StepCounts, StepLinks
    <2>2. ASSUME NEW f \in Flow, NEW b \in Browser, Start(f, b)
          PROVE  LinkedInv'
      BY <1>1, <2>2 DEF Start
    <2>3. ASSUME Revoke
          PROVE  LinkedInv'
      <3>1. UNCHANGED <<users, identity>>
        BY <2>3 DEF Revoke
      <3>2. \A r \in Req : /\ reqs'[r].at = reqs[r].at /\ reqs'[r].kind = reqs[r].kind
                           /\ reqs'[r].email = reqs[r].email
        BY <1>0, <2>3, RevokeMarks
      <3> QED BY <1>1, <3>1, <3>2
    <2> QED BY <1>3, <2>1, <2>2, <2>3, StepCases
  <1> QED BY <1>2, <1>3 DEF SignInNext

LEMMA LinkedInvariant == SignInSpec => []LinkedInv
  <1>1. SignInInit => LinkedInv
    BY SignInAssumption
    DEF SignInInit, LinkedInv, UsersCanSignIn, SessionIsTheIdentitys, NoRequest
  <1> QED BY <1>1, CountInvariant, LinkedStep, PTL DEF SignInSpec

\* UsersCanSignIn: no failure or race after resolveIdentity leaves a user with
\* neither a password nor an identity.
THEOREM UsersAreReachable == SignInSpec => []UsersCanSignIn
  <1>1. LinkedInv => UsersCanSignIn
    BY DEF LinkedInv
  <1> QED BY <1>1, LinkedInvariant, PTL

\* SessionIsTheIdentitys: a callback's token and session are for the user that
\* the account is linked to, in every race of callbacks.
THEOREM SessionsAreTheIdentitys == SignInSpec => []SessionIsTheIdentitys
  <1>1. LinkedInv => SessionIsTheIdentitys
    BY DEF LinkedInv
  <1> QED BY <1>1, LinkedInvariant, PTL

-----------------------------------------------------------------------------
(* Refresh tokens. *)

\* A step that stores and spends nothing keeps the invariant: the request has no
\* other token than before but the stored one, and brings none that it has not
\* brought before; a job that loses a successor that works is what end tells of.
LEMMA TokensKept ==
  ASSUME SignInTypeOK, TokenInv, NEW r \in Req,
         \A q \in Req \ {r} : reqs'[q] = reqs[q],
         UNCHANGED <<row, google>>,
         end' \in {end, "lost"},
         reqs'[r].token \in {0, reqs[r].token, row},
         Bearing(r)' => /\ Bearing(r)
                        /\ reqs'[r].token = reqs[r].token /\ reqs'[r].stale = reqs[r].stale,
         reqs[r].kind = "job" /\ reqs[r].at = "store" /\ reqs[r].token \in google.live
           => end' = "lost" \/ row \in google.live
  PROVE  TokenInv'
  <1>0. /\ row \in Nat /\ google.last \in Nat /\ \A q \in Req : reqs[q].token \in Nat
        /\ google.live \in SUBSET (1..load.tokens)
    BY DefaultTypes DEF SignInTypeOK, Tokens, Request
  <1>1. StoredTokenWorks'
    <2> SUFFICES ASSUME end' \notin {"never", "revoked", "lost", "overwritten"}
                 PROVE  \/ row \in google.live
                        \/ \E q \in Req : /\ reqs'[q].kind = "job" /\ reqs'[q].at = "store"
                                          /\ reqs'[q].token \in google.live
      BY DEF StoredTokenWorks
    <2>1. CASE row \in google.live
      BY <2>1
    <2>2. CASE \E q \in Req : /\ reqs[q].kind = "job" /\ reqs[q].at = "store"
                              /\ reqs[q].token \in google.live
      <3>1. PICK q \in Req : /\ reqs[q].kind = "job" /\ reqs[q].at = "store"
                             /\ reqs[q].token \in google.live
        BY <2>2
      <3>2. q = r => row \in google.live
        BY <3>1
      <3> QED BY <3>1, <3>2
    <2>3. end' = end
      OBVIOUS
    <2> QED BY <2>1, <2>2, <2>3 DEF TokenInv, StoredTokenWorks
  <1>2. row' <= google'.last /\ \A q \in Req : reqs'[q].token <= google'.last
    BY <1>0 DEF TokenInv
  <1>3. ASSUME NEW p \in Req, Bearing(p)'
        PROVE  /\ ~reqs'[p].stale => reqs'[p].token \in google'.live
               /\ google'.rotates =>
                    /\ reqs'[p].token # row'
                    /\ \A q \in Req \ {p} : reqs'[q].token # reqs'[p].token
    <2>1. Bearing(p) /\ reqs'[p].token = reqs[p].token /\ reqs'[p].stale = reqs[p].stale
      BY <1>3 DEF Bearing
    <2>2. /\ ~reqs[p].stale => reqs[p].token \in google.live
          /\ google.rotates =>
               /\ reqs[p].token # row
               /\ \A q \in Req \ {p} : reqs[q].token # reqs[p].token
      BY <2>1 DEF TokenInv
    <2>3. reqs[p].token # 0
      BY <2>1 DEF Bearing
    <2>4. \A q \in Req : reqs'[q].token \in {0, reqs[q].token, row}
      OBVIOUS
    <2> QED BY <2>1, <2>2, <2>3, <2>4
  <1> QED BY <1>1, <1>2, <1>3 DEF TokenInv

\* A consent brings a token that nobody has.
LEMMA ExchangeBrings ==
  ASSUME SignInTypeOK, TokenInv, NEW r \in Req, NEW e \in Email, NEW k \in Tokens,
         Exchange(r, e, k), \A q \in Req \ {r} : reqs'[q] = reqs[q]
  PROVE  TokenInv'
  <1>0. /\ row \in Nat /\ google.last \in Nat /\ \A q \in Req : reqs[q].token \in Nat
        /\ google \in [live: SUBSET (1..load.tokens), last: Tokens, rotates: BOOLEAN]
        /\ reqs \in [Req -> Request] /\ reqs[r] \in Request
    BY DefaultTypes DEF SignInTypeOK, Tokens, Request
  <1>1. /\ reqs[r].at = "exchange" /\ reqs'[r].at = "resolve" /\ reqs'[r].token = k
        /\ row' = row /\ end' = end
    BY <1>0 DEF Exchange, Request
  <1>2. /\ google'.rotates = google.rotates
        /\ \/ k = 0 /\ google'.live = google.live /\ google'.last = google.last
           \/ /\ k = google.last + 1
              /\ google'.live = google.live \cup {k} /\ google'.last = k
    <2>1. CASE k = 0
      BY <2>1 DEF Exchange
    <2>2. CASE k # 0
      <3>1. google' = [google EXCEPT !.live = @ \cup {k}, !.last = k] /\ k = google.last + 1
        BY <2>2 DEF Exchange
      <3> QED BY <1>0, <3>1
    <2> QED BY <2>1, <2>2
  <1>3. /\ google.live \subseteq google'.live /\ google.last <= google'.last
        /\ k <= google'.last /\ google'.last \in Nat
    BY <1>0, <1>2
  <1>4. StoredTokenWorks'
    BY <1>1, <1>3 DEF TokenInv, StoredTokenWorks
  <1>5. row' <= google'.last /\ \A q \in Req : reqs'[q].token <= google'.last
    BY <1>0, <1>1, <1>3 DEF TokenInv
  <1>6. ASSUME NEW p \in Req, Bearing(p)'
        PROVE  /\ ~reqs'[p].stale => reqs'[p].token \in google'.live
               /\ google'.rotates =>
                    /\ reqs'[p].token # row'
                    /\ \A q \in Req \ {p} : reqs'[q].token # reqs'[p].token
    <2>1. row <= google.last /\ \A q \in Req : reqs[q].token <= google.last
      BY DEF TokenInv
    <2>2. CASE p = r
      <3>1. k # 0
        BY <1>1, <1>6, <2>2 DEF Bearing
      <3>2. k = google.last + 1 /\ k \in google'.live
        BY <1>2, <3>1
      <3> QED BY <1>0, <1>1, <2>1, <2>2, <3>2
    <2>3. CASE p # r
      <3>1. Bearing(p) /\ reqs'[p] = reqs[p] /\ reqs[p].token # 0
        BY <1>6, <2>3 DEF Bearing
      <3>2. reqs[p].token # k
        BY <1>0, <1>2, <2>1, <3>1
      <3> QED BY <1>1, <1>2, <1>3, <2>3, <3>1, <3>2 DEF TokenInv
    <2> QED BY <2>2, <2>3
  <1> QED BY <1>4, <1>5, <1>6 DEF TokenInv

\* A refresh spends a token that nobody is about to store, for one that nobody
\* has; the job that spent it is about to store that one.
LEMMA RefreshSpends ==
  ASSUME SignInTypeOK, TokenInv, LinkedInv, NEW r \in Req,
         Refresh(r), \A q \in Req \ {r} : reqs'[q] = reqs[q]
  PROVE  TokenInv'
  <1> DEFINE k == reqs[r].token
             n == Rotated(k)
  <1>0. /\ row \in Nat /\ google.last \in Nat /\ \A q \in Req : reqs[q].token \in Nat
        /\ google \in [live: SUBSET (1..load.tokens), last: Tokens, rotates: BOOLEAN]
        /\ reqs \in [Req -> Request] /\ reqs[r] \in Request
    BY DefaultTypes DEF SignInTypeOK, Tokens, Request
  <1>1. /\ reqs[r].at = "refresh" /\ reqs[r].kind = "job" /\ k \in google.live
        /\ reqs'[r].at = "store" /\ reqs'[r].kind = "job" /\ reqs'[r].token = n
        /\ row' = row /\ end' = end
    BY <1>0 DEF Refresh, Request, Received, LinkedInv
  <1>2. /\ google'.rotates = google.rotates
        /\ google'.live = (google.live \ {k}) \cup {n}
        /\ google'.last = IF google.rotates THEN google.last + 1 ELSE google.last
    BY <1>0 DEF Refresh, Spent
  <1>3. n = IF google.rotates THEN google.last + 1 ELSE k
    BY DEF Rotated
  <1>4. /\ row <= google.last /\ \A q \in Req : reqs[q].token <= google.last
    BY DEF TokenInv
  <1> HIDE DEF n, k
  <1>k. k = reqs[r].token /\ k \in Nat /\ n \in Nat
    BY <1>0, <1>3 DEF k
  <1>5. row' <= google'.last /\ \A q \in Req : reqs'[q].token <= google'.last
    BY <1>0, <1>1, <1>2, <1>3, <1>4, <1>k
  <1>6. StoredTokenWorks'
    BY <1>1, <1>2 DEF StoredTokenWorks
  <1>7. ASSUME NEW p \in Req, Bearing(p)'
        PROVE  /\ ~reqs'[p].stale => reqs'[p].token \in google'.live
               /\ google'.rotates =>
                    /\ reqs'[p].token # row'
                    /\ \A q \in Req \ {p} : reqs'[q].token # reqs'[p].token
    <2>1. CASE p = r
      <3>1. google.rotates => /\ n # row
                              /\ \A q \in Req : reqs[q].token # n
        BY <1>0, <1>3, <1>4
      <3> QED BY <1>1, <1>2, <2>1, <3>1
    <2>2. CASE p # r
      <3>1. Bearing(p) /\ reqs'[p] = reqs[p]
        BY <1>7, <2>2 DEF Bearing
      <3>2. google.rotates => reqs[p].token # k
        BY <1>k, <2>2, <3>1 DEF TokenInv
      <3>3. google.rotates => reqs[p].token # n
        BY <1>0, <1>3, <1>4
      <3>4. ~reqs[p].stale => reqs[p].token \in google.live
        BY <3>1 DEF TokenInv
      <3>5. ~reqs[p].stale => reqs[p].token \in google'.live
        BY <1>2, <1>3, <3>2, <3>4
      <3> QED BY <1>1, <1>2, <2>2, <3>1, <3>3, <3>5 DEF TokenInv
    <2> QED BY <2>1, <2>2
  <1> QED BY <1>5, <1>6, <1>7 DEF TokenInv

\* What is stored works, or end tells why not, and nobody else is about to store it.
LEMMA StoreKeepsTokens ==
  ASSUME SignInTypeOK, TokenInv, NEW r \in Req,
         storeOAuthToken(r), \A q \in Req \ {r} : reqs'[q] = reqs[q]
  PROVE  TokenInv'
  <1>0. /\ row \in Nat /\ google.last \in Nat /\ \A q \in Req : reqs[q].token \in Nat
        /\ google.live \in SUBSET (1..load.tokens) /\ load.tokens \in Nat
        /\ reqs \in [Req -> Request] /\ NoRequest \in Request
        /\ NoRequest.token = 0 /\ NoRequest.at = "idle"
    BY DefaultTypes DEF SignInTypeOK, Tokens, Request, NoRequest
  <1>1. /\ reqs[r].at = "store" /\ google' = google
        /\ reqs'[r].token = 0 /\ reqs'[r].at \in {"issue", "idle"}
    <2>1. CASE GoIssue(r)
      BY <1>0, <2>1 DEF storeOAuthToken, GoIssue, NoRequest
    <2>2. CASE Finish(r)
      BY <1>0, <2>2 DEF storeOAuthToken, Finish
    <2> QED BY <2>1, <2>2 DEF storeOAuthToken
  <1>2. CASE reqs[r].token = 0
    <2>1. row' = row /\ end' = end
      BY <1>2 DEF storeOAuthToken, UpsertOAuthToken
    <2>2. ~Bearing(r)'
      BY <1>1 DEF Bearing
    <2>3. 0 \notin google.live
      BY <1>0
    <2>4. StoredTokenWorks'
      <3>1. StoredTokenWorks
        BY DEF TokenInv
      <3>2. ASSUME NEW q \in Req, reqs[q].kind = "job", reqs[q].at = "store",
                   reqs[q].token \in google.live
            PROVE  reqs'[q] = reqs[q]
        BY <1>2, <2>3, <3>2
      <3> QED BY <1>1, <2>1, <3>1, <3>2 DEF StoredTokenWorks
    <2>5. row' <= google'.last /\ \A q \in Req : reqs'[q].token <= google'.last
      BY <1>0, <1>1, <2>1 DEF TokenInv
    <2>6. ASSUME NEW p \in Req, Bearing(p)'
          PROVE  /\ ~reqs'[p].stale => reqs'[p].token \in google'.live
                 /\ google'.rotates =>
                      /\ reqs'[p].token # row'
                      /\ \A q \in Req \ {p} : reqs'[q].token # reqs'[p].token
      <3>1. Bearing(p) /\ p # r /\ reqs'[p] = reqs[p] /\ reqs[p].token # 0
        BY <2>2, <2>6 DEF Bearing
      <3> QED BY <1>1, <2>1, <3>1 DEF TokenInv
    <2> QED BY <2>4, <2>5, <2>6 DEF TokenInv
  <1>3. CASE reqs[r].token # 0
    <2>1. /\ row' = reqs[r].token
          /\ reqs[r].stale =>
               end' = IF row \in google.live THEN "overwritten" ELSE end
      <3>1. CASE reqs[r].stale
        BY <1>3, <3>1 DEF storeOAuthToken, UpsertOAuthToken
      <3>2. CASE ~reqs[r].stale
        BY <1>3, <3>2 DEF storeOAuthToken, UpsertOAuthToken
      <3> QED BY <3>1, <3>2
    <2>2. Bearing(r) /\ ~Bearing(r)'
      BY <1>1, <1>3 DEF Bearing
    <2>3. StoredTokenWorks'
      <3>1. CASE ~reqs[r].stale
        BY <1>1, <2>1, <2>2, <3>1 DEF TokenInv, StoredTokenWorks
      <3>2. CASE row \in google.live /\ end' = "overwritten"
        BY <3>2 DEF StoredTokenWorks
      <3>3. CASE row \notin google.live /\ end' = end
        <4>1. CASE end \in {"never", "revoked", "lost", "overwritten"}
          BY <3>3, <4>1 DEF StoredTokenWorks
        <4>2. CASE end \notin {"never", "revoked", "lost", "overwritten"}
          <5>1. PICK q \in Req : /\ reqs[q].kind = "job" /\ reqs[q].at = "store"
                                 /\ reqs[q].token \in google.live
            BY <3>3, <4>2 DEF TokenInv, StoredTokenWorks
          <5>2. CASE q = r
            BY <1>1, <2>1, <5>1, <5>2 DEF StoredTokenWorks
          <5>3. CASE q # r
            BY <1>1, <5>1, <5>3 DEF StoredTokenWorks
          <5> QED BY <5>2, <5>3
        <4> QED BY <4>1, <4>2
      <3> QED BY <2>1, <3>1, <3>2, <3>3
    <2>4. row' <= google'.last /\ \A q \in Req : reqs'[q].token <= google'.last
      BY <1>0, <1>1, <2>1 DEF TokenInv
    <2>5. ASSUME NEW p \in Req, Bearing(p)'
          PROVE  /\ ~reqs'[p].stale => reqs'[p].token \in google'.live
                 /\ google'.rotates =>
                      /\ reqs'[p].token # row'
                      /\ \A q \in Req \ {p} : reqs'[q].token # reqs'[p].token
      <3>1. Bearing(p) /\ p # r /\ reqs'[p] = reqs[p] /\ reqs[p].token # 0
        BY <2>2, <2>5 DEF Bearing
      <3> QED BY <1>1, <2>1, <3>1 DEF TokenInv
    <2> QED BY <2>3, <2>4, <2>5 DEF TokenInv
  <1> QED BY <1>2, <1>3

\* No step of a request breaks the invariant of the tokens.
LEMMA StepTokens ==
  ASSUME SignInTypeOK, LinkedInv, TokenInv, NEW r \in Req, StepOf(r), Counts(r)
  PROVE  TokenInv'
  <1>0. /\ reqs \in [Req -> Request] /\ reqs[r] \in Request
        /\ NoRequest \in Request /\ NoRequest.at = "idle" /\ NoRequest.token = 0
        /\ \A q \in Req \ {r} : reqs'[q] = reqs[q]
    BY DefaultTypes DEF SignInTypeOK, Counts, NoRequest
  <1>1. ASSUME UNCHANGED <<row, google, end>>, reqs[r].at # "store",
               reqs'[r].token \in {0, reqs[r].token, row},
               Bearing(r)' => /\ Bearing(r) /\ reqs'[r].token = reqs[r].token
                              /\ reqs'[r].stale = reqs[r].stale
        PROVE  TokenInv'
    BY <1>0, <1>1, TokensKept
  <1>2. ASSUME Finish(r) PROVE reqs'[r].token = 0 /\ ~Bearing(r)'
    BY <1>0, <1>2 DEF Finish, Bearing
  <1>3. ASSUME NEW at \in {"burning", "slot", "hashing", "create", "insert"}, Go(r, at)
        PROVE  /\ reqs'[r].at = at
               /\ reqs'[r].token = reqs[r].token /\ reqs'[r].stale = reqs[r].stale
    BY <1>0, <1>3 DEF Go, Request
  <1>4. ASSUME NEW e \in Email, GoStore(r, e)
        PROVE  /\ reqs'[r].at = "store"
               /\ reqs'[r].token = reqs[r].token /\ reqs'[r].stale = reqs[r].stale
    BY <1>0, <1>4 DEF GoStore, Request
  <1>5. ASSUME NEW e \in Email, Signup(r, e) \/ Login(r, e)
        PROVE  TokenInv'
    <2>1. /\ UNCHANGED <<row, google, end>> /\ reqs[r].at = "idle"
          /\ reqs'[r].at \in {"slot", "dummy"} /\ reqs'[r].token = 0
      <3>1. CASE Signup(r, e)
        BY <1>0, <3>1 DEF Signup, Comes, NoRequest
      <3>2. CASE Login(r, e)
        BY <1>0, <3>2 DEF Login, Comes, NoRequest
      <3> QED BY <1>5, <3>1, <3>2
    <2> QED BY <1>1, <2>1 DEF Bearing
  <1>6. ASSUME NEW f \in Flow, NEW b \in Browser, Callback(r, f, b)
        PROVE  TokenInv'
    <2>1. /\ UNCHANGED <<row, google, end>> /\ reqs[r].at = "idle"
          /\ reqs'[r].at = "exchange" /\ reqs'[r].token = 0
      BY <1>0, <1>6 DEF Callback, Comes, NoRequest
    <2> QED BY <1>1, <2>1 DEF Bearing
  <1>7. ASSUME NEW e \in Email, NEW k \in Tokens, Exchange(r, e, k)
        PROVE  TokenInv'
    BY <1>0, <1>7, ExchangeBrings
  <1>8. ASSUME GetGoogleToken(r)
        PROVE  TokenInv'
    <2>1. /\ UNCHANGED <<row, google, end>> /\ reqs[r].at = "idle"
          /\ reqs'[r].at = "refresh" /\ reqs'[r].token = row
      BY <1>0, <1>8 DEF GetGoogleToken, Comes, NoRequest
    <2> QED BY <1>1, <2>1 DEF Bearing
  <1>9. ASSUME Refresh(r)
        PROVE  TokenInv'
    BY <1>0, <1>9, RefreshSpends
  <1>10. ASSUME dummyHash(r) \/ dummyHashed(r) \/ acquire(r) \/ SignupHashed(r)
         PROVE  TokenInv'
    <2>1. /\ UNCHANGED <<row, google, end>>
          /\ reqs[r].at \in {"dummy", "burning", "slot", "hashing"}
          /\ Go(r, "burning") \/ Go(r, "slot") \/ Go(r, "hashing") \/ Go(r, "create")
      BY <1>10 DEF dummyHash, dummyHashed, acquire, SignupHashed
    <2>2. /\ reqs'[r].at \in {"burning", "slot", "hashing", "create"}
          /\ reqs'[r].token = reqs[r].token
      BY <1>3, <2>1
    <2> QED BY <1>1, <2>1, <2>2 DEF Bearing
  <1>11. ASSUME CreateUser(r)
         PROVE  TokenInv'
    BY <1>1, <1>2, <1>11 DEF CreateUser
  <1>12. ASSUME LoginVerified(r)
         PROVE  TokenInv'
    <2>1. /\ UNCHANGED <<row, google, end>> /\ reqs[r].at = "hashing"
          /\ GoIssue(r) \/ Finish(r)
      BY <1>12 DEF LoginVerified
    <2>2. CASE GoIssue(r)
      <3>1. reqs'[r].at = "issue" /\ reqs'[r].token = 0
        BY <1>0, <2>2 DEF GoIssue, NoRequest
      <3> QED BY <1>1, <2>1, <3>1 DEF Bearing
    <2> QED BY <1>1, <1>2, <2>1, <2>2
  <1>13. ASSUME resolveIdentity(r)
         PROVE  TokenInv'
    <2>0. UNCHANGED <<row, google, end>> /\ reqs[r].at = "resolve"
      BY <1>13 DEF resolveIdentity
    <2>1. reqs'[r].token = reqs[r].token /\ reqs'[r].stale = reqs[r].stale
      <3>1. CASE identity # NoUser /\ GoStore(r, identity)
        <4>1. identity \in Email
          BY <3>1 DEF SignInTypeOK
        <4> QED BY <1>4, <3>1, <4>1
      <3>2. CASE reqs' = [reqs EXCEPT ![r].at = "link", ![r].known = users[reqs[r].email]]
        BY <1>0, <3>2 DEF Request
      <3> QED BY <1>13, <3>1, <3>2 DEF resolveIdentity
    <2> QED BY <1>1, <2>0, <2>1 DEF Bearing
  <1>14. ASSUME LinkUser(r) \/ InsertIdentity(r)
         PROVE  TokenInv'
    <2>0. UNCHANGED <<row, google, end>> /\ reqs[r].at \in {"link", "insert"}
      BY <1>14 DEF LinkUser, InsertIdentity
    <2>1. Go(r, "insert") \/ GoStore(r, reqs[r].email) \/ Finish(r)
      BY <1>14 DEF LinkUser, InsertIdentity, AbortTx
    <2>2. reqs[r].email \in Email
      BY <1>0 DEF Request
    <2>3. CASE Finish(r)
      BY <1>1, <1>2, <2>0, <2>3
    <2>4. CASE Go(r, "insert") \/ GoStore(r, reqs[r].email)
      <3>1. reqs'[r].token = reqs[r].token /\ reqs'[r].stale = reqs[r].stale
        BY <1>3, <1>4, <2>2, <2>4
      <3> QED BY <1>1, <2>0, <3>1 DEF Bearing
    <2> QED BY <2>1, <2>3, <2>4
  <1>15. ASSUME storeOAuthToken(r)
         PROVE  TokenInv'
    BY <1>0, <1>15, StoreKeepsTokens
  <1>16. ASSUME Issue(r)
         PROVE  TokenInv'
    BY <1>1, <1>2, <1>16 DEF Issue
  <1>17. ASSUME Fail(r)
         PROVE  TokenInv'
    <2>1. /\ UNCHANGED <<row, google>> /\ end' \in {end, "lost"}
          /\ reqs[r].kind = "job" /\ reqs[r].at = "store" /\ reqs[r].token \in google.live
               => end' = "lost" \/ row \in google.live
      BY <1>17 DEF Fail
    <2> QED BY <1>0, <1>2, <1>17, <2>1, TokensKept DEF Fail
  <1> QED
    BY <1>5, <1>6, <1>7, <1>8, <1>9, <1>10, <1>11, <1>12, <1>13, <1>14, <1>15, <1>16,
       <1>17
    DEF StepOf, Progress

LEMMA TokenStep == CountInv /\ LinkedInv /\ TokenInv /\ [SignInNext]_vars => TokenInv'
  <1> SUFFICES ASSUME CountInv, LinkedInv, TokenInv, [SignInNext]_vars PROVE TokenInv'
    OBVIOUS
  <1>0. SignInTypeOK /\ SlotsAreCounted /\ OneDummy /\ ConnectionsAreCounted
    BY DEF CountInv
  <1>1. ASSUME UNCHANGED <<row, google, end, reqs>>
        PROVE  TokenInv'
    BY <1>1 DEF TokenInv, StoredTokenWorks, Bearing
  <1>2. CASE Step
    <2>1. ASSUME NEW r \in Req, StepOf(r)
          PROVE  TokenInv'
      BY <1>0, <2>1, StepCounts, StepTokens
    <2>2. ASSUME NEW f \in Flow, NEW b \in Browser, Start(f, b)
          PROVE  TokenInv'
      BY <1>1, <2>2 DEF Start
    <2>3. ASSUME Revoke
          PROVE  TokenInv'
      <3>1. /\ google'.last = google.last /\ google'.rotates = google.rotates
            /\ end' = "revoked" /\ row' = row
        BY <1>0, <2>3 DEF Revoke, SignInTypeOK
      <3>2. \A r \in Req : /\ reqs'[r].at = reqs[r].at
                           /\ reqs'[r].token = reqs[r].token
                           /\ reqs'[r].stale = (reqs[r].token # 0)
        BY <1>0, <2>3, RevokeMarks
      <3>3. StoredTokenWorks'
        BY <3>1 DEF StoredTokenWorks
      <3>4. row' <= google'.last /\ \A r \in Req : reqs'[r].token <= google'.last
        BY <3>1, <3>2 DEF TokenInv
      <3>5. ASSUME NEW p \in Req, Bearing(p)'
            PROVE  /\ reqs'[p].stale
                   /\ google'.rotates =>
                        /\ reqs'[p].token # row'
                        /\ \A q \in Req \ {p} : reqs'[q].token # reqs'[p].token
        <4>1. Bearing(p)
          BY <3>2, <3>5 DEF Bearing
        <4>2. reqs[p].token # 0
          BY <4>1 DEF Bearing
        <4>3. reqs'[p].stale
          BY <3>2, <4>2
        <4>4. google.rotates => /\ reqs[p].token # row
                                /\ \A q \in Req \ {p} : reqs[q].token # reqs[p].token
          BY <4>1 DEF TokenInv
        <4> QED BY <3>1, <3>2, <4>3, <4>4
      <3> QED BY <3>3, <3>4, <3>5 DEF TokenInv
    <2> QED BY <1>2, <2>1, <2>2, <2>3, StepCases
  <1> QED BY <1>1, <1>2 DEF SignInNext, vars

LEMMA TokenInvariant == SignInSpec => []TokenInv
  <1>1. SignInInit => TokenInv
    BY DEF SignInInit, TokenInv, StoredTokenWorks, Bearing, NoRequest
  <1> QED BY <1>1, CountInvariant, LinkedInvariant, TokenStep, PTL DEF SignInSpec

\* StoredTokenWorks: however refreshes, consents and failures interleave, and
\* whether or not Google rotates tokens, the stored refresh token works, or its
\* successor is about to be stored, unless one of the three things has ended it: a
\* revocation, a failure that lost the successor, or the overwrite by a token
\* revoked before the stored one was issued, which LiveTokenStays shows to happen.
THEOREM StoredTokensWork == SignInSpec => []StoredTokenWorks
  <1>1. TokenInv => StoredTokenWorks
    BY DEF TokenInv
  <1> QED BY <1>1, TokenInvariant, PTL
=============================================================================
