------------------------------- MODULE MCSignIn -------------------------------
(* Requests that meet in the pool and the limiter, in users and identities,  *)
(* and in oauth_tokens.                                                      *)
EXTENDS SignIn

MCLoads == {[kinds |-> {"signup", "login", "callback"}, conns |-> 1, tokens |-> 0],
            [kinds |-> {"signup", "login"},             conns |-> 2, tokens |-> 0],
            [kinds |-> {"signup", "callback"},          conns |-> 2, tokens |-> 0],
            [kinds |-> {"callback", "job"},             conns |-> 2, tokens |-> 3]}

\* ... in oauth_tokens only.
MCTokenLoads == {[kinds |-> {"callback", "job"}, conns |-> 2, tokens |-> 3]}
=============================================================================
