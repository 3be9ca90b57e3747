----------------------------- MODULE AuthTokens -----------------------------
(***************************************************************************)
(* The tokens of the auth service (cmd/auth).  A login makes a token,      *)
(* caches whose it is and only then answers; nothing expires or removes an *)
(* entry.  A verification asks the cache; when that misses, half the time  *)
(* it makes a user up, caches it under the token and calls the token       *)
(* valid, otherwise it calls it invalid and forgets about it.              *)
(*                                                                         *)
(* Rejections that come before the cache is touched (simulated errors, bad *)
(* bodies, wrong passwords, clock skew) change nothing and are left out;   *)
(* verifyCredentials accepts whoever is not in its table.                  *)
(***************************************************************************)
EXTENDS Naturals

CONSTANTS
    Tokens,     \* tokens generateToken yields, and others clients send
    Usernames,  \* users who log in
    Strangers,  \* users a verification makes up
    Verifiers   \* verifications in progress

VARIABLES
    login,      \* where the login that made each token stands
    owner,      \* the user each token was made for, NoUser before
    tokens,     \* cache.store
    verifier,   \* verifications
    stampeded   \* history: cached tokens that some verification missed

vars == <<login, owner, tokens, verifier, stampeded>>

-----------------------------------------------------------------------------
NoUser == "nobody"
NoToken == "none"

Resting == [at |-> "rest", token |-> NoToken, valid |-> FALSE, user |-> NoUser]

Init ==
    /\ login = [t \in Tokens |-> "none"]
    /\ owner = [t \in Tokens |-> NoUser]
    /\ tokens = [t \in Tokens |-> NoUser]
    /\ verifier = [v \in Verifiers |-> Resting]
    /\ stampeded = {}

-----------------------------------------------------------------------------
(* handleLogin, up to generateToken.  A token is new to everybody.         *)
GenerateToken(t, user) ==
    /\ login[t] = "none" /\ tokens[t] = NoUser
    /\ \A v \in Verifiers : verifier[v].token # t
    /\ login' = [login EXCEPT ![t] = "cache"]
    /\ owner' = [owner EXCEPT ![t] = user]
    /\ UNCHANGED <<tokens, verifier, stampeded>>

MutCacheToken(t) ==
    /\ login[t] \in {"cache", "answered"} /\ tokens[t] = NoUser
    /\ login' = [login EXCEPT ![t] = "answered"]
    /\ tokens' = IF login[t] = "cache" THEN tokens ELSE [tokens EXCEPT ![t] = owner[t]]
    /\ UNCHANGED <<owner, verifier, stampeded>>

CacheToken(t) ==
    /\ login[t] = "cache"
    /\ tokens' = [tokens EXCEPT ![t] = owner[t]]
    /\ login' = [login EXCEPT ![t] = "reply"]
    /\ UNCHANGED <<owner, verifier, stampeded>>

AnswerLogin(t) ==
    /\ login[t] = "reply"
    /\ login' = [login EXCEPT ![t] = "answered"]
    /\ UNCHANGED <<owner, tokens, verifier, stampeded>>

-----------------------------------------------------------------------------
Answers(v, valid, user) == verifier' = [verifier EXCEPT ![v].at = "answered", ![v].valid = valid, ![v].user = user]

(* handleVerify, for a token its login has answered or one nobody issued.  *)
Verify(v, t) ==
    /\ verifier[v].at = "rest"
    /\ login[t] \in {"none", "answered"}
    /\ verifier' = [verifier EXCEPT ![v] = [Resting EXCEPT !.at = "lookup", !.token = t]]
    /\ UNCHANGED <<login, owner, tokens, stampeded>>

Hit(v) ==
    LET t == verifier[v].token
    IN  /\ verifier[v].at = "lookup"
        /\ tokens[t] # NoUser
        /\ Answers(v, TRUE, tokens[t])
        /\ UNCHANGED <<login, owner, tokens, stampeded>>

(* The token is absent, or a stampede hides it.                            *)
Miss(v) ==
    LET t == verifier[v].token
    IN  /\ verifier[v].at = "lookup"
        /\ verifier' = [verifier EXCEPT ![v].at = "fallback"]
        /\ stampeded' = stampeded \cup {u \in {t} : tokens[u] # NoUser}
        /\ UNCHANGED <<login, owner, tokens>>

Fallback(v, user) ==
    LET t == verifier[v].token
    IN  /\ verifier[v].at = "fallback"
        /\ IF user = NoUser THEN UNCHANGED tokens
           ELSE tokens' = [tokens EXCEPT ![t] = user]
        /\ Answers(v, user # NoUser, user)
        /\ UNCHANGED <<login, owner, stampeded>>

Rest(v) ==
    /\ verifier[v].at = "answered"
    /\ verifier' = [verifier EXCEPT ![v] = Resting]
    /\ UNCHANGED <<login, owner, tokens, stampeded>>

Next ==
    \/ \E t \in Tokens :
          CacheToken(t) \/ AnswerLogin(t) \/ \E user \in Usernames : GenerateToken(t, user)
    \/ \E v \in Verifiers :
          \/ Hit(v) \/ Miss(v) \/ Rest(v)
          \/ \E t \in Tokens : Verify(v, t)
          \/ \E user \in Strangers \cup {NoUser} : Fallback(v, user)

Spec == Init /\ [][Next]_vars

-----------------------------------------------------------------------------
(* A token belongs to who logged in.  It is found invalid, or somebody     *)
(* else's, only after a verification missed it although it was cached: a   *)
(* fault of the cache for one read, that the fallback may write down for   *)
(* good.                                                                   *)
TokenKeepsUser ==
    /\ \A t \in Tokens : login[t] \in {"reply", "answered"} =>
          tokens[t] = owner[t] \/ (t \in stampeded /\ tokens[t] \in Strangers)
    /\ \A v \in Verifiers :
          LET t == verifier[v].token
          IN  verifier[v].at = "answered" /\ login[t] = "answered" =>
                 (verifier[v].valid /\ verifier[v].user = owner[t]) \/ t \in stampeded
=============================================================================
