-------------------------------- MODULE Auth --------------------------------
(***************************************************************************)
(* Registration, login, refresh and logout (auth.service.ts,               *)
(* auth.controller.ts) over the table of users (users.service.ts,          *)
(* user.entity.ts).                                                        *)
(*                                                                         *)
(* Every query of the database is awaited, so a request is a record that   *)
(* moves from one query to the next, and the requests of all browsers      *)
(* interleave between queries.  A query that fails is answered 500.        *)
(* Requests that are refused or fail change nothing at the browser, so     *)
(* they simply end.  bcrypt, the signature of a token and its SHA-256 are  *)
(* abstracted: a token is a value, its owner is its "sub" claim, the hash  *)
(* in the table identifies it.  Whoever reads the row of a login compares  *)
(* the password later, but no row loses its password, so both are one step.*)
(***************************************************************************)
EXTENDS Naturals, FiniteSets

CONSTANTS
    Browsers,   \* who keeps one "rt" cookie
    Requests,   \* slots for requests under way (bound)
    Accounts,   \* ids of rows of the table of users
    Forms,      \* [username, email, password]: what people type in
    Tokens,     \* refresh tokens, made unique by jti (bound)
    None

ASSUME AuthAssumption ==
    /\ None \notin Browsers \union Accounts \union Forms \union Tokens
    /\ IsFiniteSet(Requests) /\ IsFiniteSet(Tokens)

VARIABLES
    accounts,   \* table of users: id -> what was registered
    stored,     \* column refresh_token_hash
    owner,      \* sub of a token that was signed
    expired,    \* tokens older than REFRESH_TTL
    cookies,    \* cookie rt of a browser
    requests,   \* requests under way
    holders,    \* history: browsers a token of the account was made for
    disturbed   \* history: browsers that met one of the cases named below

table == <<accounts, stored, owner>>
clients == <<expired, cookies>>
history == <<holders, disturbed>>
vars == <<table, clients, requests, history>>

-----------------------------------------------------------------------------
Queries == {"findByUsername", "findByEmail", "create", "login", "findById",
            "setRefreshTokenHash", "clearRefreshTokenHash"}
Stages == Queries \union {"idle", "answer"}

\* token: the cookie that came with the request; granted: the cookie of the
\* answer, None for the cleared one; live: history, whether the token was the
\* current one when the request arrived.
RequestRecord ==
    [stage: Stages, browser: Browsers \union {None}, form: Forms \union {None},
     token: Tokens \union {None}, account: Accounts \union {None},
     granted: Tokens \union {None}, live: BOOLEAN]

Idle == [stage |-> "idle", browser |-> None, form |-> None, token |-> None,
         account |-> None, granted |-> None, live |-> FALSE]

Registered == {a \in Accounts : accounts[a] # None}
UsernameTaken(f) == \E a \in Registered : accounts[a].username = f.username
EmailTaken(f) == \E a \in Registered : accounts[a].email = f.email

Issued == {t \in Tokens : owner[t] # None}
Verified(t) == t # None /\ t \notin expired     \* refreshJwt.verifyAsync

Busy(b) == \E r \in Requests : requests[r].browser = b

\* Bound: a request that may need a fresh token begins only if one is left for
\* it and for everything under way.
TokenLeft ==
    Cardinality(Tokens \ Issued)
        > Cardinality({r \in Requests : requests[r].stage # "idle"})

Init ==
    /\ accounts = [a \in Accounts |-> None]
    /\ stored = [a \in Accounts |-> None]
    /\ owner = [t \in Tokens |-> None]
    /\ expired = {}
    /\ cookies = [b \in Browsers |-> None]
    /\ requests = [r \in Requests |-> Idle]
    /\ holders = [a \in Accounts |-> {}]
    /\ disturbed = {}

-----------------------------------------------------------------------------
(* A request arrives.                                                      *)

\* A second request of one browser while the first is under way: their queries
\* and answers may come in any order.
Begin(r, b, request) ==
    /\ requests[r].stage = "idle"
    /\ requests' = [requests EXCEPT ![r] = request]
    /\ disturbed' = IF Busy(b) THEN disturbed \union {b} ELSE disturbed
    /\ UNCHANGED <<table, clients, holders>>

Register(r, b, f) ==
    /\ TokenLeft
    /\ Begin(r, b, [Idle EXCEPT !.stage = "findByUsername", !.browser = b, !.form = f])

Login(r, b, f) ==
    /\ TokenLeft
    /\ Begin(r, b, [Idle EXCEPT !.stage = "login", !.browser = b, !.form = f])

\* Without a cookie, or with an expired one, the answer is 401 at once.
Refresh(r, b) ==
    LET t == cookies[b] IN
    /\ TokenLeft
    /\ Verified(t)
    /\ Begin(r, b, [Idle EXCEPT !.stage = "findById", !.browser = b, !.token = t,
                        !.account = owner[t], !.live = (stored[owner[t]] = t)])

\* Without a cookie, or with an expired one, nothing is written, and the answer
\* clears the cookie all the same.
Logout(r, b) ==
    LET t == cookies[b] IN
    \/ /\ Verified(t)
       /\ Begin(r, b, [Idle EXCEPT !.stage = "clearRefreshTokenHash", !.browser = b,
                           !.token = t, !.account = owner[t]])
    \/ /\ ~Verified(t)
       /\ Begin(r, b, [Idle EXCEPT !.stage = "answer", !.browser = b])

-----------------------------------------------------------------------------
(* One query of the database, and what the code does until the next.       *)

Proceed(r, stage) == requests' = [requests EXCEPT ![r].stage = stage]
\* A refused request is never let go.
RefuseAndKeep(r) == Proceed(r, "refused")                        \* Mutant
Refuse(r) == requests' = [requests EXCEPT ![r] = Idle]

FindByUsername(r) ==
    /\ requests[r].stage = "findByUsername"
    /\ \/ UsernameTaken(requests[r].form) /\ Refuse(r)
       \/ ~UsernameTaken(requests[r].form) /\ Proceed(r, "findByEmail")
    /\ UNCHANGED <<table, clients, history>>

FindByEmail(r) ==
    /\ requests[r].stage = "findByEmail"
    /\ \/ EmailTaken(requests[r].form) /\ Refuse(r)
       \/ ~EmailTaken(requests[r].form) /\ Proceed(r, "create")
    /\ UNCHANGED <<table, clients, history>>

\* The code trusts the lookups and the table has no index.
CreateUserUnchecked(r) ==                                        \* Mutant
    /\ requests[r].stage = "create"
    /\ \E a \in Accounts \ Registered :
         /\ accounts' = [accounts EXCEPT ![a] = requests[r].form]
         /\ requests' = [requests EXCEPT ![r].stage = "setRefreshTokenHash",
                                         ![r].account = a]
    /\ UNCHANGED <<stored, owner, clients, history>>

\* Both columns have a unique index, so that the insert of a row that was not
\* there when it was looked for can still fail.
CreateUser(r) ==
    LET f == requests[r].form IN
    /\ requests[r].stage = "create"
    /\ \/ /\ UsernameTaken(f) \/ EmailTaken(f)
          /\ Refuse(r)
          /\ UNCHANGED accounts
       \/ /\ ~UsernameTaken(f) /\ ~EmailTaken(f)
          /\ \E a \in Accounts \ Registered :
               /\ accounts' = [accounts EXCEPT ![a] = f]
               /\ requests' = [requests EXCEPT ![r].stage = "setRefreshTokenHash",
                                               ![r].account = a]
    /\ UNCHANGED <<stored, owner, clients, history>>

CheckPassword(r) ==
    LET f == requests[r].form
        Match == {a \in Registered : /\ accounts[a].username = f.username
                                     /\ accounts[a].password = f.password}
    IN
    /\ requests[r].stage = "login"
    /\ \/ Match = {} /\ Refuse(r)
       \/ \E a \in Match :
            requests' = [requests EXCEPT ![r].stage = "setRefreshTokenHash",
                                         ![r].account = a]
    /\ UNCHANGED <<table, clients, history>>

\* The presented token is revoked when it is read, before its successor is kept.
CompareAndRevoke(r) ==                                           \* Mutant
    LET a == requests[r].account IN
    /\ requests[r].stage = "findById"
    /\ \/ /\ stored[a] # requests[r].token
          /\ Refuse(r)
          /\ UNCHANGED stored
       \/ /\ stored[a] = requests[r].token
          /\ Proceed(r, "setRefreshTokenHash")
          /\ stored' = [stored EXCEPT ![a] = None]
    /\ UNCHANGED <<accounts, owner, clients, history>>

\* Any token that verifies is exchanged.
CompareNothing(r) ==                                             \* Mutant
    /\ requests[r].stage = "findById"
    /\ Proceed(r, "setRefreshTokenHash")
    /\ UNCHANGED <<table, clients, history>>

CompareToken(r) ==
    LET current == stored[requests[r].account] = requests[r].token IN
    /\ requests[r].stage = "findById"
    /\ \/ ~current /\ Refuse(r)
       \/ current /\ Proceed(r, "setRefreshTokenHash")
    /\ UNCHANGED <<table, clients, history>>

\* The row is written only when it holds no token yet.
IssueTokensKeepingFirst(r) ==                                    \* Mutant
    LET a == requests[r].account IN
    /\ requests[r].stage = "setRefreshTokenHash"
    /\ \E t \in Tokens \ Issued :
         /\ owner' = [owner EXCEPT ![t] = a]
         /\ stored' = [stored EXCEPT ![a] = IF @ = None THEN t ELSE @]
         /\ requests' = [requests EXCEPT ![r].stage = "answer", ![r].granted = t]
    /\ holders' = [holders EXCEPT ![a] = @ \union {requests[r].browser}]
    /\ UNCHANGED <<accounts, clients, disturbed>>

IssueTokens(r) ==
    LET a == requests[r].account IN
    /\ requests[r].stage = "setRefreshTokenHash"
    /\ \E t \in Tokens \ Issued :
         /\ owner' = [owner EXCEPT ![t] = a]
         /\ stored' = [stored EXCEPT ![a] = t]
         /\ requests' = [requests EXCEPT ![r].stage = "answer", ![r].granted = t]
    /\ holders' = [holders EXCEPT ![a] = @ \union {requests[r].browser}]
    /\ UNCHANGED <<accounts, clients, disturbed>>

\* The cookie is cleared at the browser only.
ForgetCookieOnly(r) ==                                           \* Mutant
    /\ requests[r].stage = "clearRefreshTokenHash"
    /\ Proceed(r, "answer")
    /\ UNCHANGED <<table, clients, history>>

\* Logout writes null whatever the row holds.
ClearToken(r) ==
    /\ requests[r].stage = "clearRefreshTokenHash"
    /\ stored' = [stored EXCEPT ![requests[r].account] = None]
    /\ Proceed(r, "answer")
    /\ UNCHANGED <<accounts, owner, clients, history>>

\* A query fails: 500, nothing else.  In a logout the error is swallowed
\* ("Token already invalid") and the logout is answered as if it had worked.
\* A write that was applied but is reported as failed needs no action of its
\* own: for the row of a new user it is CreateUser and then QueryFails, for a
\* token IssueTokens and then AnswerLost (its browser counts as disturbed),
\* and in a logout, where nobody sees the error, ClearToken.
QueryFails(r) ==
    /\ requests[r].stage \in Queries
    /\ \/ /\ requests[r].stage # "clearRefreshTokenHash"
          /\ Refuse(r)
          /\ UNCHANGED disturbed
       \/ /\ requests[r].stage = "clearRefreshTokenHash"
          /\ Proceed(r, "answer")
          /\ disturbed' = disturbed \union {requests[r].browser}
    /\ UNCHANGED <<table, clients, holders>>

-----------------------------------------------------------------------------
(* Answers, time, crashes.                                                 *)

Answer(r) ==
    /\ requests[r].stage = "answer"
    /\ cookies' = [cookies EXCEPT ![requests[r].browser] = requests[r].granted]
    /\ Refuse(r)
    /\ UNCHANGED <<table, expired, history>>

AnswerLost(r) ==
    /\ requests[r].stage = "answer"
    /\ Refuse(r)
    /\ disturbed' = disturbed \union {requests[r].browser}
    /\ UNCHANGED <<table, clients, holders>>

\* The process dies: the table stays, every request under way is forgotten.
Crash ==
    /\ \E r \in Requests : requests[r].stage # "idle"
    /\ requests' = [r \in Requests |-> Idle]
    /\ disturbed' = disturbed \union {b \in Browsers : Busy(b)}
    /\ UNCHANGED <<table, clients, holders>>

TokenExpires(t) ==
    /\ t \in Issued \ expired
    /\ expired' = expired \union {t}
    /\ UNCHANGED <<table, cookies, requests, history>>

\* Max-Age is REFRESH_TTL counted from the answer, so a cookie goes after its
\* token has expired.
CookieExpires(b) ==
    /\ cookies[b] \in expired
    /\ cookies' = [cookies EXCEPT ![b] = None]
    /\ UNCHANGED <<table, expired, requests, history>>

Query(r) ==
    \/ FindByUsername(r) \/ FindByEmail(r) \/ CreateUser(r)
    \/ CheckPassword(r) \/ CompareToken(r) \/ IssueTokens(r) \/ ClearToken(r)

Arrival(r, b) ==
    \/ \E f \in Forms : Register(r, b, f) \/ Login(r, b, f)
    \/ Refresh(r, b) \/ Logout(r, b)

Next ==
    \/ \E r \in Requests, b \in Browsers : Arrival(r, b)
    \/ \E r \in Requests : Query(r) \/ QueryFails(r) \/ Answer(r) \/ AnswerLost(r)
    \/ Crash
    \/ \E t \in Tokens : TokenExpires(t)
    \/ \E b \in Browsers : CookieExpires(b)

Spec == Init /\ [][Next]_vars
-----------------------------------------------------------------------------
(* Properties.                                                             *)

AuthTypeOK ==
    /\ accounts \in [Accounts -> Forms \union {None}]
    /\ stored \in [Accounts -> Tokens \union {None}]
    /\ owner \in [Tokens -> Accounts \union {None}]
    /\ expired \subseteq Tokens
    /\ cookies \in [Browsers -> Tokens \union {None}]
    /\ requests \in [Requests -> RequestRecord]
    /\ holders \in [Accounts -> SUBSET Browsers]
    /\ disturbed \subseteq Browsers

\* No two users share a username or an email, whatever two registrations that
\* looked the name up at the same time do (auth.service.ts:43-58,
\* user.entity.ts:15,22).
UniqueAccounts ==
    \A a, b \in Registered :
        \/ accounts[a].username = accounts[b].username
        \/ accounts[a].email = accounts[b].email
        => a = b

\* A token that was no longer the current one of its account when it arrived
\* never buys a new one: rotation and logout are final, although the check and
\* the write are two queries and other requests write between them
\* (auth.service.ts:94-100).
ReplayRefused ==
    \A r \in Requests :
        requests[r].stage = "setRefreshTokenHash" /\ requests[r].token # None
            => requests[r].live

\* A browser whose requests came one after the other, whose answers all arrived
\* and whose account no other browser used is not locked out by anything else:
\* when nothing is under way its cookie is the token of the table, also after
\* queries that failed half way (auth.service.ts:117-139).
Alone(b, a) == b \in Browsers \ disturbed /\ holders[a] \subseteq {b}

SessionSurvives ==
    \A b \in Browsers, a \in Accounts :
        /\ Alone(b, a) /\ ~Busy(b)
        /\ cookies[b] # None /\ owner[cookies[b]] = a
        => stored[a] = cookies[b]

\* The same for the end of a session: a browser that has used one account only
\* and has no cookie any more left no token behind that still works
\* (auth.service.ts:103-113).  Excluded, besides the cases above, is a logout
\* whose write failed: it is answered as if it had worked.
LogoutEndsSession ==
    \A b \in Browsers, a \in Accounts :
        /\ Alone(b, a) /\ ~Busy(b)
        /\ \A c \in Accounts : b \in holders[c] => c = a
        /\ b \in holders[a] /\ cookies[b] = None
        => ~Verified(stored[a])
=============================================================================
