----------------------------- MODULE AuthProofs -----------------------------
(***************************************************************************)
(* Theorems about Auth, for any number of browsers, requests, accounts and *)
(* tokens.                                                                 *)
(***************************************************************************)
EXTENDS Auth, TLAPS

(* The invariant that is inductive.                                        *)

\* A token is somebody's before it is anywhere, and a browser that got or may
\* get a token of an account is one of its holders.
TokensOwned ==
    /\ \A a \in Accounts : stored[a] # None => owner[stored[a]] = a
    /\ \A b \in Browsers : cookies[b] # None =>
          /\ owner[cookies[b]] \in Accounts
          /\ b \in holders[owner[cookies[b]]]
    /\ expired \subseteq Issued

RequestShape(q) ==
    /\ q.stage = "idle" <=> q.browser = None
    /\ q.stage \in {"findByUsername", "findByEmail", "create", "login"}
          => q.form \in Forms /\ q.token = None
    /\ q.stage \in {"findById", "clearRefreshTokenHash"} => q.token # None
    /\ q.stage = "setRefreshTokenHash" => q.account # None
    /\ q.token # None =>
          /\ q.account # None
          /\ owner[q.token] = q.account
          /\ q.browser \in holders[q.account]
    /\ q.granted # None =>
          /\ q.stage = "answer"
          /\ q.account # None
          /\ owner[q.granted] = q.account
          /\ q.browser \in holders[q.account]

RequestsShaped == \A r \in Requests : RequestShape(requests[r])

\* What was not current on arrival does not become so.
StaleStaysStale ==
    \A r \in Requests :
        LET q == requests[r] IN
        q.stage \in {"findById", "setRefreshTokenHash"} /\ q.token # None /\ ~q.live
            => q.stage = "findById" /\ stored[q.account] # q.token

\* The requests of an undisturbed browser do not overlap.
OneAtATime ==
    \A b \in Browsers \ disturbed : \A r, s \in Requests :
        requests[r].browser = b /\ requests[s].browser = b => r = s

Answering(b, a) ==
    \E r \in Requests : /\ requests[r].browser = b /\ requests[r].stage = "answer"
                        /\ requests[r].account = a

\* Its cookie is current until an answer is on its way, and then the token of
\* the answer is.
CookieCurrent ==
    \A b \in Browsers, a \in Accounts :
        /\ Alone(b, a) /\ ~Answering(b, a)
        /\ cookies[b] # None /\ owner[cookies[b]] = a
        => stored[a] = cookies[b]

GrantCurrent ==
    \A r \in Requests, a \in Accounts :
        LET q == requests[r] IN
        /\ q.granted # None /\ q.account = a /\ Alone(q.browser, a)
        => stored[a] = q.granted

Only(b, a) ==
    /\ Alone(b, a) /\ b \in holders[a]
    /\ \A c \in Accounts : b \in holders[c] => c = a

\* Nothing that works is left of its only account when it has no cookie, or when
\* it is about to lose it.
NothingLeft ==
    \A b \in Browsers, a \in Accounts :
        /\ Only(b, a)
        /\ \A r \in Requests : requests[r].browser = b => requests[r].granted = None
        /\ \/ cookies[b] = None
           \/ \E r \in Requests : requests[r].browser = b /\ requests[r].stage = "answer"
        => ~Verified(stored[a])

AuthInv ==
    /\ AuthTypeOK /\ UniqueAccounts /\ TokensOwned /\ RequestsShaped
    /\ StaleStaysStale /\ OneAtATime /\ CookieCurrent /\ GrantCurrent /\ NothingLeft
-----------------------------------------------------------------------------
(* Four kinds of steps cover all that happens to requests without the      *)
(* table of tokens or a cookie being written.                              *)
Frame == UNCHANGED <<stored, owner, expired, cookies, holders>>

Becomes(r, q) ==
    /\ q \in RequestRecord
    /\ requests' = [requests EXCEPT ![r] = q]

\* A request of browser b arrives as q.
Arrives(r, b, q) ==
    /\ requests[r].stage = "idle"
    /\ Becomes(r, q)
    /\ q.browser = b /\ q.granted = None
    /\ \/ q.stage \in {"findByUsername", "login"} /\ q.form \in Forms /\ q.token = None
       \/ /\ q.stage \in {"findById", "clearRefreshTokenHash"}
          /\ Verified(cookies[b]) /\ q.token = cookies[b]
          /\ q.account = owner[cookies[b]]
          /\ q.stage = "findById" => q.live = (stored[q.account] = q.token)
       \/ q.stage = "answer" /\ ~Verified(cookies[b]) /\ q.token = None
    /\ disturbed' = IF Busy(b) THEN disturbed \union {b} ELSE disturbed
    /\ Frame

\* A request ends without an answer that sets the cookie.
Ends(r) ==
    /\ requests[r].stage \in Queries
    /\ Becomes(r, Idle)
    /\ Frame /\ UNCHANGED disturbed

\* A request goes on to its next query.
GoesOn(r, q) ==
    /\ Becomes(r, q)
    /\ q.browser = requests[r].browser /\ q.token = requests[r].token
    /\ q.granted = requests[r].granted /\ q.live = requests[r].live
    /\ q.form = requests[r].form
    /\ \/ requests[r].stage \in {"findByUsername", "findByEmail"}
          /\ q.stage \in {"findByEmail", "create"} /\ q.account = requests[r].account
       \/ requests[r].stage \in {"create", "login"}
          /\ q.stage = "setRefreshTokenHash" /\ q.account # None
       \/ /\ requests[r].stage = "findById" /\ q.stage = "setRefreshTokenHash"
          /\ q.account = requests[r].account
          /\ stored[q.account] = q.token
    /\ Frame /\ UNCHANGED disturbed

\* A logout is answered although its write failed.
Swallowed(r, q) ==
    /\ requests[r].stage = "clearRefreshTokenHash"
    /\ Becomes(r, q)
    /\ q = [requests[r] EXCEPT !.stage = "answer"]
    /\ disturbed' = disturbed \union {requests[r].browser}
    /\ Frame

LEMMA IdleIsRequest == Idle \in RequestRecord
  BY DEF Idle, RequestRecord, Stages

LEMMA ArrivalForm ==
  ASSUME AuthInv, NEW r \in Requests, NEW b \in Browsers, Arrival(r, b)
  PROVE  \E q : Arrives(r, b, q)
  <1> USE IdleIsRequest DEF Begin, Becomes, Frame, table, clients
  <1>1. ASSUME NEW f \in Forms, Register(r, b, f) PROVE \E q : Arrives(r, b, q)
    <2> DEFINE q == [Idle EXCEPT !.stage = "findByUsername", !.browser = b, !.form = f]
    <2>1. /\ q \in RequestRecord /\ q.stage = "findByUsername" /\ q.browser = b
          /\ q.form = f /\ q.token = None /\ q.granted = None
      BY DEF Idle, RequestRecord, Stages, Queries
    <2>2. Arrives(r, b, q)
      BY <1>1, <2>1 DEF Register, Arrives
    <2> QED
      BY <2>2
  <1>2. ASSUME NEW f \in Forms, Login(r, b, f) PROVE \E q : Arrives(r, b, q)
    <2> DEFINE q == [Idle EXCEPT !.stage = "login", !.browser = b, !.form = f]
    <2>1. /\ q \in RequestRecord /\ q.stage = "login" /\ q.browser = b
          /\ q.form = f /\ q.token = None /\ q.granted = None
      BY DEF Idle, RequestRecord, Stages, Queries
    <2>2. Arrives(r, b, q)
      BY <1>2, <2>1 DEF Login, Arrives
    <2> QED
      BY <2>2
  <1>3. ASSUME Refresh(r, b) PROVE \E q : Arrives(r, b, q)
    <2> DEFINE t == cookies[b]
               q == [Idle EXCEPT !.stage = "findById", !.browser = b, !.token = t,
                         !.account = owner[t], !.live = (stored[owner[t]] = t)]
    <2>1. t \in Tokens /\ owner[t] \in Accounts
      BY <1>3 DEF Refresh, Verified, AuthInv, AuthTypeOK, TokensOwned
    <2>2. /\ q \in RequestRecord /\ q.stage = "findById" /\ q.browser = b
          /\ q.token = t /\ q.account = owner[t] /\ q.granted = None
          /\ q.live = (stored[owner[t]] = t)
      BY <2>1 DEF Idle, RequestRecord, Stages, Queries
    <2>3. Arrives(r, b, q)
      BY <1>3, <2>1, <2>2 DEF Refresh, Arrives
    <2> QED
      BY <2>3
  <1>4. ASSUME Logout(r, b) PROVE \E q : Arrives(r, b, q)
    <2> DEFINE t == cookies[b]
    <2>1. CASE Verified(t)
      <3> DEFINE q == [Idle EXCEPT !.stage = "clearRefreshTokenHash", !.browser = b,
                           !.token = t, !.account = owner[t]]
      <3>1. t \in Tokens /\ owner[t] \in Accounts
        BY <2>1 DEF Verified, AuthInv, AuthTypeOK, TokensOwned
      <3>2. /\ q \in RequestRecord /\ q.stage = "clearRefreshTokenHash"
            /\ q.browser = b /\ q.token = t /\ q.account = owner[t] /\ q.granted = None
        BY <3>1 DEF Idle, RequestRecord, Stages, Queries
      <3>3. Arrives(r, b, q)
        BY <1>4, <2>1, <3>1, <3>2 DEF Logout, Arrives
      <3> QED
        BY <3>3
    <2>2. CASE ~Verified(t)
      <3> DEFINE q == [Idle EXCEPT !.stage = "answer", !.browser = b]
      <3>1. /\ q \in RequestRecord /\ q.stage = "answer" /\ q.browser = b
            /\ q.token = None /\ q.granted = None
        BY DEF Idle, RequestRecord, Stages, Queries
      <3>2. Arrives(r, b, q)
        BY <1>4, <2>2, <3>1 DEF Logout, Arrives
      <3> QED
        BY <3>2
    <2> QED
      BY <2>1, <2>2
  <1> QED
    BY <1>1, <1>2, <1>3, <1>4 DEF Arrival
LEMMA ProceedForm ==
  ASSUME AuthTypeOK, NEW r \in Requests, NEW stage \in Stages, Proceed(r, stage)
  PROVE  LET q == [requests[r] EXCEPT !.stage = stage] IN
         /\ Becomes(r, q)
         /\ q.stage = stage /\ q.browser = requests[r].browser
         /\ q.form = requests[r].form /\ q.token = requests[r].token
         /\ q.account = requests[r].account /\ q.granted = requests[r].granted
         /\ q.live = requests[r].live
  BY DEF Proceed, Becomes, AuthTypeOK, RequestRecord

LEMMA QueryForm ==
  ASSUME AuthInv, NEW r \in Requests,
         \/ FindByUsername(r) \/ FindByEmail(r) \/ CreateUser(r)
         \/ CheckPassword(r) \/ CompareToken(r) \/ QueryFails(r)
  PROVE  Ends(r) \/ (\E q : GoesOn(r, q)) \/ (\E q : Swallowed(r, q))
  <1> DEFINE old == requests[r]
  <1>0. old \in RequestRecord /\ AuthTypeOK
    BY DEF AuthInv, AuthTypeOK
  <1>E. ASSUME old.stage \in Queries, Refuse(r), Frame, UNCHANGED disturbed
        PROVE  Ends(r)
    BY <1>E, IdleIsRequest DEF Ends, Refuse, Becomes
  <1>1. CASE FindByUsername(r)
    <2>1. CASE Proceed(r, "findByEmail")
      <3>1. GoesOn(r, [old EXCEPT !.stage = "findByEmail"])
        BY <1>0, <1>1, <2>1, ProceedForm
           DEF FindByUsername, GoesOn, Frame, table, clients, history, Stages, Queries
      <3> QED
        BY <3>1
    <2> QED
      BY <1>1, <1>E, <2>1
         DEF FindByUsername, Frame, table, clients, history, Queries
  <1>2. CASE FindByEmail(r)
    <2>1. CASE Proceed(r, "create")
      <3>1. GoesOn(r, [old EXCEPT !.stage = "create"])
        BY <1>0, <1>2, <2>1, ProceedForm
           DEF FindByEmail, GoesOn, Frame, table, clients, history, Stages, Queries
      <3> QED
        BY <3>1
    <2> QED
      BY <1>2, <1>E, <2>1
         DEF FindByEmail, Frame, table, clients, history, Queries
  <1>A. ASSUME NEW a \in Accounts, old.stage \in {"create", "login"},
               requests' = [requests EXCEPT ![r].stage = "setRefreshTokenHash",
                                            ![r].account = a],
               Frame, UNCHANGED disturbed
        PROVE  \E q : GoesOn(r, q)
    <2> DEFINE q == [old EXCEPT !.stage = "setRefreshTokenHash", !.account = a]
    <2>1. /\ q \in RequestRecord /\ q.stage = "setRefreshTokenHash" /\ q.account = a
          /\ q.browser = old.browser /\ q.form = old.form /\ q.token = old.token
          /\ q.granted = old.granted /\ q.live = old.live
      BY <1>0, <1>A DEF RequestRecord, Stages, Queries
    <2>2. requests' = [requests EXCEPT ![r] = q]
      BY <1>0, <1>A DEF AuthTypeOK, RequestRecord
    <2>3. a # None
      BY <1>A, AuthAssumption DEF AuthAssumption
    <2>4. GoesOn(r, q)
      BY <1>A, <2>1, <2>2, <2>3 DEF GoesOn, Becomes
    <2> QED
      BY <2>4
  <1>3. CASE CreateUser(r)
    BY <1>3, <1>A, <1>E DEF CreateUser, Frame, clients, history, Queries
  <1>4. CASE CheckPassword(r)
    BY <1>4, <1>A, <1>E
       DEF CheckPassword, Registered, Frame, table, clients, history, Queries
  <1>5. CASE CompareToken(r)
    <2>1. CASE Proceed(r, "setRefreshTokenHash")
      <3>1. CASE stored[old.account] = old.token
        <4>1. GoesOn(r, [old EXCEPT !.stage = "setRefreshTokenHash"])
          BY <1>0, <1>5, <2>1, <3>1, ProceedForm
             DEF CompareToken, GoesOn, Frame, table, clients, history, Stages, Queries
        <4> QED
          BY <4>1
      <3>2. CASE stored[old.account] # old.token
        BY <1>5, <1>E, <3>2 DEF CompareToken, Frame, table, clients, history, Queries
      <3> QED
        BY <3>1, <3>2
    <2> QED
      BY <1>5, <1>E, <2>1
         DEF CompareToken, Frame, table, clients, history, Queries
  <1>6. CASE QueryFails(r)
    <2>1. CASE old.stage # "clearRefreshTokenHash"
      BY <1>6, <1>E, <2>1 DEF QueryFails, Frame, table, clients, history
    <2>2. CASE old.stage = "clearRefreshTokenHash"
      <3>1. Swallowed(r, [old EXCEPT !.stage = "answer"])
        BY <1>0, <1>6, <2>2, ProceedForm
           DEF QueryFails, Swallowed, Frame, table, clients, Stages, Queries
      <3> QED
        BY <3>1
    <2> QED
      BY <2>1, <2>2
  <1> QED
    BY <1>1, <1>2, <1>3, <1>4, <1>5, <1>6

\* What the steps that write the table of tokens do to their request.
Issues(r, t, q) ==
    LET a == requests[r].account IN
    /\ requests[r].stage = "setRefreshTokenHash"
    /\ a \in Accounts /\ requests[r].browser \in Browsers
    /\ t \in Tokens /\ owner[t] = None
    /\ Becomes(r, q)
    /\ q.stage = "answer" /\ q.granted = t /\ q.account = a
    /\ q.browser = requests[r].browser /\ q.token = requests[r].token
    /\ owner' = [owner EXCEPT ![t] = a]
    /\ stored' = [stored EXCEPT ![a] = t]
    /\ holders' = [holders EXCEPT ![a] = @ \union {requests[r].browser}]
    /\ UNCHANGED <<expired, cookies, disturbed>>

Clears(r, q) ==
    LET a == requests[r].account IN
    /\ requests[r].stage = "clearRefreshTokenHash"
    /\ a \in Accounts /\ owner[requests[r].token] = a
    /\ requests[r].browser \in holders[a]
    /\ Becomes(r, q)
    /\ q.stage = "answer" /\ q.account = a /\ q.token = requests[r].token
    /\ q.browser = requests[r].browser /\ q.granted = requests[r].granted
    /\ stored' = [stored EXCEPT ![a] = None]
    /\ UNCHANGED <<owner, holders, expired, cookies, disturbed>>

LEMMA IssueForm ==
  ASSUME AuthInv, NEW r \in Requests, IssueTokens(r)
  PROVE  \E t, q : Issues(r, t, q)
  <1> DEFINE old == requests[r]
  <1>1. /\ old \in RequestRecord /\ old.stage = "setRefreshTokenHash"
        /\ old.account \in Accounts /\ old.browser \in Browsers
    BY DEF AuthInv, AuthTypeOK, RequestRecord, RequestsShaped, RequestShape, IssueTokens
  <1>2. PICK t \in Tokens \ Issued :
           /\ owner' = [owner EXCEPT ![t] = old.account]
           /\ stored' = [stored EXCEPT ![old.account] = t]
           /\ requests' = [requests EXCEPT ![r].stage = "answer", ![r].granted = t]
    BY DEF IssueTokens
  <1> DEFINE q == [old EXCEPT !.stage = "answer", !.granted = t]
  <1>3. /\ q \in RequestRecord /\ q.stage = "answer" /\ q.granted = t
        /\ q.account = old.account /\ q.browser = old.browser /\ q.token = old.token
    BY <1>1 DEF RequestRecord, Stages
  <1>4. requests' = [requests EXCEPT ![r] = q]
    BY <1>1, <1>2 DEF AuthInv, AuthTypeOK, RequestRecord
  <1>5. Issues(r, t, q)
    BY <1>1, <1>2, <1>3, <1>4 DEF Issues, Becomes, Issued, IssueTokens, clients
  <1> QED
    BY <1>5

LEMMA ClearForm ==
  ASSUME AuthInv, NEW r \in Requests, ClearToken(r)
  PROVE  \E q : Clears(r, q)
  <1> DEFINE old == requests[r]
             q == [old EXCEPT !.stage = "answer"]
  <1>1. old \in RequestRecord /\ AuthTypeOK
    BY DEF AuthInv, AuthTypeOK
  <1>2. /\ old.account \in Accounts /\ owner[old.token] = old.account
        /\ old.browser \in holders[old.account]
    BY <1>1 DEF AuthInv, RequestRecord, RequestsShaped, RequestShape, ClearToken
  <1>3. Clears(r, q)
    BY <1>1, <1>2, ProceedForm DEF ClearToken, Clears, Stages, clients, history
  <1> QED
    BY <1>3

\* The steps the invariant has to survive.
AStep ==
    \/ \E r \in Requests, b \in Browsers : \E q : Arrives(r, b, q)
    \/ \E r \in Requests : \/ Ends(r)
                           \/ \E q : GoesOn(r, q)
                           \/ \E q : Swallowed(r, q)
                           \/ \E t, q : Issues(r, t, q)
                           \/ \E q : Clears(r, q)
                           \/ Answer(r) \/ AnswerLost(r)
    \/ Crash
    \/ \E t \in Tokens : TokenExpires(t)
    \/ \E b \in Browsers : CookieExpires(b)

LEMMA NextIsAStep == AuthInv /\ Next => AStep
  BY ArrivalForm, QueryForm, IssueForm, ClearForm DEF Next, Query, AStep

LEMMA AccountsStep == 
  ASSUME AuthTypeOK, Next
  PROVE  \/ UNCHANGED accounts
         \/ \E r \in Requests, a \in Accounts \ Registered :
               /\ ~UsernameTaken(requests[r].form) /\ ~EmailTaken(requests[r].form)
               /\ requests[r].stage = "create"
               /\ accounts' = [accounts EXCEPT ![a] = requests[r].form]
  BY DEF Next, Arrival, Register, Login, Refresh, Logout, Begin, Query, FindByUsername,
         FindByEmail, CreateUser, CheckPassword, CompareToken, IssueTokens, ClearToken,
         QueryFails, Answer, AnswerLost, Crash, TokenExpires, CookieExpires, table

LEMMA TypeInit == Init => AuthTypeOK
  BY IdleIsRequest, AuthAssumption DEF Init, AuthTypeOK

LEMMA RequestTypes ==
  ASSUME AuthInv, AStep
  PROVE  requests' \in [Requests -> RequestRecord]
  <1>0. AuthTypeOK
    BY DEF AuthInv
  <1>1. ASSUME NEW r \in Requests, NEW q, Becomes(r, q)
        PROVE  requests' \in [Requests -> RequestRecord]
    BY <1>0, <1>1 DEF Becomes, AuthTypeOK
  <1>4. ASSUME NEW r \in Requests, Refuse(r)
        PROVE  requests' \in [Requests -> RequestRecord]
    BY <1>0, <1>4, IdleIsRequest DEF Refuse, AuthTypeOK
  <1>5. Crash => requests' \in [Requests -> RequestRecord]
    BY IdleIsRequest DEF Crash
  <1>6. UNCHANGED requests => requests' \in [Requests -> RequestRecord]
    BY <1>0 DEF AuthTypeOK
  <1> QED
    BY <1>1, <1>4, <1>5, <1>6
       DEF AStep, Arrives, Ends, GoesOn, Swallowed, Issues, Clears, Answer, AnswerLost, TokenExpires,
           CookieExpires

LEMMA TypeStep ==
  ASSUME AuthInv, Next
  PROVE  AuthTypeOK'
  <1>0. AStep /\ AuthTypeOK /\ RequestsShaped
    BY NextIsAStep DEF AuthInv
  <1>1. requests' \in [Requests -> RequestRecord]
    BY <1>0, RequestTypes
  <1>2. accounts' \in [Accounts -> Forms \union {None}]
    BY <1>0, AccountsStep DEF AuthTypeOK, RequestRecord
  <1>3. /\ stored' \in [Accounts -> Tokens \union {None}]
        /\ owner' \in [Tokens -> Accounts \union {None}]
        /\ expired' \subseteq Tokens
    BY <1>0 DEF AStep, AuthTypeOK, Frame, Arrives, Ends, GoesOn, Swallowed,
                Issues, Clears, Answer, AnswerLost, Crash, TokenExpires,
                CookieExpires, table, clients
  <1>4. cookies' \in [Browsers -> Tokens \union {None}]
    BY <1>0 DEF AStep, AuthTypeOK, RequestRecord, Frame, Arrives, Ends, GoesOn, Swallowed,
                Issues, Clears, Answer, AnswerLost, Crash, TokenExpires,
                CookieExpires, clients
  <1>5. \A r \in Requests : requests[r].stage # "idle" => requests[r].browser \in Browsers
    BY <1>0 DEF AuthTypeOK, RequestRecord, RequestsShaped, RequestShape
  <1>6. holders' \in [Accounts -> SUBSET Browsers]
    BY <1>0 DEF AStep, AuthTypeOK, Frame, Arrives, Ends, GoesOn, Swallowed,
                Issues, Clears, Answer, AnswerLost, Crash, TokenExpires,
                CookieExpires, history
  <1>7. disturbed' \subseteq Browsers
    BY <1>0, <1>5 DEF AStep, AuthTypeOK, Frame, Arrives, Ends, GoesOn, Swallowed,
                Issues, Clears, Answer, AnswerLost, Crash, TokenExpires,
                CookieExpires, history
  <1> QED
    BY <1>1, <1>2, <1>3, <1>4, <1>6, <1>7 DEF AuthTypeOK

LEMMA UniqueStep ==
  ASSUME AuthInv, Next
  PROVE  UniqueAccounts'
  <1>0. AuthTypeOK /\ UniqueAccounts
    BY DEF AuthInv
  <1>1. CASE UNCHANGED accounts
    BY <1>0, <1>1 DEF UniqueAccounts, Registered
  <1>2. ASSUME NEW r \in Requests, NEW a \in Accounts \ Registered,
               ~UsernameTaken(requests[r].form), ~EmailTaken(requests[r].form),
               accounts' = [accounts EXCEPT ![a] = requests[r].form]
        PROVE  UniqueAccounts'
    <2>1. \A c \in Accounts : accounts'[c] = IF c = a THEN requests[r].form ELSE accounts[c]
      BY <1>0, <1>2 DEF AuthTypeOK
    <2>2. \A c \in Registered : /\ accounts[c].username # requests[r].form.username
                                /\ accounts[c].email # requests[r].form.email
      BY <1>2 DEF UsernameTaken, EmailTaken
    <2> QED
      BY <1>0, <2>1, <2>2 DEF UniqueAccounts, Registered
  <1> QED
    BY <1>0, <1>1, <1>2, AccountsStep
LEMMA Pointwise ==
  ASSUME AuthTypeOK, NEW r \in Requests, NEW q, Becomes(r, q)
  PROVE  /\ requests'[r] = q
         /\ \A s \in Requests \ {r} : requests'[s] = requests[s]
  BY DEF Becomes, AuthTypeOK

LEMMA AnswerPointwise ==
  ASSUME AuthInv, NEW r \in Requests, Answer(r) \/ AnswerLost(r)
  PROVE  /\ requests'[r] = Idle
         /\ \A s \in Requests \ {r} : requests'[s] = requests[s]
         /\ requests[r].browser \in Browsers /\ requests[r].stage = "answer"
  BY DEF Answer, AnswerLost, Refuse, AuthInv, AuthTypeOK, RequestRecord, RequestsShaped,
         RequestShape

LEMMA OwnedStep ==
  ASSUME AuthInv, Next
  PROVE  TokensOwned'
  <1>0. /\ AStep /\ AuthTypeOK /\ AuthTypeOK' /\ TokensOwned /\ RequestsShaped
    BY NextIsAStep, TypeStep DEF AuthInv
  <1>N. None \notin Browsers /\ None \notin Accounts /\ None \notin Tokens
    BY AuthAssumption DEF AuthAssumption
  <1>1. ASSUME UNCHANGED <<stored, owner, holders>>, UNCHANGED cookies, UNCHANGED expired
        PROVE  TokensOwned'
    BY <1>0, <1>1 DEF TokensOwned, Issued
  <1>2. ASSUME NEW r \in Requests, NEW t, NEW q, Issues(r, t, q)
        PROVE  TokensOwned'
    BY <1>0, <1>2, <1>N DEF TokensOwned, Issued, Issues, AuthTypeOK
  <1>3. ASSUME NEW r \in Requests, NEW q, Clears(r, q)
        PROVE  TokensOwned'
    BY <1>0, <1>3 DEF TokensOwned, Issued, Clears, AuthTypeOK
  <1>4. ASSUME NEW r \in Requests, Answer(r)
        PROVE  TokensOwned'
    <2>1. RequestShape(requests[r]) /\ requests[r] \in RequestRecord
      BY <1>0 DEF RequestsShaped, AuthTypeOK
    <2> QED
      BY <1>0, <1>4, <1>N, <2>1
         DEF TokensOwned, Issued, Answer, AuthTypeOK, RequestShape, RequestRecord, table, history
  <1>5. ASSUME NEW t \in Tokens, TokenExpires(t)
        PROVE  TokensOwned'
    BY <1>0, <1>5 DEF TokensOwned, Issued, TokenExpires, table, history
  <1>6. ASSUME NEW b \in Browsers, CookieExpires(b)
        PROVE  TokensOwned'
    BY <1>0, <1>6 DEF TokensOwned, Issued, CookieExpires, table, history, AuthTypeOK
  <1> QED
    BY <1>0, <1>1, <1>2, <1>3, <1>4, <1>5, <1>6
       DEF AStep, Frame, Arrives, Ends, GoesOn, Swallowed, AnswerLost, Crash, table, clients

LEMMA ShapeStep ==
  ASSUME AuthInv, Next
  PROVE  RequestsShaped'
  <1>0. /\ AStep /\ AuthTypeOK /\ TokensOwned /\ RequestsShaped
    BY NextIsAStep DEF AuthInv
  <1>N. None \notin Browsers /\ None \notin Accounts /\ None \notin Tokens
    BY AuthAssumption DEF AuthAssumption
  <1> SUFFICES ASSUME NEW s \in Requests PROVE RequestShape(requests[s])'
    BY DEF RequestsShaped
  <1>s. RequestShape(requests[s]) /\ requests[s] \in RequestRecord
    BY <1>0 DEF RequestsShaped, AuthTypeOK
  <1>1. ASSUME UNCHANGED requests[s], UNCHANGED <<owner, holders>>
        PROVE  RequestShape(requests[s])'
    BY <1>1, <1>s DEF RequestShape
  <1>2. ASSUME requests'[s] = Idle
        PROVE  RequestShape(requests[s])'
    BY <1>2 DEF RequestShape, Idle
  <1>3. ASSUME NEW r \in Requests, NEW b \in Browsers, NEW q, Arrives(r, b, q)
        PROVE  RequestShape(requests[s])'
    <2>1. CASE s = r
      <3>1. requests'[s] = q /\ UNCHANGED <<owner, holders>>
        BY <1>0, <1>3, <2>1, Pointwise DEF Arrives, Frame
      <3>2. RequestShape(q)
        BY <1>0, <1>3, <1>N DEF Arrives, RequestShape, TokensOwned, Verified, RequestRecord
      <3> QED
        BY <3>1, <3>2 DEF RequestShape
    <2>2. CASE s # r
      BY <1>0, <1>1, <1>3, <2>2, Pointwise DEF Arrives, Frame
    <2> QED
      BY <2>1, <2>2
  <1>4. ASSUME NEW r \in Requests, NEW q, GoesOn(r, q) \/ Swallowed(r, q)
        PROVE  RequestShape(requests[s])'
    <2>1. CASE s = r
      <3>1. requests'[s] = q /\ UNCHANGED <<owner, holders>>
        BY <1>0, <1>4, <2>1, Pointwise DEF GoesOn, Swallowed, Frame
      <3>2. RequestShape(q)
        BY <1>4, <1>s, <2>1 DEF GoesOn, Swallowed, RequestShape, RequestRecord
      <3> QED
        BY <3>1, <3>2 DEF RequestShape
    <2>2. CASE s # r
      BY <1>0, <1>1, <1>4, <2>2, Pointwise DEF GoesOn, Swallowed, Frame
    <2> QED
      BY <2>1, <2>2
  <1>5. ASSUME NEW r \in Requests, NEW t, NEW q, Issues(r, t, q)
        PROVE  RequestShape(requests[s])'
    <2>1. /\ \A u \in Tokens : u # t => owner'[u] = owner[u]
          /\ owner'[t] = requests[r].account
          /\ \A a \in Accounts : holders[a] \subseteq holders'[a]
          /\ requests[r].browser \in holders'[requests[r].account]
      BY <1>0, <1>5 DEF Issues, AuthTypeOK
    <2>2. CASE s = r
      <3>1. requests'[s] = q
        BY <1>0, <1>5, <2>2, Pointwise DEF Issues
      <3>2. RequestShape(q)'
        BY <1>5, <1>s, <1>N, <2>1, <2>2 DEF Issues, RequestShape, RequestRecord
      <3> QED
        BY <3>1, <3>2 DEF RequestShape
    <2>3. CASE s # r
      <3>1. requests'[s] = requests[s]
        BY <1>0, <1>5, <2>3, Pointwise DEF Issues
      <3>2. /\ requests[s].token # t /\ requests[s].granted # t
        BY <1>5, <1>s, <1>N DEF Issues, RequestShape, RequestRecord
      <3> QED
        BY <1>s, <2>1, <3>1, <3>2 DEF RequestShape, RequestRecord
    <2> QED
      BY <2>2, <2>3
  <1>6. ASSUME NEW r \in Requests, NEW q, Clears(r, q)
        PROVE  RequestShape(requests[s])'
    <2>1. CASE s = r
      <3>1. requests'[s] = q /\ UNCHANGED <<owner, holders>>
        BY <1>0, <1>6, <2>1, Pointwise DEF Clears
      <3>2. RequestShape(q)
        BY <1>6, <1>s, <2>1, <1>N DEF Clears, RequestShape, RequestRecord
      <3> QED
        BY <3>1, <3>2 DEF RequestShape
    <2>2. CASE s # r
      BY <1>0, <1>1, <1>6, <2>2, Pointwise DEF Clears
    <2> QED
      BY <2>1, <2>2
  <1>7. ASSUME NEW r \in Requests, Answer(r) \/ AnswerLost(r)
        PROVE  RequestShape(requests[s])'
    BY <1>1, <1>2, <1>7, AnswerPointwise DEF Answer, AnswerLost, table, history
  <1>8. ASSUME NEW r \in Requests, Ends(r)
        PROVE  RequestShape(requests[s])'
    BY <1>0, <1>1, <1>2, <1>8, Pointwise DEF Ends, Frame
  <1>9. CASE Crash
    BY <1>2, <1>9 DEF Crash
  <1>10. ASSUME UNCHANGED requests, UNCHANGED <<owner, holders>>
         PROVE  RequestShape(requests[s])'
    BY <1>1, <1>10
  <1> QED
    BY <1>0, <1>3, <1>4, <1>5, <1>6, <1>7, <1>8, <1>9, <1>10
       DEF AStep, TokenExpires, CookieExpires, table, history
LEMMA StaleStep ==
  ASSUME AuthInv, Next
  PROVE  StaleStaysStale'
  <1>0. /\ AStep /\ AuthTypeOK /\ TokensOwned /\ RequestsShaped /\ StaleStaysStale
    BY NextIsAStep DEF AuthInv
  <1>N. None \notin Accounts /\ None \notin Tokens
    BY AuthAssumption DEF AuthAssumption
  <1> SUFFICES ASSUME NEW s \in Requests,
                      requests'[s].stage \in {"findById", "setRefreshTokenHash"},
                      requests'[s].token # None, ~requests'[s].live
               PROVE  /\ requests'[s].stage = "findById"
                      /\ stored'[requests'[s].account] # requests'[s].token
    BY DEF StaleStaysStale
  <1>s. RequestShape(requests[s]) /\ requests[s] \in RequestRecord
    BY <1>0 DEF RequestsShaped, AuthTypeOK
  <1>1. ASSUME UNCHANGED requests[s], UNCHANGED stored
        PROVE  /\ requests'[s].stage = "findById"
               /\ stored'[requests'[s].account] # requests'[s].token
    BY <1>0, <1>1 DEF StaleStaysStale
  <1>2. requests'[s] # Idle
    BY DEF Idle
  <1>3. ASSUME NEW r \in Requests, NEW b \in Browsers, NEW q, Arrives(r, b, q)
        PROVE  /\ requests'[s].stage = "findById"
               /\ stored'[requests'[s].account] # requests'[s].token
    <2>1. CASE s = r
      BY <1>0, <1>3, <2>1, Pointwise DEF Arrives, Frame
    <2>2. CASE s # r
      BY <1>0, <1>1, <1>3, <2>2, Pointwise DEF Arrives, Frame
    <2> QED
      BY <2>1, <2>2
  <1>4. ASSUME NEW r \in Requests, NEW q, GoesOn(r, q) \/ Swallowed(r, q)
        PROVE  /\ requests'[s].stage = "findById"
               /\ stored'[requests'[s].account] # requests'[s].token
    <2>1. CASE s = r
      BY <1>0, <1>4, <1>s, <2>1, Pointwise
         DEF GoesOn, Swallowed, Frame, StaleStaysStale, RequestShape, RequestRecord
    <2>2. CASE s # r
      BY <1>0, <1>1, <1>4, <2>2, Pointwise DEF GoesOn, Swallowed, Frame
    <2> QED
      BY <2>1, <2>2
  <1>5. ASSUME NEW r \in Requests, NEW t, NEW q, Issues(r, t, q)
        PROVE  /\ requests'[s].stage = "findById"
               /\ stored'[requests'[s].account] # requests'[s].token
    <2>1. s # r /\ requests'[s] = requests[s]
      BY <1>0, <1>5, Pointwise DEF Issues
    <2>2. requests[s].token # t /\ requests[s].account \in Accounts
      BY <1>5, <1>s, <1>N, <2>1 DEF Issues, RequestShape, RequestRecord
    <2>3. stored'[requests[s].account] \in {t, stored[requests[s].account]}
      BY <1>0, <1>5, <2>2 DEF Issues, AuthTypeOK
    <2> QED
      BY <1>0, <2>1, <2>2, <2>3 DEF StaleStaysStale
  <1>6. ASSUME NEW r \in Requests, NEW q, Clears(r, q)
        PROVE  /\ requests'[s].stage = "findById"
               /\ stored'[requests'[s].account] # requests'[s].token
    <2>1. s # r /\ requests'[s] = requests[s]
      BY <1>0, <1>6, Pointwise DEF Clears
    <2>2. requests[s].account \in Accounts
      BY <1>s, <1>N, <2>1 DEF RequestShape, RequestRecord
    <2>3. stored'[requests[s].account] \in {None, stored[requests[s].account]}
      BY <1>0, <1>6, <2>2 DEF Clears, AuthTypeOK
    <2> QED
      BY <1>0, <2>1, <2>3 DEF StaleStaysStale
  <1>7. ASSUME NEW r \in Requests, Answer(r) \/ AnswerLost(r)
        PROVE  /\ requests'[s].stage = "findById"
               /\ stored'[requests'[s].account] # requests'[s].token
    BY <1>1, <1>2, <1>7, AnswerPointwise DEF Answer, AnswerLost, table
  <1>8. ASSUME NEW r \in Requests, Ends(r)
        PROVE  /\ requests'[s].stage = "findById"
               /\ stored'[requests'[s].account] # requests'[s].token
    BY <1>0, <1>1, <1>2, <1>8, Pointwise DEF Ends, Frame
  <1>9. ~Crash
    BY <1>2 DEF Crash
  <1> QED
    BY <1>0, <1>1, <1>3, <1>4, <1>5, <1>6, <1>7, <1>8, <1>9
       DEF AStep, TokenExpires, CookieExpires, table

LEMMA OneStep ==
  ASSUME AuthInv, Next
  PROVE  OneAtATime'
  <1>0. /\ AStep /\ AuthTypeOK /\ RequestsShaped /\ OneAtATime
    BY NextIsAStep DEF AuthInv
  <1>N. None \notin Browsers
    BY AuthAssumption DEF AuthAssumption
  <1>1. ASSUME disturbed \subseteq disturbed',
               \A s \in Requests : \/ requests'[s].browser = requests[s].browser
                                   \/ requests'[s].browser = None
        PROVE  OneAtATime'
    BY <1>0, <1>1, <1>N DEF OneAtATime
  <1>2. ASSUME NEW r \in Requests, NEW b \in Browsers, NEW q, Arrives(r, b, q)
        PROVE  OneAtATime'
    <2>1. disturbed \subseteq disturbed' /\ (Busy(b) => b \in disturbed')
      BY <1>2 DEF Arrives
    <2>2. /\ requests'[r].browser = b
          /\ \A s \in Requests \ {r} : requests'[s] = requests[s]
      BY <1>0, <1>2, Pointwise DEF Arrives
    <2> QED
      BY <1>0, <2>1, <2>2 DEF OneAtATime, Busy
  <1>3. Idle.browser = None
    BY DEF Idle
  <1>4. ASSUME NEW r \in Requests, NEW q,
               \/ GoesOn(r, q) \/ Swallowed(r, q) \/ Ends(r) \/ Clears(r, q)
               \/ \E t : Issues(r, t, q)
        PROVE  OneAtATime'
    <2>1. requests[r] \in RequestRecord
      BY <1>0 DEF AuthTypeOK
    <2>2. /\ requests'[r].browser \in {requests[r].browser, None}
          /\ \A s \in Requests \ {r} : requests'[s] = requests[s]
      BY <1>0, <1>3, <1>4, <2>1, Pointwise
         DEF GoesOn, Swallowed, Ends, Clears, Issues, RequestRecord
    <2>3. disturbed \subseteq disturbed'
      BY <1>4 DEF GoesOn, Swallowed, Ends, Clears, Issues
    <2> QED
      BY <1>1, <2>2, <2>3
  <1>5. ASSUME NEW r \in Requests, Answer(r) \/ AnswerLost(r)
        PROVE  OneAtATime'
    BY <1>1, <1>3, <1>5, AnswerPointwise DEF Answer, AnswerLost, history
  <1>6. CASE Crash
    BY <1>1, <1>3, <1>6 DEF Crash
  <1>7. ASSUME UNCHANGED <<requests, disturbed>> PROVE OneAtATime'
    BY <1>1, <1>7
  <1> QED
    BY <1>0, <1>2, <1>4, <1>5, <1>6, <1>7
       DEF AStep, TokenExpires, CookieExpires, history
\* A request that writes the row of an account belongs to a holder of it.
LEMMA AloneIsOwn ==
  ASSUME AuthInv, NEW b \in Browsers, NEW a \in Accounts, Alone(b, a)
  PROVE  /\ \A r \in Requests : requests[r].token # None /\ requests[r].account = a
               => requests[r].browser = b
         /\ \A r \in Requests : requests[r].granted # None /\ requests[r].account = a
               => requests[r].browser = b
  BY DEF AuthInv, RequestsShaped, RequestShape, Alone

LEMMA AloneBefore ==
  ASSUME AuthInv, Next, NEW b \in Browsers, NEW a \in Accounts, Alone(b, a)'
  PROVE  Alone(b, a)
  <1>0. AStep /\ AuthTypeOK
    BY NextIsAStep DEF AuthInv
  <1>1. disturbed \subseteq disturbed'
    BY <1>0 DEF AStep, Arrives, Ends, GoesOn, Swallowed, Issues, Clears, Answer, AnswerLost,
                Crash, TokenExpires, CookieExpires, history
  <1>2. holders[a] \subseteq holders'[a]
    BY <1>0 DEF AStep, Arrives, Ends, GoesOn, Swallowed, Issues, Clears, Answer, AnswerLost,
                Crash, TokenExpires, CookieExpires, history, Frame, AuthTypeOK
  <1> QED
    BY <1>1, <1>2 DEF Alone

LEMMA CookieStep ==
  ASSUME AuthInv, Next
  PROVE  CookieCurrent'
  <1>0. /\ AStep /\ AuthTypeOK /\ AuthTypeOK' /\ TokensOwned /\ RequestsShaped
        /\ CookieCurrent /\ GrantCurrent
    BY NextIsAStep, TypeStep DEF AuthInv
  <1>N. None \notin Browsers /\ None \notin Accounts /\ None \notin Tokens
    BY AuthAssumption DEF AuthAssumption
  <1> SUFFICES ASSUME NEW b \in Browsers, NEW a \in Accounts, Alone(b, a)',
                      ~Answering(b, a)', cookies'[b] # None, owner'[cookies'[b]] = a
               PROVE  stored'[a] = cookies'[b]
    BY DEF CookieCurrent
  <1>A. Alone(b, a)
    BY AloneBefore
  <1>1. ASSUME cookies'[b] = cookies[b], owner'[cookies[b]] = owner[cookies[b]],
               stored'[a] = stored[a], ~Answering(b, a)
        PROVE  stored'[a] = cookies'[b]
    BY <1>0, <1>1, <1>A DEF CookieCurrent
  <1>2. ASSUME NEW r \in Requests, NEW c \in Browsers, NEW q, Arrives(r, c, q)
        PROVE  stored'[a] = cookies'[b]
    <2>1. ~Answering(b, a)
      BY <1>0, <1>2, Pointwise DEF Answering, Arrives
    <2> QED
      BY <1>1, <1>2, <2>1 DEF Arrives, Frame
  <1>3. ASSUME NEW r \in Requests, NEW q, GoesOn(r, q) \/ Ends(r) \/ Swallowed(r, q)
        PROVE  stored'[a] = cookies'[b]
    <2>1. ~Answering(b, a)
      <3>1. requests[r].stage # "answer"
        BY <1>3 DEF GoesOn, Ends, Swallowed, Queries
      <3> QED
        BY <1>0, <1>3, <3>1, Pointwise DEF Answering, GoesOn, Ends, Swallowed
    <2> QED
      BY <1>1, <1>3, <2>1 DEF GoesOn, Ends, Swallowed, Frame
  <1>4. ASSUME NEW r \in Requests, NEW t, NEW q, Issues(r, t, q)
        PROVE  stored'[a] = cookies'[b]
    <2>1. requests'[r] = q /\ \A s \in Requests \ {r} : requests'[s] = requests[s]
      BY <1>0, <1>4, Pointwise DEF Issues
    <2>2. requests[r].account # a
      <3> SUFFICES ASSUME requests[r].account = a PROVE FALSE
        OBVIOUS
      <3>1. requests[r].browser = b
        BY <1>0, <1>4, SMTT(30) DEF Issues, Alone, AuthTypeOK
      <3> QED
        BY <1>4, <2>1, <3>1 DEF Issues, Answering
    <2>3. ~Answering(b, a)
      BY <1>4, <2>1 DEF Issues, Answering
    <2>4. cookies[b] # t
      BY <1>0, <1>4, <1>N DEF Issues, TokensOwned
    <2> QED
      BY <1>0, <1>1, <1>4, <2>2, <2>3, <2>4 DEF Issues, AuthTypeOK
  <1>5. ASSUME NEW r \in Requests, NEW q, Clears(r, q)
        PROVE  stored'[a] = cookies'[b]
    <2>1. requests'[r] = q /\ \A s \in Requests \ {r} : requests'[s] = requests[s]
      BY <1>0, <1>5, Pointwise DEF Clears
    <2>2. requests[r].account # a
      BY <1>5, <1>A, <2>1 DEF Clears, Answering, Alone
    <2>3. ~Answering(b, a)
      BY <1>5, <2>1 DEF Clears, Answering
    <2> QED
      BY <1>0, <1>1, <1>5, <2>2, <2>3 DEF Clears, AuthTypeOK
  <1>6. ASSUME NEW r \in Requests, Answer(r)
        PROVE  stored'[a] = cookies'[b]
    <2>1. CASE requests[r].browser = b
      <3>1. cookies'[b] = requests[r].granted /\ UNCHANGED <<stored, owner>>
        BY <1>0, <1>6, <2>1 DEF Answer, AuthTypeOK, table
      <3>2. requests[r].account = a
        BY <1>0, <3>1 DEF RequestsShaped, RequestShape
      <3> QED
        BY <1>0, <1>A, <2>1, <3>1, <3>2 DEF GrantCurrent
    <2>2. CASE requests[r].browser # b
      <3>1. cookies'[b] = cookies[b] /\ UNCHANGED <<stored, owner>>
        BY <1>0, <1>6, <2>2 DEF Answer, AuthTypeOK, table
      <3>2. ~Answering(b, a)
        BY <1>6, <2>2, AnswerPointwise DEF Answering
      <3> QED
        BY <1>1, <3>1, <3>2
    <2> QED
      BY <2>1, <2>2
  <1>7. ASSUME NEW r \in Requests, AnswerLost(r)
        PROVE  stored'[a] = cookies'[b]
    <2>1. requests[r].browser # b
      BY <1>7, AnswerPointwise DEF AnswerLost, Alone
    <2>2. ~Answering(b, a)
      BY <1>7, <2>1, AnswerPointwise DEF Answering
    <2> QED
      BY <1>1, <1>7, <2>2 DEF AnswerLost, table, clients
  <1>8. ASSUME Crash PROVE stored'[a] = cookies'[b]
    <2>1. ~Answering(b, a)
      BY <1>8 DEF Crash, Alone, Answering, Busy
    <2> QED
      BY <1>1, <1>8, <2>1 DEF Crash, table, clients
  <1>9. ASSUME NEW t \in Tokens, TokenExpires(t)
        PROVE  stored'[a] = cookies'[b]
    BY <1>1, <1>9 DEF TokenExpires, table, Answering
  <1>10. ASSUME NEW c \in Browsers, CookieExpires(c)
         PROVE  stored'[a] = cookies'[b]
    BY <1>0, <1>1, <1>10 DEF CookieExpires, table, Answering, AuthTypeOK
  <1> QED
    BY <1>0, <1>2, <1>3, <1>4, <1>5, <1>6, <1>7, <1>8, <1>9, <1>10 DEF AStep
LEMMA GrantStep ==
  ASSUME AuthInv, Next
  PROVE  GrantCurrent'
  <1>0. /\ AStep /\ AuthTypeOK /\ AuthTypeOK' /\ RequestsShaped /\ RequestsShaped'
        /\ GrantCurrent /\ OneAtATime
    BY NextIsAStep, TypeStep, ShapeStep DEF AuthInv
  <1>N. None \notin Browsers /\ None \notin Accounts /\ None \notin Tokens
    BY AuthAssumption DEF AuthAssumption
  <1> SUFFICES ASSUME NEW s \in Requests, NEW a \in Accounts,
                      requests'[s].granted # None, requests'[s].account = a,
                      Alone(requests[s].browser, a)'
               PROVE  stored'[a] = requests'[s].granted
    BY DEF GrantCurrent
  <1> DEFINE b == requests'[s].browser
  <1>A. b \in Browsers /\ Alone(b, a)
    BY AloneBefore DEF Alone
  <1>1. ASSUME requests'[s] = requests[s], stored'[a] = stored[a]
        PROVE  stored'[a] = requests'[s].granted
    BY <1>0, <1>1, <1>A DEF GrantCurrent
  <1>2. requests'[s] # Idle
    BY DEF Idle
  <1>3. ASSUME NEW r \in Requests, NEW q,
               \/ \E c \in Browsers : Arrives(r, c, q)
               \/ GoesOn(r, q) \/ Ends(r) \/ Swallowed(r, q)
        PROVE  stored'[a] = requests'[s].granted
    <2>1. stored' = stored
      BY <1>3 DEF Arrives, GoesOn, Ends, Swallowed, Frame
    <2>2. s # r
      <3>1. RequestShape(requests[r]) /\ requests[r] \in RequestRecord
        BY <1>0 DEF RequestsShaped, AuthTypeOK
      <3> QED
        BY <1>0, <1>2, <1>3, <3>1, Pointwise
           DEF Arrives, GoesOn, Ends, Swallowed, RequestShape, RequestRecord
    <2> QED
      BY <1>0, <1>1, <1>3, <2>1, <2>2, Pointwise DEF Arrives, GoesOn, Ends, Swallowed
  <1>4. ASSUME NEW r \in Requests, NEW t, NEW q, Issues(r, t, q)
        PROVE  stored'[a] = requests'[s].granted
    <2>1. requests'[r] = q /\ \A u \in Requests \ {r} : requests'[u] = requests[u]
      BY <1>0, <1>4, Pointwise DEF Issues
    <2>2. CASE s = r
      BY <1>0, <1>4, <2>1, <2>2 DEF Issues, AuthTypeOK
    <2>3. CASE s # r
      <3>1. requests'[s] = requests[s]
        BY <2>1, <2>3
      <3>2. requests[r].account # a
        <4> SUFFICES ASSUME requests[r].account = a PROVE FALSE
          OBVIOUS
        <4>1. requests[r].browser = b
          BY <1>0, <1>4 DEF Issues, Alone, AuthTypeOK
        <4> QED
          BY <1>0, <1>A, <2>3, <3>1, <4>1 DEF OneAtATime, Alone
      <3> QED
        BY <1>0, <1>1, <1>4, <3>1, <3>2 DEF Issues, AuthTypeOK
    <2> QED
      BY <2>2, <2>3
  <1>5. ASSUME NEW r \in Requests, NEW q, Clears(r, q)
        PROVE  stored'[a] = requests'[s].granted
    <2>1. requests'[r] = q /\ \A u \in Requests \ {r} : requests'[u] = requests[u]
      BY <1>0, <1>5, Pointwise DEF Clears
    <2>2. s # r
      BY <1>0, <1>5, <2>1 DEF Clears, RequestsShaped, RequestShape
    <2>3. requests[r].account # a
      BY <1>0, <1>5, <1>A, <2>1, <2>2 DEF Clears, OneAtATime, Alone
    <2> QED
      BY <1>0, <1>1, <1>5, <2>1, <2>2, <2>3 DEF Clears, AuthTypeOK
  <1>6. ASSUME NEW r \in Requests, Answer(r) \/ AnswerLost(r)
        PROVE  stored'[a] = requests'[s].granted
    BY <1>1, <1>2, <1>6, AnswerPointwise DEF Answer, AnswerLost, table
  <1>7. ~Crash
    BY <1>2 DEF Crash
  <1> QED
    BY <1>0, <1>1, <1>3, <1>4, <1>5, <1>6, <1>7
       DEF AStep, TokenExpires, CookieExpires, table

\* What NothingLeft looks at: a browser with no cookie, or about to lose it.
Leaving(b) ==
    /\ \A r \in Requests : requests[r].browser = b => requests[r].granted = None
    /\ \/ cookies[b] = None
       \/ \E r \in Requests : requests[r].browser = b /\ requests[r].stage = "answer"

LEMMA OnlyBefore ==
  ASSUME AuthInv, Next, NEW b \in Browsers, NEW a \in Accounts, Only(b, a)',
         \A r \in Requests : requests'[r].browser = b => requests'[r].granted = None
  PROVE  Only(b, a) /\ UNCHANGED holders[a]
  <1>0. AStep /\ AuthTypeOK /\ AuthTypeOK'
    BY NextIsAStep, TypeStep DEF AuthInv
  <1>N. None \notin Tokens
    BY AuthAssumption DEF AuthAssumption
  <1>1. Alone(b, a)
    BY AloneBefore DEF Only
  <1>2. ASSUME UNCHANGED holders PROVE Only(b, a) /\ UNCHANGED holders[a]
    BY <1>1, <1>2 DEF Only
  <1>3. ASSUME NEW r \in Requests, NEW t, NEW q, Issues(r, t, q)
        PROVE  Only(b, a) /\ UNCHANGED holders[a]
    <2>1. requests[r].browser # b
      BY <1>0, <1>3, <1>N, Pointwise DEF Issues
    <2>2. \A c \in Accounts : b \in holders'[c] <=> b \in holders[c]
      BY <1>0, <1>3, <2>1 DEF Issues, AuthTypeOK
    <2>3. holders'[a] \subseteq {b}
      BY DEF Only, Alone
    <2>4. requests[r].account # a
      BY <1>0, <1>3, <2>1, <2>3 DEF Issues, AuthTypeOK
    <2>5. holders'[a] = holders[a]
      BY <1>0, <1>3, <2>4 DEF Issues, AuthTypeOK
    <2>6. b \in holders'[a] /\ \A c \in Accounts : b \in holders'[c] => c = a
      BY DEF Only
    <2> QED
      BY <1>1, <2>2, <2>5, <2>6 DEF Only
  <1> QED
    BY <1>0, <1>2, <1>3
       DEF AStep, Arrives, Ends, GoesOn, Swallowed, Clears, Answer, AnswerLost,
           Crash, TokenExpires, CookieExpires, history, Frame

LEMMA NothingStep ==
  ASSUME AuthInv, Next
  PROVE  NothingLeft'
  <1>0. /\ AStep /\ AuthTypeOK /\ AuthTypeOK' /\ TokensOwned /\ RequestsShaped
        /\ RequestsShaped' /\ CookieCurrent /\ OneAtATime /\ NothingLeft
    BY NextIsAStep, TypeStep, ShapeStep DEF AuthInv
  <1>N. None \notin Browsers /\ None \notin Accounts /\ None \notin Tokens
    BY AuthAssumption DEF AuthAssumption
  <1> SUFFICES ASSUME NEW b \in Browsers, NEW a \in Accounts, Only(b, a)', Leaving(b)'
               PROVE  ~Verified(stored[a])'
    BY DEF NothingLeft, Leaving
  <1>A. Only(b, a) /\ Alone(b, a) /\ b \notin disturbed'
    BY OnlyBefore DEF Only, Alone, Leaving
  <1>B. ASSUME Leaving(b) PROVE ~Verified(stored[a])
    BY <1>0, <1>A, <1>B DEF NothingLeft, Leaving
  \* The cookie it still has is that of the row, and it has expired.
  <1>C. ASSUME cookies[b] \in expired, ~Answering(b, a) PROVE ~Verified(stored[a])
    <2>1. cookies[b] # None /\ owner[cookies[b]] \in Accounts /\ b \in holders[owner[cookies[b]]]
      BY <1>0, <1>C, <1>N DEF TokensOwned, AuthTypeOK
    <2>2. owner[cookies[b]] = a
      BY <1>A, <2>1 DEF Only
    <2> QED
      BY <1>0, <1>A, <1>C, <2>1, <2>2 DEF CookieCurrent, Verified
  <1>1. ASSUME NEW r \in Requests, NEW c \in Browsers, NEW q, Arrives(r, c, q)
        PROVE  ~Verified(stored[a])'
    <2>1. /\ requests'[r] = q /\ \A s \in Requests \ {r} : requests'[s] = requests[s]
          /\ q.browser = c
          /\ requests[r].browser = None
      BY <1>0, <1>1, Pointwise DEF Arrives, RequestsShaped, RequestShape
    <2>2. CASE Leaving(b)
      BY <1>1, <1>B, <2>2 DEF Arrives, Frame, Verified
    <2>3. CASE ~Leaving(b)
      <3>1. c = b /\ q.stage = "answer" /\ cookies[b] # None
        BY <1>1, <1>N, <2>1, <2>3 DEF Arrives, Frame, Leaving
      <3>2. ~Busy(b)
        BY <1>1, <1>A, <3>1 DEF Arrives
      <3>3. cookies[b] \in expired
        BY <1>1, <3>1 DEF Arrives, Verified
      <3> QED
        BY <1>1, <1>C, <3>2, <3>3 DEF Answering, Busy, Arrives, Frame, Verified
    <2> QED
      BY <2>2, <2>3
  <1>2. ASSUME NEW r \in Requests, NEW q, GoesOn(r, q) \/ Ends(r) \/ Swallowed(r, q)
        PROVE  ~Verified(stored[a])'
    <2>1. RequestShape(requests[r]) /\ requests[r] \in RequestRecord
      BY <1>0 DEF RequestsShaped, AuthTypeOK
    <2>2. Leaving(b)
      <3>1. requests[r].granted = None
        BY <1>2, <2>1 DEF GoesOn, Ends, Swallowed, RequestShape, Queries
      <3>2. ~(requests[r].browser = b /\ requests'[r].browser = b /\ requests'[r].stage = "answer")
        BY <1>0, <1>2, <1>A, <2>1, Pointwise DEF GoesOn, Ends, Swallowed, Idle, RequestRecord
      <3>3. requests'[r].browser \in {None, requests[r].browser}
        BY <1>0, <1>2, <2>1, Pointwise DEF GoesOn, Ends, Swallowed, Idle, RequestRecord
      <3>4. \A s \in Requests \ {r} : requests'[s] = requests[s]
        BY <1>0, <1>2, Pointwise DEF GoesOn, Ends, Swallowed
      <3> QED
        BY <1>2, <1>N, <3>1, <3>2, <3>3, <3>4
           DEF Leaving, GoesOn, Ends, Swallowed, Frame
    <2> QED
      BY <1>2, <1>B, <2>2 DEF GoesOn, Ends, Swallowed, Frame, Verified
  <1>3. ASSUME NEW r \in Requests, NEW t, NEW q, Issues(r, t, q)
        PROVE  ~Verified(stored[a])'
    <2>1. /\ requests'[r] = q /\ \A s \in Requests \ {r} : requests'[s] = requests[s]
      BY <1>0, <1>3, Pointwise DEF Issues
    <2>2. requests[r].browser # b
      BY <1>3, <1>N, <2>1 DEF Issues, Leaving
    <2>3. requests[r].account # a
      BY <1>0, <1>3, <2>2 DEF Issues, AuthTypeOK, Only, Alone
    <2>4. Leaving(b)
      BY <1>3, <2>1, <2>2 DEF Issues, Leaving
    <2> QED
      BY <1>0, <1>3, <1>B, <2>3, <2>4 DEF Issues, AuthTypeOK, Verified
  <1>4. ASSUME NEW r \in Requests, NEW q, Clears(r, q)
        PROVE  ~Verified(stored[a])'
    <2>1. /\ requests'[r] = q /\ \A s \in Requests \ {r} : requests'[s] = requests[s]
      BY <1>0, <1>4, Pointwise DEF Clears
    <2>2. CASE requests[r].account = a
      BY <1>0, <1>4, <2>2 DEF Clears, AuthTypeOK, Verified
    <2>3. CASE requests[r].account # a
      <3>1. requests[r].browser # b
        BY <1>4, <1>A, <2>3 DEF Clears, Only
      <3>2. Leaving(b)
        BY <1>4, <2>1, <3>1 DEF Clears, Leaving
      <3> QED
        BY <1>0, <1>4, <1>B, <2>3, <3>2 DEF Clears, AuthTypeOK, Verified
    <2> QED
      BY <2>2, <2>3
  <1>5. ASSUME NEW r \in Requests, Answer(r)
        PROVE  ~Verified(stored[a])'
    <2>1. /\ requests'[r] = Idle /\ \A s \in Requests \ {r} : requests'[s] = requests[s]
          /\ requests[r].stage = "answer"
      BY <1>5, AnswerPointwise
    <2>2. CASE requests[r].browser = b
      <3>1. cookies'[b] = requests[r].granted
        BY <1>0, <1>5, <2>2 DEF Answer, AuthTypeOK
      <3>2. \A s \in Requests : requests[s].browser = b => s = r
        BY <1>0, <1>A, <2>2 DEF OneAtATime, Alone
      <3>3. requests[r].granted = None
        BY <1>N, <2>1, <3>1, <3>2 DEF Leaving, Idle
      <3>4. Leaving(b)
        BY <2>1, <2>2, <3>2, <3>3 DEF Leaving
      <3> QED
        BY <1>5, <1>B, <3>4 DEF Answer, table, Verified
    <2>3. CASE requests[r].browser # b
      <3>1. Leaving(b)
        BY <1>0, <1>5, <1>N, <2>1, <2>3 DEF Leaving, Idle, Answer, AuthTypeOK
      <3> QED
        BY <1>5, <1>B, <3>1 DEF Answer, table, Verified
    <2> QED
      BY <2>2, <2>3
  <1>6. ASSUME NEW r \in Requests, AnswerLost(r)
        PROVE  ~Verified(stored[a])'
    <2>1. /\ requests'[r] = Idle /\ \A s \in Requests \ {r} : requests'[s] = requests[s]
          /\ requests[r].browser # b
      BY <1>6, <1>A, AnswerPointwise DEF AnswerLost
    <2>2. Leaving(b)
      BY <1>6, <1>N, <2>1 DEF Leaving, Idle, AnswerLost, clients
    <2> QED
      BY <1>6, <1>B, <2>2 DEF AnswerLost, table, clients, Verified
  <1>7. ASSUME Crash PROVE ~Verified(stored[a])'
    <2>1. ~Busy(b)
      BY <1>7, <1>A DEF Crash
    <2>2. cookies[b] = None
      BY <1>7, <1>N DEF Crash, Leaving, Idle, clients
    <2>3. Leaving(b)
      BY <2>1, <2>2 DEF Leaving, Busy
    <2> QED
      BY <1>7, <1>B, <2>3 DEF Crash, table, clients, Verified
  <1>8. ASSUME NEW t \in Tokens, TokenExpires(t)
        PROVE  ~Verified(stored[a])'
    BY <1>8, <1>B DEF TokenExpires, table, Leaving, Verified
  <1>9. ASSUME NEW c \in Browsers, CookieExpires(c)
        PROVE  ~Verified(stored[a])'
    <2>1. CASE Leaving(b)
      BY <1>9, <1>B, <2>1 DEF CookieExpires, table, Verified
    <2>2. CASE ~Leaving(b)
      <3>1. c = b /\ ~ \E r \in Requests : requests[r].browser = b /\ requests[r].stage = "answer"
        BY <1>0, <1>9, <2>2 DEF Leaving, CookieExpires, AuthTypeOK
      <3> QED
        BY <1>9, <1>C, <3>1 DEF CookieExpires, table, Verified, Answering
    <2> QED
      BY <2>1, <2>2
  <1> QED
    BY <1>0, <1>1, <1>2, <1>3, <1>4, <1>5, <1>6, <1>7, <1>8, <1>9 DEF AStep
-----------------------------------------------------------------------------
(* The invariant as a whole.                                               *)

LEMMA AuthInitInv == Init => AuthInv
  <1> SUFFICES ASSUME Init PROVE AuthInv
    OBVIOUS
  <1>1. AuthTypeOK
    BY TypeInit
  <1>2. /\ Registered = {} /\ \A r \in Requests : requests[r] = Idle
        /\ \A b \in Browsers : cookies[b] = None
        /\ \A a \in Accounts : stored[a] = None /\ holders[a] = {}
        /\ expired = {}
    BY DEF Init, Registered
  <1>3. \A r \in Requests : RequestShape(requests[r]) /\ requests[r].granted = None
                            /\ requests[r].browser = None /\ requests[r].token = None
    BY <1>2 DEF RequestShape, Idle
  <1>4. None \notin Browsers
    BY AuthAssumption DEF AuthAssumption
  <1> QED
    BY <1>1, <1>2, <1>3, <1>4
       DEF AuthInv, UniqueAccounts, TokensOwned, RequestsShaped, StaleStaysStale, OneAtATime,
           CookieCurrent, GrantCurrent, NothingLeft, Only

LEMMA AuthNextInv == AuthInv /\ [Next]_vars => AuthInv'
  <1> SUFFICES ASSUME AuthInv, [Next]_vars PROVE AuthInv'
    OBVIOUS
  <1>1. CASE Next
    BY <1>1, TypeStep, UniqueStep, OwnedStep, ShapeStep, StaleStep, OneStep, CookieStep,
       GrantStep, NothingStep DEF AuthInv
  <1>2. CASE UNCHANGED vars
    BY <1>2 DEF vars, table, clients, history, AuthInv, AuthTypeOK, UniqueAccounts,
       Registered, TokensOwned, Issued, RequestsShaped, RequestShape, StaleStaysStale,
       OneAtATime, CookieCurrent, Alone, Answering, GrantCurrent, NothingLeft, Only, Verified
  <1> QED
    BY <1>1, <1>2

\* The invariant holds in every reachable state: what each request under way
\* knows of the row of its account, and what the cookies have to do with the table.
THEOREM AuthInvAlways == Spec => []AuthInv
  BY AuthInitInv, AuthNextInv, PTL DEF Spec

\* The variables keep their types (auth.service.ts, user.entity.ts).
THEOREM AuthTypeAlways == Spec => []AuthTypeOK
  <1>1. AuthInv => AuthTypeOK
    BY DEF AuthInv
  <1> QED
    BY <1>1, AuthInvAlways, PTL

\* However registrations interleave, no name and no email is taken twice
\* (auth.service.ts:43-58).
THEOREM UniqueAccountsAlways == Spec => []UniqueAccounts
  <1>1. AuthInv => UniqueAccounts
    BY DEF AuthInv
  <1> QED
    BY <1>1, AuthInvAlways, PTL

\* A token that was rotated or revoked when it arrived is never exchanged,
\* although check and write are two queries (auth.service.ts:94-100).
THEOREM ReplayRefusedAlways == Spec => []ReplayRefused
  <1>1. AuthInv => ReplayRefused
    BY DEF AuthInv, StaleStaysStale, ReplayRefused
  <1> QED
    BY <1>1, AuthInvAlways, PTL

\* Failing queries, expiry and rotation alone never separate the cookie of a
\* browser from the row of its account (auth.service.ts:117-139).
THEOREM SessionSurvivesAlways == Spec => []SessionSurvives
  <1>1. AuthInv => SessionSurvives
    <2> SUFFICES ASSUME AuthInv, NEW b \in Browsers, NEW a \in Accounts, Alone(b, a),
                        ~Busy(b), cookies[b] # None, owner[cookies[b]] = a
                 PROVE  stored[a] = cookies[b]
      BY DEF SessionSurvives
    <2>1. ~Answering(b, a)
      BY DEF Answering, Busy
    <2> QED
      BY <2>1 DEF AuthInv, CookieCurrent
  <1> QED
    BY <1>1, AuthInvAlways, PTL

\* A browser of one account that lost its cookie left no token that works
\* (auth.service.ts:103-113).
THEOREM LogoutEndsSessionAlways == Spec => []LogoutEndsSession
  <1>1. AuthInv => LogoutEndsSession
    BY DEF AuthInv, NothingLeft, Only, LogoutEndsSession, Busy
  <1> QED
    BY <1>1, AuthInvAlways, PTL
=============================================================================
