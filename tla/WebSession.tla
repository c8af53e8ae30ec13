---------------------------- MODULE WebSession ----------------------------
(***************************************************************************)
(* Who may use the server: the login form with its throttle, the signed    *)
(* session cookie, the admin token on requests. The throttle is one        *)
(* counter per process with a fixed window; a login looks at it, compares  *)
(* the token and counts a failure in three steps, with the time it read at *)
(* first. Cookies are not stored: they carry their expiry and are signed   *)
(* with the admin token, so they outlive a restart but not a new token.    *)
(*                                                                         *)
(* The composed server never routes to handleLogout (api/router.go has no  *)
(* /logout), so a cookie ends by its expiry or by a new token.             *)
(***************************************************************************)
EXTENDS Naturals, FiniteSets

CONSTANTS
    Browser,      \* clients that log in, one request at a time each
    Token,        \* values of the admin token
    Limit,        \* loginFailureLimit
    Window,       \* loginFailureWindow
    TTL,          \* SessionTTL
    MaxTime,      \* bound on the clock
    MaxRestarts,  \* bound on restarts
    None          \* no token, no cookie

ASSUME SessionAssumption ==
    /\ IsFiniteSet(Browser)
    /\ Limit \in Nat \ {0}
    /\ Window \in Nat \ {0}
    /\ TTL \in Nat \ {0}
    /\ MaxTime \in Nat
    /\ MaxRestarts \in Nat
    /\ None \notin Token

VARIABLES
    now,
    adminToken,    \* the configured token
    restarts,
    windowStart,   \* loginThrottle
    failures,
    post,          \* per browser: its login request in flight
    cookie,        \* per browser: the session cookie it keeps
    grant,         \* history: when and under which token the cookie was issued
    served         \* history: the last page served for that cookie

sessionVars == <<now, adminToken, restarts, windowStart, failures, post, cookie, grant, served>>

throttle == <<windowStart, failures>>

Cookie == [expires : Nat, signedWith : Token]

Moment == [time : Nat, token : Token \cup {None}]

Never == [time |-> 0, token |-> None]

\* The clock, the throttle, requests, cookies and histories hold values of their types.
SessionTypeOK ==
    /\ now \in Nat
    /\ adminToken \in Token
    /\ restarts \in 0 .. MaxRestarts
    /\ windowStart \in Nat
    /\ failures \in Nat
    /\ post \in [Browser -> [token : Token, now : Nat] \cup {None}]
    /\ cookie \in [Browser -> Cookie \cup {None}]
    /\ grant \in [Browser -> Moment]
    /\ served \in [Browser -> Moment]

\* The throttle's window starts at the zero time, long before the process.
SessionInit ==
    /\ now = Window
    /\ adminToken \in Token
    /\ restarts = 0
    /\ windowStart = 0
    /\ failures = 0
    /\ post = [b \in Browser |-> None]
    /\ cookie = [b \in Browser |-> None]
    /\ grant = [b \in Browser |-> Never]
    /\ served = [b \in Browser |-> Never]

-----------------------------------------------------------------------------

\* rollWindow: has the window passed at time t? A time read before the window was
\* moved on does not move it back.
Rolls(t) == t >= windowStart + Window

StartAt(t) == IF Rolls(t) THEN t ELSE windowStart

FailuresAt(t) == IF Rolls(t) THEN 0 ELSE failures

\* Mutant: one failure more is let through.
OverLimitByOne(t) == FailuresAt(t) > Limit

OverLimit(t) == FailuresAt(t) >= Limit

\* POST /login: the time is read and overLimit called under the lock. Over the limit
\* the answer is 429.
PostLogin(b, token) ==
    /\ post[b] = None
    /\ windowStart' = StartAt(now)
    /\ failures' = FailuresAt(now)
    /\ post' = IF OverLimit(now) THEN post ELSE [post EXCEPT ![b] = [token |-> token, now |-> now]]
    /\ UNCHANGED <<now, adminToken, restarts, cookie, grant, served>>

\* The wrong token: recordFailure with the time read before, and 401.
LoginFails(b) ==
    /\ post[b] # None
    /\ post[b].token # adminToken
    /\ windowStart' = StartAt(post[b].now)
    /\ failures' = FailuresAt(post[b].now) + 1
    /\ post' = [post EXCEPT ![b] = None]
    /\ UNCHANGED <<now, adminToken, restarts, cookie, grant, served>>

\* sessionValue: the cookie of a login at this moment.
SessionValue == [expires |-> now + TTL, signedWith |-> adminToken]

\* The right token: a cookie that ends TTL from now.
LoginSucceeds(b) ==
    /\ post[b] # None
    /\ post[b].token = adminToken
    /\ cookie' = [cookie EXCEPT ![b] = SessionValue]
    /\ grant' = [grant EXCEPT ![b] = [time |-> now, token |-> adminToken]]
    /\ served' = [served EXCEPT ![b] = Never]
    /\ post' = [post EXCEPT ![b] = None]
    /\ UNCHANGED <<now, adminToken, restarts, throttle>>

\* Mutant: a cookie is good for one moment too long.
ValidAtExpiry(c) == c # None /\ now <= c.expires /\ c.signedWith = adminToken

\* validSessionValue.
ValidSession(c) == c # None /\ now < c.expires /\ c.signedWith = adminToken

\* A page for the cookie; without a valid one the browser is sent to the login.
ServePage(b) ==
    /\ ValidSession(cookie[b])
    /\ served' = [served EXCEPT ![b] = [time |-> now, token |-> adminToken]]
    /\ UNCHANGED <<now, adminToken, restarts, throttle, post, cookie, grant>>

\* A restart, perhaps with another token: requests in flight are lost, and the throttle
\* starts anew.
RestartServer ==
    /\ restarts < MaxRestarts
    /\ restarts' = restarts + 1
    /\ adminToken' \in Token
    /\ windowStart' = 0
    /\ failures' = 0
    /\ post' = [b \in Browser |-> None]
    /\ UNCHANGED <<now, cookie, grant, served>>

SessionTick ==
    /\ now < MaxTime
    /\ now' = now + 1
    /\ UNCHANGED <<adminToken, restarts, throttle, post, cookie, grant, served>>

SessionNext ==
    \/ \E b \in Browser :
          \/ \E token \in Token : PostLogin(b, token)
          \/ LoginFails(b)
          \/ LoginSucceeds(b)
          \/ ServePage(b)
    \/ RestartServer
    \/ SessionTick

SessionSpec == SessionInit /\ [][SessionNext]_sessionVars

-----------------------------------------------------------------------------
(* Properties                                                              *)

InFlight == {b \in Browser : post[b] # None}

\* Within a window no more than Limit - 1 wrong tokens are tried, plus one for every
\* login that had passed the check before: overLimit and recordFailure take the lock
\* separately, so logins in flight overshoot, but never by more than that.
ThrottleHolds == failures + Cardinality(InFlight) <= Limit - 1 + Cardinality(Browser)

\* A session serves pages only under the token it was opened with and only until TTL
\* after its login, across restarts, changes of the token and repeated logins
\* (sessionValue, validSessionValue).
SessionsEnd ==
    \A b \in Browser :
        served[b] # Never =>
            /\ served[b].time < grant[b].time + TTL
            /\ served[b].token = grant[b].token
=============================================================================
