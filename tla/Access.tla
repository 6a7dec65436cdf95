------------------------------- MODULE Access -------------------------------
(***************************************************************************)
(* Who may use the dashboard: the session store, token login, sign-in      *)
(* through an OIDC provider, and the limit on login attempts               *)
(* (internal/server: sessions.go, oidc.go, ratelimit.go, server.go).       *)
(*                                                                         *)
(* Every browser is a device of its own.  Deadlines are the time that is   *)
(* left until them, in ticks; an attempt is refilled per tick.  A sign-in  *)
(* waits for the provider between two steps, and other requests, a         *)
(* restart and the clock move on meanwhile.                                *)
(***************************************************************************)
EXTENDS Integers, FiniteSets, FiniteSetsExt

CONSTANTS
    Browsers,
    Tokens,        \* session tokens the server will draw, each once
    States,        \* state parameters of sign-ins, each once
    MaxSessions,   \* maxSessions, of sessions and of pending sign-ins
    Lifetime,      \* sessionLifetime
    OIDCLifetime,  \* oidcSessionLifetime
    Window,        \* oidcLoginWindow
    Burst,         \* attempts an address has at once
    Idle,          \* ticks after which an address is forgotten
    MaxVisitors,   \* maxRateLimitVisitors
    Requests,      \* the kinds of requests that are sent
    Verdicts       \* the answers of the provider

ASSUME NamesAssumption == "none" \notin Browsers \cup Tokens \cup States
ASSUME LimitsAssumption ==
    /\ MaxSessions \in Nat \ {0} /\ MaxVisitors \in Nat
    /\ Lifetime \in Nat \ {0} /\ OIDCLifetime \in Nat \ {0} /\ Window \in Nat \ {0}
    /\ Burst \in Nat \ {0} /\ Idle \in Nat
    /\ Idle + 1 >= Burst \* 5 attempts are refilled within the 3 minutes

None == "none"

VARIABLES
    oidc,     \* cfg.Server.OIDC.Enabled
    tls,      \* the listener asks for a device certificate
    drawn,    \* tokens and states already used
    entries,  \* sessions by token: time left, device, subject
    pending,  \* sign-ins at the provider, by state: time left, device
    calls,    \* callbacks that wait for the provider
    jar,      \* the session cookie of each browser
    pjar,     \* its sign-in cookie
    table,    \* addresses with a limiter of their own
    bucket, overflow,   \* attempts left, per address and in the shared limiter
    seen,     \* ticks since an address was seen
    swept,    \* a cleanup has run in this tick
    right,    \* ghost: login still entitles its browser, and until when
    ideal,    \* ghost: attempts left if no address were ever forgotten
    answer    \* ghost: the request just admitted by its cookie

config == <<oidc, tls>>
store == <<drawn, entries, pending>>
jars == <<jar, pjar>>
limiter == <<table, bucket, overflow, seen, swept, ideal>>
vars == <<config, store, calls, jars, limiter, right, answer>>

Nobody == [left |-> 0, device |-> None, subject |-> None]
Live == {t \in Tokens : entries[t].device # None}
Waiting == {s \in States : pending[s].device # None}
Less(n) == IF n = 0 THEN 0 ELSE n - 1

(* New, Start: the stores of a new process are empty.                      *)
Fresh ==
    /\ entries = [t \in Tokens |-> Nobody]
    /\ pending = [s \in States |-> Nobody]
    /\ table = {} /\ overflow = Burst /\ swept = FALSE
    /\ bucket = [b \in Browsers |-> Burst] /\ seen = [b \in Browsers |-> 0]
Init ==
    /\ oidc \in BOOLEAN /\ tls \in BOOLEAN
    /\ Fresh
    /\ drawn = {} /\ calls = {}
    /\ jar = [b \in Browsers |-> None] /\ pjar = [b \in Browsers |-> None]
    /\ ideal = [b \in Browsers |-> Burst]
    /\ right = [t \in Tokens |-> Nobody]
    /\ answer = Nobody

-----------------------------------------------------------------------------
(* A request: over https or direct loopback, to the configured host, with  *)
(* the origin of the dashboard, another or none, reading or changing, with *)
(* the admin, the metrics or no token.                                     *)
RequestType == [https : BOOLEAN, loopback : BOOLEAN, host : BOOLEAN,
                origin : {"same", "other", None}, reads : BOOLEAN,
                bearer : {"admin", "metrics", None}]

ASSUME RequestsAssumption == Requests \subseteq RequestType

requestDevice(b) == IF tls THEN b ELSE "any"
safeTransport(r) == r.https \/ r.loopback
sameOrigin(r) == r.origin = "same"
safeCookieRequest(r) == safeTransport(r) /\ (r.reads \/ sameOrigin(r))
oidcRequestAllowed(r) == oidc /\ r.https /\ r.host

-----------------------------------------------------------------------------
(* The session store. *)

Prune(map) == [k \in DOMAIN map |-> IF map[k].left = 0 THEN Nobody ELSE map[k]]
Count(map) == Cardinality({k \in DOMAIN map : map[k].device # None})

(* createIdentityGroups: expired sessions make room first.                 *)
CanCreate(left) == Count(Prune(entries)) < MaxSessions /\ left > 0
Created(t, device, subject, left) ==
    [Prune(entries) EXCEPT ![t] = [left |-> left, device |-> device, subject |-> subject]]
revoke(map, t) == IF t \in Tokens THEN [map EXCEPT ![t] = Nobody] ELSE map

(* validSession: the session of the cookie is there, not expired, of this  *)
(* device, and with OIDC the session of a person.                          *)
validSession(t, b) ==
    /\ t \in Live /\ entries[t].left > 0
    /\ entries[t].device = requestDevice(b)
    /\ oidc => entries[t].subject # None
(* A lookup drops an expired session.                                      *)
LookedUp(t) == IF t \in Live /\ entries[t].left = 0 THEN revoke(entries, t) ELSE entries

-----------------------------------------------------------------------------
(* Login attempts. *)

SweptTooSoon == IF swept THEN table ELSE {b \in table : seen[b] < 1}
(* getLimiter, first part: once in a while long unseen addresses go.       *)
Swept == IF swept THEN table ELSE {b \in table : seen[b] <= Idle}

(* getLimiter, loginRateLimit: the attempt of an address is taken from its *)
(* own limiter, or from the shared one while the table is full.            *)
Own(b) == b \in Swept \/ Cardinality(Swept) < MaxVisitors
Level(b) == IF b \in Swept THEN bucket[b] ELSE Burst
Look(b, taken) ==
    /\ swept' = TRUE
    /\ IF Own(b)
       THEN /\ table' = Swept \cup {b}
            /\ bucket' = [bucket EXCEPT ![b] = Level(b) - taken]
            /\ seen' = [seen EXCEPT ![b] = 0]
            /\ ideal' = [ideal EXCEPT ![b] = @ - taken]
            /\ UNCHANGED overflow
       ELSE /\ table' = Swept
            /\ overflow' = overflow - taken
            /\ UNCHANGED <<bucket, seen, ideal>>
Allow(b) == (IF Own(b) THEN Level(b) ELSE overflow) > 0 /\ Look(b, 1)
Limited(b) == (IF Own(b) THEN Level(b) ELSE overflow) = 0 /\ Look(b, 0)

(* An attempt over the limit is told to come back later.                   *)
TooMany(b) ==
    /\ Limited(b) /\ answer' = Nobody
    /\ UNCHANGED <<config, store, calls, jars, right>>

-----------------------------------------------------------------------------
(* handleLoginSubmit: the token replaces the session of the browser by a   *)
(* new one; the old one goes only when the new one is there.  A form that  *)
(* names no origin is taken, one that names another is not.                *)
FromElsewhere(r) == r.origin # None /\ ~sameOrigin(r)
handleLoginSubmit(b, r) ==
    /\ Allow(b) /\ answer' = Nobody
    /\ \/ /\ \/ oidc \/ ~safeTransport(r) \/ FromElsewhere(r) \/ r.bearer # "admin"
          /\ UNCHANGED <<store, jar, right>>
       \/ /\ ~oidc /\ safeTransport(r) /\ ~FromElsewhere(r) /\ r.bearer = "admin"
          /\ \/ /\ ~CanCreate(Lifetime)
                /\ entries' = Prune(entries)
                /\ UNCHANGED <<drawn, pending, jar, right>>
             \/ \E t \in Tokens \ drawn :
                   /\ CanCreate(Lifetime)
                   /\ drawn' = drawn \cup {t}
                   /\ entries' = revoke(Created(t, requestDevice(b), None, Lifetime), jar[b])
                   /\ right' = [revoke(right, jar[b]) EXCEPT
                                   ![t] = [left |-> Lifetime, device |-> requestDevice(b), subject |-> None]]
                   /\ jar' = [jar EXCEPT ![b] = t]
                   /\ UNCHANGED pending
    /\ UNCHANGED <<config, calls, pjar>>

(* handleLogin, beginOIDC: the browser leaves for the provider with a      *)
(* fresh state, remembered here and in a cookie.                           *)
beginOIDC(b, r) ==
    /\ oidcRequestAllowed(r) /\ answer' = Nobody
    /\ \/ /\ Count(Prune(pending)) >= MaxSessions
          /\ pending' = Prune(pending)
          /\ UNCHANGED <<drawn, pjar>>
       \/ \E s \in States \ drawn :
             /\ Count(Prune(pending)) < MaxSessions
             /\ drawn' = drawn \cup {s}
             /\ pending' = [Prune(pending) EXCEPT
                               ![s] = [left |-> Window, device |-> requestDevice(b), subject |-> None]]
             /\ pjar' = [pjar EXCEPT ![b] = s]
    /\ UNCHANGED <<config, entries, calls, jar, limiter, right>>

callbackKeepsPending(b, s, r) ==
    /\ oidc /\ Allow(b) /\ answer' = Nobody
    /\ UNCHANGED pending
    /\ IF oidcRequestAllowed(r) /\ pjar[b] = s
       THEN /\ pjar' = [pjar EXCEPT ![b] = None]
            /\ IF pending[s].left > 0 /\ pending[s].device = requestDevice(b)
               THEN calls' = calls \cup {[by |-> b, state |-> s, old |-> jar[b], left |-> 0, id |-> 0]}
               ELSE UNCHANGED calls
       ELSE UNCHANGED <<pjar, calls>>
    /\ UNCHANGED <<config, drawn, entries, jar, right>>
(* completeOIDC, first part: a state is spent by the first callback that   *)
(* shows it, whatever becomes of that one.                                 *)
callback(b, s, r) ==
    /\ oidc /\ Allow(b) /\ answer' = Nobody
    /\ IF oidcRequestAllowed(r) /\ pjar[b] = s
       THEN /\ pending' = [pending EXCEPT ![s] = Nobody]
            /\ pjar' = [pjar EXCEPT ![b] = None]
            /\ IF pending[s].left > 0 /\ pending[s].device = requestDevice(b)
               THEN calls' = calls \cup {[by |-> b, state |-> s, old |-> jar[b], left |-> 0, id |-> 0]}
               ELSE UNCHANGED calls
       ELSE UNCHANGED <<pending, pjar, calls>>
    /\ UNCHANGED <<config, drawn, entries, jar, right>>

(* allowedAMR, for the configured method *)
allowedAMR(amr, method) ==
    /\ {"mfa", "pwd"} \subseteq amr
    /\ CASE method = "mfa"      -> TRUE
         [] method = "hardware" -> "hwk" \in amr
         [] method = "webauthn" -> amr \cap {"hwk", "swk"} # {}
         [] OTHER               -> FALSE

(* What the provider says: the token is genuine and for this sign-in, the  *)
(* factors, the age of the authentication, the group, the time the id      *)
(* token has left.                                                         *)
VerdictType == [genuine : BOOLEAN, amr : SUBSET {"pwd", "mfa", "hwk", "swk"},
                age : Nat, admin : BOOLEAN, id : 1..OIDCLifetime + 1]
ASSUME VerdictsAssumption == Verdicts \subseteq VerdictType
Accepted(v) == v.genuine /\ allowedAMR(v.amr, "webauthn") /\ v.age <= Window /\ v.admin

ExpiryIgnoresID(id) == OIDCLifetime
(* The session ends with the id token, or earlier.                         *)
Expiry(id) == Min({OIDCLifetime, id})

(* completeOIDC, second part: exchange, verification, user info.           *)
verify(c, v) ==
    /\ c.left = 0 /\ c.id = 0 /\ answer' = Nobody
    /\ calls' = (calls \ {c}) \cup (IF Accepted(v)
                    THEN {[c EXCEPT !.left = Expiry(v.id), !.id = v.id]} ELSE {})
    /\ UNCHANGED <<config, store, jars, limiter, right>>

(* completeOIDC, last part: the session, then the end of the session whose *)
(* cookie came with the callback.  A deadline that passed meanwhile, or a  *)
(* full store, ends the sign-in.                                           *)
finish(c) ==
    /\ c.id # 0 /\ answer' = Nobody
    /\ calls' = calls \ {c}
    /\ \/ /\ ~CanCreate(c.left)
          /\ entries' = Prune(entries)
          /\ UNCHANGED <<drawn, jar, right>>
       \/ \E t \in Tokens \ drawn :
             /\ CanCreate(c.left)
             /\ drawn' = drawn \cup {t}
             /\ entries' = revoke(Created(t, requestDevice(c.by), c.state, c.left), c.old)
             /\ right' = [revoke(right, c.old) EXCEPT
                             ![t] = [left |-> c.id, device |-> requestDevice(c.by), subject |-> c.state]]
             /\ jar' = [jar EXCEPT ![c.by] = t]
    /\ UNCHANGED <<config, pending, pjar, limiter>>

-----------------------------------------------------------------------------
(* The cookie is looked up, and the answer depends on its session.         *)
Cookie(b, r) ==
    /\ entries' = LookedUp(jar[b])
    /\ answer' = IF validSession(jar[b], b) /\ safeCookieRequest(r)
                 THEN [left |-> 1, device |-> b, subject |-> jar[b]] ELSE Nobody
    /\ UNCHANGED <<drawn, pending>>

(* requireAuth: the admin token is enough without OIDC, or the cookie.     *)
Barred(r) == (oidc /\ ~oidcRequestAllowed(r)) \/ ~safeTransport(r)
requireAuth(b, r) ==
    /\ ~Barred(r)
    /\ IF ~oidc /\ r.bearer = "admin"
       THEN answer' = Nobody /\ UNCHANGED store
       ELSE Cookie(b, r)
    /\ UNCHANGED <<config, calls, jars, limiter, right>>

(* requirePageAuth: only the cookie opens a page.                          *)
requirePageAuth(b, r) ==
    /\ oidc => oidcRequestAllowed(r)
    /\ Cookie(b, r)
    /\ UNCHANGED <<config, calls, jars, limiter, right>>

(* requireMetricsAuth: the metrics token opens /metrics, with no session.  *)
requireMetricsAuth(b, r) ==
    \/ /\ r.bearer = "metrics" /\ safeTransport(r) /\ answer' = Nobody
       /\ UNCHANGED <<config, store, calls, jars, limiter, right>>
    \/ r.bearer # "metrics" /\ requireAuth(b, r)

(* handleLogout, behind requireAuth: the session of the cookie ends, which *)
(* nobody looks at when the admin token lets the request through.          *)
handleLogout(b, r) ==
    /\ ~Barred(r) /\ ~r.reads
    /\ \/ ~oidc /\ r.bearer = "admin"
       \/ validSession(jar[b], b) /\ safeCookieRequest(r)
    /\ entries' = revoke(entries, jar[b]) /\ right' = revoke(right, jar[b])
    /\ jar' = [jar EXCEPT ![b] = None]
    /\ answer' = Nobody
    /\ UNCHANGED <<config, drawn, pending, calls, pjar, limiter>>

(* Shutdown and a new process: nobody is signed in, callbacks are cut off. *)
Restart ==
    /\ drawn # {}
    /\ entries' = [t \in Tokens |-> Nobody] /\ pending' = [s \in States |-> Nobody]
    /\ right' = [t \in Tokens |-> Nobody]
    /\ table' = {} /\ overflow' = Burst /\ swept' = FALSE
    /\ bucket' = [b \in Browsers |-> Burst] /\ seen' = [b \in Browsers |-> 0]
    /\ ideal' = [b \in Browsers |-> Burst]
    /\ calls' = {} /\ answer' = Nobody
    /\ UNCHANGED <<config, drawn, jars>>

(* A browser profile is carried to another device.                         *)
CopyProfile(b, c) ==
    /\ b # c /\ <<jar[b], pjar[b]>> # <<jar[c], pjar[c]>>
    /\ jar' = [jar EXCEPT ![c] = jar[b]] /\ pjar' = [pjar EXCEPT ![c] = pjar[b]]
    /\ answer' = Nobody
    /\ UNCHANGED <<config, store, calls, limiter, right>>

Aged(map) == [k \in DOMAIN map |-> [map[k] EXCEPT !.left = Less(@)]]
Refill(n) == Min({Burst, n + 1})
Tick ==
    /\ entries' = Aged(entries) /\ pending' = Aged(pending) /\ right' = Aged(right)
    /\ calls' = {[c EXCEPT !.left = Less(@), !.id = IF @ = 0 THEN 0 ELSE Max({1, @ - 1})] : c \in calls}
    /\ overflow' = Refill(overflow) /\ swept' = FALSE
    /\ bucket' = [b \in Browsers |-> Refill(bucket[b])]
    /\ ideal' = [b \in Browsers |-> Refill(ideal[b])]
    /\ seen' = [b \in Browsers |-> Min({Idle + 1, seen[b] + 1})]
    /\ answer' = Nobody
    /\ UNCHANGED <<config, drawn, jars, table>>

Next ==
    \/ \E b \in Browsers, r \in Requests :
          \/ handleLoginSubmit(b, r) \/ beginOIDC(b, r) \/ handleLogout(b, r)
          \/ requireAuth(b, r) \/ requirePageAuth(b, r) \/ requireMetricsAuth(b, r)
          \/ \E s \in States : callback(b, s, r)
    \/ \E b \in Browsers : TooMany(b) \/ \E c \in Browsers : CopyProfile(b, c)
    \/ \E c \in calls : finish(c) \/ \E v \in Verdicts : verify(c, v)
    \/ Restart \/ Tick

Spec == Init /\ [][Next]_vars

-----------------------------------------------------------------------------
Deadlines == 0..Max({Lifetime, OIDCLifetime + 1, Window})
Records(keys) == [keys -> [left : Deadlines, device : Browsers \cup {"any", None},
                           subject : States \cup {None}]]
(* Every variable keeps its type. *)
TypeOK ==
    /\ oidc \in BOOLEAN /\ tls \in BOOLEAN /\ drawn \subseteq Tokens \cup States
    /\ entries \in Records(Tokens) /\ right \in Records(Tokens) /\ pending \in Records(States)
    /\ calls \subseteq [by : Browsers, state : States, old : Tokens \cup {None},
                        left : Deadlines, id : Deadlines]
    /\ jar \in [Browsers -> Tokens \cup {None}] /\ pjar \in [Browsers -> States \cup {None}]
    /\ table \subseteq Browsers /\ overflow \in 0..Burst
    /\ bucket \in [Browsers -> 0..Burst] /\ ideal \in [Browsers -> 0..Burst]
    /\ seen \in [Browsers -> 0..Idle + 1] /\ swept \in BOOLEAN

(* A request admitted by its cookie comes from the device that signed in,  *)
(* and that sign-in still stands: not logged out, not replaced, not cut    *)
(* off by a restart, not older than its id token.                          *)
AdmittedMeansEntitled ==
    /\ TypeOK
    /\ answer # Nobody =>
          LET t == answer.subject IN
          right[t].left > 0 /\ right[t].device = requestDevice(answer.device)

(* One sign-in at the provider makes at most one session, although the     *)
(* callback may be repeated while the first waits for the provider.        *)
OneSessionPerSignIn ==
    /\ \A t, u \in Live : entries[t].subject = entries[u].subject /\ t # u
                             => entries[t].subject = None
    /\ \A c \in calls : \A t \in Live : entries[t].subject # c.state
    /\ \A c, d \in calls : c.state = d.state => c = d

(* The stores stay within their limits, and forgetting an address gives it *)
(* no attempts back: what it has when it returns, it would have had anyway.*)
LimitsHold ==
    /\ Cardinality(Live) <= MaxSessions /\ Cardinality(Waiting) <= MaxSessions
    /\ Cardinality(table) <= MaxVisitors
    /\ \A b \in Browsers : IF b \in table THEN bucket[b] = ideal[b]
                           ELSE ideal[b] = Burst
=============================================================================
