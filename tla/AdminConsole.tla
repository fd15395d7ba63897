---------------------------- MODULE AdminConsole ----------------------------
(***************************************************************************)
(* The browser side of the admin UI (admin-ui/assets/app.js) against the   *)
(* server process of ServerHost: signing in and out, the renewal of the    *)
(* access token by timers, and the trusted-addons table with its live      *)
(* refresh.  Time is counted in steps of 30 s, the retry delay; a session  *)
(* fetch is answered or fails within a step.  The server handles a session *)
(* fetch in one step (AuthSessions has the steps within); the cookie its   *)
(* answer sets is the browser's when the answer arrives.                   *)
(***************************************************************************)
EXTENDS ServerHost

CONSTANTS
    Starts,         \* deployments a behaviour may start in
    Fetches,        \* session fetches of the page that may be on their way
    Loads,          \* list loads of the page that may be on their way
    AccessTtl,      \* lifetime of an access token
    DefaultTtl,     \* the lifetime the page assumes until a renewal tells it
    RenewEarly,     \* renewed this long before the token expires ...
    RenewFloor,     \* ... but no sooner than this
    RenewCap,       \* ... and never later than this
    RetryDelay,     \* wait before the one retry of a renewal
    SessionTtl,     \* sliding lifetime of a session
    MaxTries,       \* attempts of fetchWithRetry
    MaxSignIns,     \* bound: sessions opened
    MaxWrites,      \* bound: trust requests of the page
    Requests        \* bound: what they ask, pairs of an addon and a key or Nil

ASSUME ConsoleAssumptions ==
    /\ AccessTtl \in Nat \ {0} /\ DefaultTtl \in Nat \ {0} /\ RenewEarly \in Nat
    /\ RenewFloor \in Nat \ {0} /\ RenewCap \in Nat \ {0}
    /\ RetryDelay \in Nat \ {0} /\ SessionTtl \in Nat \ {0} /\ MaxTries \in Nat \ {0}
    /\ MaxSignIns \in Nat /\ MaxWrites \in Nat /\ Requests \subseteq Addons \X (Keys \cup {Nil})
    /\ RenewCap + RetryDelay <= SessionTtl
    /\ \A s \in Starts :
          /\ s.clocks \subseteq 0..MaxClock /\ s.latestCommit \in {Nil} \cup 0..MaxClock
          /\ s.licence.expiresAt \in {Nil} \cup Nat
          /\ s.licence.addons # Nil => s.licence.addons.max \in {Nil} \cup Nat
          /\ s.paths \in Seq(Addons) /\ s.trusted \in [Addons -> Keys \cup {Nil}]
          /\ \A a \in Addons : /\ s.packages[a].tier \in {"official", "community"}
                              /\ s.packages[a].signer # Nil

VARIABLES
    signedIn,       \* currentUsername is set
    token,          \* time left to accessToken, Nil for no token
    pageAdmin,      \* currentIsGlobalAdmin
    cookie,         \* session of the browser's cookie, 0 for none
    timers,         \* pending renewal timers: which callback and time left
    handle,         \* the timer tokenRefreshTimer names, Nil for none
    fetches,        \* session fetches on their way
    misses,         \* history: renewals in a row that failed
    overtaken,      \* history: a renewal was on its way when the console signed in
    idle, minted,   \* server: time since each session was touched, Nil without a row; sessions opened
    admin,          \* server: the user is a global admin
    table,          \* keys the trusted-addons table shows, Nil for an error row
    loads,          \* list loads on their way
    write, writes   \* the trust request on its way; how many there were

pageVars == <<signedIn, token, pageAdmin, overtaken>>

timerVars == <<timers, handle>>

storeVars == <<idle, minted, admin>>

sessionVars == <<pageVars, timerVars, storeVars, cookie, fetches, misses>>

tableVars == <<table, loads, write, writes>>

vars == <<hostVars, sessionVars, tableVars>>

Smaller(a, b) == IF a < b THEN a ELSE b

Larger(a, b) == IF a < b THEN b ELSE a

Fetch(kind, c) == [kind |-> kind, session |-> c, got |-> "waiting", tries |-> 1, admin |-> FALSE]

Send(f, kind) == fetches[f] = Nil /\ fetches' = [fetches EXCEPT ![f] = Fetch(kind, cookie)]

Got(f, kind, answers) == fetches[f] # Nil /\ fetches[f].kind = kind /\ fetches[f].got \in answers

\* The cookie once the answer of f has arrived: a login and a renewal name
\* their session, a sign-out and the refusal of a session delete the cookie; a
\* refusal for want of a cookie and a fetch that failed leave it.  An answer
\* that is cut off has set it.
CookieAfter(f) ==
    CASE fetches[f].got \in {"ok", "cut"} -> fetches[f].session
      [] fetches[f].got = "no" /\ fetches[f].session # 0 -> 0
      [] OTHER -> cookie

Arrives(f) == cookie' = CookieAfter(f) /\ fetches' = [fetches EXCEPT ![f] = Nil]

(***************************************************************************)
(* scheduleTokenRenewal clears the timer it knows and sets another.        *)
(***************************************************************************)
\* Mutant of RenewDelay.
RenewDelayUncapped(ttl) == Larger(ttl - RenewEarly, RenewFloor)

RenewDelay(ttl) == Smaller(Larger(ttl - RenewEarly, RenewFloor), RenewCap)

Timer(kind, delay) == [kind |-> kind, left |-> delay]

ScheduleTokenRenewal(ttl) ==
    /\ handle' = Timer("renew", RenewDelay(ttl))
    /\ timers' = (timers \ {handle}) \cup {handle'}

\* The retry is put in place of a timer that is not cleared.
ScheduleRetry ==
    /\ handle' = Timer("retry", RetryDelay)
    /\ timers' = timers \cup {handle'}

StopTokenRenewal == timers' = timers \ {handle} /\ handle' = Nil

(***************************************************************************)
(* Signing in: the login form, or the cookie when the page is loaded.      *)
(***************************************************************************)
OnTheWay(kind) == \E f \in Fetches : fetches[f] # Nil /\ fetches[f].kind = kind

\* The operator waits for the page to load and submits the form once.
SubmitLogin(f) ==
    /\ Has("console") /\ ~signedIn /\ minted < MaxSignIns
    /\ ~OnTheWay("login") /\ ~OnTheWay("restore")
    /\ Send(f, "login")
    /\ UNCHANGED <<cookie, misses>> /\ UNCHANGED <<hostVars, pageVars, timerVars, storeVars, tableVars>>

\* showSession schedules the first renewal, before it knows the token's
\* lifetime; its loads are those of RefreshDashboardTiles.
ShowSession(f) ==
    /\ Got(f, "login", {"ok"}) \/ Got(f, "restore", {"ok"})
    /\ Arrives(f)
    /\ signedIn' = TRUE /\ token' = AccessTtl /\ pageAdmin' = fetches[f].admin /\ misses' = 0
    /\ overtaken' = (OnTheWay("renew") \/ OnTheWay("retry"))
    /\ ScheduleTokenRenewal(DefaultTtl)
    /\ UNCHANGED <<hostVars, storeVars, tableVars>>

LoginFails(f) ==
    /\ Got(f, "login", {"failed", "cut"})
    /\ Arrives(f)
    /\ UNCHANGED misses /\ UNCHANGED <<hostVars, pageVars, timerVars, storeVars, tableVars>>

\* A new page: nothing of the old one is left but the cookie.  The browser
\* gives up the old page's fetches, before or after an answer set the cookie.
Reload(f) ==
    /\ Has("reload")
    /\ signedIn' = FALSE /\ token' = Nil /\ pageAdmin' = FALSE /\ overtaken' = FALSE
    /\ timers' = {} /\ handle' = Nil /\ misses' = 0
    /\ cookie' \in {cookie} \cup {CookieAfter(g) : g \in {h \in Fetches : fetches[h] # Nil}}
    /\ fetches' = [g \in Fetches |-> IF g = f THEN Fetch("restore", cookie') ELSE Nil]
    /\ table' = Nil /\ loads' = [l \in Loads |-> Nil] /\ write' = Nil
    /\ UNCHANGED writes /\ UNCHANGED <<hostVars, storeVars>>

\* fetchWithRetry asks again when there was no answer; a 401 is final, and so
\* is an answer whose body does not come.
RestoreFails(f) ==
    /\ Got(f, "restore", {"no", "failed", "cut"})
    /\ IF fetches[f].got = "failed" /\ fetches[f].tries < MaxTries
       THEN /\ fetches' = [fetches EXCEPT ![f] =
                              [Fetch("restore", cookie) EXCEPT !.tries = fetches[f].tries + 1]]
            /\ UNCHANGED cookie
       ELSE Arrives(f)
    /\ UNCHANGED misses /\ UNCHANGED <<hostVars, pageVars, timerVars, storeVars, tableVars>>

(***************************************************************************)
(* Renewal.                                                                *)
(***************************************************************************)
Due(t) == t \in timers /\ t.left = 0

\* refreshAccessToken does nothing on a page that is signed out.
TimerFires(t, f) ==
    /\ Due(t)
    /\ timers' = timers \ {t}
    /\ IF signedIn THEN Send(f, t.kind) ELSE UNCHANGED fetches
    /\ UNCHANGED <<cookie, handle, misses>> /\ UNCHANGED <<hostVars, pageVars, storeVars, tableVars>>

\* The answer is used whoever is signed in by then, or nobody.
Renewed(f) ==
    /\ Got(f, "renew", {"ok"}) \/ Got(f, "retry", {"ok"})
    /\ Arrives(f)
    /\ token' = AccessTtl /\ misses' = 0
    /\ ScheduleTokenRenewal(AccessTtl)
    /\ UNCHANGED <<signedIn, pageAdmin, overtaken>> /\ UNCHANGED <<hostVars, storeVars, tableVars>>

NotRenewed(f) ==
    /\ Got(f, "renew", {"no", "failed", "cut"})
    /\ Arrives(f)
    /\ IF signedIn THEN ScheduleRetry ELSE UNCHANGED timerVars
    /\ misses' = Smaller(misses + 1, 2)
    /\ UNCHANGED <<hostVars, pageVars, storeVars, tableVars>>

\* Nothing follows a retry that fails.
RetryFails(f) ==
    /\ Got(f, "retry", {"no", "failed", "cut"})
    /\ Arrives(f)
    /\ misses' = Smaller(misses + 1, 2)
    /\ UNCHANGED <<hostVars, pageVars, timerVars, storeVars, tableVars>>

(***************************************************************************)
(* Signing out: the form is shown whatever became of the request.          *)
(***************************************************************************)
ClickLogout(f) ==
    /\ Has("logout") /\ signedIn
    /\ ~OnTheWay("logout")
    /\ Send(f, "logout")
    /\ UNCHANGED <<cookie, misses>> /\ UNCHANGED <<hostVars, pageVars, timerVars, storeVars, tableVars>>

ShowForm(f) ==
    /\ Got(f, "logout", {"ok", "failed"})
    /\ Arrives(f)
    /\ signedIn' = FALSE /\ token' = Nil /\ pageAdmin' = FALSE
    /\ StopTokenRenewal
    /\ UNCHANGED <<overtaken, misses>> /\ UNCHANGED <<hostVars, storeVars, tableVars>>

(***************************************************************************)
(* The server's side of the session fetches (AuthSessions), and the loss   *)
(* of a request, of an answer or of its body.                              *)
(***************************************************************************)
Sessions == 1..MaxSignIns

Alive(id) == id # 0 /\ idle[id] # Nil /\ idle[id] <= SessionTtl

Answer(f, got, session) ==
    fetches' = [fetches EXCEPT ![f] =
                   [fetches[f] EXCEPT !.got = got, !.session = session, !.admin = admin]]

ServeLogin(f) ==
    /\ minted' = minted + 1 /\ idle' = [idle EXCEPT ![minted + 1] = 0]
    /\ Answer(f, "ok", minted + 1)

ServeLogout(f) ==
    /\ idle' = [s \in Sessions |-> IF s = fetches[f].session THEN Nil ELSE idle[s]]
    /\ Answer(f, "ok", 0)
    /\ UNCHANGED minted

ServeRefresh(f) ==
    /\ IF Alive(fetches[f].session)
       THEN /\ idle' = [idle EXCEPT ![fetches[f].session] = 0]
            /\ Answer(f, "ok", fetches[f].session)
       ELSE UNCHANGED idle /\ Answer(f, "no", fetches[f].session)
    /\ UNCHANGED minted

ServeFetch(f) ==
    /\ fetches[f] # Nil /\ fetches[f].got = "waiting" /\ server = "up"
    /\ CASE fetches[f].kind = "login" -> ServeLogin(f)
         [] fetches[f].kind = "logout" -> ServeLogout(f)
         [] OTHER -> ServeRefresh(f)
    /\ UNCHANGED <<admin, cookie, misses>> /\ UNCHANGED <<hostVars, pageVars, timerVars, tableVars>>

\* A sign-out needs no body.
FetchFails(f) ==
    /\ fetches[f] # Nil
    /\ \E got \in {"failed", "cut"} :
          /\ \/ fetches[f].got = "waiting" /\ (server # "up" \/ Has("loss")) /\ got = "failed"
             \/ fetches[f].got = "no" /\ Has("loss") /\ got = "failed"
             \/ fetches[f].got = "ok" /\ Has("loss") /\ (fetches[f].kind = "logout" => got = "failed")
          /\ fetches' = [fetches EXCEPT ![f].got = got]
    /\ UNCHANGED <<cookie, misses>> /\ UNCHANGED <<hostVars, pageVars, timerVars, storeVars, tableVars>>

\* Another administrator changes the role of the user.
SetGlobalAdmin ==
    /\ server = "up" /\ Has("roles")
    /\ admin' = ~admin
    /\ UNCHANGED <<idle, minted, cookie, fetches, misses>>
    /\ UNCHANGED <<hostVars, pageVars, timerVars, tableVars>>

(***************************************************************************)
(* The trusted-addons table: loaded every 15 s, on focus and after a write *)
(* of this page, while it has a token and takes its user for a global      *)
(* admin; the answer that comes last is shown.                             *)
(***************************************************************************)
Load(pc, t, rows) == [pc |-> pc, token |-> t, rows |-> rows]

LoadTrustedAddons(l) ==
    /\ token # Nil /\ loads[l] = Nil
    /\ loads' = [loads EXCEPT ![l] = Load("asked", token, Nil)]

\* Mutant of RefreshDashboardTiles.
RefreshDashboardTilesOnce(l) ==
    /\ Has("tables") /\ pageAdmin /\ table = Nil
    /\ LoadTrustedAddons(l)
    /\ UNCHANGED <<table, write, writes>> /\ UNCHANGED <<hostVars, sessionVars>>

RefreshDashboardTiles(l) ==
    /\ Has("tables") /\ pageAdmin
    /\ LoadTrustedAddons(l)
    /\ UNCHANGED <<table, write, writes>> /\ UNCHANGED <<hostVars, sessionVars>>

\* 401 without a token that is still good, 403 for anyone but a global admin.
Admits(t) == server = "up" /\ t # Nil /\ t > 0 /\ admin

\* A server that is down is asked again (fetchWithRetry): the step is later.
ServeLoad(l) ==
    /\ loads[l] # Nil /\ loads[l].pc = "asked"
    /\ loads' = [loads EXCEPT ![l] = IF Admits(loads[l].token) THEN Load("rows", Nil, trusted)
                                     ELSE Load("error", Nil, Nil)]
    /\ UNCHANGED <<table, write, writes>> /\ UNCHANGED <<hostVars, sessionVars>>

RenderTrustedAddons(l) ==
    /\ loads[l] # Nil /\ loads[l].pc \in {"rows", "error"}
    /\ table' = loads[l].rows
    /\ loads' = [loads EXCEPT ![l] = Nil]
    /\ UNCHANGED <<write, writes>> /\ UNCHANGED <<hostVars, sessionVars>>

Write(a, k, t, pc) == [addon |-> a, key |-> k, token |-> t, pc |-> pc]

\* A key is trusted; with k = Nil, trust is revoked.
SubmitTrust(a, k) ==
    /\ <<a, k>> \in Requests
    /\ Has("edit") /\ signedIn /\ write = Nil /\ writes < MaxWrites
    /\ write' = Write(a, k, token, "sent")
    /\ writes' = writes + 1
    /\ UNCHANGED <<table, loads>> /\ UNCHANGED <<hostVars, sessionVars>>

\* The form stops at a refusal; the revoke button does not look at the status.
ServeTrust ==
    /\ write # Nil /\ write.pc = "sent"
    /\ IF Admits(write.token)
       THEN SetTrust(write.addon, write.key) /\ write' = Write(write.addon, write.key, Nil, "answered")
       ELSE /\ write' = IF server = "up" /\ write.key = Nil
                        THEN Write(write.addon, Nil, Nil, "answered") ELSE Nil
            /\ UNCHANGED hostVars
    /\ UNCHANGED <<table, loads, writes>> /\ UNCHANGED sessionVars

\* The page loads the table again.
TrustAnswered(l) ==
    /\ write # Nil /\ write.pc = "answered"
    /\ write' = Nil
    /\ IF token = Nil THEN UNCHANGED loads ELSE LoadTrustedAddons(l)
    /\ UNCHANGED <<table, writes>> /\ UNCHANGED <<hostVars, sessionVars>>

(***************************************************************************)
(* The system.                                                             *)
(***************************************************************************)
Aged(t) == IF t = Nil THEN Nil ELSE Larger(t - 1, 0)

Tick ==
    /\ Later
    /\ \A t \in timers : t.left > 0
    /\ \A f \in Fetches : fetches[f] = Nil
    /\ idle' = [s \in Sessions |-> IF idle[s] = Nil THEN Nil ELSE Smaller(idle[s] + 1, SessionTtl + 1)]
    /\ timers' = {[t EXCEPT !.left = @ - 1] : t \in timers}
    /\ handle' = IF handle \in timers THEN [handle EXCEPT !.left = @ - 1] ELSE Nil
    /\ token' = Aged(token)
    /\ loads' = [l \in Loads |-> IF loads[l] = Nil THEN Nil
                                 ELSE [loads[l] EXCEPT !.token = Aged(loads[l].token)]]
    /\ write' = IF write = Nil THEN Nil
                ELSE Write(write.addon, write.key, Aged(write.token), write.pc)
    /\ UNCHANGED <<signedIn, pageAdmin, overtaken, minted, admin, cookie, fetches, misses, table, writes>>

Init ==
    /\ setup \in Starts
    /\ HostInit
    /\ signedIn = FALSE /\ token = Nil /\ pageAdmin = FALSE /\ overtaken = FALSE
    /\ cookie = 0 /\ idle = [s \in Sessions |-> Nil] /\ minted = 0 /\ admin = TRUE
    /\ timers = {} /\ handle = Nil /\ fetches = [f \in Fetches |-> Nil] /\ misses = 0
    /\ table = Nil /\ loads = [l \in Loads |-> Nil] /\ write = Nil /\ writes = 0

SessionStep(f) ==
    \/ SubmitLogin(f) \/ ShowSession(f) \/ LoginFails(f) \/ Reload(f) \/ RestoreFails(f)
    \/ \E t \in timers : TimerFires(t, f)
    \/ Renewed(f) \/ NotRenewed(f) \/ RetryFails(f)
    \/ ClickLogout(f) \/ ShowForm(f) \/ ServeFetch(f) \/ FetchFails(f)

TableStep(l) == RefreshDashboardTiles(l) \/ ServeLoad(l) \/ RenderTrustedAddons(l) \/ TrustAnswered(l)

Next ==
    \/ HostNext /\ UNCHANGED <<sessionVars, tableVars>>
    \/ Tick
    \/ \E f \in Fetches : SessionStep(f)
    \/ \E l \in Loads : TableStep(l)
    \/ \E a \in Addons, k \in Keys \cup {Nil} : SubmitTrust(a, k)
    \/ ServeTrust \/ SetGlobalAdmin

Spec == Init /\ [][Next]_vars

\* The interval timer of the page goes on firing, and what it asked for is
\* answered and shown.
FairSpec ==
    /\ Spec
    /\ WF_vars(ServeTrust)
    /\ WF_vars(\E l \in Loads : RefreshDashboardTiles(l))
    /\ \A l \in Loads : WF_vars(ServeLoad(l)) /\ WF_vars(RenderTrustedAddons(l))

(***************************************************************************)
(* Properties.                                                             *)
(***************************************************************************)
Kinds == {"login", "restore", "renew", "retry", "logout"}

Answers == {"waiting", "ok", "no", "failed", "cut"}

Flights(n) == [kind : Kinds, session : 0..n, got : Answers, tries : 1..MaxTries, admin : BOOLEAN]

ASSUME NilAssumption == Nil \notin Nat /\ Nil \notin Flights(MaxSignIns)

\* State is what the code can hold; a breaker counts no more failures than
\* calls could be running when it opened.
PlatformTypeOK ==
    /\ HostTypeOK
    /\ signedIn \in BOOLEAN /\ pageAdmin \in BOOLEAN /\ overtaken \in BOOLEAN /\ admin \in BOOLEAN
    /\ token \in 0..AccessTtl \cup {Nil}
    /\ cookie \in 0..minted /\ minted \in 0..MaxSignIns
    /\ idle \in [Sessions -> 0..SessionTtl + 1 \cup {Nil}]
    /\ timers \subseteq [kind : {"renew", "retry"}, left : Nat]
    /\ fetches \in [Fetches -> {Nil} \cup Flights(minted)]
    /\ misses \in 0..2 /\ writes \in 0..MaxWrites

\* A console that is signed in has a cookie of a live session while no two
\* renewals in a row fail: the timers renew it in time, through lost answers,
\* restarts of the server and reloads, and no answer that arrives late deletes
\* or replaces the cookie.  Left out is a console that signed in while a
\* renewal of the session before was on its way (refreshAccessToken does not
\* wait for it): its answer may take the new cookie away.
SessionKept ==
    signedIn /\ misses <= 1 /\ ~OnTheWay("logout") /\ ~overtaken => Alive(cookie)

\* While the server is up, the user a global admin for it and for the page, and
\* the page's token good, the table comes to show the trust store, whichever
\* order the answers of its loads arrive in and whatever loads were refused
\* before: neither older rows nor the error row stay.
TableCatchesUp ==
    <>[](signedIn /\ Has("tables") /\ pageAdmin /\ Admits(token)) => <>[](table = trusted)

=============================================================================
