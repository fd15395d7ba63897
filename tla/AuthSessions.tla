---------------------------- MODULE AuthSessions ----------------------------
(***************************************************************************)
(* Login, refresh, keep-alive and logout: AuthService over the libSQL      *)
(* session store and the in-memory login limiter (contexts/auth).          *)
(*                                                                         *)
(* A request in flight is reqs[r]; each await of the code ends a step, and *)
(* every SQL statement is atomic.  Passwords, hashes and signatures are    *)
(* abstracted to what they decide: whether the password is right and until *)
(* when the user's newest access token verifies.                           *)
(***************************************************************************)
EXTENDS Integers, Sequences, FiniteSets

CONSTANTS
    Users,          \* user names
    Repos,          \* repository ids
    Tokens,         \* refresh tokens that randomBytes(32) may hand out
    Reqs,           \* requests the HTTP server serves at the same time
    LegacyUsers,    \* names listed in DELTIX_LOCAL_USERS
    SessionTtl,     \* DELTIX_SESSION_TTL_SECONDS, in clock units
    AccessTtl,      \* DELTIX_ACCESS_TOKEN_TTL_SECONDS, in clock units
    MaxAttempts,    \* login attempts of one window
    WindowLength,   \* loginAttemptWindowMs, in clock units
    MaxClock,       \* bound: the clock stops here
    Nil             \* "no value"

ASSUME AuthAssumptions ==
    /\ LegacyUsers \subseteq Users
    /\ SessionTtl \in Nat \ {0} /\ AccessTtl \in Nat \ {0}
    /\ MaxAttempts \in Nat \ {0} /\ WindowLength \in Nat \ {0}
    /\ MaxClock \in Nat
    /\ Nil \notin Users \cup Repos \cup Tokens
    /\ IsFiniteSet(Users)
    /\ {"setup-wizard", "bootstrap-env"} \cap (Users \cup {Nil}) = {}

VARIABLES
    ops,            \* the operations clients use in this behaviour
    clock,          \* Date.now()
    users,          \* table users
    bearer,         \* bearer[u]: expiry of the newest access token of u
    sessions,       \* table sessions
    attempts,       \* LoginRateLimiter.attempts: one window per user name
    reqs,           \* requests in flight
    tried           \* ghost: times of the attempts on u that the limiter of this
                    \* process let through

authVars == <<ops, clock, users, bearer, sessions, attempts, reqs, tried>>

\* A row of table users; createdBy is a user, the wizard or the environment.
Absent ==
    [row |-> FALSE, active |-> FALSE, admin |-> FALSE, canCreate |-> FALSE, createdBy |-> Nil]

\* buildUserRecord: a new row is active and its creator is recorded.
NewUser(by, admin, canCreate) ==
    [row |-> TRUE, active |-> TRUE, admin |-> admin, canCreate |-> canCreate, createdBy |-> by]

UserRows ==
    [row : BOOLEAN, active : BOOLEAN, admin : BOOLEAN, canCreate : BOOLEAN,
     createdBy : Users \cup {Nil, "setup-wizard", "bootstrap-env"}]

\* "free": never handed out; "row": in the table; "deleted": revoked.
SessionRows == [state : {"free", "row", "deleted"}, user : Users \cup {Nil}, expiresAt : Int]

FreeSession == [state |-> "free", user |-> Nil, expiresAt |-> 0]

Windows == [count : Nat, startedAt : Int]

NoWindow == [count |-> 0, startedAt |-> 0]

SessionOps == {"login", "refresh", "keepAlive", "logout"}

Idle == [op |-> "none", pc |-> "idle", caller |-> Nil, target |-> Nil,
         repo |-> Nil, token |-> Nil, until |-> 0]

At(r, op, pc) == reqs[r].op = op /\ reqs[r].pc = pc

Goto(r, pc) == reqs' = [reqs EXCEPT ![r].pc = pc]

\* The handler returns its response, whatever the status code.
Answer(r) == reqs' = [reqs EXCEPT ![r] = Idle]

Receive(r, request) ==
    /\ reqs[r] = Idle
    /\ request.op \in ops
    /\ reqs' = [reqs EXCEPT ![r] = request]

(***************************************************************************)
(* The login limiter: a fixed window per user name, opened by its first    *)
(* attempt and replaced once windowMs have passed.                         *)
(***************************************************************************)
WindowOver(w) == w.count = 0 \/ clock - w.startedAt >= WindowLength

\* Mutant of AssertAllowed.
AssertAllowedOffByOne(u) == WindowOver(attempts[u]) \/ attempts[u].count <= MaxAttempts

AssertAllowed(u) == WindowOver(attempts[u]) \/ attempts[u].count < MaxAttempts

RecordAttempt(u) ==
    attempts' = [attempts EXCEPT ![u] =
        IF WindowOver(@) THEN [count |-> 1, startedAt |-> clock]
        ELSE [count |-> @.count + 1, startedAt |-> @.startedAt]]

(***************************************************************************)
(* login                                                                   *)
(***************************************************************************)

\* The limiter is asked and told before the first await.
LoginAttempt(r, u) ==
    /\ AssertAllowed(u)
    /\ RecordAttempt(u)
    /\ tried' = [tried EXCEPT ![u] = Append(@, clock)]
    /\ Receive(r, [Idle EXCEPT !.op = "login", !.pc = "findUser", !.target = u])
    /\ UNCHANGED <<ops, clock, users, bearer, sessions>>

\* findUserForLogin: the row, else the legacy entry, else a record whose empty
\* hash no password matches; an inactive row is refused whatever the password.
LoginPossible(u) == IF users[u].row THEN users[u].active ELSE u \in LegacyUsers

FindUserForLogin(r) ==
    /\ At(r, "login", "findUser")
    /\ IF LoginPossible(reqs[r].target) THEN Goto(r, "verify") ELSE Answer(r)
    /\ UNCHANGED <<ops, clock, users, bearer, sessions, attempts, tried>>

\* Bun.password.verify on the record read before: right or wrong password.
VerifyCredentials(r) ==
    /\ At(r, "login", "verify")
    /\ Goto(r, "issue") \/ Answer(r)
    /\ UNCHANGED <<ops, clock, users, bearer, sessions, attempts, tried>>

LaterOf(s, t) == IF s < t THEN t ELSE s

\* A signed token stays valid until its exp; nothing revokes it.
IssueAccessToken(u) == bearer' = [bearer EXCEPT ![u] = LaterOf(@, clock + AccessTtl)]

VerifyAccessToken(u) == clock < bearer[u]

\* updateLastLogin ignores whether a row was updated; the token follows.
LoginIssue(r) ==
    /\ At(r, "login", "issue")
    /\ IssueAccessToken(reqs[r].target)
    /\ Goto(r, "createSession")
    /\ UNCHANGED <<ops, clock, users, sessions, attempts, tried>>

\* createSession: a fresh random token and an INSERT that looks at no user row.
CreateSession(r) ==
    /\ At(r, "login", "createSession")
    /\ \E k \in Tokens :
          /\ sessions[k] = FreeSession
          /\ sessions' = [sessions EXCEPT ![k] =
                [state |-> "row", user |-> reqs[r].target, expiresAt |-> clock + SessionTtl]]
    /\ Answer(r)
    /\ UNCHANGED <<ops, clock, users, bearer, attempts, tried>>

(***************************************************************************)
(* refresh, keep-alive, logout                                             *)
(***************************************************************************)

\* store.get: what it read is kept in the request and judged after the await.
SessionRow(r, pc, k) ==
    IF sessions[k].state = "row"
    THEN reqs' = [reqs EXCEPT ![r].pc = pc, ![r].target = sessions[k].user,
                              ![r].until = sessions[k].expiresAt]
    ELSE Answer(r)

\* Mutant of Expired.
NeverExpired(r) == FALSE

\* SessionExpiredError: now > expires_at of the row that was read.
Expired(r) == clock > reqs[r].until

RefreshRequest(r, k) ==
    /\ Receive(r, [Idle EXCEPT !.op = "refresh", !.pc = "usernameFor", !.token = k])
    /\ UNCHANGED <<ops, clock, users, bearer, sessions, attempts, tried>>

UsernameFor(r) ==
    /\ At(r, "refresh", "usernameFor")
    /\ SessionRow(r, "keepAlive", reqs[r].token)
    /\ UNCHANGED <<ops, clock, users, bearer, sessions, attempts, tried>>

KeepAliveRequest(r, k) ==
    /\ Receive(r, [Idle EXCEPT !.op = "keepAlive", !.pc = "keepAlive", !.token = k])
    /\ UNCHANGED <<ops, clock, users, bearer, sessions, attempts, tried>>

\* assertActive reads the row again; refresh has just judged its first read.
AssertActive(r) ==
    /\ reqs[r].pc = "keepAlive"
    /\ IF reqs[r].op = "refresh" /\ Expired(r)
         THEN Answer(r)
         ELSE SessionRow(r, "touch", reqs[r].token)
    /\ UNCHANGED <<ops, clock, users, bearer, sessions, attempts, tried>>

\* Mutants of Touched: an upsert; an extension of the old expiry.
TouchedUpsert(k, until) ==
    [sessions EXCEPT ![k].state = "row", ![k].expiresAt = until]

TouchedCumulative(k, until) ==
    IF sessions[k].state = "row" THEN [sessions EXCEPT ![k].expiresAt = @ + SessionTtl] ELSE sessions

\* UPDATE sessions SET expires_at = ? WHERE refresh_token = ?
Touched(k, until) ==
    IF sessions[k].state = "row" THEN [sessions EXCEPT ![k].expiresAt = until] ELSE sessions

\* The row read last is judged by one reading of the clock ...
JudgeSession(r) ==
    /\ reqs[r].pc = "touch"
    /\ IF Expired(r) THEN Answer(r) ELSE Goto(r, "stamp")
    /\ UNCHANGED <<ops, clock, users, bearer, sessions, attempts, tried>>

\* ... the new expiry is counted from a second, after the await ...
StampExpiry(r) ==
    /\ reqs[r].pc = "stamp"
    /\ reqs' = [reqs EXCEPT ![r].pc = "update", ![r].until = clock + SessionTtl]
    /\ UNCHANGED <<ops, clock, users, bearer, sessions, attempts, tried>>

\* ... and written whenever the statement gets its turn.
Touch(r) ==
    /\ reqs[r].pc = "update"
    /\ sessions' = Touched(reqs[r].token, reqs[r].until)
    /\ IF reqs[r].op = "refresh" THEN Goto(r, "issue") ELSE Answer(r)
    /\ UNCHANGED <<ops, clock, users, bearer, attempts, tried>>

\* refresh signs a token for the name it read; the user's row only fills the answer.
RefreshIssue(r) ==
    /\ At(r, "refresh", "issue")
    /\ IssueAccessToken(reqs[r].target)
    /\ Answer(r)
    /\ UNCHANGED <<ops, clock, users, sessions, attempts, tried>>

\* DELETE FROM sessions; an unknown token is answered the same way.
Revoked(k) ==
    IF sessions[k].state = "row" THEN [sessions EXCEPT ![k].state = "deleted"] ELSE sessions

LogoutRequest(r, k) ==
    /\ Receive(r, [Idle EXCEPT !.op = "logout", !.pc = "revoke", !.token = k])
    /\ UNCHANGED <<ops, clock, users, bearer, sessions, attempts, tried>>

Logout(r) ==
    /\ At(r, "logout", "revoke")
    /\ sessions' = Revoked(reqs[r].token)
    /\ Answer(r)
    /\ UNCHANGED <<ops, clock, users, bearer, attempts, tried>>

Tick ==
    /\ clock < MaxClock
    /\ "tick" \in ops
    /\ clock' = clock + 1
    /\ UNCHANGED <<ops, users, bearer, sessions, attempts, reqs, tried>>

SessionNext ==
    \/ Tick
    \/ \E r \in Reqs, u \in Users : LoginAttempt(r, u)
    \/ \E r \in Reqs, k \in Tokens :
          /\ sessions[k] # FreeSession
          /\ RefreshRequest(r, k) \/ KeepAliveRequest(r, k) \/ LogoutRequest(r, k)
    \/ \E r \in Reqs :
          \/ FindUserForLogin(r) \/ VerifyCredentials(r) \/ LoginIssue(r) \/ CreateSession(r)
          \/ UsernameFor(r) \/ AssertActive(r) \/ JudgeSession(r) \/ StampExpiry(r) \/ Touch(r)
          \/ RefreshIssue(r) \/ Logout(r)

=============================================================================
