----------------------------- MODULE AuthProofs -----------------------------
(***************************************************************************)
(* Sessions, accounts and repository records of the auth context, for any  *)
(* number of users, tokens, repositories and requests in flight.           *)
(***************************************************************************)
EXTENDS AuthAccounts, FixedWindowProofs, FiniteSetTheorems, TLAPS

Records ==
    [op : OpNames, pc : PcNames, caller : Users \cup {Nil}, target : Users \cup {Nil},
     repo : Repos \cup {Nil}, token : Tokens \cup {Nil}, until : Int]

\* What a request in flight may rely on: the session it read is not free
\* again; the expiry it will write is at most a full window away; the database
\* it initialised is still there.
RequestOK(q, ss, ini, now) ==
    /\ q \in Records
    /\ q.pc \in {"usernameFor", "keepAlive", "touch", "stamp", "update", "revoke"} => q.token \in Tokens
    /\ q.pc \in {"touch", "stamp", "update"} => ss[q.token] # FreeSession
    /\ q.pc = "update" => q.until <= now + SessionTtl
    /\ q.pc = "record" => q.repo \in ini
    /\ q.op = "createRepo" => q.repo \in Repos

Founder(us, u) == us[u].row /\ us[u].createdBy = "setup-wizard"

RowsOrAbsent(us) == \A u \in Users : us[u].row \/ us[u] = Absent

SoleFounder(us) == \A u, v \in Users : Founder(us, u) /\ Founder(us, v) => u = v

\* The inductive invariant.
AuthInv ==
    /\ clock \in Nat
    /\ users \in [Users -> UserRows] /\ SoleFounder(users) /\ RowsOrAbsent(users)
    /\ sessions \in [Tokens -> SessionRows]
    /\ \A k \in Tokens : sessions[k].expiresAt <= clock + SessionTtl
    /\ reqs \in [Reqs -> Records]
    /\ \A r \in Reqs : RequestOK(reqs[r], sessions, initialised, clock)
    /\ bootstrap \in Users \cup {Nil}
    /\ roles \in [Users -> [Repos -> RoleNames]]
    /\ records \in [Repos -> Users \cup {Nil}]
    /\ RecordHasDatabase

(***************************************************************************)
(* What a step may do to the tables.                                       *)
(***************************************************************************)

\* Time does not go back, and no session that has lapsed is extended.
SessionsKept ==
    /\ clock' \in Nat /\ clock' >= clock
    /\ sessions' \in [Tokens -> SessionRows]
    /\ \A k \in Tokens :
          /\ sessions'[k].expiresAt <= clock' + SessionTtl
          /\ sessions[k] # FreeSession => sessions'[k] # FreeSession
          /\ sessions[k].state = "deleted" => sessions'[k].state = "deleted"
          /\ Lapsed(k) => sessions'[k].expiresAt = sessions[k].expiresAt

\* A session that has lapsed has no request on its way that could extend it.
LapseStays == \A k \in Tokens : Lapsed(k) => (sessions'[k].state = "row" => Lapsed(k)')

\* No account is replaced and the wizard makes one.
UsersKept ==
    /\ users' \in [Users -> UserRows] /\ SoleFounder(users') /\ RowsOrAbsent(users')
    /\ \A u \in Users :
          users[u].row /\ users'[u].row => users'[u].createdBy = users[u].createdBy

ReposKept ==
    /\ initialised \subseteq initialised'
    /\ records' \in [Repos -> Users \cup {Nil}]
    /\ \A p \in Repos : records'[p] # Nil => p \in initialised'

TablesKept ==
    /\ SessionsKept /\ UsersKept /\ ReposKept
    /\ bootstrap' = bootstrap
    /\ roles' \in [Users -> [Repos -> RoleNames]]

\* A request that was answered.
LEMMA IdleOK ==
    ASSUME NEW ss, NEW ini, NEW now PROVE RequestOK(Idle, ss, ini, now) /\ Idle \in Records
  <1>1. Idle.pc = "idle" /\ Idle.op = "none"
    BY DEF Idle
  <1>2. "none" \in OpNames /\ "idle" \in PcNames
    BY Zenon DEF OpNames, PcNames
  <1>3. 0 \in Int
    BY SMT
  <1>4. Idle \in Records
    BY <1>2, <1>3, Zenon DEF Idle, Records
  <1> QED BY <1>1, <1>4 DEF RequestOK

\* What the request may do to a session that has lapsed: not extend it.
SparesLapsed(q) ==
    \A k \in Tokens : Lapsed(k) /\ q.token = k =>
        q.pc \notin {"stamp", "update"} /\ (q.pc = "touch" => clock > q.until)

\* What a step gives.
StepOK == AuthInv' /\ TablesKept /\ LapseStays

\* A step of one request keeps the invariant when it keeps the tables and
\* leaves the request sound.
LEMMA HandlerStep ==
    ASSUME AuthInv, TablesKept, NEW r \in Reqs, NEW q, SparesLapsed(q),
           RequestOK(q, sessions', initialised', clock'), reqs' = [reqs EXCEPT ![r] = q]
    PROVE  StepOK
  <1>1. reqs' \in [Reqs -> Records]
    BY DEF AuthInv, RequestOK
  <1>2. ASSUME NEW x \in Reqs PROVE RequestOK(reqs'[x], sessions', initialised', clock')
    <2>1. CASE x = r
      BY <2>1 DEF AuthInv
    <2>2. CASE x # r
      <3> DEFINE y == reqs[x]
      <3>1. reqs'[x] = y /\ RequestOK(y, sessions, initialised, clock)
        BY <2>2 DEF AuthInv
      <3> HIDE DEF y
      <3>2. y.pc \in {"touch", "stamp", "update"} => sessions'[y.token] # FreeSession
        BY <3>1 DEF RequestOK, TablesKept, SessionsKept
      <3>3. y.pc = "update" => y.until <= clock' + SessionTtl
        <4>1. y.until \in Int /\ clock \in Nat /\ clock' \in Nat /\ clock' >= clock
              /\ SessionTtl \in Nat
          BY <3>1, AuthAssumptions DEF RequestOK, Records, AuthInv, TablesKept, SessionsKept
        <4> QED BY <3>1, <4>1 DEF RequestOK
      <3> QED BY <3>1, <3>2, <3>3 DEF RequestOK, TablesKept, ReposKept
    <2> QED BY <2>1, <2>2
  <1>3. \A x \in Reqs : RequestOK(reqs[x], sessions, initialised, clock)'
    BY <1>2 DEF RequestOK, Records
  <1>4. AuthInv'
    BY <1>1, <1>3 DEF AuthInv, TablesKept, SessionsKept, UsersKept, ReposKept,
             RecordHasDatabase, SoleFounder, Founder, RowsOrAbsent
  <1>5. LapseStays
    <2> SUFFICES ASSUME NEW k \in Tokens, Lapsed(k), sessions'[k].state = "row" PROVE Lapsed(k)'
      BY DEF LapseStays
    <2>1. /\ clock \in Nat /\ clock' \in Nat /\ clock' >= clock
          /\ sessions[k].expiresAt \in Int /\ sessions'[k].expiresAt = sessions[k].expiresAt
      BY DEF AuthInv, TablesKept, SessionsKept, SessionRows
    <2>2. clock' > sessions'[k].expiresAt
      BY <2>1 DEF Lapsed
    <2>3. ASSUME NEW x \in Reqs, reqs'[x].token = k
          PROVE  /\ reqs'[x].pc \notin {"stamp", "update"}
                 /\ reqs'[x].pc = "touch" => clock' > reqs'[x].until
      <3> DEFINE y == reqs'[x]
      <3>1. y.until \in Int
        BY <1>1 DEF Records
      <3>2. y = q \/ y = reqs[x]
        BY <1>1 DEF AuthInv
      <3>3. y.pc \notin {"stamp", "update"} /\ (y.pc = "touch" => clock > y.until)
        BY <2>3, <3>2 DEF SparesLapsed, Lapsed
      <3> HIDE DEF y
      <3>4. y.pc = "touch" => clock' > y.until
        BY <2>1, <3>1, <3>3
      <3> QED BY <3>3, <3>4 DEF y
    <2> QED BY <2>2, <2>3 DEF Lapsed
  <1> QED BY <1>4, <1>5 DEF StepOK

\* The sessions are left alone.
LEMMA SessionsAlone == ASSUME AuthInv, UNCHANGED <<clock, sessions>> PROVE SessionsKept
  <1>1. \A k \in Tokens : sessions[k].expiresAt \in Int
    BY DEF AuthInv, SessionRows
  <1> QED BY <1>1 DEF AuthInv, SessionsKept

\* The accounts are left alone.
LEMMA UsersAlone == ASSUME AuthInv, UNCHANGED users PROVE UsersKept
  BY DEF AuthInv, UsersKept

\* The repositories are left alone.
LEMMA ReposAlone == ASSUME AuthInv, UNCHANGED <<records, initialised>> PROVE ReposKept
  BY DEF AuthInv, ReposKept, RecordHasDatabase

\* Places in the code where a request relies on what it read.
Careful == {"usernameFor", "keepAlive", "touch", "stamp", "update", "revoke", "record"}

\* A request that only moves on.
LEMMA Moved ==
    ASSUME AuthInv, TablesKept, NEW r \in Reqs, NEW pc \in PcNames \ Careful, Goto(r, pc)
    PROVE  StepOK
  <1> DEFINE q == [reqs[r] EXCEPT !.pc = pc]
  <1>1. q \in Records /\ q.pc = pc /\ q.op = reqs[r].op /\ q.repo = reqs[r].repo
    BY DEF AuthInv, Records
  <1>2. reqs' = [reqs EXCEPT ![r] = q]
    BY DEF Goto
  <1> HIDE DEF q
  <1>3. RequestOK(q, sessions', initialised', clock')
    BY <1>1 DEF AuthInv, RequestOK, Careful
  <1>4. SparesLapsed(q)
    BY <1>1 DEF SparesLapsed, Careful
  <1> QED BY <1>2, <1>3, <1>4, HandlerStep

\* A request that is answered.
LEMMA Answered ==
    ASSUME AuthInv, TablesKept, NEW r \in Reqs, Answer(r) PROVE StepOK
  <1>1. reqs' = [reqs EXCEPT ![r] = Idle]
    BY DEF Answer
  <1>2. RequestOK(Idle, sessions', initialised', clock')
    BY IdleOK
  <1>3. SparesLapsed(Idle)
    BY DEF SparesLapsed, Idle
  <1> QED BY <1>1, <1>2, <1>3, HandlerStep

\* A request that is received.
LEMMA Received ==
    ASSUME AuthInv, TablesKept, NEW r \in Reqs, NEW q \in Records,
           q.pc \notin {"touch", "stamp", "update", "record"},
           q.pc \in Careful => q.token \in Tokens,
           q.op = "createRepo" => q.repo \in Repos,
           Receive(r, q)
    PROVE  StepOK
  <1>1. RequestOK(q, sessions', initialised', clock')
    BY DEF RequestOK, Careful
  <1>2. SparesLapsed(q)
    BY DEF SparesLapsed
  <1> QED BY <1>1, <1>2, HandlerStep DEF Receive

(***************************************************************************)
(* AuthSessions                                                            *)
(***************************************************************************)

\* Steps of AuthSessions that touch neither table.
LEMMA QuietSessionStep ==
    ASSUME AuthInv, UNCHANGED accountVars, UNCHANGED <<clock, users, sessions>> PROVE TablesKept
  BY SessionsAlone, UsersAlone, ReposAlone DEF accountVars, TablesKept, AuthInv

\* Time passes and every session keeps its expiry.
LEMMA TickStep == ASSUME AuthInv, UNCHANGED accountVars, Tick PROVE StepOK
  <1>1. clock' = clock + 1 /\ UNCHANGED <<users, sessions, reqs>>
    BY DEF Tick
  <1>2. \A k \in Tokens : sessions[k].expiresAt \in Int
    BY DEF AuthInv, SessionRows
  <1>3. SessionsKept
    BY <1>1, <1>2, AuthAssumptions DEF AuthInv, SessionsKept
  <1>4. TablesKept
    BY <1>1, <1>3, UsersAlone, ReposAlone DEF accountVars, TablesKept, AuthInv
  <1>5. \A r \in Reqs : RequestOK(reqs[r], sessions, initialised, clock)'
    <2> SUFFICES ASSUME NEW r \in Reqs PROVE RequestOK(reqs[r], sessions, initialised, clock)'
      OBVIOUS
    <2> DEFINE y == reqs[r]
    <2>1. RequestOK(y, sessions, initialised, clock)
      BY DEF AuthInv
    <2> HIDE DEF y
    <2>2. y.until \in Int /\ clock \in Nat /\ SessionTtl \in Nat
      BY <2>1, AuthAssumptions DEF RequestOK, Records, AuthInv
    <2>3. RequestOK(y, sessions, initialised, clock')
      BY <1>1, <2>1, <2>2 DEF RequestOK
    <2> QED BY <1>1, <2>3 DEF accountVars, RequestOK, Records, y
  <1>6. AuthInv'
    BY <1>1, <1>4, <1>5 DEF AuthInv, TablesKept, SessionsKept, UsersKept, ReposKept,
                   RecordHasDatabase, SoleFounder, Founder, RowsOrAbsent, accountVars, Records
  <1>7. LapseStays
    <2>1. clock \in Int /\ \A r \in Reqs : reqs[r].until \in Int
      BY DEF AuthInv, Records
    <2> QED BY <1>1, <1>2, <2>1 DEF LapseStays, Lapsed
  <1> QED BY <1>4, <1>6, <1>7 DEF StepOK

\* login
LEMMA LoginSteps ==
    ASSUME AuthInv, UNCHANGED accountVars, NEW r \in Reqs,
           \/ \E u \in Users : LoginAttempt(r, u)
           \/ FindUserForLogin(r) \/ VerifyCredentials(r) \/ LoginIssue(r) \/ CreateSession(r)
    PROVE  StepOK
  <1>1. ASSUME NEW u \in Users, LoginAttempt(r, u) PROVE StepOK
    <2> DEFINE q == [Idle EXCEPT !.op = "login", !.pc = "findUser", !.target = u]
    <2>1. q \in Records /\ q.pc = "findUser" /\ q.op = "login"
      BY IdleOK DEF Records, OpNames, SessionOps, PcNames
    <2>2. Receive(r, q) /\ TablesKept
      BY <1>1, QuietSessionStep DEF LoginAttempt
    <2> HIDE DEF q
    <2> QED BY <2>1, <2>2, Received DEF Careful
  <1>2. CASE FindUserForLogin(r) \/ VerifyCredentials(r) \/ LoginIssue(r)
    <2>1. TablesKept /\ (Answer(r) \/ \E pc \in {"verify", "issue", "createSession"} : Goto(r, pc))
      BY <1>2, QuietSessionStep DEF FindUserForLogin, VerifyCredentials, LoginIssue
    <2> QED BY <2>1, Moved, Answered DEF PcNames, Careful
  <1>3. CASE CreateSession(r)
    <2>1. PICK k \in Tokens :
              /\ sessions[k] = FreeSession
              /\ sessions' = [sessions EXCEPT ![k] =
                    [state |-> "row", user |-> reqs[r].target, expiresAt |-> clock + SessionTtl]]
      BY <1>3 DEF CreateSession
    <2>2. UNCHANGED <<clock, users>> /\ Answer(r)
      BY <1>3 DEF CreateSession
    <2>3. clock \in Nat /\ SessionTtl \in Nat /\ clock + SessionTtl \in Int
      BY AuthAssumptions DEF AuthInv
    <2>4. reqs[r].target \in Users \cup {Nil}
      BY DEF AuthInv, Records
    <2>5. \A x \in Tokens : sessions[x].expiresAt \in Int
      BY DEF AuthInv, SessionRows
    <2>6. sessions' \in [Tokens -> SessionRows]
      BY <2>1, <2>3, <2>4 DEF AuthInv, SessionRows
    <2>7. SessionsKept
      <3>1. ~Lapsed(k) /\ sessions[k].state # "deleted"
        BY <2>1 DEF Lapsed, FreeSession
      <3>2. /\ sessions'[k].state = "row" /\ sessions'[k].expiresAt = clock + SessionTtl
            /\ \A x \in Tokens : x # k => sessions'[x] = sessions[x]
        BY <2>1, <2>6 DEF AuthInv
      <3>3. sessions'[k] # FreeSession
        BY <3>2 DEF FreeSession
      <3>4. \A x \in Tokens : sessions'[x].expiresAt <= clock + SessionTtl
        BY <2>3, <3>2 DEF AuthInv
      <3> QED BY <2>2, <2>3, <2>6, <3>1, <3>2, <3>3, <3>4 DEF AuthInv, SessionsKept
    <2>8. TablesKept
      BY <2>2, <2>7, UsersAlone, ReposAlone DEF accountVars, TablesKept, AuthInv
    <2> QED BY <2>2, <2>8, Answered
  <1> QED BY <1>1, <1>2, <1>3

\* The UPDATE of a keep-alive spares a session that has lapsed: lapsed means
\* that no such UPDATE is on its way.
LEMMA TouchKeepsSessions ==
    ASSUME AuthInv, NEW r \in Reqs, reqs[r].pc = "update", UNCHANGED clock,
           sessions' = Touched(reqs[r].token, reqs[r].until)
    PROVE  SessionsKept
  <1> DEFINE k == reqs[r].token
             until == reqs[r].until
  <1>1. k \in Tokens /\ until \in Int /\ until <= clock + SessionTtl /\ clock \in Nat
        /\ SessionTtl \in Nat
    BY AuthAssumptions DEF AuthInv, RequestOK, Records
  <1>2. ~Lapsed(k)
    BY <1>1 DEF Lapsed
  <1>3. sessions \in [Tokens -> SessionRows] /\ \A x \in Tokens : sessions[x].expiresAt \in Int
    BY DEF AuthInv, SessionRows
  <1>4. sessions' = Touched(k, until)
    OBVIOUS
  <1> HIDE DEF k, until
  <1>5. CASE sessions[k].state = "row"
    <2> DEFINE row == [sessions[k] EXCEPT !.expiresAt = until]
    <2>1. sessions' = [sessions EXCEPT ![k] = row]
      BY <1>4, <1>5 DEF Touched
    <2>2. row \in SessionRows /\ row.expiresAt = until /\ row.state = "row"
      BY <1>1, <1>3, <1>5 DEF SessionRows
    <2> HIDE DEF row
    <2>3. sessions' \in [Tokens -> SessionRows] /\ sessions'[k] = row
          /\ \A x \in Tokens : x # k => sessions'[x] = sessions[x]
      BY <1>1, <1>3, <2>1, <2>2
    <2>4. sessions'[k] # FreeSession
      BY <2>2, <2>3 DEF FreeSession
    <2>5. ASSUME NEW x \in Tokens
          PROVE  /\ sessions'[x].expiresAt <= clock' + SessionTtl
                 /\ sessions[x] # FreeSession => sessions'[x] # FreeSession
                 /\ sessions[x].state = "deleted" => sessions'[x].state = "deleted"
                 /\ Lapsed(x) => sessions'[x].expiresAt = sessions[x].expiresAt
      <3>1. CASE x = k
        BY <1>1, <1>2, <1>5, <2>2, <2>3, <2>4, <3>1
      <3>2. CASE x # k
        BY <1>3, <2>3, <3>2 DEF AuthInv
      <3> QED BY <3>1, <3>2
    <2> QED BY <1>1, <2>3, <2>5 DEF SessionsKept
  <1>6. CASE sessions[k].state # "row"
    BY <1>4, <1>6, SessionsAlone DEF Touched
  <1> QED BY <1>5, <1>6

\* A row that was just read: if the session had lapsed, so has the row.
LEMMA RowRead ==
    ASSUME AuthInv, UNCHANGED accountVars, NEW r \in Reqs, NEW pc \in {"keepAlive", "touch"},
           reqs[r].token \in Tokens, sessions[reqs[r].token].state = "row",
           TablesKept, UNCHANGED sessions,
           reqs' = [reqs EXCEPT ![r].pc = pc, ![r].target = sessions[reqs[r].token].user,
                                ![r].until = sessions[reqs[r].token].expiresAt]
    PROVE  StepOK
  <1> DEFINE row == sessions[reqs[r].token]
             q == [reqs[r] EXCEPT !.pc = pc, !.target = row.user, !.until = row.expiresAt]
  <1>1. row.user \in Users \cup {Nil} /\ row.expiresAt \in Int /\ row # FreeSession
    BY DEF AuthInv, SessionRows, FreeSession
  <1>2. reqs' = [reqs EXCEPT ![r] = q]
    BY DEF AuthInv
  <1> HIDE DEF row
  <1>3. /\ q \in Records /\ q.pc = pc /\ q.token = reqs[r].token /\ q.until = row.expiresAt
        /\ q.op = reqs[r].op /\ q.repo = reqs[r].repo
    BY <1>1 DEF AuthInv, Records, PcNames
  <1> HIDE DEF q
  <1>4. sessions'[q.token] # FreeSession
    BY <1>1, <1>3 DEF row
  <1>5. RequestOK(q, sessions', initialised', clock')
    BY <1>3, <1>4 DEF AuthInv, RequestOK
  <1>6. SparesLapsed(q)
    BY <1>3 DEF SparesLapsed, Lapsed, row
  <1> QED BY <1>2, <1>5, <1>6, HandlerStep

\* A row judged live keeps the session from having lapsed, and so does the
\* new expiry that is about to be written.
LEMMA JudgedAndStamped ==
    ASSUME AuthInv, UNCHANGED accountVars, NEW r \in Reqs, JudgeSession(r) \/ StampExpiry(r)
    PROVE  StepOK
  <1>1. TablesKept /\ UNCHANGED <<clock, sessions>>
    BY QuietSessionStep DEF JudgeSession, StampExpiry
  <1>2. reqs[r] \in Records /\ RequestOK(reqs[r], sessions, initialised, clock)
    BY DEF AuthInv
  <1>3. clock \in Nat /\ SessionTtl \in Nat /\ reqs[r].until \in Int
    BY <1>2, AuthAssumptions DEF AuthInv, Records
  <1>4. CASE JudgeSession(r)
    <2>1. CASE Expired(r)
      BY <1>1, <1>4, <2>1, Answered DEF JudgeSession
    <2>2. CASE ~Expired(r)
      <3> DEFINE q == [reqs[r] EXCEPT !.pc = "stamp"]
      <3>1. reqs[r].pc = "touch" /\ reqs' = [reqs EXCEPT ![r] = q]
        BY <1>4, <2>2 DEF JudgeSession, Goto
      <3>2. /\ q \in Records /\ q.pc = "stamp" /\ q.token = reqs[r].token
            /\ q.op = reqs[r].op /\ q.repo = reqs[r].repo
        BY <1>2 DEF Records, PcNames
      <3> HIDE DEF q
      <3>3. RequestOK(q, sessions', initialised', clock')
        BY <1>1, <1>2, <3>1, <3>2 DEF RequestOK, accountVars
      <3>4. ~(clock > reqs[r].until)
        BY <2>2 DEF Expired
      <3>5. SparesLapsed(q)
        BY <3>1, <3>2, <3>4 DEF SparesLapsed, Lapsed
      <3> QED BY <1>1, <3>1, <3>3, <3>5, HandlerStep
    <2> QED BY <2>1, <2>2
  <1>5. CASE StampExpiry(r)
    <2> DEFINE until == clock + SessionTtl
               q == [reqs[r] EXCEPT !.pc = "update", !.until = until]
    <2>1. reqs[r].pc = "stamp" /\ reqs' = [reqs EXCEPT ![r] = q]
      BY <1>5 DEF StampExpiry, AuthInv
    <2>2. until \in Int
      BY <1>3
    <2> HIDE DEF until
    <2>3. /\ q \in Records /\ q.pc = "update" /\ q.token = reqs[r].token /\ q.until = until
          /\ q.op = reqs[r].op /\ q.repo = reqs[r].repo
      BY <1>2, <2>2 DEF Records, PcNames
    <2> HIDE DEF q
    <2>4. q.until <= clock' + SessionTtl
      BY <1>1, <1>3, <2>3 DEF until
    <2>5. RequestOK(q, sessions', initialised', clock')
      BY <1>1, <1>2, <2>1, <2>3, <2>4 DEF RequestOK, accountVars
    <2>6. SparesLapsed(q)
      BY <2>1, <2>3 DEF SparesLapsed, Lapsed
    <2> QED BY <1>1, <2>1, <2>5, <2>6, HandlerStep
  <1> QED BY <1>4, <1>5

\* refresh and keep-alive
LEMMA RefreshSteps ==
    ASSUME AuthInv, UNCHANGED accountVars, NEW r \in Reqs,
           \/ UsernameFor(r) \/ AssertActive(r) \/ JudgeSession(r) \/ StampExpiry(r)
           \/ Touch(r) \/ RefreshIssue(r)
    PROVE  StepOK
  <1>1. reqs[r].pc \in {"usernameFor", "keepAlive"} => reqs[r].token \in Tokens
    BY DEF AuthInv, RequestOK
  <1>2. CASE UsernameFor(r) \/ AssertActive(r)
    <2>1. TablesKept /\ UNCHANGED sessions /\ reqs[r].token \in Tokens
      BY <1>1, <1>2, QuietSessionStep DEF UsernameFor, AssertActive, At
    <2>2. Answer(r) \/ \E pc \in {"keepAlive", "touch"} : SessionRow(r, pc, reqs[r].token)
      BY <1>2 DEF UsernameFor, AssertActive
    <2> QED BY <2>1, <2>2, RowRead, Answered DEF SessionRow
  <1>3. CASE Touch(r)
    <2>1. UNCHANGED <<clock, users>> /\ reqs[r].pc = "update"
          /\ sessions' = Touched(reqs[r].token, reqs[r].until)
      BY <1>3 DEF Touch
    <2>2. SessionsKept
      BY <2>1, TouchKeepsSessions
    <2>3. TablesKept
      BY <2>1, <2>2, UsersAlone, ReposAlone DEF accountVars, TablesKept, AuthInv
    <2>4. Answer(r) \/ Goto(r, "issue")
      BY <1>3 DEF Touch
    <2> QED BY <2>3, <2>4, Moved, Answered DEF PcNames, Careful
  <1>4. CASE RefreshIssue(r)
    BY <1>4, QuietSessionStep, Answered DEF RefreshIssue
  <1> QED BY <1>2, <1>3, <1>4, JudgedAndStamped

\* logout
LEMMA LogoutStep == ASSUME AuthInv, UNCHANGED accountVars, NEW r \in Reqs, Logout(r) PROVE StepOK
  <1> DEFINE k == reqs[r].token
  <1>1. k \in Tokens /\ UNCHANGED <<clock, users>> /\ Answer(r) /\ sessions' = Revoked(k)
    BY DEF Logout, At, AuthInv, RequestOK
  <1>2. sessions \in [Tokens -> SessionRows] /\ \A x \in Tokens : sessions[x].expiresAt \in Int
    BY DEF AuthInv, SessionRows
  <1> HIDE DEF k
  <1>3. SessionsKept
    <2>1. CASE sessions[k].state = "row"
      <3>1. sessions' = [sessions EXCEPT ![k] = [sessions[k] EXCEPT !.state = "deleted"]]
        BY <1>1, <2>1 DEF Revoked
      <3>2. [sessions[k] EXCEPT !.state = "deleted"] \in SessionRows
            /\ [sessions[k] EXCEPT !.state = "deleted"].expiresAt = sessions[k].expiresAt
            /\ [sessions[k] EXCEPT !.state = "deleted"].state = "deleted"
        BY <1>1, <1>2 DEF SessionRows
      <3>3. sessions' \in [Tokens -> SessionRows] /\ sessions'[k].state = "deleted"
            /\ \A x \in Tokens : sessions'[x].expiresAt = sessions[x].expiresAt
                                 /\ (x # k => sessions'[x] = sessions[x])
        BY <1>1, <1>2, <3>1, <3>2
      <3>4. sessions'[k] # FreeSession
        BY <3>3 DEF FreeSession
      <3>5. \A x \in Tokens : sessions[x].state = "deleted" => sessions'[x].state = "deleted"
        BY <3>3
      <3>6. \A x \in Tokens : sessions[x] # FreeSession => sessions'[x] # FreeSession
        BY <3>3, <3>4
      <3> QED BY <1>1, <1>2, <3>3, <3>5, <3>6 DEF SessionsKept, AuthInv
    <2>2. CASE sessions[k].state # "row"
      BY <1>1, <2>2, SessionsAlone DEF Revoked
    <2> QED BY <2>1, <2>2
  <1>4. TablesKept
    BY <1>1, <1>3, UsersAlone, ReposAlone DEF accountVars, TablesKept, AuthInv
  <1> QED BY <1>1, <1>4, Answered

\* Every step of AuthSessions.
LEMMA SessionSteps == ASSUME AuthInv, SessionNext, UNCHANGED accountVars PROVE StepOK
  <1>1. ASSUME NEW r \in Reqs, NEW k \in Tokens,
               RefreshRequest(r, k) \/ KeepAliveRequest(r, k) \/ LogoutRequest(r, k)
        PROVE  StepOK
    <2>1. ASSUME NEW op \in {"refresh", "keepAlive", "logout"},
                 NEW pc \in {"usernameFor", "keepAlive", "revoke"}, TablesKept,
                 Receive(r, [Idle EXCEPT !.op = op, !.pc = pc, !.token = k])
          PROVE  StepOK
      <3> DEFINE q == [Idle EXCEPT !.op = op, !.pc = pc, !.token = k]
      <3>1. q \in Records /\ q.pc = pc /\ q.token = k /\ q.op = op
        BY IdleOK DEF Records, OpNames, SessionOps, PcNames
      <3>2. Receive(r, q)
        BY <2>1
      <3> HIDE DEF q
      <3> QED BY <2>1, <3>1, <3>2, Received
    <2>2. TablesKept
      BY <1>1, QuietSessionStep DEF RefreshRequest, KeepAliveRequest, LogoutRequest
    <2> QED BY <1>1, <2>1, <2>2 DEF RefreshRequest, KeepAliveRequest, LogoutRequest
  <1> QED BY <1>1, TickStep, LoginSteps, RefreshSteps, LogoutStep DEF SessionNext

(***************************************************************************)
(* AuthAccounts                                                            *)
(***************************************************************************)

\* An empty table has no row.
LEMMA NobodyThere == UserCount = 0 => \A u \in Users : ~users[u].row
  <1> DEFINE S == {u \in Users : users[u].row}
  <1>1. IsFiniteSet(S)
    BY AuthAssumptions, FS_Subset
  <1>2. Cardinality(S) = 0 => S = {}
    BY <1>1, FS_EmptySet
  <1> QED BY <1>2 DEF UserCount

\* A row that changes, appears or goes keeps the accounts when it is not
\* the wizard's and does not replace a row.
LEMMA OneRowKeepsUsers ==
    ASSUME AuthInv, NEW u, NEW row \in UserRows, users' = [users EXCEPT ![u] = row],
           u \in Users => row.row \/ row = Absent,
           u \in Users /\ users[u].row /\ row.row => row.createdBy = users[u].createdBy,
           u \in Users /\ Founder([users EXCEPT ![u] = row], u) =>
               Founder(users, u) \/ \A v \in Users : ~users[v].row
    PROVE  UsersKept
  <1>1. CASE u \in Users
    <2>1. users' \in [Users -> UserRows] /\ users'[u] = row
          /\ \A v \in Users : v # u => users'[v] = users[v]
      BY <1>1 DEF AuthInv
    <2>2. SoleFounder(users')
      BY <1>1, <2>1 DEF AuthInv, SoleFounder, Founder
    <2>3. \A v \in Users : users[v].row /\ users'[v].row => users'[v].createdBy = users[v].createdBy
      BY <1>1, <2>1
    <2>4. RowsOrAbsent(users')
      BY <1>1, <2>1 DEF AuthInv, RowsOrAbsent
    <2> QED BY <2>1, <2>2, <2>3, <2>4 DEF UsersKept
  <1>2. CASE u \notin Users
    <2>1. users' = users
      BY <1>2 DEF AuthInv
    <2> QED BY <2>1, UsersAlone
  <1> QED BY <1>1, <1>2

\* UPDATE users
LEMMA UpdateKeepsUsers ==
    ASSUME AuthInv, NEW u, NEW b \in BOOLEAN,
           SetActive(u, b) \/ SetGlobalAdmin(u, b) \/ SetCanCreateRepos(u, b)
    PROVE  UsersKept
  <1>1. CASE users' = users
    BY <1>1, UsersAlone
  <1>2. ASSUME NEW row \in {[users[u] EXCEPT !.active = b], [users[u] EXCEPT !.admin = b],
                            [users[u] EXCEPT !.canCreate = b]},
               users[u].row, users' = [users EXCEPT ![u] = row]
        PROVE  UsersKept
    <2>1. CASE u \in Users
      <3>1. users[u] \in UserRows
        BY <2>1 DEF AuthInv
      <3>2. row \in UserRows /\ row.row = users[u].row /\ row.createdBy = users[u].createdBy
        BY <3>1 DEF UserRows
      <3>3. Founder([users EXCEPT ![u] = row], u) => Founder(users, u)
        BY <2>1, <3>2 DEF Founder, AuthInv
      <3> QED BY <1>2, <3>2, <3>3, OneRowKeepsUsers
    <2>2. CASE u \notin Users
      <3>1. users' = users
        BY <1>2, <2>2 DEF AuthInv
      <3> QED BY <3>1, UsersAlone
    <2> QED BY <2>1, <2>2
  <1> QED BY <1>1, <1>2 DEF SetActive, SetGlobalAdmin, SetCanCreateRepos, UpdateUser

\* Rows the code inserts.
LEMMA NewRows ==
    ASSUME NEW by \in Users \cup {Nil, "setup-wizard", "bootstrap-env"},
           NEW admin \in BOOLEAN, NEW canCreate \in BOOLEAN
    PROVE  /\ NewUser(by, admin, canCreate) \in UserRows
           /\ NewUser(by, admin, canCreate).createdBy = by
           /\ NewUser(by, admin, canCreate).row
           /\ Absent \in UserRows /\ ~Absent.row
  <1>1. TRUE \in BOOLEAN /\ FALSE \in BOOLEAN /\ Nil \in Users \cup {Nil, "setup-wizard", "bootstrap-env"}
    BY Zenon
  <1>2. NewUser(by, admin, canCreate) \in UserRows
    BY <1>1, Zenon DEF NewUser, UserRows
  <1>3. Absent \in UserRows
    BY <1>1, Zenon DEF Absent, UserRows
  <1> QED BY <1>2, <1>3 DEF NewUser, Absent

\* INSERT INTO users, by an admin and by the wizard, and DELETE.
LEMMA InsertKeepsUsers ==
    ASSUME AuthInv, NEW u, NEW by \in Users \cup {Nil}, NEW canCreate \in BOOLEAN,
           \/ InsertUser(u, NewUser(by, FALSE, canCreate))
           \/ TryCreateFirstUser(u, NewUser("setup-wizard", TRUE, TRUE))
           \/ users' = [users EXCEPT ![u] = Absent]
    PROVE  UsersKept
  <1>1. CASE users' = users
    BY <1>1, UsersAlone
  <1>2. CASE ~users[u].row /\ users' = [users EXCEPT ![u] = NewUser(by, FALSE, canCreate)]
    <2> DEFINE row == NewUser(by, FALSE, canCreate)
    <2>1. row \in UserRows /\ row.createdBy = by /\ row.row
      BY NewRows
    <2>2. by # "setup-wizard"
      BY AuthAssumptions
    <2> HIDE DEF row
    <2>3. u \in Users => [users EXCEPT ![u] = row][u] = row
      BY DEF AuthInv
    <2>4. u \in Users => ~Founder([users EXCEPT ![u] = row], u)
      BY <2>1, <2>2, <2>3 DEF Founder
    <2>5. users' = [users EXCEPT ![u] = row]
      BY <1>2 DEF row
    <2> QED BY <1>2, <2>1, <2>4, <2>5, OneRowKeepsUsers
  <1>3. CASE UserCount = 0 /\ users' = [users EXCEPT ![u] = NewUser("setup-wizard", TRUE, TRUE)]
    <2> DEFINE row == NewUser("setup-wizard", TRUE, TRUE)
    <2>1. row \in UserRows /\ row.row
      BY NewRows
    <2>2. \A v \in Users : ~users[v].row
      BY <1>3, NobodyThere
    <2> HIDE DEF row
    <2>3. users' = [users EXCEPT ![u] = row]
      BY <1>3 DEF row
    <2> QED BY <2>1, <2>2, <2>3, OneRowKeepsUsers
  <1>4. CASE users' = [users EXCEPT ![u] = Absent]
    <2>1. Absent \in UserRows /\ ~Absent.row
      BY NewRows
    <2>2. u \in Users => [users EXCEPT ![u] = Absent][u] = Absent
      BY DEF AuthInv
    <2>3. u \in Users => ~Founder([users EXCEPT ![u] = Absent], u)
      BY <2>1, <2>2 DEF Founder
    <2> QED BY <1>4, <2>1, <2>3, OneRowKeepsUsers
  <1> QED BY <1>1, <1>2, <1>3, <1>4 DEF InsertUser, TryCreateFirstUser

\* What the user and role routes leave alone.
LEMMA AccountStep ==
    ASSUME AuthInv, SessionsUntouched, ReposUntouched, UsersKept,
           roles' \in [Users -> [Repos -> RoleNames]]
    PROVE  TablesKept
  BY SessionsAlone, ReposAlone DEF SessionsUntouched, ReposUntouched, TablesKept

\* A step that writes no table.
LEMMA QuietAccountStep ==
    ASSUME AuthInv, UNCHANGED <<users, roles>>, SessionsUntouched, ReposUntouched
    PROVE  TablesKept
  BY UsersAlone, AccountStep DEF AuthInv

\* Requests of the user, role and repository routes.
LEMMA AccountRequests ==
    ASSUME AuthInv, NEW r \in Reqs,
           \/ \E caller \in Users, target \in Users, op \in AdminOps :
                 AdminRequest(r, op, caller, target)
           \/ \E u \in Users : SetupRequest(r, u)
           \/ \E caller \in Users, p \in Repos :
                 \/ CreateRepoRequest(r, caller, p)
                 \/ \E target \in Users, op \in {"grantRole", "revokeRole"} :
                       RoleRequest(r, op, caller, target, p)
    PROVE  StepOK
  <1>1. TablesKept
    BY QuietAccountStep DEF AdminRequest, SetupRequest, CreateRepoRequest, RoleRequest
  <1>2. ASSUME NEW q \in Records, q.pc \in {"gate", "status", "role", "mayCreate"}, Receive(r, q),
               q.op = "createRepo" => q.repo \in Repos
        PROVE  StepOK
    BY <1>1, <1>2, Received DEF Careful
  <1>3. ASSUME NEW caller \in Users, NEW target \in Users, NEW op \in AdminOps,
               AdminRequest(r, op, caller, target)
        PROVE  StepOK
    <2> DEFINE q == [Idle EXCEPT !.op = op, !.pc = "gate", !.caller = caller, !.target = target]
    <2>1. q \in Records /\ q.pc = "gate" /\ q.op = op /\ op # "createRepo"
      BY IdleOK DEF Records, OpNames, AdminOps, PcNames
    <2>2. Receive(r, q)
      BY <1>3 DEF AdminRequest
    <2> HIDE DEF q
    <2> QED BY <1>2, <2>1, <2>2
  <1>4. ASSUME NEW u \in Users, SetupRequest(r, u) PROVE StepOK
    <2> DEFINE q == [Idle EXCEPT !.op = "setup", !.pc = "status", !.target = u]
    <2>1. q \in Records /\ q.pc = "status" /\ q.op = "setup"
      BY IdleOK DEF Records, OpNames, AdminOps, PcNames
    <2>2. Receive(r, q)
      BY <1>4 DEF SetupRequest
    <2> HIDE DEF q
    <2> QED BY <1>2, <2>1, <2>2
  <1>5. ASSUME NEW caller \in Users, NEW p \in Repos, CreateRepoRequest(r, caller, p) PROVE StepOK
    <2> DEFINE q == [Idle EXCEPT !.op = "createRepo", !.pc = "mayCreate", !.caller = caller,
                                 !.target = caller, !.repo = p]
    <2>1. q \in Records /\ q.pc = "mayCreate" /\ q.repo = p
      BY IdleOK DEF Records, OpNames, AdminOps, PcNames
    <2>2. Receive(r, q)
      BY <1>5 DEF CreateRepoRequest
    <2> HIDE DEF q
    <2> QED BY <1>2, <2>1, <2>2
  <1>6. ASSUME NEW caller \in Users, NEW p \in Repos, NEW target \in Users,
               NEW op \in {"grantRole", "revokeRole"}, RoleRequest(r, op, caller, target, p)
        PROVE  StepOK
    <2> DEFINE q == [Idle EXCEPT !.op = op, !.pc = "role", !.caller = caller,
                                 !.target = target, !.repo = p]
    <2>1. q \in Records /\ q.pc = "role" /\ q.op = op
      BY IdleOK DEF Records, OpNames, AdminOps, PcNames
    <2>2. Receive(r, q)
      BY <1>6 DEF RoleRequest
    <2> HIDE DEF q
    <2> QED BY <1>2, <2>1, <2>2
  <1> QED BY <1>3, <1>4, <1>5, <1>6

\* Steps that read and decide.
LEMMA AccountReads ==
    ASSUME AuthInv, NEW r \in Reqs,
           \/ AdminGate(r) \/ CreateUserLookup(r) \/ DeleteUserCount(r) \/ TallyAdmins(r)
           \/ SetupStatus(r) \/ RoleGate(r) \/ RoleGateGlobal(r) \/ AssertUserExists(r)
           \/ CreateRepoGate(r) \/ ProvisionLookup(r)
    PROVE  StepOK
  <1>1. TablesKept
    BY QuietAccountStep DEF AdminGate, CreateUserLookup, DeleteUserCount, TallyAdmins,
           SetupStatus, RoleGate, RoleGateGlobal, AssertUserExists, CreateRepoGate, ProvisionLookup
  <1> DEFINE pcs == {"lookup", "count", "tally", "write", "insert", "admitted", "roleAdmin",
                     "upsert", "init"}
  <1>2. AfterGate(reqs[r]) \in pcs
    BY DEF AfterGate
  <1>3. Answer(r) \/ \E pc \in pcs : Goto(r, pc)
    BY <1>2 DEF AdminGate, CreateUserLookup, DeleteUserCount, TallyAdmins,
           SetupStatus, RoleGate, RoleGateGlobal, AssertUserExists, CreateRepoGate, ProvisionLookup
  <1>4. pcs \subseteq PcNames \ Careful
    BY DEF PcNames, Careful
  <1> QED BY <1>1, <1>3, <1>4, Moved, Answered

\* Steps that write an account.
LEMMA AccountWrites ==
    ASSUME AuthInv, NEW r \in Reqs,
           \/ CreateUser(r) \/ DeactivateUser(r) \/ ReactivateUser(r) \/ DeleteUser(r)
           \/ GrantGlobalAdmin(r) \/ RemoveGlobalAdmin(r) \/ AllowCreateRepos(r)
           \/ DenyCreateRepos(r) \/ SetupFirstAdmin(r)
    PROVE  StepOK
  <1>1. Answer(r) /\ SessionsUntouched /\ ReposUntouched
    BY DEF CreateUser, DeactivateUser, ReactivateUser, DeleteUser, GrantGlobalAdmin,
           RemoveGlobalAdmin, AllowCreateRepos, DenyCreateRepos, SetupFirstAdmin
  <1>2. reqs[r].caller \in Users \cup {Nil}
    BY DEF AuthInv, Records
  <1>3. UsersKept
    <2>1. CASE CreateUser(r)
      BY <1>2, <2>1, InsertKeepsUsers DEF CreateUser
    <2>2. CASE DeleteUser(r)
      BY <1>2, <2>2, InsertKeepsUsers DEF DeleteUser, DeleteUserRow
    <2>3. CASE SetupFirstAdmin(r)
      BY <1>2, <2>3, InsertKeepsUsers DEF SetupFirstAdmin
    <2>4. CASE \/ DeactivateUser(r) \/ ReactivateUser(r) \/ GrantGlobalAdmin(r)
               \/ RemoveGlobalAdmin(r) \/ AllowCreateRepos(r) \/ DenyCreateRepos(r)
      BY <2>4, UpdateKeepsUsers DEF DeactivateUser, ReactivateUser, GrantGlobalAdmin,
           RemoveGlobalAdmin, AllowCreateRepos, DenyCreateRepos
    <2> QED BY <2>1, <2>2, <2>3, <2>4
  <1>4. roles' \in [Users -> [Repos -> RoleNames]]
    <2>1. CASE DeleteUser(r)
      <3>1. [p \in Repos |-> "none"] \in [Repos -> RoleNames]
        BY DEF RoleNames
      <3> QED BY <2>1, <3>1 DEF DeleteUser, DeleteUserRow, AuthInv
    <2>2. CASE UNCHANGED roles
      BY <2>2 DEF AuthInv
    <2> QED BY <2>1, <2>2 DEF CreateUser, DeactivateUser, ReactivateUser, GrantGlobalAdmin,
           RemoveGlobalAdmin, AllowCreateRepos, DenyCreateRepos, SetupFirstAdmin
  <1> QED BY <1>1, <1>3, <1>4, AccountStep, Answered

\* Steps that write a role.
LEMMA RoleWrites ==
    ASSUME AuthInv, NEW r \in Reqs,
           GrantRepoRole(r) \/ RevokeRepoRole(r) \/ GrantRepoAdminToCreator(r)
    PROVE  StepOK
  <1>1. Answer(r) /\ SessionsUntouched /\ ReposUntouched /\ UNCHANGED users
    BY DEF GrantRepoRole, RevokeRepoRole, GrantRepoAdminToCreator, KeepUsers
  <1>2. \/ UNCHANGED roles
        \/ \E role \in RoleNames : roles' = [roles EXCEPT ![reqs[r].target][reqs[r].repo] = role]
    BY DEF GrantRepoRole, RevokeRepoRole, GrantRepoAdminToCreator, UpsertRepoRole, RoleNames
  <1>3. roles' \in [Users -> [Repos -> RoleNames]]
    <2>1. ASSUME NEW role \in RoleNames, NEW u, NEW p, roles' = [roles EXCEPT ![u][p] = role]
          PROVE  roles' \in [Users -> [Repos -> RoleNames]]
      <3>1. u \in Users => [roles[u] EXCEPT ![p] = role] \in [Repos -> RoleNames]
        BY DEF AuthInv
      <3>2. roles' = [roles EXCEPT ![u] = [roles[u] EXCEPT ![p] = role]]
        BY <2>1
      <3> QED BY <3>1, <3>2 DEF AuthInv
    <2> QED BY <1>2, <2>1 DEF AuthInv
  <1> QED BY <1>1, <1>3, UsersAlone, AccountStep, Answered

\* dolt init and the record of a repository.
LEMMA ProvisionSteps ==
    ASSUME AuthInv, NEW r \in Reqs, DoltInit(r) \/ ProvisionRecord(r) PROVE StepOK
  <1>1. SessionsKept /\ UsersKept /\ bootstrap' = bootstrap
        /\ roles' \in [Users -> [Repos -> RoleNames]]
    BY SessionsAlone, UsersAlone DEF DoltInit, ProvisionRecord, SessionsUntouched, AuthInv
  <1>2. CASE DoltInit(r)
    <2>1. initialised \subseteq initialised' /\ UNCHANGED records
      BY <1>2 DEF DoltInit
    <2>2. TablesKept
      BY <1>1, <2>1 DEF TablesKept, ReposKept, AuthInv, RecordHasDatabase
    <2>3. CASE Answer(r)
      BY <2>2, <2>3, Answered
    <2>4. CASE initialised' = initialised \cup {reqs[r].repo} /\ Goto(r, "record")
      <3> DEFINE q == [reqs[r] EXCEPT !.pc = "record"]
      <3>1. q \in Records /\ q.pc = "record" /\ q.repo = reqs[r].repo /\ q.op = reqs[r].op
        BY DEF AuthInv, Records, PcNames
      <3>2. reqs' = [reqs EXCEPT ![r] = q]
        BY <2>4 DEF Goto
      <3> HIDE DEF q
      <3>3. RequestOK(q, sessions', initialised', clock')
        BY <2>4, <3>1 DEF AuthInv, RequestOK
      <3>4. SparesLapsed(q)
        BY <3>1 DEF SparesLapsed
      <3> QED BY <2>2, <3>2, <3>3, <3>4, HandlerStep
    <2> QED BY <1>2, <2>3, <2>4 DEF DoltInit
  <1>3. CASE ProvisionRecord(r)
    <2>1. reqs[r].repo \in initialised /\ reqs[r].caller \in Users \cup {Nil}
      BY <1>3 DEF ProvisionRecord, At, AuthInv, RequestOK, Records
    <2>2. UNCHANGED initialised
          /\ \/ UNCHANGED records
             \/ records' = [records EXCEPT ![reqs[r].repo] = reqs[r].caller]
      BY <1>3 DEF ProvisionRecord
    <2>3. ReposKept
      BY <2>1, <2>2 DEF ReposKept, AuthInv, RecordHasDatabase
    <2>4. TablesKept
      BY <1>1, <2>3 DEF TablesKept
    <2>5. Answer(r) \/ Goto(r, "admitted")
      BY <1>3 DEF ProvisionRecord
    <2> QED BY <2>4, <2>5, Moved, Answered DEF PcNames, Careful
  <1> QED BY <1>2, <1>3

\* A crash and the next boot.
LEMMA RestartStep == ASSUME AuthInv, NEW failed, Restart(failed) PROVE StepOK
  <1>1. SessionsKept /\ ReposKept /\ bootstrap' = bootstrap
    BY SessionsAlone, ReposAlone DEF Restart
  <1>2. UsersKept
    <2> DEFINE b == bootstrap
    <2>1. users' = EnsureBootstrapAdmin
      BY DEF Restart
    <2>2. CASE users' = users
      BY <2>2, UsersAlone
    <2>3. CASE b # Nil /\ UserCount = 0 /\ users' = [users EXCEPT ![b] = NewUser("bootstrap-env", TRUE, TRUE)]
      <3> DEFINE row == NewUser("bootstrap-env", TRUE, TRUE)
      <3>1. row \in UserRows /\ row.createdBy = "bootstrap-env" /\ row.row
        BY NewRows
      <3>2. \A v \in Users : ~users[v].row
        BY <2>3, NobodyThere
      <3> HIDE DEF row
      <3>3. users' = [users EXCEPT ![b] = row]
        BY <2>3 DEF row
      <3> QED BY <3>1, <3>2, <3>3, OneRowKeepsUsers
    <2>4. CASE b # Nil /\ users[b].row /\ users' = [users EXCEPT ![b].admin = TRUE]
      <3>1. b \in Users
        BY <2>4 DEF AuthInv
      <3>2. SetGlobalAdmin(b, TRUE)
        BY <2>4 DEF SetGlobalAdmin, UpdateUser
      <3> QED BY <3>2, UpdateKeepsUsers
    <2>5. UserCount \in Nat
      <3>1. IsFiniteSet({u \in Users : users[u].row})
        BY AuthAssumptions, FS_Subset
      <3> QED BY <3>1, FS_CardinalityType DEF UserCount
    <2>6. CASE b = Nil
      BY <2>1, <2>2, <2>6 DEF EnsureBootstrapAdmin
    <2>7. CASE b # Nil /\ UserCount = 0
      BY <2>1, <2>3, <2>7 DEF EnsureBootstrapAdmin
    <2>8. CASE b # Nil /\ UserCount > 0
      <3>1. users' = IF users[b].row THEN [users EXCEPT ![b].admin = TRUE] ELSE users
        BY <2>1, <2>8 DEF EnsureBootstrapAdmin
      <3> QED BY <2>2, <2>4, <2>8, <3>1
    <2> QED BY <2>5, <2>6, <2>7, <2>8
  <1>3. roles' \in [Users -> [Repos -> RoleNames]]
    <2>1. roles' = BackfillOrphanedRepoAdmins(users', failed)
      BY DEF Restart
    <2>2. CASE bootstrap \in Users
      BY <2>1, <2>2 DEF BackfillOrphanedRepoAdmins, AuthInv, RoleNames
    <2>3. CASE bootstrap = Nil
      BY <2>1, <2>3 DEF BackfillOrphanedRepoAdmins, AuthInv
    <2> QED BY <2>2, <2>3 DEF AuthInv
  <1>4. TablesKept
    BY <1>1, <1>2, <1>3 DEF TablesKept
  <1>5. reqs' = [r \in Reqs |-> Idle]
    BY DEF Restart
  <1>6. reqs' \in [Reqs -> Records] /\ \A r \in Reqs : RequestOK(reqs'[r], sessions', initialised', clock')
    BY <1>5, IdleOK
  <1>7. \A r \in Reqs : RequestOK(reqs[r], sessions, initialised, clock)'
    BY <1>6 DEF RequestOK, Records
  <1>8. AuthInv'
    BY <1>4, <1>6, <1>7 DEF AuthInv, TablesKept, SessionsKept, UsersKept, ReposKept,
                   RecordHasDatabase, SoleFounder, Founder, RowsOrAbsent, Records
  <1>9. LapseStays
    <2>1. UNCHANGED <<clock, sessions>> /\ \A r \in Reqs : reqs'[r].pc = "idle"
      BY <1>5 DEF Restart, Idle
    <2> QED BY <2>1 DEF LapseStays, Lapsed
  <1> QED BY <1>4, <1>8, <1>9 DEF StepOK

\* The state a server starts in is sound.
LEMMA AuthInvInit == Init => AuthInv
  <1> SUFFICES ASSUME Init PROVE AuthInv
    OBVIOUS
  <1>1. PICK s \in Starts : bootstrap = s.bootstrap /\ users = s.users /\ sessions = s.sessions
    BY DEF Init
  <1>2. clock = 0 /\ SessionTtl \in Nat
    BY AuthAssumptions DEF Init
  <1>3. /\ users \in [Users -> UserRows] /\ SoleFounder(users) /\ RowsOrAbsent(users)
        /\ bootstrap \in Users \cup {Nil}
    BY <1>1, AccountAssumptions DEF SoleFounder, Founder, RowsOrAbsent
  <1>4. sessions \in [Tokens -> SessionRows]
        /\ \A k \in Tokens : sessions[k].expiresAt <= clock + SessionTtl
    BY <1>1, <1>2, AccountAssumptions
  <1>5. reqs \in [Reqs -> Records] /\ \A r \in Reqs : RequestOK(reqs[r], sessions, initialised, clock)
    <2>1. reqs = [r \in Reqs |-> Idle]
      BY DEF Init
    <2> QED BY <2>1, IdleOK
  <1>6. roles \in [Users -> [Repos -> RoleNames]] /\ records \in [Repos -> Users \cup {Nil}]
        /\ RecordHasDatabase
    BY DEF Init, RoleNames, RecordHasDatabase
  <1> QED BY <1>2, <1>3, <1>4, <1>5, <1>6 DEF AuthInv

\* Every step keeps the invariant and the tables.
LEMMA AuthInvStep == AuthInv /\ Next => StepOK
  <1> SUFFICES ASSUME AuthInv, Next PROVE StepOK
    OBVIOUS
  <1>1. CASE SessionNext /\ UNCHANGED accountVars
    BY <1>1, SessionSteps
  <1>2. CASE AccountNext
    BY <1>2, RestartStep, AccountRequests, AccountReads, AccountWrites, RoleWrites, ProvisionSteps
       DEF AccountNext
  <1> QED BY <1>1, <1>2 DEF Next

\* The invariant holds in every state the server reaches.
LEMMA AuthInvariant == Spec => []AuthInv
  <1>1. AuthInv /\ UNCHANGED vars => AuthInv'
    BY DEF vars, AuthInv, RequestOK, Records, RecordHasDatabase, SoleFounder, Founder, RowsOrAbsent
  <1>2. AuthInv /\ [Next]_vars => AuthInv'
    BY <1>1, AuthInvStep DEF StepOK
  <1> QED BY <1>2, AuthInvInit, PTL DEF Spec

\* No number of racing setup requests makes two first admins: the INSERT of
\* tryCreateFirstUser is conditional on an empty table.
THEOREM WizardMakesOneAccount == Spec => []OneFounder
  <1>1. AuthInv => OneFounder
    <2> SUFFICES ASSUME AuthInv PROVE OneFounder
      OBVIOUS
    <2> DEFINE S == {u \in Users : users[u].row /\ users[u].createdBy = "setup-wizard"}
    <2>1. \A u, v \in S : u = v
      BY DEF AuthInv, SoleFounder, Founder
    <2>2. CASE S = {}
      BY <2>2, FS_EmptySet DEF OneFounder
    <2>3. CASE S # {}
      <3>1. PICK u : S = {u}
        BY <2>1, <2>3
      <3> HIDE DEF S
      <3>2. Cardinality(S) = 1
        BY <3>1, FS_Singleton
      <3> QED BY <3>2 DEF OneFounder, S
    <2> QED BY <2>2, <2>3
  <1> QED BY <1>1, AuthInvariant, PTL

\* A repository on record has a Dolt database (repo-provisioning.service.ts).
THEOREM RecordsHaveDatabases == Spec => []RecordHasDatabase
  <1>1. AuthInv => RecordHasDatabase
    BY DEF AuthInv
  <1> QED BY <1>1, AuthInvariant, PTL

\* Creations that raced past the look-up do not replace an account.
THEOREM AccountsAreNotReplaced == Spec => AccountNotReplaced
  <1> DEFINE A == \A u \in Users :
                      users[u].row /\ users'[u].row => users'[u].createdBy = users[u].createdBy
  <1>1. AuthInv /\ Next => A
    BY AuthInvStep DEF StepOK, TablesKept, UsersKept
  <1>2. AuthInv /\ [Next]_vars => [A]_vars
    BY <1>1
  <1> QED BY <1>2, AuthInvariant, PTL DEF Spec, AccountNotReplaced

\* A session that was logged out stays so, whatever keep-alive or refresh
\* had read it before.
THEOREM LogoutIsFinal == Spec => RevokedStaysRevoked
  <1> DEFINE A == \A k \in Tokens : sessions[k].state = "deleted" => sessions'[k].state = "deleted"
  <1>1. AuthInv /\ Next => A
    BY AuthInvStep DEF StepOK, TablesKept, SessionsKept
  <1>2. AuthInv /\ [Next]_vars => [A]_vars
    BY <1>1
  <1> QED BY <1>2, AuthInvariant, PTL DEF Spec, RevokedStaysRevoked

\* A session that has lapsed, with no extension judged live on its way, never
\* lives again: for any number of keep-alives and refreshes, and any time
\* between their read, their check, their second now() and their UPDATE.
THEOREM ExpiryIsFinal == Spec => LapseIsFinal
  <1> DEFINE A == \A k \in Tokens : Lapsed(k) => (sessions'[k].state = "row" => Lapsed(k)')
  <1>1. AuthInv /\ Next => A
    BY AuthInvStep DEF StepOK, LapseStays
  <1>2. AuthInv /\ [Next]_vars => [A]_vars
    BY <1>1
  <1> QED BY <1>2, AuthInvariant, PTL DEF Spec, LapseIsFinal

\* A boot gives every recorded repository whose backfill does not fail a role
\* holder, whichever repositories fail, and changes no role on the others.
THEOREM BootAdoptsOrphans == Spec => BootLeavesNoOrphan
  <1> DEFINE A == bootstrap # Nil => \A failed \in SUBSET Repos :
                     Restart(failed) /\ users'[bootstrap].row =>
                        \A p \in Repos :
                           /\ records[p] # Nil /\ p \notin failed => \E u \in Users : roles'[u][p] # "none"
                           /\ p \in failed \/ (\E u \in Users : roles[u][p] # "none")
                                 => \A u \in Users : roles'[u][p] = roles[u][p]
  <1>1. AuthInv => A
    <2> SUFFICES ASSUME AuthInv, bootstrap # Nil, NEW failed \in SUBSET Repos, Restart(failed),
                        users'[bootstrap].row, NEW p \in Repos
                 PROVE  /\ records[p] # Nil /\ p \notin failed => \E u \in Users : roles'[u][p] # "none"
                        /\ p \in failed \/ (\E u \in Users : roles[u][p] # "none")
                              => \A u \in Users : roles'[u][p] = roles[u][p]
      OBVIOUS
    <2>1. bootstrap \in Users /\ roles \in [Users -> [Repos -> RoleNames]]
      BY DEF AuthInv
    <2>2. roles' = [roles EXCEPT ![bootstrap] = [x \in Repos |->
              IF records[x] # Nil /\ x \notin failed /\ \A u \in Users : roles[u][x] = "none"
              THEN "admin" ELSE roles[bootstrap][x]]]
      BY DEF Restart, BackfillOrphanedRepoAdmins
    <2>3. /\ \A u \in Users : u # bootstrap => roles'[u][p] = roles[u][p]
          /\ roles'[bootstrap][p] =
                IF records[p] # Nil /\ p \notin failed /\ \A u \in Users : roles[u][p] = "none"
                THEN "admin" ELSE roles[bootstrap][p]
      BY <2>1, <2>2
    <2>4. CASE records[p] # Nil /\ p \notin failed /\ \A u \in Users : roles[u][p] = "none"
      <3>1. roles'[bootstrap][p] = "admin"
        BY <2>3, <2>4
      <3> QED BY <2>1, <2>4, <3>1
    <2>5. CASE ~(records[p] # Nil /\ p \notin failed /\ \A u \in Users : roles[u][p] = "none")
      <3>1. \A u \in Users : roles'[u][p] = roles[u][p]
        BY <2>3, <2>5
      <3> QED BY <2>5, <3>1
    <2> QED BY <2>4, <2>5
  <1>2. AuthInv /\ [Next]_vars => [A]_vars
    BY <1>1 DEF vars
  <1> QED BY <1>2, AuthInvariant, PTL DEF Spec, BootLeavesNoOrphan

(***************************************************************************)
(* The login limiter, and the state that only grows.                       *)
(***************************************************************************)

\* The attempts on a name that were let through, against its window.
LimiterInv ==
    /\ attempts \in [Users -> Windows] /\ tried \in [Users -> Seq(0..MaxClock)]
    /\ \A u \in Users : WindowOK(tried[u], attempts[u].count, attempts[u].startedAt,
                                 MaxAttempts, WindowLength, clock)

\* The rest of the state has its type.
PlainInv ==
    /\ ops \subseteq STRING /\ clock \in 0..MaxClock
    /\ bearer \in [Users -> Int] /\ initialised \subseteq Repos

\* What a step does to the clock and the limiter: nothing, a tick, one
\* attempt or a restart.
LimiterStep ==
    \/ UNCHANGED <<clock, attempts, tried>>
    \/ clock < MaxClock /\ clock' = clock + 1 /\ UNCHANGED <<attempts, tried>>
    \/ \E u \in Users :
          /\ AssertAllowed(u) /\ RecordAttempt(u) /\ tried' = [tried EXCEPT ![u] = Append(@, clock)]
          /\ clock' = clock
    \/ /\ attempts' = [u \in Users |-> NoWindow] /\ tried' = [u \in Users |-> <<>>]
       /\ clock' = clock

\* A token is issued, or none is.
BearerStep == UNCHANGED bearer \/ \E u : IssueAccessToken(u)

\* A repository is initialised, or none is.
InitialisedStep ==
    UNCHANGED initialised \/ \E r \in Reqs : /\ At(r, "createRepo", "init")
                                             /\ initialised' = initialised \cup {reqs[r].repo}

\* Every step does one of these.
LEMMA StepKinds ==
    ASSUME Next PROVE ops' = ops /\ LimiterStep /\ BearerStep /\ InitialisedStep
  <1> USE DEF LimiterStep, BearerStep, InitialisedStep
  <1>1. CASE SessionNext /\ UNCHANGED accountVars
    <2>1. UNCHANGED initialised
      BY <1>1 DEF accountVars
    <2>2. CASE Tick
      BY <2>1, <2>2 DEF Tick
    <2>3. ASSUME NEW r \in Reqs, NEW u \in Users, LoginAttempt(r, u)
          PROVE  ops' = ops /\ LimiterStep /\ BearerStep /\ InitialisedStep
      BY <2>1, <2>3 DEF LoginAttempt
    <2>4. ASSUME NEW r \in Reqs, NEW k \in Tokens,
                 RefreshRequest(r, k) \/ KeepAliveRequest(r, k) \/ LogoutRequest(r, k)
          PROVE  ops' = ops /\ LimiterStep /\ BearerStep /\ InitialisedStep
      BY <2>1, <2>4 DEF RefreshRequest, KeepAliveRequest, LogoutRequest
    <2>5. ASSUME NEW r \in Reqs,
                 \/ FindUserForLogin(r) \/ VerifyCredentials(r) \/ LoginIssue(r) \/ CreateSession(r)
                 \/ UsernameFor(r) \/ AssertActive(r) \/ JudgeSession(r) \/ StampExpiry(r)
                 \/ Touch(r) \/ RefreshIssue(r) \/ Logout(r)
          PROVE  ops' = ops /\ LimiterStep /\ BearerStep /\ InitialisedStep
      BY <2>1, <2>5 DEF FindUserForLogin, VerifyCredentials, LoginIssue, CreateSession,
                        UsernameFor, AssertActive, JudgeSession, StampExpiry, Touch,
                        RefreshIssue, Logout
    <2> QED BY <1>1, <2>2, <2>3, <2>4, <2>5 DEF SessionNext
  <1>2. ASSUME NEW failed, Restart(failed)
        PROVE  ops' = ops /\ LimiterStep /\ BearerStep /\ InitialisedStep
    BY <1>2 DEF Restart
  <1>3. CASE AccountNext /\ ~ \E failed \in SUBSET Repos : Restart(failed)
    <2>1. SessionsUntouched
      BY <1>3 DEF AccountNext, AdminRequest, SetupRequest, CreateRepoRequest, RoleRequest,
             AdminGate, CreateUserLookup, CreateUser, DeactivateUser, ReactivateUser,
             DeleteUserCount, DeleteUser, GrantGlobalAdmin, TallyAdmins, RemoveGlobalAdmin,
             AllowCreateRepos, DenyCreateRepos, SetupStatus, SetupFirstAdmin, RoleGate,
             RoleGateGlobal, AssertUserExists, GrantRepoRole, RevokeRepoRole, CreateRepoGate,
             ProvisionLookup, DoltInit, ProvisionRecord, GrantRepoAdminToCreator
    <2>2. InitialisedStep
      <3>1. ASSUME NEW r \in Reqs, DoltInit(r) PROVE InitialisedStep
        BY <3>1 DEF DoltInit
      <3>2. ASSUME NEW r \in Reqs, ProvisionRecord(r) PROVE InitialisedStep
        BY <3>2 DEF ProvisionRecord
      <3> HIDE DEF InitialisedStep
      <3>3. ReposUntouched => InitialisedStep
        BY DEF ReposUntouched, InitialisedStep
      <3> QED
        BY <1>3, <3>1, <3>2, <3>3
           DEF AccountNext, AdminRequest, SetupRequest, CreateRepoRequest, RoleRequest,
             AdminGate, CreateUserLookup, CreateUser, DeactivateUser, ReactivateUser,
             DeleteUserCount, DeleteUser, GrantGlobalAdmin, TallyAdmins, RemoveGlobalAdmin,
             AllowCreateRepos, DenyCreateRepos, SetupStatus, SetupFirstAdmin, RoleGate,
             RoleGateGlobal, AssertUserExists, GrantRepoRole, RevokeRepoRole, CreateRepoGate,
             ProvisionLookup, GrantRepoAdminToCreator
    <2> QED BY <2>1, <2>2 DEF SessionsUntouched
  <1> QED BY <1>1, <1>2, <1>3 DEF Next

\* An attempt that the limiter lets through.
LEMMA AttemptStep ==
    ASSUME LimiterInv, PlainInv, NEW u \in Users, AssertAllowed(u), RecordAttempt(u),
           tried' = [tried EXCEPT ![u] = Append(@, clock)], clock' = clock
    PROVE  LimiterInv'
  <1> DEFINE w == attempts[u]
             h == tried[u]
             n == IF WindowOver(w) THEN [count |-> 1, startedAt |-> clock]
                  ELSE [count |-> w.count + 1, startedAt |-> w.startedAt]
  <1>1. /\ MaxAttempts \in Nat \ {0} /\ WindowLength \in Int /\ WindowLength >= 0
        /\ MaxClock \in Nat /\ clock \in Int /\ clock \in 0..MaxClock
    BY AuthAssumptions DEF PlainInv
  <1>2. /\ w \in Windows /\ h \in Seq(0..MaxClock) /\ w.count \in Nat /\ w.startedAt \in Int
        /\ WindowOK(h, w.count, w.startedAt, MaxAttempts, WindowLength, clock)
    BY DEF LimiterInv, Windows
  <1>3. /\ attempts' = [attempts EXCEPT ![u] = n] /\ tried' = [tried EXCEPT ![u] = Append(h, clock)]
        /\ attempts'[u] = n /\ tried'[u] = Append(h, clock)
        /\ \A x \in Users : x # u => attempts'[x] = attempts[x] /\ tried'[x] = tried[x]
    <2>1. attempts' = [attempts EXCEPT ![u] = n]
      BY DEF RecordAttempt
    <2>2. tried' = [tried EXCEPT ![u] = Append(h, clock)]
      BY Zenon
    <2> HIDE DEF n, h
    <2> QED BY <2>1, <2>2 DEF LimiterInv
  <1>4. n \in Windows /\ WindowOK(Append(h, clock), n.count, n.startedAt, MaxAttempts, WindowLength, clock)
    <2>1. CASE WindowOver(w)
      <3>1. n = [count |-> 1, startedAt |-> clock]
        BY <2>1
      <3>2. n \in Windows /\ n.count = 1 /\ n.startedAt = clock
        BY <1>1, <3>1 DEF Windows
      <3> HIDE DEF n
      <3>3. w.count = 0 \/ clock - w.startedAt >= WindowLength
        BY <2>1 DEF WindowOver
      <3> HIDE DEF w, h
      <3>4. WindowOK(Append(h, clock), 1, clock, MaxAttempts, WindowLength, clock)
        BY <1>1, <1>2, <3>3, WindowOpens
      <3> QED BY <3>2, <3>4
    <2>2. CASE ~WindowOver(w)
      <3>1. n = [count |-> w.count + 1, startedAt |-> w.startedAt]
        BY <2>2
      <3>2. w.count # 0 /\ w.count < MaxAttempts
        BY <2>2 DEF WindowOver, AssertAllowed
      <3> HIDE DEF w
      <3>3. n \in Windows /\ n.count = w.count + 1 /\ n.startedAt = w.startedAt
        BY <1>2, <3>1 DEF Windows
      <3> HIDE DEF n, h
      <3>4. WindowOK(Append(h, clock), w.count + 1, w.startedAt, MaxAttempts, WindowLength, clock)
        BY <1>1, <1>2, <3>2, WindowCounts
      <3> QED BY <3>3, <3>4
    <2> QED BY <2>1, <2>2
  <1> HIDE DEF w, h, n
  <1>5. Append(h, clock) \in Seq(0..MaxClock)
    BY <1>1, <1>2
  <1>6. attempts' \in [Users -> Windows]
    BY <1>3, <1>4 DEF LimiterInv
  <1>7. tried' \in [Users -> Seq(0..MaxClock)]
    BY <1>3, <1>5 DEF LimiterInv
  <1>8. ASSUME NEW x \in Users
        PROVE  WindowOK(tried'[x], attempts'[x].count, attempts'[x].startedAt,
                        MaxAttempts, WindowLength, clock')
    <2>1. CASE x = u
      BY <1>3, <1>4, <2>1
    <2>2. CASE x # u
      BY <1>3, <2>2 DEF LimiterInv
    <2> QED BY <2>1, <2>2
  <1>9. \A x \in Users : WindowOK(tried[x], attempts[x].count, attempts[x].startedAt,
                                  MaxAttempts, WindowLength, clock)'
    BY <1>8 DEF WindowOK, Spaced
  <1> QED BY <1>6, <1>7, <1>9 DEF LimiterInv

\* A limiter that has seen nothing.
LEMMA FreshLimiter ==
    /\ NoWindow \in Windows
    /\ \A t \in Nat : WindowOK(<<>>, NoWindow.count, NoWindow.startedAt, MaxAttempts, WindowLength, t)
  <1>1. NoWindow.count = 0 /\ NoWindow.startedAt = 0
    BY DEF NoWindow
  <1>2. NoWindow \in Windows
    <2>1. 0 \in Nat /\ 0 \in Int
      BY SMT
    <2> QED BY <2>1, Zenon DEF NoWindow, Windows
  <1>3. \A t \in Int : WindowOK(<<>>, 0, 0, MaxAttempts, WindowLength, t)
    <2>1. MaxAttempts \in Nat /\ WindowLength \in Int /\ 0 \in Int
      BY AuthAssumptions
    <2> QED BY <2>1, NothingLetThrough
  <1> QED BY <1>1, <1>2, <1>3

\* Every step keeps the windows and the types.
LEMMA LimiterInvStep ==
    ASSUME AuthInv, LimiterInv, PlainInv, Next PROVE LimiterInv' /\ PlainInv'
  <1>1. ops' = ops /\ LimiterStep /\ BearerStep /\ InitialisedStep
    BY StepKinds
  <1>2. clock \in 0..MaxClock /\ MaxClock \in Nat /\ clock' \in 0..MaxClock
    BY <1>1, AuthAssumptions DEF PlainInv, LimiterStep
  <1>3. bearer' \in [Users -> Int]
    <2>1. ASSUME NEW u, IssueAccessToken(u) PROVE bearer' \in [Users -> Int]
      <3>1. u \in Users => LaterOf(bearer[u], clock + AccessTtl) \in Int
        BY <1>2, AuthAssumptions DEF PlainInv, LaterOf
      <3>2. bearer' = [bearer EXCEPT ![u] = LaterOf(bearer[u], clock + AccessTtl)]
        BY <2>1 DEF IssueAccessToken
      <3> QED BY <3>1, <3>2 DEF PlainInv
    <2> QED BY <1>1, <2>1 DEF BearerStep, PlainInv
  <1>4. initialised' \subseteq Repos
    BY <1>1 DEF InitialisedStep, PlainInv, At, AuthInv, RequestOK
  <1>5. LimiterInv'
    <2>1. CASE UNCHANGED <<clock, attempts, tried>>
      BY <2>1 DEF LimiterInv, WindowOK, Spaced
    <2>2. CASE clock' = clock + 1 /\ UNCHANGED <<attempts, tried>>
      <3>1. clock \in Int /\ clock' \in Int /\ clock <= clock' /\ MaxAttempts \in Nat /\ WindowLength \in Int
        BY <1>2, <2>2, AuthAssumptions
      <3>2. ASSUME NEW u \in Users
            PROVE  WindowOK(tried[u], attempts[u].count, attempts[u].startedAt,
                            MaxAttempts, WindowLength, clock')
        BY <3>1, TimePasses DEF LimiterInv
      <3>3. \A u \in Users : WindowOK(tried[u], attempts[u].count, attempts[u].startedAt,
                                      MaxAttempts, WindowLength, clock)'
        BY <2>2, <3>2 DEF WindowOK, Spaced
      <3> QED BY <2>2, <3>3 DEF LimiterInv
    <2>3. CASE \E u \in Users :
                  /\ AssertAllowed(u) /\ RecordAttempt(u)
                  /\ tried' = [tried EXCEPT ![u] = Append(@, clock)] /\ clock' = clock
      BY <2>3, AttemptStep
    <2>4. CASE /\ attempts' = [u \in Users |-> NoWindow] /\ tried' = [u \in Users |-> <<>>]
               /\ clock' = clock
      <3>1. attempts' \in [Users -> Windows] /\ tried' \in [Users -> Seq(0..MaxClock)]
        BY <2>4, FreshLimiter
      <3>2. \A u \in Users : WindowOK(tried'[u], attempts'[u].count, attempts'[u].startedAt,
                                      MaxAttempts, WindowLength, clock')
        BY <1>2, <2>4, FreshLimiter
      <3>3. \A u \in Users : WindowOK(tried[u], attempts[u].count, attempts[u].startedAt,
                                      MaxAttempts, WindowLength, clock)'
        BY <3>2 DEF WindowOK, Spaced
      <3> QED BY <3>1, <3>3 DEF LimiterInv
    <2> QED BY <1>1, <2>1, <2>2, <2>3, <2>4 DEF LimiterStep
  <1> QED BY <1>1, <1>2, <1>3, <1>4, <1>5 DEF PlainInv

\* They hold in every state the server reaches.
LEMMA LimiterInvariant == Spec => [](AuthInv /\ LimiterInv /\ PlainInv)
  <1>1. Init => LimiterInv /\ PlainInv
    <2> SUFFICES ASSUME Init PROVE LimiterInv /\ PlainInv
      OBVIOUS
    <2>1. /\ clock = 0 /\ attempts = [u \in Users |-> NoWindow] /\ tried = [u \in Users |-> <<>>]
          /\ bearer = [u \in Users |-> AccessTtl] /\ initialised = {} /\ ops \subseteq STRING
      BY AccountAssumptions DEF Init
    <2>2. PlainInv
      BY <2>1, AuthAssumptions DEF PlainInv
    <2>3. LimiterInv
      BY <2>1, FreshLimiter DEF LimiterInv
    <2> QED BY <2>2, <2>3
  <1>2. (AuthInv /\ LimiterInv /\ PlainInv) /\ [Next]_vars => (AuthInv /\ LimiterInv /\ PlainInv)'
    <2>1. CASE UNCHANGED vars
      <3>1. AuthInv /\ UNCHANGED vars => AuthInv'
        BY DEF vars, AuthInv, RequestOK, Records, RecordHasDatabase, SoleFounder, Founder, RowsOrAbsent
      <3>2. LimiterInv /\ PlainInv /\ UNCHANGED vars => LimiterInv' /\ PlainInv'
        BY DEF vars, LimiterInv, PlainInv, WindowOK, Spaced
      <3> QED BY <2>1, <3>1, <3>2
    <2> QED BY <2>1, AuthInvStep, LimiterInvStep DEF StepOK
  <1> QED BY <1>1, <1>2, AuthInvInit, PTL DEF Spec

\* For any number of users and requests in flight the tables, windows and
\* requests hold what the code can write; no login counts past the limit.
THEOREM AuthTyped == Spec => []AuthTypeOK
  <1>1. AuthInv /\ LimiterInv /\ PlainInv => AuthTypeOK
    <2> SUFFICES ASSUME AuthInv, LimiterInv, PlainInv PROVE AuthTypeOK
      OBVIOUS
    <2>1. \A u \in Users : attempts[u].count <= MaxAttempts
      BY AuthAssumptions DEF LimiterInv, WindowOK
    <2>2. reqs \in [Reqs -> Requests]
      BY DEF AuthInv, Records, Requests
    <2>3. \A u \in Users : users[u].row \/ users[u] = Absent
      BY DEF AuthInv, RowsOrAbsent
    <2> QED BY <2>1, <2>2, <2>3 DEF AuthTypeOK, AuthInv, LimiterInv, PlainInv
  <1> QED BY <1>1, LimiterInvariant, PTL

\* Whatever times the attempts come at, fewer than 2 * MaxAttempts of them on
\* one name get past login-rate-limiter.ts in any interval of a window's
\* length, for every limit and window, until the process restarts.
THEOREM LoginAttemptsBounded == Spec => []AttemptsBounded
  <1>1. LimiterInv => AttemptsBounded
    BY DEF LimiterInv, WindowOK, Spaced, AttemptsBounded
  <1> QED BY <1>1, LimiterInvariant, PTL

=============================================================================
