---------------------------- MODULE AuthAccounts ----------------------------
(***************************************************************************)
(* Accounts, global admins, repository roles and repository creation: the  *)
(* user-management routes of auth.router.ts, the role and creation routes  *)
(* of versioning.router.ts, the first-admin setup, and what the server     *)
(* repairs at boot.  Composed with AuthSessions, whose sessions deleteUser *)
(* counts.                                                                 *)
(***************************************************************************)
EXTENDS AuthSessions

CONSTANT
    Starts              \* situations a behaviour may start in

ASSUME AccountAssumptions ==
    \A s \in Starts :
        /\ s.ops \subseteq STRING /\ s.bootstrap \in Users \cup {Nil}
        /\ s.users \in [Users -> UserRows]
        /\ \A u \in Users : s.users[u].row \/ s.users[u] = Absent
        /\ s.sessions \in [Tokens -> SessionRows]
        /\ \A k \in Tokens : s.sessions[k].expiresAt <= SessionTtl
        /\ \A u, v \in Users : s.users[u].createdBy = "setup-wizard" /\ s.users[u].row
                               /\ s.users[v].createdBy = "setup-wizard" /\ s.users[v].row => u = v

VARIABLES
    bootstrap,          \* DELTIX_BOOTSTRAP_ADMIN_USERNAME, or Nil
    roles,              \* roles[u][p]: repo_roles row, "none" without one
    records,            \* records[p]: created_by of the repos row, Nil without one
    initialised         \* repositories whose directory holds a Dolt database

accountVars == <<bootstrap, roles, records, initialised>>

vars == <<ops, clock, users, bearer, sessions, attempts, reqs, tried,
          bootstrap, roles, records, initialised>>

RoleNames == {"none", "reader", "writer", "admin"}

(***************************************************************************)
(* Reads and statements of the user store.                                 *)
(***************************************************************************)
UserCount == Cardinality({u \in Users : users[u].row})

\* listUsers, filtered as the last-admin guard filters it.
GlobalAdmins == {u \in Users : users[u].row /\ users[u].admin}

IsGlobalAdmin(u) == users[u].row /\ users[u].admin

CanUserCreateRepos(u) == users[u].row /\ (users[u].admin \/ users[u].canCreate)

\* UPDATE users SET ... WHERE username = ?: no row, no effect.
UpdateUser(u, row) == users' = IF users[u].row THEN [users EXCEPT ![u] = row] ELSE users

SetActive(u, b) == UpdateUser(u, [users[u] EXCEPT !.active = b])

SetGlobalAdmin(u, b) == UpdateUser(u, [users[u] EXCEPT !.admin = b])

SetCanCreateRepos(u, b) == UpdateUser(u, [users[u] EXCEPT !.canCreate = b])

\* Mutant of InsertUser.
InsertOrReplaceUser(u, row) == users' = [users EXCEPT ![u] = row]

\* The primary key refuses a second row of the same name.
InsertUser(u, row) == users' = IF users[u].row THEN users ELSE [users EXCEPT ![u] = row]

\* Mutant of TryCreateFirstUser.
TryCreateUser(u, row) == users' = IF users[u].row THEN users ELSE [users EXCEPT ![u] = row]

\* INSERT ... WHERE NOT EXISTS (SELECT 1 FROM users)
TryCreateFirstUser(u, row) ==
    users' = IF UserCount = 0 THEN [users EXCEPT ![u] = row] ELSE users

\* DELETE FROM users.  Whether the roles go too depends on the foreign-key
\* default of the libSQL build, which the code does not set.
DeleteUserRow(u) ==
    /\ users' = [users EXCEPT ![u] = Absent]
    /\ roles' \in {roles, [roles EXCEPT ![u] = [p \in Repos |-> "none"]]}

CountActiveSessions(u) ==
    Cardinality({k \in Tokens : sessions[k].state = "row" /\ sessions[k].user = u
                                  /\ sessions[k].expiresAt >= clock})

KeepUsers == UNCHANGED users

SessionsUntouched == UNCHANGED <<ops, bootstrap, clock, bearer, sessions, attempts, tried>>

ReposUntouched == UNCHANGED <<records, initialised>>

(***************************************************************************)
(* The user-management routes.  Each authenticates the bearer token, reads *)
(* whether its caller is a global admin, and then calls the service.       *)
(***************************************************************************)
AdminOps ==
    {"createUser", "deactivate", "reactivate", "deleteUser",
     "grantAdmin", "removeAdmin", "stepDown", "allowCreate", "denyCreate"}

\* DELETE /users/:username/global-admin is called stepDown on oneself.
TargetFits(op, caller, target) ==
    /\ op = "stepDown" => target = caller
    /\ op = "removeAdmin" => target # caller

AdminRequest(r, op, caller, target) ==
    /\ VerifyAccessToken(caller) /\ TargetFits(op, caller, target)
    /\ Receive(r, [Idle EXCEPT !.op = op, !.pc = "gate", !.caller = caller, !.target = target])
    /\ UNCHANGED <<users, roles>> /\ SessionsUntouched /\ ReposUntouched

\* Where each handler goes on after the gate.
AfterGate(q) ==
    CASE q.op = "createUser" -> "lookup"
      [] q.op = "deleteUser" -> "count"
      [] q.op = "stepDown" -> "tally"
      [] OTHER -> "write"

AdminGate(r) ==
    /\ reqs[r].pc = "gate"
    /\ IF IsGlobalAdmin(reqs[r].caller) THEN Goto(r, AfterGate(reqs[r])) ELSE Answer(r)
    /\ UNCHANGED <<users, roles>> /\ SessionsUntouched /\ ReposUntouched

CreateUserLookup(r) ==
    /\ At(r, "createUser", "lookup")
    /\ IF users[reqs[r].target].row THEN Answer(r) ELSE Goto(r, "insert")
    /\ UNCHANGED <<users, roles>> /\ SessionsUntouched /\ ReposUntouched

\* The password is hashed between the look-up and the INSERT.
CreateUser(r) ==
    /\ At(r, "createUser", "insert")
    /\ \E canCreate \in BOOLEAN :
          InsertUser(reqs[r].target, NewUser(reqs[r].caller, FALSE, canCreate))
    /\ Answer(r)
    /\ UNCHANGED roles /\ SessionsUntouched /\ ReposUntouched

DeactivateUser(r) ==
    /\ At(r, "deactivate", "write")
    /\ SetActive(reqs[r].target, FALSE)
    /\ Answer(r)
    /\ UNCHANGED roles /\ SessionsUntouched /\ ReposUntouched

ReactivateUser(r) ==
    /\ At(r, "reactivate", "write")
    /\ SetActive(reqs[r].target, TRUE)
    /\ Answer(r)
    /\ UNCHANGED roles /\ SessionsUntouched /\ ReposUntouched

\* deleteUser counts the sessions first and deletes in a second statement.
DeleteUserCount(r) ==
    /\ At(r, "deleteUser", "count")
    /\ IF CountActiveSessions(reqs[r].target) > 0 THEN Answer(r) ELSE Goto(r, "write")
    /\ UNCHANGED <<users, roles>> /\ SessionsUntouched /\ ReposUntouched

DeleteUser(r) ==
    /\ At(r, "deleteUser", "write")
    /\ DeleteUserRow(reqs[r].target)
    /\ Answer(r)
    /\ SessionsUntouched /\ ReposUntouched

GrantGlobalAdmin(r) ==
    /\ At(r, "grantAdmin", "write")
    /\ SetGlobalAdmin(reqs[r].target, TRUE)
    /\ Answer(r)
    /\ UNCHANGED roles /\ SessionsUntouched /\ ReposUntouched

\* Only a caller who removes itself is held against the number of admins.
TallyAdmins(r) ==
    /\ At(r, "stepDown", "tally")
    /\ IF Cardinality(GlobalAdmins) <= 1 THEN Answer(r) ELSE Goto(r, "write")
    /\ UNCHANGED <<users, roles>> /\ SessionsUntouched /\ ReposUntouched

RemoveGlobalAdmin(r) ==
    /\ At(r, "removeAdmin", "write") \/ At(r, "stepDown", "write")
    /\ SetGlobalAdmin(reqs[r].target, FALSE)
    /\ Answer(r)
    /\ UNCHANGED roles /\ SessionsUntouched /\ ReposUntouched

AllowCreateRepos(r) ==
    /\ At(r, "allowCreate", "write")
    /\ SetCanCreateRepos(reqs[r].target, TRUE)
    /\ Answer(r)
    /\ UNCHANGED roles /\ SessionsUntouched /\ ReposUntouched

DenyCreateRepos(r) ==
    /\ At(r, "denyCreate", "write")
    /\ SetCanCreateRepos(reqs[r].target, FALSE)
    /\ Answer(r)
    /\ UNCHANGED roles /\ SessionsUntouched /\ ReposUntouched

(***************************************************************************)
(* First-boot setup: no authentication, an eligibility check by the route, *)
(* another by the service, and the conditional INSERT.                     *)
(***************************************************************************)
SetupEligible == bootstrap = Nil /\ UserCount = 0

SetupRequest(r, u) ==
    /\ SetupEligible
    /\ Receive(r, [Idle EXCEPT !.op = "setup", !.pc = "status", !.target = u])
    /\ UNCHANGED <<users, roles>> /\ SessionsUntouched /\ ReposUntouched

SetupStatus(r) ==
    /\ At(r, "setup", "status")
    /\ IF SetupEligible THEN Goto(r, "insert") ELSE Answer(r)
    /\ UNCHANGED <<users, roles>> /\ SessionsUntouched /\ ReposUntouched

SetupFirstAdmin(r) ==
    /\ At(r, "setup", "insert")
    /\ TryCreateFirstUser(reqs[r].target, NewUser("setup-wizard", TRUE, TRUE))
    /\ Answer(r)
    /\ UNCHANGED roles /\ SessionsUntouched /\ ReposUntouched

(***************************************************************************)
(* Roles on a repository: an admin of it, or a global admin, assigns them. *)
(***************************************************************************)
RoleRequest(r, op, caller, target, p) ==
    /\ VerifyAccessToken(caller)
    /\ Receive(r, [Idle EXCEPT !.op = op, !.pc = "role", !.caller = caller,
                               !.target = target, !.repo = p])
    /\ UNCHANGED <<users, roles>> /\ SessionsUntouched /\ ReposUntouched

\* requireRepoRoleOrGlobalAdmin: two reads; the second only when the first fails.
RoleGate(r) ==
    /\ reqs[r].pc = "role"
    /\ Goto(r, IF roles[reqs[r].caller][reqs[r].repo] = "admin" THEN "admitted" ELSE "roleAdmin")
    /\ UNCHANGED <<users, roles>> /\ SessionsUntouched /\ ReposUntouched

RoleGateGlobal(r) ==
    /\ reqs[r].pc = "roleAdmin"
    /\ IF IsGlobalAdmin(reqs[r].caller) THEN Goto(r, "admitted") ELSE Answer(r)
    /\ UNCHANGED <<users, roles>> /\ SessionsUntouched /\ ReposUntouched

\* assertUserExists accepts a row or a legacy entry.
AssertUserExists(r) ==
    /\ reqs[r].op \in {"grantRole", "createRepo"} /\ reqs[r].pc = "admitted"
    /\ IF users[reqs[r].target].row \/ reqs[r].target \in LegacyUsers
         THEN Goto(r, "upsert") ELSE Answer(r)
    /\ UNCHANGED <<users, roles>> /\ SessionsUntouched /\ ReposUntouched

\* An upsert for a user without a row fails where foreign keys are enforced.
UpsertRepoRole(u, p, role) ==
    \/ roles' = [roles EXCEPT ![u][p] = role]
    \/ ~users[u].row /\ UNCHANGED roles

GrantRepoRole(r) ==
    /\ At(r, "grantRole", "upsert")
    /\ \E role \in RoleNames \ {"none"} : UpsertRepoRole(reqs[r].target, reqs[r].repo, role)
    /\ Answer(r)
    /\ KeepUsers /\ SessionsUntouched /\ ReposUntouched

RevokeRepoRole(r) ==
    /\ At(r, "revokeRole", "admitted")
    /\ roles' = [roles EXCEPT ![reqs[r].target][reqs[r].repo] = "none"]
    /\ Answer(r)
    /\ KeepUsers /\ SessionsUntouched /\ ReposUntouched

(***************************************************************************)
(* POST /repos: the flag, the look-up, dolt init, the record, the role.    *)
(***************************************************************************)
CreateRepoRequest(r, caller, p) ==
    /\ VerifyAccessToken(caller)
    /\ Receive(r, [Idle EXCEPT !.op = "createRepo", !.pc = "mayCreate", !.caller = caller,
                               !.target = caller, !.repo = p])
    /\ UNCHANGED <<users, roles>> /\ SessionsUntouched /\ ReposUntouched

CreateRepoGate(r) ==
    /\ At(r, "createRepo", "mayCreate")
    /\ IF CanUserCreateRepos(reqs[r].caller) THEN Goto(r, "lookup") ELSE Answer(r)
    /\ UNCHANGED <<users, roles>> /\ SessionsUntouched /\ ReposUntouched

ProvisionLookup(r) ==
    /\ At(r, "createRepo", "lookup")
    /\ IF records[reqs[r].repo] # Nil THEN Answer(r) ELSE Goto(r, "init")
    /\ UNCHANGED <<users, roles>> /\ SessionsUntouched /\ ReposUntouched

\* Mutant of DoltInit: the exit code is not looked at.
DoltInitUnchecked(r) ==
    /\ At(r, "createRepo", "init")
    /\ initialised' \in {initialised, initialised \cup {reqs[r].repo}}
    /\ Goto(r, "record")
    /\ UNCHANGED <<users, roles, records>> /\ SessionsUntouched

\* `dolt init` exits with an error in a directory that is a database already,
\* and may fail anywhere; its exit code decides.
DoltInit(r) ==
    /\ At(r, "createRepo", "init")
    /\ \/ /\ reqs[r].repo \notin initialised
          /\ initialised' = initialised \cup {reqs[r].repo}
          /\ Goto(r, "record")
       \/ UNCHANGED initialised /\ Answer(r)
    /\ UNCHANGED <<users, roles, records>> /\ SessionsUntouched

\* The primary key of repos refuses a second record.
ProvisionRecord(r) ==
    /\ At(r, "createRepo", "record")
    /\ IF records[reqs[r].repo] = Nil
         THEN /\ records' = [records EXCEPT ![reqs[r].repo] = reqs[r].caller]
              /\ Goto(r, "admitted")
         ELSE UNCHANGED records /\ Answer(r)
    /\ UNCHANGED <<users, roles, initialised>> /\ SessionsUntouched

GrantRepoAdminToCreator(r) ==
    /\ At(r, "createRepo", "upsert")
    /\ UpsertRepoRole(reqs[r].target, reqs[r].repo, "admin")
    /\ Answer(r)
    /\ KeepUsers /\ SessionsUntouched /\ ReposUntouched

(***************************************************************************)
(* A crash and the next boot: the bootstrap admin is created or promoted,  *)
(* then repositories nobody holds a role on are given to it.  The server   *)
(* does not listen yet, so the boot is one step.                           *)
(***************************************************************************)
EnsureBootstrapAdmin ==
    LET b == bootstrap
    IN  CASE b = Nil -> users
          [] b # Nil /\ UserCount = 0 ->
                [users EXCEPT ![b] = NewUser("bootstrap-env", TRUE, TRUE)]
          [] b # Nil /\ UserCount > 0 ->
                IF users[b].row THEN [users EXCEPT ![b].admin = TRUE] ELSE users

\* Mutant: backfilling before the bootstrap admin is ensured.
BackfillTooEarly(us, failed) ==
    IF bootstrap = Nil \/ ~users[bootstrap].row THEN roles
    ELSE [roles EXCEPT ![bootstrap] = [p \in Repos |->
            IF records[p] # Nil /\ p \notin failed /\ \A u \in Users : roles[u][p] = "none"
            THEN "admin" ELSE roles[bootstrap][p]]]

\* backfillOrphanedRepoAdmin for every record, against the accounts in us; where
\* it throws, the repository is logged and skipped.
BackfillOrphanedRepoAdmins(us, failed) ==
    IF bootstrap = Nil \/ ~us[bootstrap].row THEN roles
    ELSE [roles EXCEPT ![bootstrap] = [p \in Repos |->
            IF records[p] # Nil /\ p \notin failed /\ \A u \in Users : roles[u][p] = "none"
            THEN "admin" ELSE roles[bootstrap][p]]]

\* failed: the repositories whose backfill throws at this boot.
Restart(failed) ==
    /\ "restart" \in ops
    /\ users' = EnsureBootstrapAdmin
    /\ roles' = BackfillOrphanedRepoAdmins(users', failed)
    /\ reqs' = [r \in Reqs |-> Idle]
    /\ attempts' = [u \in Users |-> NoWindow]
    /\ tried' = [u \in Users |-> <<>>]
    /\ UNCHANGED <<ops, bootstrap, clock, bearer, sessions, records, initialised>>

AccountNext ==
    \/ \E failed \in SUBSET Repos : Restart(failed)
    \/ \E r \in Reqs, caller \in Users, target \in Users, op \in AdminOps :
          AdminRequest(r, op, caller, target)
    \/ \E r \in Reqs, u \in Users : SetupRequest(r, u)
    \/ \E r \in Reqs, caller \in Users, p \in Repos :
          \/ CreateRepoRequest(r, caller, p)
          \/ \E target \in Users, op \in {"grantRole", "revokeRole"} :
                RoleRequest(r, op, caller, target, p)
    \/ \E r \in Reqs :
          \/ AdminGate(r) \/ CreateUserLookup(r) \/ CreateUser(r)
          \/ DeactivateUser(r) \/ ReactivateUser(r) \/ DeleteUserCount(r) \/ DeleteUser(r)
          \/ GrantGlobalAdmin(r) \/ TallyAdmins(r) \/ RemoveGlobalAdmin(r)
          \/ AllowCreateRepos(r) \/ DenyCreateRepos(r)
          \/ SetupStatus(r) \/ SetupFirstAdmin(r)
          \/ RoleGate(r) \/ RoleGateGlobal(r) \/ AssertUserExists(r)
          \/ GrantRepoRole(r) \/ RevokeRepoRole(r)
          \/ CreateRepoGate(r) \/ ProvisionLookup(r) \/ DoltInit(r) \/ ProvisionRecord(r)
          \/ GrantRepoAdminToCreator(r)

Init ==
    /\ \E s \in Starts : 
          /\ ops = s.ops /\ bootstrap = s.bootstrap
          /\ users = s.users /\ sessions = s.sessions
    /\ clock = 0
    /\ bearer = [u \in Users |-> AccessTtl]
    /\ attempts = [u \in Users |-> NoWindow]
    /\ reqs = [r \in Reqs |-> Idle]
    /\ tried = [u \in Users |-> <<>>]
    /\ roles = [u \in Users |-> [p \in Repos |-> "none"]]
    /\ records = [p \in Repos |-> Nil]
    /\ initialised = {}

Next == (SessionNext /\ UNCHANGED accountVars) \/ AccountNext

Spec == Init /\ [][Next]_vars

(***************************************************************************)
(* Properties                                                              *)
(***************************************************************************)
OpNames ==
    SessionOps \cup AdminOps \cup {"none", "setup", "grantRole", "revokeRole", "createRepo"}

\* Where the code of a handler can be.
PcNames ==
    {"idle", "findUser", "verify", "issue", "createSession", "usernameFor", "keepAlive", "touch",
     "stamp", "update", "revoke", "gate", "lookup", "count", "tally", "write", "insert", "status", "role",
     "roleAdmin", "admitted", "upsert", "mayCreate", "init", "record"}

Requests ==
    [op : OpNames, pc : PcNames, caller : Users \cup {Nil}, target : Users \cup {Nil},
     repo : Repos \cup {Nil}, token : Tokens \cup {Nil}, until : Int]

\* The tables, the windows and the requests hold what the code can write.
AuthTypeOK ==
    /\ ops \subseteq STRING /\ bootstrap \in Users \cup {Nil}
    /\ clock \in 0..MaxClock
    /\ users \in [Users -> UserRows]
    /\ \A u \in Users : users[u].row \/ users[u] = Absent
    /\ bearer \in [Users -> Int]
    /\ sessions \in [Tokens -> SessionRows]
    /\ \A k \in Tokens : sessions[k].expiresAt <= clock + SessionTtl
    /\ attempts \in [Users -> Windows]
    /\ \A u \in Users : attempts[u].count <= MaxAttempts
    /\ reqs \in [Reqs -> Requests]
    /\ tried \in [Users -> Seq(0..MaxClock)]
    /\ roles \in [Users -> [Repos -> RoleNames]]
    /\ records \in [Repos -> Users \cup {Nil}]
    /\ initialised \subseteq Repos

\* However many setup requests race on an empty table, the wizard makes one
\* account: no two rows were created by setupFirstAdmin.
OneFounder ==
    Cardinality({u \in Users : users[u].row /\ users[u].createdBy = "setup-wizard"}) <= 1

\* While a row exists no request replaces it: of two creations of the same name
\* that both passed the look-up, the second fails and the first password stays.
AccountNotReplaced ==
    [][\A u \in Users :
          users[u].row /\ users'[u].row => users'[u].createdBy = users[u].createdBy]_vars

\* A session that logout deleted never comes back, not even through a
\* keep-alive or refresh that had found it active before the logout.
RevokedStaysRevoked ==
    [][\A k \in Tokens : sessions[k].state = "deleted" => sessions'[k].state = "deleted"]_vars

\* Session k is past its expiry, and no request that may still extend it is on
\* its way: one that has judged it live, or read a row that is not over yet.
Lapsed(k) ==
    /\ sessions[k].state = "row" /\ clock > sessions[k].expiresAt
    /\ \A r \in Reqs : reqs[r].token = k =>
          /\ reqs[r].pc \notin {"stamp", "update"}
          /\ reqs[r].pc = "touch" => clock > reqs[r].until

\* session-manager.ts:30-57: a session that has lapsed stays so.  The check,
\* the second now() and the UPDATE are apart, so an UPDATE on its way may still
\* revive the row; nothing that arrives or reads later does, and no race of
\* extensions leaves behind a request that could.
LapseIsFinal ==
    [][\A k \in Tokens : Lapsed(k) => (sessions'[k].state = "row" => Lapsed(k)')]_vars

\* In any interval as long as a window, less than two windows' worth of
\* attempts on one name get past the limiter: the bound of a fixed window whose
\* edge the attempts straddle.
AttemptsBounded ==
    \A u \in Users : \A i \in DOMAIN tried[u] :
        LET j == i + 2 * MaxAttempts - 1 IN
        j \in DOMAIN tried[u] => tried[u][j] - tried[u][i] >= WindowLength

\* A repository is on record only once its Dolt database exists, although dolt
\* init may fail, creators may race and the server may crash between the steps.
RecordHasDatabase == \A p \in Repos : records[p] # Nil => p \in initialised

\* index.ts:43-76: after a boot with a bootstrap account every recorded
\* repository whose backfill did not fail has a role holder, even when the crash
\* hit between the record and the creator's grant and the account was only
\* created by this boot; "never a repo that already has an owner" is touched.
BootLeavesNoOrphan ==
    [][bootstrap # Nil => \A failed \in SUBSET Repos :
          Restart(failed) /\ users'[bootstrap].row =>
             \A p \in Repos :
                /\ records[p] # Nil /\ p \notin failed => \E u \in Users : roles'[u][p] # "none"
                /\ p \in failed \/ (\E u \in Users : roles[u][p] # "none")
                      => \A u \in Users : roles'[u][p] = roles[u][p]]_vars

\* "refuses to let the last remaining global admin revoke their own role, to
\* prevent an irrecoverable lockout": once there is a global admin and only
\* self-removals happen, there still is one.
AnAdminRemains == GlobalAdmins # {}

=============================================================================
