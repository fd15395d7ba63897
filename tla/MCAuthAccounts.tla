-------------------------- MODULE MCAuthAccounts --------------------------
EXTENDS AuthAccounts, TLC

CONSTANTS ana, bob, key

\* Who has an account at the start.
Nobody == [u \in Users |-> Absent]
Admins(us) == [u \in Users |-> IF u \in us THEN NewUser("setup-wizard", TRUE, TRUE) ELSE Absent]
AdminAndUser == [Admins({ana}) EXCEPT ![bob] = NewUser(ana, FALSE, FALSE)]

NoSessions == [t \in Tokens |-> FreeSession]
LoggedIn(u) == [NoSessions EXCEPT ![key] = [state |-> "row", user |-> u, expiresAt |-> SessionTtl]]

\* Each start exercises operations that interact.
MCStarts ==
    { [ops |-> {"setup", "createUser", "deleteUser"}, bootstrap |-> Nil,
       users |-> Nobody, sessions |-> NoSessions],
      [ops |-> {"setup", "createUser", "grantAdmin", "removeAdmin", "stepDown", "deleteUser"}, bootstrap |-> Nil,
       users |-> Nobody, sessions |-> NoSessions],
      [ops |-> {"createRepo", "grantRole", "revokeRole", "restart"}, bootstrap |-> bob,
       users |-> AdminAndUser, sessions |-> NoSessions],
      [ops |-> {"createRepo", "deleteUser", "allowCreate", "denyCreate", "restart"}, bootstrap |-> bob,
       users |-> AdminAndUser, sessions |-> NoSessions],
      [ops |-> {"refresh", "keepAlive", "logout", "tick"}, bootstrap |-> Nil,
       users |-> AdminAndUser, sessions |-> LoggedIn(bob)],
      [ops |-> {"login", "tick"}, bootstrap |-> Nil,
       users |-> Nobody, sessions |-> NoSessions],
      [ops |-> {"login", "logout", "deactivate", "reactivate", "deleteUser"}, bootstrap |-> Nil,
       users |-> AdminAndUser, sessions |-> NoSessions] }

\* Two admins who step down at the same time.
TwoAdminsStart ==
    { [ops |-> {"stepDown"}, bootstrap |-> Nil,
       users |-> [Admins({ana}) EXCEPT ![bob] = NewUser(ana, TRUE, TRUE)],
       sessions |-> NoSessions] }

ReqSymmetry == Permutations(Reqs)

=============================================================================
