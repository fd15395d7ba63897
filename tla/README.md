# Formal models of Deltix-Server

TLA+ modules, TLC configurations and TLAPS proofs for the control plane of
Deltix-Server: the protocol code in `src/contexts/`, the boot sequence of
`src/index.ts` and the browser side of the admin console. Paths below are
relative to the repository root. `PROJECT.json` maps every definition to the lines it
models and lists runs, mutants, findings, hazards and theorems.

## 1. Inventory

| Context | State | Operations | Hard behaviour |
|---|---|---|---|
| **transfer** (tickets) | table `transfer_tickets`; the role read through `verifyRepoRole` | `issueTicket`, `consumeTicket`, `renewTicket`, `closeTicket`; `POST /push/ticket`, `POST /auth/session-close` | every method awaits between reading a role and writing a row; many callers present one ticket; the window slides with late heartbeats |
| **storage** (gRPC engine) | per push call: `headerReceived`, `aborted`, `pendingAbort`, `streamEnded`, the promise `queue`, a `PushSessionHandler` | messages `header`, `chunk`; `end`, `error`, `cancelled` callbacks; `pull`; `heartbeat` | callbacks interleave with the awaits of the message in progress; exactly one answer, not before `end` |
| **storage** (NAS sync) | table `transfer_jobs`; per worker the call of `processNext` it is in; `repo.dolt` per repository | claim, copy, verify, rename, mark, retry, dead letter, requeue | racing workers, crashes between claim and mark, backoff, retry budget |
| **auth** | tables of users, repo roles, sessions; login windows in memory | login, refresh, keep-alive, logout; create, deactivate, reactivate, delete users; global admins, creation rights; first-admin setup; role grants; boot repairs | every route awaits between its gate and its write; count-then-write guards; a sliding session that two requests touch at once |
| **versioning** | Dolt repositories, repo records, sync preferences, one promise chain per repository | branch create, checkout, delete; merge and abort; import, record, export; preferences and preview; provision | branches and merges run under the mutex, pushes and pulls do not; a head is read in one command and used in another; a command may fail between two others |
| **addons** | trust store, loaded and active addons, failure counts | discovery, signature and licence pipeline, activation, trust routes, circuit breaker | calls overlap around the disabling threshold; one bad package among good ones; trust revoked while the addon runs |
| **licensing** | licence key, newest commit date | the checks at boot | a clock that is set back |
| **tls-discovery** | a window per source | certificate route | attempts that straddle the edge of a window |
| **admin-ui** | token timers, session cookie, tables | sign in and out, renewal and its retry, restore, table loads | timers, reloads and answers in any order; a late answer overwrites a newer one |
| **config**, **bootstrap**, **cli**, **shared** | settings, files | validation, prompts, I/O | no protocol state |

How they interact. The REST routes of *transfer* check a repo role with *auth*
and issue a ticket. A gRPC client presents it in the header of a push, or in a
pull request; the session consumes it, and heartbeats renew it. A finished push
runs the `onBeforePush` hook of `src/index.ts` (which may provision a
repository through *versioning* and grant the pusher a role through *auth*),
inserts a transfer job, closes the ticket and runs `onPushCommitted`. The NAS
worker of *storage* polls the same job table. The REST routes of *versioning*
and *auth* work on the same user, role and record tables; *licensing* reads the
commit log of *versioning* at boot and decides which *addons* may load; the
console uses the session routes of *auth* and the trust routes of *addons*.
Everything shares one event loop
per process and libSQL files; several processes may share the files.

What makes each component correct:

- tickets: one session per ticket ever; revocation is effective at the next
  consumption or heartbeat; validity never exceeds one TTL; truthful refusals;
- engine: no chunk without a consumed ticket; a committed job stands for a
  complete upload that no abort has touched; one answer, after the end, as long as
  the queue of messages lives;
- NAS sync: one owner per claimed job; exactly `maxRetries` attempts; a synced
  job is readable; every job settles;
- auth: one founder, whoever races the wizard; an account is never replaced;
  logout is final, and so is expiry for whatever reads it; a bounded number of attempts per window; a
  record has a database, and a boot adopts the repositories without a role holder;
- versioning: one branch operation at a time, in order; no commit is lost; a
  merge with conflicts is aborted; a lone push lands where it was sent; a pull is
  complete; a plan is the least closure; every request is answered;
- addons, licensing, TLS: exactly the authorised addons are served; the breaker
  opens after a row of failures and stays open; an expired licence does not come
  back; a bounded number of certificates per window;
- console: the session is kept through single failures; the table comes to show
  the trust store.

## 2. Plan

The order follows what the server exists for: moving data first, then who may
do so, then what happens to the repositories, then the platform around it.
Items 1-6 are done.

1. `TransferTickets`: the ticket service, and the role changes that race it.
2. `TransferSessions`, extending it: pushes, pulls, heartbeats; shown to
   implement the ticket service.
3. `NasSync`, and `TransferJobLifecycle`, the abstract job life it implements.
4. `AuthSessions` and `AuthAccounts`: sessions, users, global admins, roles,
   repository creation; the count-then-write guards as separate steps.
5. `RepoBranchMutex` (abstract: `RepoLock`), `DoltRepo`, `SyncPreferences`, and
   `Versioning`, which composes the three.
6. `ServerHost` and, over it, `AdminConsole`.

Every safety property of a passing run is also a theorem. Left: the users and
roles tables of the console; the latter has no interval that reloads it.

## 3. Modules

| Module | Models | Kind |
|---|---|---|
| `TransferTickets` | `ticket.service.ts`, `libsql-ticket-store.ts`, ticket routes | component |
| `TransferSessions` | `grpc-transfer-server.ts`, `push-session-handler.ts`, `pull-session-handler.ts`, push hooks; extends `TransferTickets` | composition |
| `NasSync` | `nas-sync.*.ts`, `libsql-transfer-job-store.ts`, `local-fs-nas-adapter.ts`, requeue route | component |
| `TransferJobLifecycle` | the promises in `transfer-job-store.ts` | abstract specification |
| `AuthSessions` | `auth.service.ts` (login, refresh, keep-alive, logout), `session-manager.ts`, `login-rate-limiter.ts`, session store | component |
| `AuthAccounts` | user management and setup of `auth.router.ts` and `auth.service.ts`, user and role stores, role and creation routes, `repo-provisioning.service.ts`, boot repairs; extends `AuthSessions` | composition |
| `RepoLock` | what `repo-branch-mutex.ts` promises: a first-come first-served lock | abstract specification |
| `RepoBranchMutex` | `repo-branch-mutex.ts`, the chain of promises | component |
| `DoltRepo` | a repository as the `dolt-*-cli.ts` wrappers use it | component, Dolt itself external |
| `SyncPreferences` | closure and checks of `sync-preference.service.ts` | operators |
| `Versioning` | branch, merge, commit, import, export services and their routes; extends the three above | composition |
| `ServerHost` | `main()` of `src/index.ts`, licence validation, addon loader, trust store, breaker, certificate route | component |
| `AdminConsole` | `admin-ui/assets/app.js` against the server of `ServerHost` | composition |
| `MCTransferSessions`, `MCNasSync`, `MCAuthAccounts`, `MCVersioning`, `MCAdminConsole` | bounds, starting situations, symmetry for TLC | model checking |
| `TransferTicketsProofs`, `TransferSessionsProofs`, `NasSyncProofs`, `AuthProofs`, `VersioningProofs`, `AdminConsoleProofs` | theorems of the components | proofs |
| `RepositoryProofs`, `FixedWindowProofs` | what those rest on: the mutex, the dolt commands and the closure; a limiter with a fixed window | proofs |

Conventions. A step is what the program does between two `await`s; a SQL
statement is atomic, as in SQLite. A definition marked "Mutant" is a plausible
mistake, used only to show that a property can fail. `Nil` stands for
`undefined` or `null`.

**TransferTickets.** `tickets` is the table (status `absent` = no row),
`role[u][r]` the rank of a `repo_roles` row (0 = none), `calls[c]` the service
call caller `c` is in: its program counter names the await, `now` the timestamp
it read first. `ConsumeBegin` takes the first `store.get` together with the
start of the call: the columns it reads are never updated. The same holds for
the read after a successful `activate`. Role changes (`SetRole`) and closes
come at any time. `authorized[c]` is a ghost variable: whether the ticket's
owner has held a sufficient role at some instant since the call began.
`reapExpired` is called by nothing in the repository, so it is no action and
the status `expired` does not occur. Initially the table may hold unused
tickets that survived a restart.

**TransferSessions.** `streams[s]` holds the closure variables of one push call
and the fields of its `PushSessionHandler`; `queue` holds the messages the
promise chain has still to handle, and `phase` the await the current handler is
in. `Cancelled` and `StreamError` may run in any phase, as the callbacks do.
`file` and `sink` follow the staging file; contents are abstracted to counts of
chunks offered by the client and chunks written. A write to a sink that an
`error` callback ended may throw or not: both are allowed. `write` and `end` are
not awaited: `chunks` counts what the sink took, `stored` what `FlushSink` brought
to the disk, at any time later or never. The `rm` of `abort` may reject
(`removed`), and out of `processMessage`'s catch that breaks the queue (`broken`):
no later message is handled and nobody is answered. `consumeTicket` runs
as the ticket module's own actions with the stream as caller. In `onBeforePush`
provisioning and its role grant are one action (`AutoCreateRepo`), and the rest
may fail at any point (`FinishFails`).

**NasSync.** `workers[w]` is the call of `processNext` worker `w` is in, from
the candidate `SELECT` (`ClaimSelect`) through the conditional `UPDATE` per
candidate (`ClaimTry`) and `copyToNas` (`Copy`, `Rename`) to the mark.
A job is created with a staging file that is not `whole` yet; `FlushStaging` makes
it so, soon or never. `Copy` may lose bytes, and does while the file is not whole.
`Abandon` is a crash of the process or a statement that throws
where `drainOnce` catches it. `nas[r]` names the job whose bytes `repo.dolt`
holds and whether they are intact.

**TransferJobLifecycle.** The state diagram of a job plus the set `inFlight` of
jobs somebody has claimed. `NasSync` refines it with `status` and `retry` read
from the rows and `inFlight` the jobs a worker owns.

**AuthSessions, AuthAccounts.** `reqs[r]` is the request `r` is in: its route
(`op`), the await it is at (`pc`), and what it has read. `users`, `sessions`,
`roles` and `records` are the tables, `attempts` the limiter's map, which a
restart empties. A token is used at most once and remembers whether it is free, a row or
deleted; `bearer[u]` is the expiry of the newest access token of `u`.
A keep-alive, alone or in a refresh, is four steps (`AssertActive`, `JudgeSession`,
`StampExpiry`, `Touch`), since the row is read, judged by one reading of the clock,
extended from a second and written by a later statement.
`createdBy` is the column of that name and tells who made an account, so it
also tells two accounts of one name apart. `tried` is history: the times of the
attempts that this process let through. `Restart` is a crash followed by the boot repairs of
`src/index.ts`: the bootstrap account, then the adoption of repositories without
a role holder; `failed` are the repositories whose adoption throws, which the boot
skips. Middleware that only reads (`assertActive`, the admin gate) is a
step of its own, because what it read may be stale at the write.

**RepoBranchMutex, RepoLock.** `tail` is the entry of `tails`, `waitsFor[r]` the
promise that `r` awaits, `phase[r]` where it is. `line` is history: the order of
the calls. The lock sees only `line` and whether somebody is inside.

**DoltRepo.** Commits are numbered by date and carry the set of their ancestors
and the tables they change. Dolt is external; what is assumed of it is what the
wrappers rely on: a command is atomic; `checkout` and a second `merge` are
refused during a merge; `branch -d` wants the branch merged into the one that
is checked out; uncommitted changes travel with a checkout or make it fail;
`merge --abort` restores the working set from before the merge; `commit`
refuses an empty staging area; `dolt_log` shows the branch that is checked out.

**Versioning.** One action per dolt command; `reqs[r]` keeps what was read until
it is used. `CommandFails` is a command that fails for reasons of its own. A
push may name a branch that exists or not, a head that is known, stale or
omitted, and several commits of several tables. `exports[r]` is the generator of a
pull: the commits still to export, the tables of the one it is at, what it has
`sent`. A failing look-up there is swallowed as in the code: a failing list falls
back to the whole history (`PullListAll`), a failing diff skips the commit
(`PullDiffSwallowed`), a failing schema skips the table (`PullSchemaSwallowed`); the
latter two set `cut`, which is history, like `deleted` (branches
that were deleted) and `alone` (no other request ran meanwhile). Requests
that the role check refuses change nothing and are left out.

**ServerHost.** `server` is the step of `main()`. `setup` is the deployment:
licence, packages, paths; it does not change. `Stop` and `StartProcess` restart
the process, which empties everything but the trust store and the commit log, and
may set the clock. `calls[c]` is a running addon handler: the breaker counts
when it ends, not when it starts. `streak`, `worst` and `served` are history, of
the process that runs. The loop over `loadedAddons` is walked as the paths in
their order, passing over those that were refused.

**AdminConsole.** Time is counted in steps of 30 s, the retry delay of the page.
`timers` holds all pending timers and `handle` the one that `tokenRefreshTimer`
names: a timer that lost its handle still fires. A session fetch is answered or
fails within a step (browsers and proxies give up earlier), list loads may take
any time. The server handles a session fetch in one step (the steps within are
those of `AuthSessions`), but the cookie that the answer sets or deletes is the
browser's only when the answer arrives (`Arrives`), in any order, and also when the
body of the answer is cut off (`"cut"`). A reload gives up the fetches of the old
page, before or after an answer set the cookie; a request that was not served by
then is not served later. `token` is what is left of the access token, and every
list load and trust request carries the token it was sent with: without a good one,
or for a user who is no global admin (`SetGlobalAdmin` changes that meanwhile), the
server refuses, and a refused load renders the error row. `pageAdmin` is what the
page believes since it signed in. The operator submits the login form once the page
has loaded. The session store survives restarts of the server, being a file.

## 4. Runs

| Run | Config | Result |
|---|---|---|
| `tickets` | 2 push streams, 1 REST/heartbeat client, 1 ticket, TTL 1, clock to 1, roles none/admin | passes, 1.9 M states |
| `push` | 1 push stream of 3 messages, 1 pull, 1 ticket, with fairness | passes, 0.46 M states |
| `expired_chunks` | 1 stream | violated: `ExpiredTicketStopsChunks` |
| `push_scope` | 1 stream, roles none/reader/admin | violated: `JobsUnderPushTickets` |
| `nas` | 2 jobs of 1 repository, 2 workers, 2 attempts, 1 requeue, 1 crash, clock to 2 | passes, 1.6 M states |
| `nas_settles` | as `nas`, clock to 1, 1 claim round, no requeue, with fairness | passes, 0.3 M states |
| `nas_stranded` | 1 worker, with fairness | violated: `SyncingEnds` |
| `nas_unverified` | 1 worker | violated: `NasShowsVerifiedBytes` |
| `accounts` | 2 requests at a time, 2 users, 1 repository, 1 token, clock to 3, 7 situations | passes, 0.48 M states |
| `last_admin` | 2 admins who step down, 2 requests | violated: `AnAdminRemains` |
| `versioning` | 2 requests at a time, 2 or 3 in all, 2 branches, 3 tables, 7 commits, 1 failing command, 9 situations, with fairness | passes, 0.18 M states |
| `platform` | 33 deployments, 3 addons, 3 calls at a time, breaker at 3, clock to 6, 2 fetches, 2 loads, 2 sign-ins, 2 trust requests, with fairness | passes, 0.47 M states |

What the passing runs show is in the comment above each property; the
violations are the findings of section 7.

Bounds. `MaxTime` stops the clock, `MaxSent` limits the messages of a stream,
`MaxRequeues` and `MaxFaults` the operator's and the crashes' share;
`Tickets`, `Jobs` and the sets of actors are small. One ticket suffices for the
races about a ticket, since no step relates two tickets; two streams, a pull
and a heartbeat client are all the kinds of caller, and a third stream would
behave like the second. Three messages are a header, a chunk and the end, and
every wrong order of them. TTL 1 and a clock to 1 let a ticket expire before,
during and after each call; the proofs remove this bound. Two attempts give the
retry, the boundary and the dead letter; two workers and two jobs give every
claim race, and `ClaimBatch` 1 makes a lost race need a second round
(`ClaimAttempts` 2). In `nas_settles` a poll has one round, so that a lost race ends
it and the job has to wait for a later poll. Retry times are cut off at `MaxTime`, so a failed job
becomes eligible within the run. Deadlock is checked in `nas` and
`nas_settles` (workers poll for ever); the transfer runs may stop, because the
clients of a bounded run stop sending. `StreamSymmetry` is used only where no
stream is singled out, `NasSymmetry` only for a safety run.

The three larger compositions start in a set of situations (`MCStarts`), each
with the operations that interact there: races between setup requests, between a
refresh and a logout, between a push and a merge, and so on. All operations at
once would multiply states without new conflicts, since two requests in flight
are of at most two kinds. Two requests suffice for every race of a read with a
write; the promise chain with a third caller is covered by the proofs. Seven
commits are a fork and the commits two requests can make. `MaxFaults` 1 puts one
failure between any two commands. Attempts 2 and a window of 2 units (`accounts`),
or 3 and 2 (`platform`), let attempts straddle the edge of a window. Breaker limit
3 with three calls at a time lets calls end after it opened. Two fetches, two loads
and two trust requests give every overtaking of answers; `Requests` lists what the
trust requests may ask: a key trusted, the same revoked, the key trusted for another
addon. `AccessTtl` 3 and a page default of 30 (15 minutes) put the first renewal of a
page under the cap and the next ones by the token's lifetime, so that tokens lapse
within the clock. `ReqSymmetry` is used in
`accounts`, which has no liveness property. These runs may stop, because
requests are bounded: deadlock is not checked, `EveryRequestAnswered` is.

Fairness. `Fairness` and `NasFairness` say that the event loop runs every
resolved promise and every arrived message, that `setInterval` keeps firing and
that time passes. Nothing is assumed of clients, of the transport, of operators
or of which outcome an I/O call has. `PushAnswered` also relies on I/O settling
one way or the other: the steps that follow an await are fair as a group. In
`Versioning` each handler in progress is weakly fair: the event loop resumes it,
and dolt processes end (they may fail); `Serve` is a step of a handler or of the
generator of its pull. In `AdminConsole` the interval timer of the
live refresh fires, and loads and trust requests are answered and rendered; nothing is
assumed of session fetches or of the operator.

## 5. Proofs

All theorems hold for every value of the constants that satisfies the named
assumptions: any sets of users, repositories, tickets, callers, streams, jobs,
workers, requests, branches and addons, any TTL, backoff, retry budget and
failure limit, and any value of the bounds. The assumptions are types of
parameters and that `Nil` is none of the values, `3 \in Grantable` (admin can
be granted), that powers of two are natural numbers, that no user has the name
of a provenance mark (`setup-wizard`, `bootstrap-env`), and that a behaviour
starts in a state the program can be in: a commit graph in which a commit knows
its whole history, at most one founder, a user without a row has no other
columns, sessions that expire within one TTL, paths and trust rows of addons, and
packages of one of the two tiers with a signer. `SessionKept` rests on
`RenewCap + RetryDelay <= SessionTtl`: the page has 60 s and 30 s, and a session
lives 7 days unless it is configured to less than those 90 s.

*Tickets* (`TicketIInv`). `RevocationHonoured` is not inductive: the success of
a call depends on a role check several awaits earlier. `AuthorizationKnown`
carries it: a call past its role check has seen the owner authorised, or has
found a ticket of another scope, which the UPDATE will refuse; `authorized`
misses no instant. `RefusalIsTruthful` needs `LostToAnother`: after a failed
UPDATE a live ticket of the right scope is no longer `issued`, and no later
step makes it so. `ExpiryWithinTtl` needs every pending `now` to lie in the past
(`CallShape`). `Scoped` says that rows name a user, an operation and a
repository.

*Engine* (`EngineIInv`). Adds `Ownership`: at most one session or granted,
not-yet-collected consume call per ticket, and what is owned is consumed; and
`SessionShape`, what each phase of a stream knows. The refinement theorem
`EngineRefinesTickets` shows every engine step to be a ticket-service step or a
stutter, so the theorems about the service carry over to the engine, and
`GrantStep` (only an `issued` ticket is granted) gives `TicketSingleUse`.
`CommittedUploadIntact` is about the counters of a stream long after its last
chunk; its strengthening (`UploadInv`) says that until an abort the chunks offered
are the ones handed to the sink and the ones queued, that the end is the last message
of a queue, and that `finish` goes on only with every chunk in an ended sink, which an `abort` leaves alone. It claims
nothing of the flush, which nobody awaits. That a file which lacks bytes is not
taken for synced is `SyncedIsReadable`.

*NAS sync* (`NasIInv`). `ClaimExclusive` is preserved because the claiming
UPDATE requires an eligible status and an owned job is `syncing`; `RetryBudget`
because only an owner counts; `SyncedIsReadable` needs `MarkReady`: between the
rename and the mark the repository holds a copy, of this job or of another one
that overwrote it, and the staging file was whole when it was copied. `NasRefinesLifecycle` uses the same invariant.

*Mutex* (`ChainInv`). `HolderIsFirst` is not inductive, since nothing in it
says whom a waiting request waits for. `ChainIsLine` says that the chain is the
line: the first waits for nobody, everybody else for the one before, and `tail`
is the last. `MutexSafety` and `MutexImplementsLock` hold of the mutex alone;
`BranchOperationsExclude` and `BranchOperationsQueue` carry them to `Versioning`,
of which every step is a step of the mutex or leaves it alone.

*Versioning* (`RepoInv`). `DoltInv` says that the graph is well formed;
`RepositoryProofs` shows once per dolt command that it keeps the graph and loses
no commit, which gives `NoCommitLost` whether or not a command runs under the
mutex. `RequestInv` ties the place in the code to the phase in the mutex, and a
merge that stopped to the request that will abort it; with mutual exclusion
from `ChainInv` it gives `ConflictsAreOwned`. `ReqInv` says what the request at
each place has read and what still holds of it: `PullOK` that a head once read
stays an ancestor of its branch while the branch is not deleted. `ExportInv` adds
that, unless a look-up was swallowed, every table of every commit of that head which
the client lacks is listed, at hand or sent, though the export runs its commands
later; with nothing left this is `PullCoversHead`. `SoloInv` follows
a push through its commands while `alone` holds: its branch is checked out and
its head is the last commit made. `PlanIsLeastClosure` is a fact about the
bounded rounds of `computeClosure`: `ClosureIsLeast` shows that each round that
changes something adds a table, so that as many rounds as there are tables reach
the fixed point. It needs induction, which is stated about a set of numbers
(`NatSetInduction`) instead of a predicate, so that the provers can instantiate it.

*Auth* (`AuthInv`). `LapseIsFinal` does not say that a lapsed row stays lapsed: the
check, the second reading of the clock and the `UPDATE` are three steps, so a write
on its way may revive it, and of two writes the older expiry may land last. It says
that once no request which judged the row live is left (`Lapsed`), nothing that reads
the row revives it or becomes able to, because what such a request read is over.
`BootAdoptsOrphans` is about the repositories the boot did not skip.
`RecordHasDatabase` needs that a request about to write the record has seen `dolt init` succeed; `OneFounder` that the only row of the
wizard goes into an empty table.

*Limiters* (`WindowOK`). Both limiters count in a window that its first event
opens, so a burst at the end of one and another at the start of the next both
pass: any interval of a window's length may hold up to `2M - 1` events, and no
more. `AttemptsBounded` and `CertificatesBounded` say so of the whole history. By
itself that is not inductive; `WindowOK` adds where the open window starts in the
history, that older events came before it, and that an event followed by `M - 1`
others of closed windows came a whole window length before it. The lemmas of
`FixedWindowProofs` are used by `AuthProofs` and `AdminConsoleProofs`.

*Host* (`ProcessInv`). `BreakerInv` relates the breaker's counter to the history of
failures, `LicenceInv` says that past the expiry check the clock of the boot is
within the licence, so the commit log decides. `BootInv` says at each step of
`main()` that an addon the rules admit is loaded or still waits to be, and a
loaded one with routes is active or waits to be; with nothing waiting this is
`ServesAuthorisedAddons`. `RunningInv` bounds what a breaker counts after it
opened by the calls that were running then.

*Console* (`PageInv`). `SessionKept` says nothing about timers, so it is not
inductive. `RenewalAhead` says that a signed-in page with at most one failed
renewal has a timer, or a renewal on its way, that comes while the session is at
most `RenewCap` old, or `RenewCap + RetryDelay` after a failure; a retry counts
only after a failure, because nothing follows it. `SignInFresh` says that the answer
to a sign-in or a restore comes with a session touched in the same step of time,
`OneAtATime` that sign-ins and sign-outs exclude each other, and `RenewalsHarmless`
that a renewal on its way is of the session in the cookie, or of a dead one once the
cookie is gone, and cannot take a live one away, unless the console was overtaken: signed in while a renewal of the session before was
on its way. `refreshAccessToken` does not wait for that one, and its answer may
delete or replace the new cookie, so `SessionKept` leaves such a console out
(section 7).

Each inductive invariant was also checked with TLC on the instances of section 4.

Only model-checked: liveness (`PushAnswered`, `JobSettles`,
`EveryRequestAnswered`, `TableCatchesUp`), which rests on fairness and `ENABLED`
and is out of the prover's reach, and the violations of section 7.

## 6. Not modelled

See `components` in `PROJECT.json`. Left out: JWT and password cryptography
beyond what it decides, command-line building and output parsing for Dolt, the
log, diff and list routes (reads without state), the console's other tables,
tours and layout, configuration, bootstrap, the CLI and logging. These are
validation, prompts and I/O: there is no protocol in them to check.
`startPeriodicValidation`, `planPushPayload` and `reapExpired` are called by
nothing. Also abstracted: bytes and checksums (intact or not), rows of a table
(changed or not), file paths, error texts and status codes. In the transfer and
auth models the clock never runs backwards; in `ServerHost` a restart may set it.

Remarks. Staging files of dry runs, of failed finishes and of streams aborted
while `mkdir` is pending are never removed. An older job retried after a newer
one of the same repository puts the older contents back. Auto-creation on first
push needs a role row for a repository that does not exist yet, since the ticket
route asks for one. Rows that a failed push left uncommitted get into the next
commit of the repository. `refresh` does not look at the user's state, so a
session outlives the deactivation of its user. A console whose token lapsed because
its renewals failed stays signed in and shows the error row. In the console, a role list
that arrives late is shown under the repository selected since, and its Revoke
button then names that repository; a logout that fails shows the login form
while session and cookie live on; a renewal in flight at logout sets the token
afterwards; `revokeTrust` reports success without looking at the answer. The
push-commits route has no bypass for global admins, unlike its neighbours.

## 7. Findings

- `expired_chunks`: chunks are accepted, and a job committed, after the ticket
  expired; `proto/transfer.proto:24-27` promises to fail closed.
- `push_scope`: a push stream runs under a pull ticket, since the header's own
  operation is what is consumed (`grpc-transfer-server.ts:132`).
- `nas_stranded`: a job whose worker dies after the claim stays `syncing` and
  is neither retried nor listed.
- `nas_unverified`: `copyToNas` renames before anybody compares the checksum.
- `last_admin`: the guard on the last global admin counts in one await and
  writes in another, so two admins who step down together leave none.
- Without a run: a dead letter is requeued as `staged`, not `syncing`
  (`storage/types.ts:17`); `reapExpired` is never called; a refused heartbeat
  does not stop a stream (`ticket.service.ts:116-118`);
  `transfer.router.ts:18-21` says that roles are not re-checked; two pushes from
  the same head both pass the fast-forward check, which is outside the mutex, and
  a checkout of another request may move a push to its branch; reading the
  conflicts may throw before the merge is aborted; a recorded push whose
  resolved tables did not change stays uncommitted; `requireRepoRole` lets global
  admins read repository data; a failing `activate()` or the community limit
  ends the boot for all addons; `startPeriodicValidation` is never called; the
  console retries a renewal once only. A failing `rm` of a staging file rejects the
  queue of a push and leaves its client unanswered (`grpc-transfer-server.ts:109-120`,
  `push-session-handler.ts:180`); `write` and `end` of the staging sink are not
  awaited, so "already safely staged" (`storage/README.md:70-71`) need not hold of a
  job row; a pull that ends well may lack commits or tables whose look-ups failed
  (`dolt-commit-export-cli.ts:87-89`, `162-172`, against
  `commit-export.service.ts:70-72`); a keep-alive may move the expiry back or revive
  a session that expired after its check (`session-manager.ts:2-5`); a repository
  whose backfill fails is skipped until the next boot (`index.ts:43-51`, `70-75`); and
  a renewal answered after a sign-out and a new sign-in may take the new session's
  cookie away (`app.js:415-416`).
