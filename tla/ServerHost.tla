----------------------------- MODULE ServerHost -----------------------------
(***************************************************************************)
(* The life of the server process: the licence check and the loading of    *)
(* addons at boot (index.ts main), then, while it serves, the trust store  *)
(* of community addons, the circuit breaker around addon routes and the    *)
(* limiter of the certificate endpoint.                                    *)
(***************************************************************************)
EXTENDS Integers, FiniteSets, Sequences

CONSTANTS
    Addons,         \* addon names
    Keys, Deltix,   \* author keys; the key of official addons
    Calls,          \* requests to addon routes in flight
    Sources,        \* addresses the certificate endpoint is asked from
    MaxFailures,    \* DELTIX_ADDON_MAX_CONSECUTIVE_FAILURES
    Tolerance,      \* DELTIX_CLOCK_TOLERANCE_MS
    CertLimit, CertWindow,
    MaxClock,       \* bound: time
    Nil

ASSUME HostAssumptions ==
    /\ IsFiniteSet(Addons) /\ IsFiniteSet(Calls) /\ Nil \notin Addons \cup Keys /\ Deltix \in Keys
    /\ MaxFailures \in Nat \ {0} /\ Tolerance \in Nat
    /\ CertLimit \in Nat \ {0} /\ CertWindow \in Nat \ {0} /\ MaxClock \in Nat

VARIABLES
    setup,          \* the deployment: operations, licence, addon packages and their paths
    clock,          \* the system clock
    latestCommit,   \* newest commit date in dolt_log, Nil without one
    server,         \* step of main(), "up" once it listens, "down" when there is no process
    bootedAt,       \* clock when the expiry was checked
    paths,          \* addon directories main() has still to load or to activate
    trusted,        \* trusted[a]: author key in the trust store, Nil without one
    loaded, active, \* addons imported; addons whose routes are registered
    failures,       \* failureCounts of the breaker
    disabled,       \* addons the breaker disabled
    calls,          \* calls[c]: the addon whose handler is running, or Nil
    streak, worst,  \* history: failures in a row, and the longest such row since boot
    window,         \* window[s]: certificate requests counted, and since when
    served          \* history: dates of certificates this process served

hostVars == <<setup, clock, latestCommit, server, bootedAt, paths, trusted, loaded, active,
              failures, disabled, calls, streak, worst, window, served>>

bootVars == <<server, bootedAt, paths, loaded, active>>

breakerVars == <<failures, disabled, calls, streak, worst>>

certVars == <<window, served>>

Zeroes == [a \in Addons |-> 0]

NoCalls == [c \in Calls |-> Nil]

NoWindow == [count |-> 0, since |-> 0]

\* What a process that starts finds in its memory.
FreshMemory ==
    /\ loaded' = {} /\ active' = {} /\ paths' = <<>>
    /\ failures' = Zeroes /\ disabled' = {} /\ calls' = NoCalls
    /\ streak' = Zeroes /\ worst' = Zeroes
    /\ window' = [s \in Sources |-> NoWindow] /\ served' = [s \in Sources |-> <<>>]

Has(op) == op \in setup.ops

Pkg(a) == setup.packages[a]

Licence == setup.licence

(***************************************************************************)
(* The licence: shape, signature, expiry; then the commit log is read and  *)
(* the clock, read again, is compared with it.  The clock may have been    *)
(* set before the process starts.                                          *)
(***************************************************************************)
ParseLicenseKey == Licence.wellFormed

LicenceInForce == Licence.expiresAt = Nil \/ clock <= Licence.expiresAt

StartProcess(now) ==
    /\ server = "down"
    /\ clock' = now
    /\ server' = "licence" /\ bootedAt' = now
    /\ FreshMemory
    /\ UNCHANGED <<setup, latestCommit, trusted>>

ValidateOnBoot ==
    /\ server = "licence"
    /\ server' = IF ParseLicenseKey /\ Licence.signed /\ LicenceInForce
                 THEN "commitLog" ELSE "down"
    /\ bootedAt' = clock
    /\ UNCHANGED <<setup, clock, latestCommit, paths, trusted, loaded, active>>
    /\ UNCHANGED breakerVars /\ UNCHANGED certVars

\* Mutant of NoClockRollback.
NoClockRollbackInverted == latestCommit = Nil \/ clock - latestCommit <= Tolerance

NoClockRollback == latestCommit = Nil \/ latestCommit - clock <= Tolerance

\* A commit log that cannot be read refuses the boot.
CheckCommitLog(readable) ==
    /\ server = "commitLog"
    /\ server' = IF readable /\ NoClockRollback THEN "discover" ELSE "down"
    /\ UNCHANGED <<setup, clock, latestCommit, bootedAt, paths, trusted, loaded, active>>
    /\ UNCHANGED breakerVars /\ UNCHANGED certVars

(***************************************************************************)
(* Addons.                                                                 *)
(***************************************************************************)
\* resolveLicenseAddonsConfig: a licence may leave the rules to its tier.
AddonsConfig ==
    IF Licence.addons # Nil THEN Licence.addons
    ELSE [official |-> {}, community |-> TRUE,
          max |-> IF Licence.tier = "community" THEN 10 ELSE Nil]

InPaths == {setup.paths[i] : i \in DOMAIN setup.paths}

Community == {a \in InPaths : Pkg(a).tier = "community"}

\* Directories are counted, loadable or not; one listed twice counts twice.
CommunityCount == Cardinality({i \in DOMAIN setup.paths : setup.paths[i] \in Community})

\* assertWithinCommunityAddonLimit throws out of main(): the process ends.
WithinCommunityLimit == AddonsConfig.max = Nil \/ CommunityCount <= AddonsConfig.max

DiscoverAddons ==
    /\ server = "discover"
    /\ IF WithinCommunityLimit THEN server' = "load" /\ paths' = setup.paths
       ELSE server' = "down" /\ UNCHANGED paths
    /\ UNCHANGED <<setup, clock, latestCommit, bootedAt, trusted, loaded, active>>
    /\ UNCHANGED breakerVars /\ UNCHANGED certVars

\* readAndValidateManifest, assertClosedCapabilities and the entrypoint.
WellFormed(a) == Pkg(a).valid

\* Mutant of VerifySignature.
AnyTrustedKey(a) ==
    IF Pkg(a).tier = "official" THEN Pkg(a).signer = Deltix ELSE trusted[a] # Nil

VerifySignature(a) ==
    IF Pkg(a).tier = "official" THEN Pkg(a).signer = Deltix
    ELSE trusted[a] # Nil /\ Pkg(a).signer = trusted[a]

EnforceLicenseRules(a) ==
    IF Pkg(a).tier = "official" THEN a \in setup.free \cup AddonsConfig.official
    ELSE AddonsConfig.community

LoadAddon(a) == WellFormed(a) /\ VerifySignature(a) /\ EnforceLicenseRules(a)

\* One directory of the loop; a refusal is logged and the loop goes on.
LoadNext ==
    /\ server = "load" /\ paths # <<>>
    /\ loaded' = IF LoadAddon(Head(paths)) THEN loaded \cup {Head(paths)} ELSE loaded
    /\ paths' = Tail(paths)
    /\ UNCHANGED <<setup, clock, latestCommit, server, bootedAt, trusted, active>>
    /\ UNCHANGED breakerVars /\ UNCHANGED certVars

AddonsLoaded ==
    /\ server = "load" /\ paths = <<>>
    /\ server' = "activate" /\ paths' = setup.paths
    /\ UNCHANGED <<setup, clock, latestCommit, bootedAt, trusted, loaded, active>>
    /\ UNCHANGED breakerVars /\ UNCHANGED certVars

\* The addons that were loaded and were granted http:route.
Routed(a) == a \in loaded /\ Pkg(a).route

\* activate() is awaited outside any try: one that throws ends main().
ActivateNext ==
    /\ server = "activate" /\ paths # <<>>
    /\ IF Routed(Head(paths)) /\ ~Pkg(Head(paths)).activates
       THEN server' = "down" /\ UNCHANGED <<active, paths>>
       ELSE /\ active' = IF Routed(Head(paths)) THEN active \cup {Head(paths)} ELSE active
            /\ paths' = Tail(paths) /\ UNCHANGED server
    /\ UNCHANGED <<setup, clock, latestCommit, bootedAt, trusted, loaded>>
    /\ UNCHANGED breakerVars /\ UNCHANGED certVars

\* Bun.serve
Serve ==
    /\ server = "activate" /\ paths = <<>>
    /\ server' = "up"
    /\ UNCHANGED <<setup, clock, latestCommit, bootedAt, paths, trusted, loaded, active>>
    /\ UNCHANGED breakerVars /\ UNCHANGED certVars

\* The process is stopped, or crashes.
Stop ==
    /\ server = "up" /\ Has("restart")
    /\ server' = "down"
    /\ FreshMemory
    /\ UNCHANGED <<setup, clock, latestCommit, bootedAt, trusted>>

\* POST /trust replaces the key of the addon; POST /revoke (k = Nil) deletes
\* its row and does not mind when there is none.
SetTrust(a, k) ==
    /\ server = "up"
    /\ trusted' = [trusted EXCEPT ![a] = k]
    /\ UNCHANGED <<setup, clock, latestCommit>> /\ UNCHANGED bootVars
    /\ UNCHANGED breakerVars /\ UNCHANGED certVars

Trust(a, k) == Has("trust") /\ SetTrust(a, k)

Revoke(a) == Has("trust") /\ SetTrust(a, Nil)

(***************************************************************************)
(* The circuit breaker.  A disabled addon is not called; calls that run    *)
(* when it is disabled run on.                                             *)
(***************************************************************************)
HostIdle == UNCHANGED <<setup, clock, latestCommit, trusted>> /\ UNCHANGED bootVars

CallAddon(c, a) ==
    /\ server = "up" /\ Has("call") /\ a \in active /\ calls[c] = Nil
    /\ a \notin disabled
    /\ calls' = [calls EXCEPT ![c] = a]
    /\ UNCHANGED <<failures, disabled, streak, worst>> /\ HostIdle /\ UNCHANGED certVars

\* Mutant of CallSucceeds.
CallSucceedsNoReset(c) ==
    /\ calls[c] # Nil
    /\ calls' = [calls EXCEPT ![c] = Nil]
    /\ streak' = [streak EXCEPT ![calls[c]] = 0]
    /\ UNCHANGED <<failures, disabled, worst>> /\ HostIdle /\ UNCHANGED certVars

CallSucceeds(c) ==
    /\ calls[c] # Nil
    /\ calls' = [calls EXCEPT ![c] = Nil]
    /\ failures' = [failures EXCEPT ![calls[c]] = 0]
    /\ streak' = [streak EXCEPT ![calls[c]] = 0]
    /\ UNCHANGED <<disabled, worst>> /\ HostIdle /\ UNCHANGED certVars

RecordFailure(a) ==
    /\ failures' = [failures EXCEPT ![a] = @ + 1]
    /\ disabled' = IF failures[a] + 1 >= MaxFailures THEN disabled \cup {a} ELSE disabled

CallThrows(c) ==
    /\ calls[c] # Nil
    /\ RecordFailure(calls[c])
    /\ calls' = [calls EXCEPT ![c] = Nil]
    /\ streak' = [streak EXCEPT ![calls[c]] = @ + 1]
    /\ worst' = [worst EXCEPT ![calls[c]] =
                    IF streak[calls[c]] + 1 > @ THEN streak[calls[c]] + 1 ELSE @]
    /\ HostIdle /\ UNCHANGED certVars

(***************************************************************************)
(* GET /certificate: asked, counted and answered without an await.         *)
(***************************************************************************)
\* Mutant of WindowOver.
WindowOverEarly(w) == w.count = 0 \/ clock - w.since >= CertWindow - 1

WindowOver(w) == w.count = 0 \/ clock - w.since >= CertWindow

\* Mutant of IsAllowed.
IsAllowedOffByOne(s) == WindowOver(window[s]) \/ window[s].count <= CertLimit

IsAllowed(s) == WindowOver(window[s]) \/ window[s].count < CertLimit

RecordCertAttempt(s) ==
    window' = [window EXCEPT ![s] =
        IF WindowOver(@) THEN [count |-> 1, since |-> clock] ELSE [count |-> @.count + 1, since |-> @.since]]

GetCertificate(s) ==
    /\ server = "up" /\ Has("certificate") /\ IsAllowed(s)
    /\ RecordCertAttempt(s)
    /\ served' = [served EXCEPT ![s] = Append(@, clock)]
    /\ UNCHANGED breakerVars /\ HostIdle

(***************************************************************************)
(* Time passes; a commit lands in the repository the licence check reads.  *)
(***************************************************************************)
Later ==
    /\ Has("time") /\ clock < MaxClock
    /\ clock' = clock + 1
    /\ UNCHANGED <<setup, latestCommit, trusted>>
    /\ UNCHANGED bootVars /\ UNCHANGED breakerVars /\ UNCHANGED certVars

CommitLands ==
    /\ server = "up" /\ Has("commit")
    /\ latestCommit' = IF latestCommit # Nil /\ latestCommit > clock THEN latestCommit ELSE clock
    /\ UNCHANGED <<setup, clock, trusted>> /\ UNCHANGED bootVars
    /\ UNCHANGED breakerVars /\ UNCHANGED certVars

HostInit ==
    /\ clock = 0 /\ latestCommit = setup.latestCommit /\ trusted = setup.trusted
    /\ server = "down" /\ bootedAt = 0 /\ paths = <<>> /\ loaded = {} /\ active = {}
    /\ failures = Zeroes /\ disabled = {} /\ calls = NoCalls
    /\ streak = Zeroes /\ worst = Zeroes
    /\ window = [s \in Sources |-> NoWindow] /\ served = [s \in Sources |-> <<>>]

Boot ==
    \/ ValidateOnBoot \/ \E readable \in BOOLEAN : CheckCommitLog(readable)
    \/ DiscoverAddons \/ LoadNext \/ AddonsLoaded \/ ActivateNext \/ Serve

HostNext ==
    \/ \E now \in setup.clocks \cup {clock} : StartProcess(now)
    \/ Boot \/ Stop \/ CommitLands
    \/ \E a \in Addons : Revoke(a) \/ \E k \in Keys : Trust(a, k)
    \/ \E c \in Calls : CallSucceeds(c) \/ CallThrows(c) \/ \E a \in Addons : CallAddon(c, a)
    \/ \E s \in Sources : GetCertificate(s)

(***************************************************************************)
(* Properties.                                                             *)
(***************************************************************************)
Booting == {"licence", "commitLog", "discover", "load", "activate"}

HostTypeOK ==
    /\ clock \in 0..MaxClock /\ bootedAt \in 0..MaxClock
    /\ latestCommit \in 0..MaxClock \cup {Nil}
    /\ server \in Booting \cup {"up", "down"}
    /\ paths \in Seq(InPaths)
    /\ trusted \in [Addons -> Keys \cup {Nil}]
    /\ loaded \subseteq InPaths /\ active \subseteq loaded
    /\ failures \in [Addons -> 0..MaxFailures + Cardinality(Calls) - 1]
    /\ disabled \subseteq active
    /\ calls \in [Calls -> active \cup {Nil}]
    /\ window \in [Sources -> [count : 0..CertLimit, since : 0..MaxClock]]

\* A licence that ran out stays out of force: once dolt_log holds a commit
\* later than its expiry and the tolerance, no setting of the clock boots the
\* server with it; only the time the boot itself took is not counted.
LicenceNotRevived ==
    [][ server = "commitLog" /\ server' = "discover"
            /\ Licence.expiresAt # Nil /\ latestCommit # Nil =>
        latestCommit <= Licence.expiresAt + Tolerance + (clock - bootedAt) ]_hostVars

\* The server goes up with exactly the addons that their key, the trust store
\* as it is then and the licence admit: a refused addon keeps no other out, and
\* trust revoked while the server ran is gone after the restart.
ServesAuthorisedAddons ==
    [][ server # "up" /\ server' = "up" =>
        /\ loaded = {a \in InPaths :
                        /\ WellFormed(a)
                        /\ \/ /\ a \in Community /\ AddonsConfig.community
                              /\ trusted[a] = Pkg(a).signer
                           \/ /\ a \notin Community /\ Pkg(a).signer = Deltix
                              /\ a \in setup.free \cup AddonsConfig.official}
        /\ AddonsConfig.max # Nil => Cardinality(loaded \cap Community) <= AddonsConfig.max
        /\ active = {a \in loaded : Pkg(a).route} ]_hostVars

\* An addon is disabled when and only when MaxFailures of its calls failed in
\* a row since the server started, however the calls overlap; later successes
\* do not bring it back.
DisabledAfterStreak == \A a \in Addons : a \in disabled <=> worst[a] >= MaxFailures

\* In any interval as long as a window a process serves a source less than
\* two windows' worth of certificates.
CertificatesBounded ==
    \A s \in Sources : \A i \in DOMAIN served[s] :
        LET j == i + 2 * CertLimit - 1 IN
        j \in DOMAIN served[s] => served[s][j] - served[s][i] >= CertWindow

=============================================================================
