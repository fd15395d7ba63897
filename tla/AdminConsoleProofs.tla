------------------------- MODULE AdminConsoleProofs -------------------------
(***************************************************************************)
(* The server process and the admin console, for any number of addons,     *)
(* calls, sources and fetches, any deployment and any setting of the       *)
(* clock: the circuit breaker, the licence check, the addons that are      *)
(* loaded, the limiter of the certificate endpoint, and the session of the *)
(* console.                                                                *)
(***************************************************************************)
EXTENDS AdminConsole, FixedWindowProofs, FiniteSetTheorems, TLAPS

\* The breaker's counter is the row of failures, and its verdict what the
\* longest such row says.
BreakerInv ==
    /\ failures \in [Addons -> Nat] /\ streak = failures
    /\ worst \in [Addons -> Nat]
    /\ calls \in [Calls -> Addons \cup {Nil}]
    /\ \A a \in Addons : streak[a] <= worst[a]
    /\ DisabledAfterStreak

\* What the boot has established about the licence.
LicenceInv ==
    /\ setup \in Starts
    /\ clock \in 0..MaxClock /\ bootedAt \in 0..MaxClock /\ latestCommit \in {Nil} \cup 0..MaxClock
    /\ server = "commitLog" => Licence.expiresAt = Nil \/ bootedAt <= Licence.expiresAt

HostInv == BreakerInv /\ LicenceInv

\* Steps of the browser are steps of the host only where they reach it.
LEMMA HostSteps ==
    ASSUME [Next]_vars
    PROVE  \/ UNCHANGED hostVars
           \/ HostNext
           \/ Later
           \/ \E a, k : SetTrust(a, k)
  <1>1. CASE UNCHANGED vars
    BY <1>1 DEF vars
  <1>2. CASE HostNext
    BY <1>2
  <1>3. CASE Tick
    BY <1>3 DEF Tick
  <1>4. ASSUME NEW f \in Fetches, SessionStep(f) PROVE UNCHANGED hostVars
    BY <1>4 DEF SessionStep, SubmitLogin, ShowSession, LoginFails, Reload, RestoreFails, TimerFires,
                Renewed, NotRenewed, RetryFails, ClickLogout, ShowForm, ServeFetch, FetchFails
  <1>5. ASSUME NEW l \in Loads, TableStep(l) PROVE UNCHANGED hostVars
    BY <1>5 DEF TableStep, RefreshDashboardTiles, ServeLoad, RenderTrustedAddons, TrustAnswered
  <1>6. ASSUME NEW a, NEW k, SubmitTrust(a, k) PROVE UNCHANGED hostVars
    BY <1>6 DEF SubmitTrust
  <1>7. CASE ServeTrust
    BY <1>7 DEF ServeTrust
  <1>8. CASE SetGlobalAdmin
    BY <1>8 DEF SetGlobalAdmin
  <1> QED BY <1>1, <1>2, <1>3, <1>4, <1>5, <1>6, <1>7, <1>8 DEF Next

\* A process that starts counts from zero.
LEMMA FreshBreaker == ASSUME FreshMemory PROVE BreakerInv'
  BY HostAssumptions DEF FreshMemory, Zeroes, NoCalls, BreakerInv, DisabledAfterStreak

\* A breaker that is left alone.
LEMMA BreakerAlone == ASSUME BreakerInv, UNCHANGED breakerVars PROVE BreakerInv'
  BY DEF breakerVars, BreakerInv, DisabledAfterStreak

\* A call that starts, succeeds or throws.
LEMMA BreakerCalls ==
    ASSUME BreakerInv, NEW c \in Calls,
           CallSucceeds(c) \/ CallThrows(c) \/ \E a \in Addons : CallAddon(c, a)
    PROVE  BreakerInv'
  <1> DEFINE a == calls[c]
  <1>0. MaxFailures \in Nat \ {0} /\ Nil \notin Addons
    BY HostAssumptions
  <1>1. ASSUME NEW x \in Addons, CallAddon(c, x) PROVE BreakerInv'
    BY <1>1 DEF CallAddon, BreakerInv, DisabledAfterStreak
  <1>2. CASE CallSucceeds(c)
    <2>1. /\ a \in Addons /\ failures' = [failures EXCEPT ![a] = 0]
          /\ streak' = [streak EXCEPT ![a] = 0] /\ UNCHANGED <<disabled, worst>>
          /\ calls' = [calls EXCEPT ![c] = Nil]
      BY <1>2 DEF CallSucceeds, BreakerInv
    <2> HIDE DEF a
    <2>2. failures' \in [Addons -> Nat] /\ streak' = failures' /\ calls' \in [Calls -> Addons \cup {Nil}]
      BY <2>1 DEF BreakerInv
    <2>3. \A x \in Addons : streak'[x] <= worst'[x]
      BY <2>1 DEF BreakerInv
    <2> QED BY <2>1, <2>2, <2>3 DEF BreakerInv, DisabledAfterStreak
  <1>3. CASE CallThrows(c)
    <2> DEFINE n == failures[a] + 1
    <2>1. a \in Addons /\ failures[a] \in Nat /\ streak[a] = failures[a] /\ worst[a] \in Nat
          /\ streak[a] <= worst[a] /\ (a \in disabled <=> worst[a] >= MaxFailures)
      BY <1>3 DEF CallThrows, BreakerInv, DisabledAfterStreak
    <2>2. /\ failures' = [failures EXCEPT ![a] = n] /\ streak' = [streak EXCEPT ![a] = n]
          /\ disabled' = IF n >= MaxFailures THEN disabled \cup {a} ELSE disabled
          /\ worst' = [worst EXCEPT ![a] = IF n > worst[a] THEN n ELSE worst[a]]
          /\ calls' = [calls EXCEPT ![c] = Nil]
      BY <1>3, <2>1 DEF CallThrows, RecordFailure
    <2> HIDE DEF a
    <2>3. n \in Nat
      BY <2>1
    <2>4. failures' \in [Addons -> Nat] /\ streak' = failures'
          /\ worst' \in [Addons -> Nat] /\ calls' \in [Calls -> Addons \cup {Nil}]
      BY <2>1, <2>2, <2>3 DEF BreakerInv
    <2>5. ASSUME NEW x \in Addons
          PROVE  streak'[x] <= worst'[x] /\ (x \in disabled' <=> worst'[x] >= MaxFailures)
      <3>1. CASE x = a
        <4>1. streak'[x] = n /\ worst'[x] = IF n > worst[a] THEN n ELSE worst[a]
          BY <2>1, <2>2, <3>1 DEF BreakerInv
        <4> QED BY <1>0, <2>1, <2>2, <2>3, <3>1, <4>1
      <3>2. CASE x # a
        BY <2>2, <3>2 DEF BreakerInv, DisabledAfterStreak
      <3> QED BY <3>1, <3>2
    <2> QED BY <2>4, <2>5 DEF BreakerInv, DisabledAfterStreak
  <1> QED BY <1>1, <1>2, <1>3

\* Every step of the host keeps the breaker's invariant.
LEMMA BreakerStep == ASSUME HostInv, [Next]_vars PROVE BreakerInv'
  <1>1. BreakerInv
    BY DEF HostInv
  <1>2. CASE UNCHANGED hostVars
    BY <1>1, <1>2, BreakerAlone DEF hostVars, breakerVars
  <1>3. CASE Later \/ \E a, k : SetTrust(a, k)
    BY <1>1, <1>3, BreakerAlone DEF Later, SetTrust
  <1>4. CASE HostNext
    <2>1. CASE (\E now \in setup.clocks \cup {clock} : StartProcess(now)) \/ Stop
      BY <2>1, FreshBreaker DEF StartProcess, Stop
    <2>2. CASE Boot
      BY <1>1, <2>2, BreakerAlone DEF Boot, ValidateOnBoot, CheckCommitLog, DiscoverAddons,
                LoadNext, AddonsLoaded, ActivateNext, Serve
    <2>3. CASE CommitLands \/ (\E a \in Addons : Revoke(a) \/ \E k \in Keys : Trust(a, k))
               \/ (\E s \in Sources : GetCertificate(s))
      BY <1>1, <2>3, BreakerAlone DEF CommitLands, Revoke, Trust, SetTrust, GetCertificate
    <2>4. CASE \E c \in Calls :
                   CallSucceeds(c) \/ CallThrows(c) \/ \E a \in Addons : CallAddon(c, a)
      BY <1>1, <2>4, BreakerCalls
    <2> QED BY <1>4, <2>1, <2>2, <2>3, <2>4 DEF HostNext
  <1> QED BY <1>2, <1>3, <1>4, HostSteps

\* What a step must not do: pass the commit log with a licence that ran out.
LicencePassed ==
    server = "commitLog" /\ server' = "discover" /\ Licence.expiresAt # Nil /\ latestCommit # Nil
        => latestCommit <= Licence.expiresAt + Tolerance + (clock - bootedAt)

\* Every step of the host keeps what is known about the licence.
LEMMA LicenceStep ==
    ASSUME HostInv, [Next]_vars PROVE LicenceInv' /\ (UNCHANGED hostVars \/ LicencePassed)
  <1>1. /\ setup \in Starts /\ MaxClock \in Nat
        /\ clock \in 0..MaxClock /\ bootedAt \in 0..MaxClock /\ latestCommit \in {Nil} \cup 0..MaxClock
        /\ server = "commitLog" => Licence.expiresAt = Nil \/ bootedAt <= Licence.expiresAt
        /\ Licence.expiresAt \in {Nil} \cup Nat /\ setup.clocks \subseteq 0..MaxClock /\ Tolerance \in Nat
    BY ConsoleAssumptions, HostAssumptions DEF HostInv, LicenceInv, Licence
  <1>2. ASSUME setup' = setup, clock' \in 0..MaxClock, bootedAt' \in 0..MaxClock,
               latestCommit' \in {Nil} \cup 0..MaxClock,
               server' # "commitLog" \/ (server = "commitLog" /\ bootedAt' = bootedAt)
        PROVE  LicenceInv'
    BY <1>1, <1>2 DEF LicenceInv, Licence
  <1>3. CASE UNCHANGED hostVars
    BY <1>1, <1>2, <1>3 DEF hostVars
  <1>4. CASE Later
    BY <1>1, <1>2, <1>4 DEF Later, bootVars, LicencePassed
  <1>5. CASE \E a, k : SetTrust(a, k)
    BY <1>1, <1>2, <1>5 DEF SetTrust, bootVars, LicencePassed
  <1>6. CASE HostNext
    <2>1. ASSUME NEW now \in setup.clocks \cup {clock}, StartProcess(now)
          PROVE  LicenceInv' /\ LicencePassed
      <3>1. now \in 0..MaxClock
        BY <1>1
      <3> QED BY <1>1, <1>2, <2>1, <3>1 DEF StartProcess, LicencePassed
    <2>2. CASE ValidateOnBoot
      <3>1. /\ setup' = setup /\ clock' = clock /\ bootedAt' = clock /\ latestCommit' = latestCommit
            /\ server = "licence" /\ (server' = "commitLog" => LicenceInForce)
        BY <2>2 DEF ValidateOnBoot
      <3> QED BY <1>1, <3>1 DEF LicenceInForce, LicenceInv, Licence, LicencePassed
    <2>3. ASSUME NEW readable \in BOOLEAN, CheckCommitLog(readable)
          PROVE  LicenceInv' /\ LicencePassed
      <3>1. /\ setup' = setup /\ clock' = clock /\ bootedAt' = bootedAt /\ latestCommit' = latestCommit
            /\ server = "commitLog" /\ server' \in {"discover", "down"}
            /\ server' = "discover" => NoClockRollback
        BY <2>3 DEF CheckCommitLog
      <3>2. LicenceInv'
        BY <1>1, <1>2, <3>1
      <3>3. LicencePassed
        <4> SUFFICES ASSUME server' = "discover", Licence.expiresAt # Nil, latestCommit # Nil
                     PROVE  latestCommit <= Licence.expiresAt + Tolerance + (clock - bootedAt)
          BY DEF LicencePassed
        <4>1. latestCommit - clock <= Tolerance
          BY <3>1 DEF NoClockRollback
        <4>2. bootedAt <= Licence.expiresAt
          BY <1>1, <3>1
        <4>3. Licence.expiresAt \in Nat /\ latestCommit \in Nat
          BY <1>1
        <4> QED BY <1>1, <4>1, <4>2, <4>3
      <3> QED BY <3>2, <3>3
    <2>4. CASE DiscoverAddons \/ LoadNext \/ AddonsLoaded \/ ActivateNext \/ Serve
      <3>1. /\ UNCHANGED <<setup, clock, bootedAt, latestCommit>>
            /\ server # "commitLog" /\ server' # "commitLog"
        BY <2>4 DEF DiscoverAddons, LoadNext, AddonsLoaded, ActivateNext, Serve
      <3> QED BY <1>1, <1>2, <3>1 DEF LicencePassed
    <2>5. CASE Stop \/ CommitLands
      <3>1. /\ UNCHANGED <<setup, clock, bootedAt>> /\ latestCommit' \in {latestCommit, clock}
            /\ server = "up" /\ server' \in {"up", "down"}
        BY <2>5 DEF Stop, CommitLands, bootVars
      <3> QED BY <1>1, <1>2, <3>1 DEF LicencePassed
    <2>6. CASE \/ \E a \in Addons : Revoke(a) \/ \E k \in Keys : Trust(a, k)
               \/ \E c \in Calls : CallSucceeds(c) \/ CallThrows(c) \/ \E a \in Addons : CallAddon(c, a)
               \/ \E s \in Sources : GetCertificate(s)
      <3>1. UNCHANGED <<setup, clock, bootedAt, latestCommit, server>>
        BY <2>6 DEF Revoke, Trust, SetTrust, CallSucceeds, CallThrows, CallAddon, GetCertificate,
                    HostIdle, bootVars
      <3> QED BY <1>1, <1>2, <3>1 DEF LicencePassed
    <2> QED BY <1>6, <2>1, <2>2, <2>3, <2>4, <2>5, <2>6 DEF HostNext, Boot
  <1> QED BY <1>3, <1>4, <1>5, <1>6, HostSteps

\* The invariant holds in every state the process reaches.
LEMMA HostInvariant == Spec => []HostInv
  <1>1. Init => HostInv
    <2> SUFFICES ASSUME Init PROVE HostInv
      OBVIOUS
    <2>1. BreakerInv
      BY HostAssumptions DEF Init, HostInit, Zeroes, NoCalls, BreakerInv, DisabledAfterStreak
    <2>2. LicenceInv
      BY ConsoleAssumptions, HostAssumptions DEF Init, HostInit, LicenceInv
    <2> QED BY <2>1, <2>2 DEF HostInv
  <1>2. HostInv /\ [Next]_vars => HostInv'
    BY BreakerStep, LicenceStep DEF HostInv
  <1> QED BY <1>1, <1>2, PTL DEF Spec

\* However calls to an addon overlap, the breaker disables it exactly when
\* MaxFailures of them failed in a row (addon-circuit-breaker.ts).
THEOREM BreakerIsExact == Spec => []DisabledAfterStreak
  <1>1. HostInv => DisabledAfterStreak
    BY DEF HostInv, BreakerInv
  <1> QED BY <1>1, HostInvariant, PTL

\* No setting of the clock boots the server with a licence that a commit
\* later than its expiry and the tolerance gives away.
THEOREM RollbackGainsNothing == Spec => LicenceNotRevived
  <1>1. HostInv /\ [Next]_vars => [LicencePassed]_hostVars
    BY LicenceStep
  <1>2. Spec => [][LicencePassed]_hostVars
    BY <1>1, HostInvariant, PTL DEF Spec
  <1> QED BY <1>2 DEF LicencePassed, LicenceNotRevived

(***************************************************************************)
(* The loading of addons.  The invariant says, for each step of main(),    *)
(* what is still to be done: an addon the rules admit is loaded or waits   *)
(* to be, and a loaded one with a route is active or waits to be.          *)
(***************************************************************************)
\* The directories main() has not come to.
Waiting == {paths[i] : i \in DOMAIN paths}

\* The addons that pass every check of the loader.
Admitted == {a \in InPaths : LoadAddon(a)}

\* The loaded addons that register routes.
WithRoutes == {a \in loaded : Pkg(a).route}

\* Nothing was loaded before the addons are discovered.
NothingLoaded == server \in {"licence", "commitLog", "discover"} => loaded = {} /\ active = {}

\* While the loader runs.
Loading ==
    server = "load" =>
        /\ active = {} /\ WithinCommunityLimit
        /\ loaded \subseteq Admitted /\ Admitted \subseteq loaded \cup Waiting

\* While the loaded addons are activated.
Activating ==
    server = "activate" =>
        /\ loaded = Admitted /\ WithinCommunityLimit
        /\ active \subseteq WithRoutes /\ WithRoutes \subseteq active \cup Waiting

\* The boot and what it builds.
BootInv ==
    /\ server \in Booting \cup {"up", "down"}
    /\ trusted \in [Addons -> Keys \cup {Nil}]
    /\ paths \in Seq(InPaths) /\ loaded \subseteq InPaths /\ active \subseteq loaded
    /\ NothingLoaded /\ Loading /\ Activating

\* A call runs in an active addon, and only such an addon is disabled.
CallInv ==
    /\ disabled \subseteq active
    /\ calls \in [Calls -> active \cup {Nil}]

\* Taking the first directory off the list.
LEMMA HeadAndTail ==
    ASSUME NEW S, NEW s \in Seq(S), s # <<>>
    PROVE  /\ Head(s) \in S /\ Tail(s) \in Seq(S)
           /\ {s[i] : i \in DOMAIN s} = {Head(s)} \cup {Tail(s)[i] : i \in DOMAIN Tail(s)}
  <1>1. /\ Len(s) \in Nat \ {0} /\ DOMAIN s = 1..Len(s) /\ Head(s) = s[1]
        /\ Tail(s) \in Seq(S) /\ DOMAIN Tail(s) = 1..Len(s) - 1
        /\ \A i \in 1..Len(s) - 1 : Tail(s)[i] = s[i + 1]
        /\ \A i \in 1..Len(s) : s[i] \in S
    OBVIOUS
  <1>2. ASSUME NEW i \in DOMAIN s
        PROVE  s[i] \in {Head(s)} \cup {Tail(s)[j] : j \in DOMAIN Tail(s)}
    <2>1. CASE i = 1
      BY <1>1, <2>1
    <2>2. CASE i # 1
      <3>1. i - 1 \in 1..Len(s) - 1 /\ (i - 1) + 1 = i
        BY <1>1, <2>2
      <3>2. Tail(s)[i - 1] = s[i]
        BY <1>1, <3>1
      <3> QED BY <1>1, <3>1, <3>2
    <2> QED BY <2>1, <2>2
  <1>3. ASSUME NEW j \in DOMAIN Tail(s) PROVE Tail(s)[j] \in {s[i] : i \in DOMAIN s}
    <2>1. j + 1 \in DOMAIN s /\ Tail(s)[j] = s[j + 1]
      BY <1>1
    <2> QED BY <2>1
  <1>4. Head(s) \in S /\ Head(s) \in {s[i] : i \in DOMAIN s}
    BY <1>1
  <1> QED BY <1>1, <1>2, <1>3, <1>4

\* The deployment does not change, nor what is read of it.
LEMMA SetupKept ==
    ASSUME setup' = setup
    PROVE  /\ InPaths' = InPaths /\ WithinCommunityLimit' = WithinCommunityLimit
           /\ \A a : Pkg(a)' = Pkg(a)
           /\ trusted' = trusted => Admitted' = Admitted
  BY DEF InPaths, WithinCommunityLimit, CommunityCount, Community, AddonsConfig, Licence, Pkg, Admitted,
         LoadAddon, WellFormed, VerifySignature, EnforceLicenseRules

\* A process that is left alone.
LEMMA BootAlone ==
    ASSUME BootInv, UNCHANGED <<setup, server, paths, loaded, active>>,
           trusted' \in [Addons -> Keys \cup {Nil}], trusted' = trusted \/ server = "up"
    PROVE  BootInv'
  <1>1. /\ InPaths' = InPaths /\ WithinCommunityLimit' = WithinCommunityLimit
        /\ \A a : Pkg(a)' = Pkg(a)
        /\ trusted' = trusted => Admitted' = Admitted
    BY SetupKept
  <1>2. Waiting' = Waiting /\ WithRoutes' = WithRoutes
    BY <1>1 DEF Waiting, WithRoutes
  <1> QED BY <1>1, <1>2 DEF BootInv, NothingLoaded, Loading, Activating

\* One step of main().
LEMMA BootStep == ASSUME BootInv, setup \in Starts, Boot PROVE BootInv'
  <1>0. setup' = setup /\ trusted' = trusted
    BY DEF Boot, ValidateOnBoot, CheckCommitLog, DiscoverAddons, LoadNext, AddonsLoaded, ActivateNext, Serve
  <1>1. /\ InPaths' = InPaths /\ WithinCommunityLimit' = WithinCommunityLimit
        /\ \A a : Pkg(a)' = Pkg(a)
        /\ Admitted' = Admitted
    BY <1>0, SetupKept
  <1>2. CASE ValidateOnBoot \/ (\E readable \in BOOLEAN : CheckCommitLog(readable)) \/ Serve
    BY <1>0, <1>1, <1>2 DEF ValidateOnBoot, CheckCommitLog, Serve, BootInv, NothingLoaded, Loading,
                            Activating, Booting
  <1>3. setup.paths \in Seq(InPaths) /\ InPaths = {setup.paths[i] : i \in DOMAIN setup.paths}
    BY ConsoleAssumptions DEF InPaths
  <1>4. CASE DiscoverAddons
    <2>1. /\ server = "discover" /\ UNCHANGED <<loaded, active>> /\ loaded = {} /\ active = {}
          /\ \/ server' = "load" /\ paths' = setup.paths /\ WithinCommunityLimit
             \/ server' = "down" /\ paths' = paths
      BY <1>4 DEF DiscoverAddons, BootInv, NothingLoaded
    <2>2. CASE server' = "load"
      <3>1. paths' = setup.paths /\ WithinCommunityLimit
        BY <2>1, <2>2
      <3>2. Waiting' = InPaths
        BY <1>3, <3>1 DEF Waiting
      <3>3. Admitted \subseteq InPaths
        BY DEF Admitted
      <3> QED BY <1>0, <1>1, <1>3, <2>1, <2>2, <3>1, <3>2, <3>3
              DEF BootInv, NothingLoaded, Loading, Activating, Booting
    <2>3. CASE server' = "down"
      BY <1>0, <1>1, <2>1, <2>3 DEF BootInv, NothingLoaded, Loading, Activating, Booting
    <2> QED BY <2>1, <2>2, <2>3
  <1>5. CASE LoadNext
    <2> DEFINE a == Head(paths)
    <2>1. /\ server = "load" /\ paths # <<>> /\ UNCHANGED <<server, active>>
          /\ loaded' = (IF LoadAddon(a) THEN loaded \cup {a} ELSE loaded) /\ paths' = Tail(paths)
      BY <1>5 DEF LoadNext
    <2>2. a \in InPaths /\ paths' \in Seq(InPaths) /\ Waiting = {a} \cup Waiting'
      BY <2>1, HeadAndTail DEF BootInv, Waiting
    <2> HIDE DEF a
    <2>3. /\ active = {} /\ WithinCommunityLimit
          /\ loaded \subseteq Admitted /\ Admitted \subseteq loaded \cup Waiting
      BY <2>1 DEF BootInv, Loading
    <2>4. LoadAddon(a) <=> a \in Admitted
      BY <2>2 DEF Admitted
    <2>5. loaded' \subseteq Admitted /\ Admitted \subseteq loaded' \cup Waiting' /\ loaded' \subseteq InPaths
      BY <2>1, <2>2, <2>3, <2>4 DEF Admitted
    <2> QED BY <1>0, <1>1, <2>1, <2>2, <2>3, <2>5 DEF BootInv, NothingLoaded, Loading, Activating
  <1>6. CASE AddonsLoaded
    <2>1. /\ server = "load" /\ paths = <<>> /\ server' = "activate" /\ paths' = setup.paths
          /\ UNCHANGED <<loaded, active>>
      BY <1>6 DEF AddonsLoaded
    <2>2. Waiting = {} /\ Waiting' = InPaths
      BY <1>3, <2>1 DEF Waiting
    <2>3. active = {} /\ WithinCommunityLimit /\ loaded = Admitted
      BY <2>1, <2>2 DEF BootInv, Loading
    <2>4. WithRoutes' \subseteq InPaths
      BY <2>1 DEF WithRoutes, BootInv
    <2> QED BY <1>0, <1>1, <1>3, <2>1, <2>2, <2>3, <2>4
            DEF BootInv, NothingLoaded, Loading, Activating, Booting
  <1>7. CASE ActivateNext
    <2> DEFINE a == Head(paths)
    <2>1. /\ server = "activate" /\ paths # <<>> /\ loaded' = loaded
          /\ \/ server' = "down" /\ UNCHANGED <<active, paths>>
             \/ /\ active' = (IF Routed(a) THEN active \cup {a} ELSE active)
                /\ paths' = Tail(paths) /\ server' = server
      BY <1>7 DEF ActivateNext
    <2>2. a \in InPaths /\ Tail(paths) \in Seq(InPaths)
          /\ Waiting = {a} \cup {Tail(paths)[i] : i \in DOMAIN Tail(paths)}
      BY <2>1, HeadAndTail DEF BootInv, Waiting
    <2> HIDE DEF a
    <2>3. /\ loaded = Admitted /\ WithinCommunityLimit
          /\ active \subseteq WithRoutes /\ WithRoutes \subseteq active \cup Waiting
      BY <2>1 DEF BootInv, Activating
    <2>4. (Routed(a) <=> a \in WithRoutes) /\ WithRoutes' = WithRoutes /\ WithRoutes \subseteq loaded
      BY <1>1, <2>1 DEF Routed, WithRoutes
    <2>5. CASE server' = "down"
      BY <1>0, <1>1, <2>1, <2>5 DEF BootInv, NothingLoaded, Loading, Activating, Booting
    <2>6. CASE server' # "down"
      <3>1. /\ active' = (IF Routed(a) THEN active \cup {a} ELSE active)
            /\ paths' = Tail(paths) /\ server' = server
        BY <2>1, <2>6
      <3>2. Waiting = {a} \cup Waiting'
        BY <2>2, <3>1 DEF Waiting
      <3>3. active' \subseteq WithRoutes /\ WithRoutes \subseteq active' \cup Waiting'
        BY <2>3, <2>4, <3>1, <3>2
      <3> QED BY <1>0, <1>1, <2>1, <2>2, <2>3, <2>4, <3>1, <3>3
              DEF BootInv, NothingLoaded, Loading, Activating
    <2> QED BY <2>5, <2>6
  <1> QED BY <1>2, <1>4, <1>5, <1>6, <1>7 DEF Boot

\* A trust request of the page names a key.
WriteInv == write # Nil => write.key \in Keys \cup {Nil}

\* The trust store holds keys, and changes only while the server is up.
LEMMA TrustStep ==
    ASSUME WriteInv, trusted \in [Addons -> Keys \cup {Nil}], [Next]_vars
    PROVE  WriteInv' /\ trusted' \in [Addons -> Keys \cup {Nil}] /\ (trusted' = trusted \/ server = "up")
  <1>1. ASSUME NEW a, NEW k \in Keys \cup {Nil}, SetTrust(a, k)
        PROVE  trusted' \in [Addons -> Keys \cup {Nil}] /\ server = "up"
    BY <1>1 DEF SetTrust
  <1>2. CASE UNCHANGED vars
    BY <1>2 DEF vars, hostVars, tableVars, WriteInv
  <1>3. CASE HostNext /\ UNCHANGED <<sessionVars, tableVars>>
    <2>1. WriteInv'
      BY <1>3 DEF tableVars, WriteInv
    <2>2. CASE \E a \in Addons : Revoke(a) \/ \E k \in Keys : Trust(a, k)
      BY <1>1, <2>1, <2>2 DEF Revoke, Trust
    <2>3. CASE ~\E a \in Addons : Revoke(a) \/ \E k \in Keys : Trust(a, k)
      <3>1. trusted' = trusted
        BY <1>3, <2>3 DEF HostNext, StartProcess, Boot, ValidateOnBoot, CheckCommitLog, DiscoverAddons,
               LoadNext, AddonsLoaded, ActivateNext, Serve, Stop, CommitLands, CallSucceeds, CallThrows,
               CallAddon, GetCertificate, HostIdle
      <3> QED BY <2>1, <3>1
    <2> QED BY <2>2, <2>3
  <1>4. CASE Tick
    <2>1. trusted' = trusted /\ (write = Nil => write' = Nil)
          /\ (write # Nil => write' = Write(write.addon, write.key, Aged(write.token), write.pc))
      BY <1>4 DEF Tick, Later
    <2> QED BY <2>1 DEF WriteInv, Write
  <1>5. ASSUME NEW f \in Fetches, SessionStep(f) PROVE trusted' = trusted /\ WriteInv'
    BY <1>5 DEF SessionStep, SubmitLogin, ShowSession, LoginFails, Reload, RestoreFails, TimerFires,
                Renewed, NotRenewed, RetryFails, ClickLogout, ShowForm, ServeFetch, FetchFails,
                hostVars, tableVars, WriteInv
  <1>6. ASSUME NEW l \in Loads, TableStep(l) PROVE trusted' = trusted /\ WriteInv'
    BY <1>6 DEF TableStep, RefreshDashboardTiles, ServeLoad, RenderTrustedAddons, TrustAnswered,
                hostVars, WriteInv
  <1>7. ASSUME NEW a \in Addons, NEW k \in Keys \cup {Nil}, SubmitTrust(a, k)
        PROVE  trusted' = trusted /\ WriteInv'
    BY <1>7 DEF SubmitTrust, Write, hostVars, WriteInv
  <1>8. CASE ServeTrust
    <2>1. write # Nil /\ write.key \in Keys \cup {Nil}
      BY <1>8 DEF ServeTrust, WriteInv
    <2>2. CASE Admits(write.token)
      <3>1. /\ SetTrust(write.addon, write.key)
            /\ write' = Write(write.addon, write.key, Nil, "answered")
        BY <1>8, <2>2 DEF ServeTrust
      <3>2. trusted' \in [Addons -> Keys \cup {Nil}] /\ server = "up"
        BY <1>1, <2>1, <3>1
      <3>3. write'.key = write.key
        BY <3>1 DEF Write
      <3> QED BY <2>1, <3>2, <3>3 DEF WriteInv
    <2>3. CASE ~Admits(write.token)
      <3>1. trusted' = trusted /\ (write' = Nil \/ write' = Write(write.addon, Nil, Nil, "answered"))
        BY <1>8, <2>3 DEF ServeTrust, hostVars
      <3> QED BY <3>1 DEF WriteInv, Write
    <2> QED BY <2>2, <2>3
  <1>9. CASE SetGlobalAdmin
    BY <1>9 DEF SetGlobalAdmin, hostVars, tableVars, WriteInv
  <1> QED BY <1>2, <1>3, <1>4, <1>5, <1>6, <1>7, <1>8, <1>9 DEF Next

\* Every step keeps what is known about the addons.
LEMMA AddonStep ==
    ASSUME HostInv, BootInv, CallInv, WriteInv, [Next]_vars
    PROVE  BootInv' /\ CallInv'
  <1>1. /\ trusted' \in [Addons -> Keys \cup {Nil}] /\ (trusted' = trusted \/ server = "up")
        /\ setup \in Starts /\ Nil \notin Addons
    BY TrustStep, HostAssumptions DEF BootInv, HostInv, LicenceInv
  <1>2. ASSUME UNCHANGED <<setup, server, paths, loaded, active>>, UNCHANGED <<calls, disabled>>
        PROVE  BootInv' /\ CallInv'
    BY <1>1, <1>2, BootAlone DEF CallInv
  <1>3. CASE UNCHANGED hostVars
    BY <1>2, <1>3 DEF hostVars
  <1>4. CASE Later \/ \E a, k : SetTrust(a, k)
    BY <1>2, <1>4 DEF Later, SetTrust, bootVars, breakerVars
  <1>5. CASE HostNext
    <2>1. ASSUME FreshMemory, setup' = setup, trusted' = trusted, server' \in {"licence", "down"}
          PROVE  BootInv' /\ CallInv'
      <3>1. /\ loaded' = {} /\ active' = {} /\ paths' = <<>> /\ disabled' = {}
            /\ calls' = [c \in Calls |-> Nil]
        BY <2>1 DEF FreshMemory, NoCalls
      <3>2. CallInv'
        BY <3>1 DEF CallInv
      <3>3. paths' \in Seq(InPaths')
        BY <3>1
      <3> QED BY <1>1, <2>1, <3>1, <3>2, <3>3 DEF BootInv, NothingLoaded, Loading, Activating, Booting
    <2>2. CASE (\E now \in setup.clocks \cup {clock} : StartProcess(now)) \/ Stop
      BY <2>1, <2>2 DEF StartProcess, Stop
    <2>3. CASE Boot
      <3>1. BootInv'
        BY <1>1, <2>3, BootStep
      <3>2. UNCHANGED <<calls, disabled>> /\ active \subseteq active'
        BY <2>3 DEF Boot, ValidateOnBoot, CheckCommitLog, DiscoverAddons, LoadNext, AddonsLoaded,
                    ActivateNext, Serve, breakerVars
      <3>3. CallInv'
        BY <3>2 DEF CallInv
      <3> QED BY <3>1, <3>3
    <2>4. CASE CommitLands \/ (\E a \in Addons : Revoke(a) \/ \E k \in Keys : Trust(a, k))
               \/ (\E s \in Sources : GetCertificate(s))
      BY <1>2, <2>4 DEF CommitLands, Revoke, Trust, SetTrust, GetCertificate, HostIdle, bootVars, breakerVars
    <2>5. ASSUME NEW c \in Calls,
                 CallSucceeds(c) \/ CallThrows(c) \/ \E a \in Addons : CallAddon(c, a)
          PROVE  BootInv' /\ CallInv'
      <3>1. UNCHANGED <<setup, server, paths, loaded, active>>
        BY <2>5 DEF CallSucceeds, CallThrows, CallAddon, HostIdle, bootVars
      <3>2. BootInv'
        BY <1>1, <3>1, BootAlone
      <3>3. CallInv'
        BY <2>5, <3>1 DEF CallSucceeds, CallThrows, CallAddon, RecordFailure, CallInv
      <3> QED BY <3>2, <3>3
    <2> QED BY <1>5, <2>2, <2>3, <2>4, <2>5 DEF HostNext
  <1> QED BY <1>3, <1>4, <1>5, HostSteps

\* The set of community addons is no larger than the list of their
\* directories.
LEMMA CommunityCounted ==
    ASSUME setup \in Starts
    PROVE  /\ IsFiniteSet(Community) /\ Cardinality(Community) <= CommunityCount
           /\ CommunityCount \in Nat
  <1> DEFINE I == {i \in DOMAIN setup.paths : setup.paths[i] \in Community}
             g == [i \in I |-> setup.paths[i]]
  <1>1. setup.paths \in Seq(Addons)
    BY ConsoleAssumptions
  <1>2. IsFiniteSet(DOMAIN setup.paths)
    <2>1. Len(setup.paths) \in Nat /\ DOMAIN setup.paths = 1..Len(setup.paths)
      BY <1>1
    <2> QED BY <2>1, FS_Interval
  <1>3. IsFiniteSet(I)
    BY <1>2, FS_Subset
  <1>4. g \in Surjection(I, Community)
    BY DEF Surjection, Community, InPaths
  <1>5. IsFiniteSet(Community) /\ Cardinality(Community) <= Cardinality(I)
    <2> HIDE DEF I, g
    <2> QED BY <1>3, <1>4, FS_Surjection
  <1>6. Cardinality(I) \in Nat
    <2> HIDE DEF I
    <2> QED BY <1>3, FS_CardinalityType
  <1> QED BY <1>5, <1>6 DEF CommunityCount

\* A step that opens the server to requests.
GoesUp ==
    server # "up" /\ server' = "up" =>
        /\ loaded = {a \in InPaths :
                        /\ WellFormed(a)
                        /\ \/ /\ a \in Community /\ AddonsConfig.community
                              /\ trusted[a] = Pkg(a).signer
                           \/ /\ a \notin Community /\ Pkg(a).signer = Deltix
                              /\ a \in setup.free \cup AddonsConfig.official}
        /\ AddonsConfig.max # Nil => Cardinality(loaded \cap Community) <= AddonsConfig.max
        /\ active = {a \in loaded : Pkg(a).route}

\* Only Serve opens it, after every directory had its turn.
LEMMA UpWithAdmitted ==
    ASSUME HostInv, BootInv, [Next]_vars PROVE GoesUp
  <1> SUFFICES ASSUME server # "up", server' = "up" PROVE GoesUp
    BY DEF GoesUp
  <1>1. Serve
    <2>1. CASE UNCHANGED hostVars
      BY <2>1 DEF hostVars
    <2>2. CASE Later \/ \E a, k : SetTrust(a, k)
      BY <2>2 DEF Later, SetTrust, bootVars
    <2>3. CASE HostNext
      BY <2>3 DEF HostNext, StartProcess, Boot, ValidateOnBoot, CheckCommitLog, DiscoverAddons,
               LoadNext, AddonsLoaded, ActivateNext, Stop, CommitLands, CallSucceeds, CallThrows,
               CallAddon, GetCertificate, HostIdle, Revoke, Trust, SetTrust, bootVars
    <2> QED BY <2>1, <2>2, <2>3, HostSteps
  <1>2. server = "activate" /\ paths = <<>> /\ setup \in Starts
    BY <1>1 DEF Serve, HostInv, LicenceInv
  <1>3. Waiting = {}
    BY <1>2 DEF Waiting
  <1>4. loaded = Admitted /\ WithinCommunityLimit /\ active = WithRoutes
    BY <1>2, <1>3 DEF BootInv, Activating
  <1>5. InPaths \subseteq Addons
    BY <1>2, ConsoleAssumptions DEF InPaths
  <1>6. ASSUME NEW a \in InPaths
        PROVE  LoadAddon(a) <=>
                   /\ WellFormed(a)
                   /\ \/ a \in Community /\ AddonsConfig.community /\ trusted[a] = Pkg(a).signer
                      \/ /\ a \notin Community /\ Pkg(a).signer = Deltix
                         /\ a \in setup.free \cup AddonsConfig.official
    <2>1. Pkg(a).tier \in {"official", "community"} /\ Pkg(a).signer # Nil
      BY <1>2, <1>5, ConsoleAssumptions DEF Pkg
    <2>2. a \in Community <=> Pkg(a).tier # "official"
      BY <2>1 DEF Community
    <2> QED BY <2>1, <2>2 DEF LoadAddon, VerifySignature, EnforceLicenseRules
  <1>7. ASSUME AddonsConfig.max # Nil
        PROVE  Cardinality(loaded \cap Community) <= AddonsConfig.max
    <2>1. /\ IsFiniteSet(Community) /\ Cardinality(Community) <= CommunityCount /\ CommunityCount \in Nat
      BY <1>2, CommunityCounted
    <2>2. AddonsConfig.max \in Nat /\ CommunityCount <= AddonsConfig.max
      BY <1>2, <1>4, <1>7, ConsoleAssumptions DEF WithinCommunityLimit, AddonsConfig, Licence
    <2>3. loaded \cap Community \in SUBSET Community
      OBVIOUS
    <2>4. /\ Cardinality(loaded \cap Community) <= Cardinality(Community)
          /\ IsFiniteSet(loaded \cap Community)
      BY <2>1, <2>3, FS_Subset
    <2>5. Cardinality(loaded \cap Community) \in Nat /\ Cardinality(Community) \in Nat
      BY <2>1, <2>4, FS_CardinalityType
    <2> QED BY <2>1, <2>2, <2>4, <2>5
  <1> QED BY <1>4, <1>6, <1>7 DEF GoesUp, Admitted, WithRoutes

(***************************************************************************)
(* How far a breaker counts.  A call that is running when its addon is     *)
(* disabled still counts when it throws, and no new one starts.            *)
(***************************************************************************)
\* The calls that run in an addon.
Running(a) == {c \in Calls : calls[c] = a}

\* A disabled addon counts at most the calls that ran when it was disabled.
RunningInv ==
    \A a \in disabled :
        failures[a] + Cardinality(Running(a)) <= MaxFailures + Cardinality(Calls) - 1

\* The set of running calls is finite.
LEMMA RunningFinite ==
    ASSUME NEW S \in SUBSET Calls
    PROVE  /\ IsFiniteSet(S) /\ Cardinality(S) \in Nat /\ Cardinality(Calls) \in Nat
           /\ Cardinality(S) <= Cardinality(Calls)
           /\ \A c \in S : Cardinality(S \ {c}) = Cardinality(S) - 1
           /\ \A c \in Calls \ S : Cardinality(S) <= Cardinality(Calls) - 1
  <1>1. IsFiniteSet(Calls) /\ Cardinality(Calls) \in Nat
    BY HostAssumptions, FS_CardinalityType
  <1>2. IsFiniteSet(S) /\ Cardinality(S) <= Cardinality(Calls)
        /\ (Cardinality(Calls) = Cardinality(S) => Calls = S)
    BY <1>1, FS_Subset
  <1>3. Cardinality(S) \in Nat
    BY <1>2, FS_CardinalityType
  <1>4. \A c \in S : Cardinality(S \ {c}) = Cardinality(S) - 1
    BY <1>2, FS_RemoveElement
  <1>5. ASSUME NEW c \in Calls \ S PROVE Cardinality(S) <= Cardinality(Calls) - 1
    <2>1. Cardinality(Calls) # Cardinality(S)
      BY <1>2, <1>5
    <2> QED BY <1>1, <1>2, <1>3, <2>1
  <1> QED BY <1>1, <1>2, <1>3, <1>4, <1>5

\* Calls that end.
LEMMA RunningEnds ==
    ASSUME BreakerInv, CallInv, BootInv, RunningInv, NEW c \in Calls, CallSucceeds(c) \/ CallThrows(c),
           InPaths \subseteq Addons
    PROVE  RunningInv'
  <1> DEFINE a == calls[c]
             n == IF CallSucceeds(c) THEN 0 ELSE failures[a] + 1
  <1>0. /\ MaxFailures \in Nat \ {0} /\ a \in Addons /\ a # Nil
        /\ failures \in [Addons -> Nat] /\ disabled \subseteq Addons /\ calls \in [Calls -> Addons \cup {Nil}]
    BY HostAssumptions DEF BreakerInv, BootInv, CallInv, CallSucceeds, CallThrows
  <1>1. /\ calls' = [calls EXCEPT ![c] = Nil] /\ failures' = [failures EXCEPT ![a] = n]
        /\ disabled' = disabled \/ (disabled' = disabled \cup {a} /\ n >= MaxFailures /\ ~CallSucceeds(c))
        /\ n \in Nat /\ n <= failures[a] + 1
    BY <1>0 DEF CallSucceeds, CallThrows, RecordFailure
  <1> HIDE DEF n
  <1>2. ASSUME NEW x PROVE Running(x)' = IF x = a THEN Running(a) \ {c} ELSE IF x = Nil THEN Running(Nil) \cup {c} ELSE Running(x)
    BY <1>0, <1>1 DEF Running
  <1>3. a \notin disabled => failures[a] <= MaxFailures - 1
    <2>1. failures[a] \in Nat /\ worst[a] \in Nat /\ failures[a] <= worst[a]
          /\ (a \in disabled <=> worst[a] >= MaxFailures)
      BY <1>0 DEF BreakerInv, DisabledAfterStreak
    <2> QED BY <1>0, <2>1
  <1> HIDE DEF a
  <1>4. ASSUME NEW x \in disabled'
        PROVE  failures'[x] + Cardinality(Running(x)') <= MaxFailures + Cardinality(Calls) - 1
    <2>1. CASE x # a
      <3>1. x \in disabled /\ x # Nil /\ failures'[x] = failures[x] /\ Running(x)' = Running(x)
        BY <1>0, <1>1, <1>2, <2>1, HostAssumptions
      <3> QED BY <3>1 DEF RunningInv
    <2>2. CASE x = a
      <3> DEFINE R == Running(a)
      <3>1. Running(x)' = R \ {c} /\ failures'[x] = n /\ c \in R /\ R \in SUBSET Calls
        BY <1>0, <1>1, <1>2, <2>2 DEF Running, a
      <3> HIDE DEF R
      <3>2. /\ Cardinality(R) \in Nat /\ Cardinality(Calls) \in Nat /\ Cardinality(R) <= Cardinality(Calls)
            /\ Cardinality(R \ {c}) = Cardinality(R) - 1
        BY <3>1, RunningFinite
      <3>3. failures[a] \in Nat
        BY <1>0
      <3>4. CASE a \in disabled
        <4>1. failures[a] + Cardinality(R) <= MaxFailures + Cardinality(Calls) - 1
          BY <3>4 DEF RunningInv, R
        <4> QED BY <1>0, <1>1, <3>1, <3>2, <3>3, <4>1
      <3>5. CASE a \notin disabled
        BY <1>0, <1>1, <1>3, <3>1, <3>2, <3>3, <3>5
      <3> QED BY <3>4, <3>5
    <2> QED BY <2>1, <2>2
  <1> QED BY <1>4 DEF RunningInv

\* Every step keeps the bound.
LEMMA RunningStep ==
    ASSUME HostInv, BootInv, CallInv, RunningInv, [Next]_vars
    PROVE  RunningInv'
  <1>1. ASSUME UNCHANGED breakerVars PROVE RunningInv'
    BY <1>1 DEF breakerVars, RunningInv, Running
  <1>2. CASE UNCHANGED hostVars
    BY <1>1, <1>2 DEF hostVars, breakerVars
  <1>3. CASE Later \/ \E a, k : SetTrust(a, k)
    BY <1>1, <1>3 DEF Later, SetTrust
  <1>4. CASE HostNext
    <2>1. CASE (\E now \in setup.clocks \cup {clock} : StartProcess(now)) \/ Stop
      <3>1. disabled' = {}
        BY <2>1 DEF StartProcess, Stop, FreshMemory
      <3> QED BY <3>1 DEF RunningInv
    <2>2. CASE Boot \/ CommitLands \/ (\E a \in Addons : Revoke(a) \/ \E k \in Keys : Trust(a, k))
               \/ (\E s \in Sources : GetCertificate(s))
      BY <1>1, <2>2 DEF Boot, ValidateOnBoot, CheckCommitLog, DiscoverAddons, LoadNext, AddonsLoaded,
             ActivateNext, Serve, CommitLands, Revoke, Trust, SetTrust, GetCertificate
    <2>3. ASSUME NEW c \in Calls, CallSucceeds(c) \/ CallThrows(c) PROVE RunningInv'
      <3>1. InPaths \subseteq Addons /\ BreakerInv
        BY ConsoleAssumptions DEF InPaths, HostInv, LicenceInv
      <3> QED BY <2>3, <3>1, RunningEnds
    <2>4. ASSUME NEW c \in Calls, NEW a \in Addons, CallAddon(c, a) PROVE RunningInv'
      <3>1. /\ a \notin disabled /\ calls' = [calls EXCEPT ![c] = a] /\ calls[c] = Nil
            /\ UNCHANGED <<failures, disabled>> /\ a # Nil
        BY <2>4, HostAssumptions DEF CallAddon
      <3>2. ASSUME NEW x \in disabled PROVE Running(x)' = Running(x)
        <4>1. x # Nil /\ x # a
          BY <3>1, ConsoleAssumptions, HostAssumptions DEF HostInv, LicenceInv, BootInv, CallInv, InPaths
        <4> QED BY <3>1, <4>1 DEF Running, CallInv
      <3> QED BY <3>1, <3>2 DEF RunningInv
    <2> QED BY <1>4, <2>1, <2>2, <2>3, <2>4 DEF HostNext
  <1> QED BY <1>2, <1>3, <1>4, HostSteps

(***************************************************************************)
(* The limiter of the certificate endpoint.                                *)
(***************************************************************************)
\* What a source has been counted.
CertWindows == [count : Nat, since : 0..MaxClock]

\* The counter of every source against the certificates it was served.
CertInv ==
    /\ window \in [Sources -> CertWindows]
    /\ served \in [Sources -> Seq(Int)]
    /\ \A s \in Sources :
          WindowOK(served[s], window[s].count, window[s].since, CertLimit, CertWindow, clock)

\* A limiter that has counted nothing.
LEMMA FreshCert ==
    /\ NoWindow \in CertWindows
    /\ \A t \in Int : WindowOK(<<>>, NoWindow.count, NoWindow.since, CertLimit, CertWindow, t)
  <1>1. NoWindow.count = 0 /\ NoWindow.since = 0
    BY DEF NoWindow
  <1>2. NoWindow \in CertWindows
    <2>1. 0 \in Nat /\ 0 \in 0..MaxClock
      BY HostAssumptions
    <2> QED BY <2>1, Zenon DEF NoWindow, CertWindows
  <1>3. \A t \in Int : WindowOK(<<>>, 0, 0, CertLimit, CertWindow, t)
    <2>1. CertLimit \in Nat /\ CertWindow \in Int /\ 0 \in Int
      BY HostAssumptions
    <2> QED BY <2>1, NothingLetThrough
  <1> QED BY <1>1, <1>2, <1>3

\* A certificate that the limiter lets through.
LEMMA CertificateServed ==
    ASSUME CertInv, clock \in 0..MaxClock, NEW s \in Sources, GetCertificate(s)
    PROVE  CertInv'
  <1> DEFINE w == window[s]
             h == served[s]
             n == IF WindowOver(w) THEN [count |-> 1, since |-> clock]
                  ELSE [count |-> w.count + 1, since |-> w.since]
  <1>1. /\ CertLimit \in Nat \ {0} /\ CertWindow \in Int /\ CertWindow >= 0 /\ MaxClock \in Nat
        /\ clock \in Int /\ clock' = clock /\ IsAllowed(s)
    BY HostAssumptions DEF GetCertificate, HostIdle
  <1>2. /\ w \in CertWindows /\ h \in Seq(Int) /\ w.count \in Nat /\ w.since \in Int
        /\ WindowOK(h, w.count, w.since, CertLimit, CertWindow, clock)
    BY <1>1 DEF CertInv, CertWindows
  <1>3. /\ window' = [window EXCEPT ![s] = n] /\ served' = [served EXCEPT ![s] = Append(h, clock)]
        /\ window'[s] = n /\ served'[s] = Append(h, clock)
        /\ \A x \in Sources : x # s => window'[x] = window[x] /\ served'[x] = served[x]
    <2>1. window' = [window EXCEPT ![s] = n]
      BY DEF GetCertificate, RecordCertAttempt
    <2>2. served' = [served EXCEPT ![s] = Append(h, clock)]
      BY Zenon DEF GetCertificate
    <2> HIDE DEF n, h
    <2> QED BY <2>1, <2>2 DEF CertInv
  <1>4. n \in CertWindows /\ WindowOK(Append(h, clock), n.count, n.since, CertLimit, CertWindow, clock)
    <2>1. CASE WindowOver(w)
      <3>1. n = [count |-> 1, since |-> clock]
        BY <2>1
      <3>2. n \in CertWindows /\ n.count = 1 /\ n.since = clock
        BY <1>1, <3>1 DEF CertWindows
      <3> HIDE DEF n
      <3>3. w.count = 0 \/ clock - w.since >= CertWindow
        BY <2>1 DEF WindowOver
      <3> HIDE DEF w, h
      <3>4. WindowOK(Append(h, clock), 1, clock, CertLimit, CertWindow, clock)
        BY <1>1, <1>2, <3>3, WindowOpens
      <3> QED BY <3>2, <3>4
    <2>2. CASE ~WindowOver(w)
      <3>1. n = [count |-> w.count + 1, since |-> w.since]
        BY <2>2
      <3>2. w.count # 0 /\ w.count < CertLimit
        BY <1>1, <2>2 DEF WindowOver, IsAllowed
      <3> HIDE DEF w
      <3>3. n \in CertWindows /\ n.count = w.count + 1 /\ n.since = w.since
        BY <1>2, <3>1 DEF CertWindows
      <3> HIDE DEF n, h
      <3>4. WindowOK(Append(h, clock), w.count + 1, w.since, CertLimit, CertWindow, clock)
        BY <1>1, <1>2, <3>2, WindowCounts
      <3> QED BY <3>3, <3>4
    <2> QED BY <2>1, <2>2
  <1> HIDE DEF w, h, n
  <1>5. Append(h, clock) \in Seq(Int)
    BY <1>1, <1>2
  <1>6. window' \in [Sources -> CertWindows]
    BY <1>3, <1>4 DEF CertInv
  <1>7. served' \in [Sources -> Seq(Int)]
    BY <1>3, <1>5 DEF CertInv
  <1>8. ASSUME NEW x \in Sources
        PROVE  WindowOK(served'[x], window'[x].count, window'[x].since, CertLimit, CertWindow, clock')
    <2>1. CASE x = s
      BY <1>1, <1>3, <1>4, <2>1
    <2>2. CASE x # s
      BY <1>1, <1>3, <2>2 DEF CertInv
    <2> QED BY <2>1, <2>2
  <1>9. \A x \in Sources : WindowOK(served[x], window[x].count, window[x].since,
                                    CertLimit, CertWindow, clock)'
    BY <1>8 DEF WindowOK, Spaced
  <1> QED BY <1>6, <1>7, <1>9 DEF CertInv

\* Every step keeps the limiter's invariant; a clock that is set back finds
\* a process that has counted nothing.
LEMMA CertStep == ASSUME HostInv, CertInv, [Next]_vars PROVE CertInv'
  <1>1. clock \in 0..MaxClock /\ clock' \in 0..MaxClock /\ clock \in Int /\ clock' \in Int
    BY LicenceStep, HostAssumptions DEF HostInv, LicenceInv
  <1>2. ASSUME UNCHANGED certVars, clock' >= clock PROVE CertInv'
    <2>1. window' = window /\ served' = served
      BY <1>2 DEF certVars
    <2>2. ASSUME NEW s \in Sources
          PROVE  WindowOK(served[s], window[s].count, window[s].since, CertLimit, CertWindow, clock')
      <3>1. CertLimit \in Nat /\ CertWindow \in Int /\ clock <= clock'
        BY <1>1, <1>2, HostAssumptions
      <3>2. WindowOK(served[s], window[s].count, window[s].since, CertLimit, CertWindow, clock)
        BY DEF CertInv
      <3> QED BY <1>1, <3>1, <3>2, TimePasses
    <2>3. \A s \in Sources : WindowOK(served[s], window[s].count, window[s].since,
                                      CertLimit, CertWindow, clock)'
      BY <2>1, <2>2 DEF WindowOK, Spaced
    <2> QED BY <2>1, <2>3 DEF CertInv
  <1>3. CASE UNCHANGED hostVars
    BY <1>1, <1>2, <1>3 DEF hostVars, certVars
  <1>4. CASE Later \/ \E a, k : SetTrust(a, k)
    BY <1>1, <1>2, <1>4 DEF Later, SetTrust
  <1>5. CASE HostNext
    <2>1. CASE (\E now \in setup.clocks \cup {clock} : StartProcess(now)) \/ Stop
      <3>1. window' = [s \in Sources |-> NoWindow] /\ served' = [s \in Sources |-> <<>>]
        BY <2>1 DEF StartProcess, Stop, FreshMemory
      <3>2. window' \in [Sources -> CertWindows] /\ served' \in [Sources -> Seq(Int)]
        BY <3>1, FreshCert
      <3>3. \A s \in Sources : WindowOK(served'[s], window'[s].count, window'[s].since,
                                        CertLimit, CertWindow, clock')
        BY <1>1, <3>1, FreshCert
      <3>4. \A s \in Sources : WindowOK(served[s], window[s].count, window[s].since,
                                        CertLimit, CertWindow, clock)'
        BY <3>3 DEF WindowOK, Spaced
      <3> QED BY <3>2, <3>4 DEF CertInv
    <2>2. CASE Boot \/ CommitLands \/ (\E a \in Addons : Revoke(a) \/ \E k \in Keys : Trust(a, k))
      BY <1>1, <1>2, <2>2 DEF Boot, ValidateOnBoot, CheckCommitLog, DiscoverAddons, LoadNext, AddonsLoaded,
             ActivateNext, Serve, CommitLands, Revoke, Trust, SetTrust
    <2>3. CASE \E c \in Calls :
                   CallSucceeds(c) \/ CallThrows(c) \/ \E a \in Addons : CallAddon(c, a)
      BY <1>1, <1>2, <2>3 DEF CallSucceeds, CallThrows, CallAddon, HostIdle
    <2>4. CASE \E s \in Sources : GetCertificate(s)
      BY <1>1, <2>4, CertificateServed
    <2> QED BY <1>5, <2>1, <2>2, <2>3, <2>4 DEF HostNext
  <1> QED BY <1>3, <1>4, <1>5, HostSteps

\* The server process.
ProcessInv == HostInv /\ BootInv /\ CallInv /\ RunningInv /\ CertInv /\ WriteInv

\* They hold in every state it reaches.
LEMMA ProcessInvariant == Spec => []ProcessInv
  <1>1. Init => BootInv /\ CallInv /\ RunningInv /\ CertInv /\ WriteInv
    <2> SUFFICES ASSUME Init PROVE BootInv /\ CallInv /\ RunningInv /\ CertInv /\ WriteInv
      OBVIOUS
    <2>1. /\ server = "down" /\ trusted = setup.trusted /\ paths = <<>> /\ loaded = {} /\ active = {}
          /\ disabled = {} /\ calls = [c \in Calls |-> Nil] /\ setup \in Starts /\ clock = 0 /\ write = Nil
          /\ window = [s \in Sources |-> NoWindow] /\ served = [s \in Sources |-> <<>>]
      BY DEF Init, HostInit, NoCalls
    <2>2. BootInv
      <3>1. trusted \in [Addons -> Keys \cup {Nil}]
        BY <2>1, ConsoleAssumptions
      <3>2. paths \in Seq(InPaths)
        BY <2>1
      <3> QED BY <2>1, <3>1, <3>2 DEF BootInv, NothingLoaded, Loading, Activating
    <2>3. CallInv /\ RunningInv /\ WriteInv
      BY <2>1 DEF CallInv, RunningInv, WriteInv
    <2>4. CertInv
      BY <2>1, FreshCert DEF CertInv
    <2> QED BY <2>2, <2>3, <2>4
  <1>2. (BootInv /\ CallInv /\ RunningInv /\ CertInv /\ WriteInv) /\ HostInv /\ [Next]_vars
            => (BootInv /\ CallInv /\ RunningInv /\ CertInv /\ WriteInv)'
    BY AddonStep, RunningStep, CertStep, TrustStep DEF BootInv
  <1> QED BY <1>1, <1>2, HostInvariant, PTL DEF Spec, ProcessInv

\* The server goes up with exactly the addons that their signature, the trust
\* store and the licence admit, and no more of them than it allows, whatever
\* the packages and in whichever order they are listed (addon-loader.ts,
\* addon-discovery.ts).
THEOREM OnlyAuthorisedAddons == Spec => ServesAuthorisedAddons
  <1>1. ProcessInv /\ [Next]_vars => [GoesUp]_hostVars
    BY UpWithAdmitted DEF ProcessInv
  <1>2. Spec => [][GoesUp]_hostVars
    BY <1>1, ProcessInvariant, PTL DEF Spec
  <1> QED BY <1>2, PTL DEF GoesUp, ServesAuthorisedAddons

\* Whatever times a source asks at, it is served fewer than 2 * CertLimit
\* certificates in any interval of a window's length, for every limit and
\* window, until the process restarts (certificate rate limiter).
THEOREM CertificateDownloadsBounded == Spec => []CertificatesBounded
  <1>1. ProcessInv => CertificatesBounded
    BY DEF ProcessInv, CertInv, WindowOK, Spaced, CertificatesBounded
  <1> QED BY <1>1, ProcessInvariant, PTL

(***************************************************************************)
(* The session of the console.  SessionKept is not inductive: what keeps   *)
(* it is that a timer or a renewal on its way is always ahead of the       *)
(* session's end, by the time a retry needs until a renewal failed, and    *)
(* that the renewals on their way are renewals of the session of the       *)
(* cookie, so that no answer takes a live one away.                        *)
(***************************************************************************)
\* The fetches that sign the console in.
SignIns == {"login", "restore"}

\* The fetches that renew its session.
Renewals == {"renew", "retry"}

\* A fetch of one of these kinds is on its way, or its answer is not used yet.
Flight(f, kinds) == fetches[f] # Nil /\ fetches[f].kind \in kinds

\* The console is signed in, no sign-out is on its way, and the sign-in
\* overtook no renewal.
Settled == signedIn /\ ~OnTheWay("logout") /\ ~overtaken

\* What the variables of the page and of the session store hold.
PageTyped ==
    /\ signedIn \in BOOLEAN /\ admin \in BOOLEAN
    /\ minted \in 0..MaxSignIns /\ cookie \in 0..minted
    /\ idle \in [Sessions -> 0..SessionTtl + 1 \cup {Nil}]
    /\ timers \subseteq [kind : Renewals, left : Nat]
    /\ fetches \in [Fetches -> {Nil} \cup Flights(minted)]
    /\ misses \in 0..2 /\ writes \in 0..MaxWrites

\* Signing in and signing out exclude each other, and each happens once at a
\* time.
OneAtATime ==
    /\ \A f, g \in Fetches : Flight(f, SignIns) /\ Flight(g, SignIns) => f = g
    /\ \A f, g \in Fetches : Flight(f, {"logout"}) /\ Flight(g, {"logout"}) => f = g
    /\ \A f \in Fetches : Flight(f, SignIns) => ~signedIn
    /\ \A f \in Fetches : Flight(f, {"logout"}) => signedIn
    /\ \A f \in Fetches : Flight(f, {"login"}) /\ fetches[f].got = "waiting" => minted < MaxSignIns

\* An answer that signs the console in comes with a session just touched.
SignInFresh ==
    \A f \in Fetches : Flight(f, SignIns) /\ fetches[f].got = "ok"
        => fetches[f].session # 0 /\ idle[fetches[f].session] = 0

\* How long ago the session of the cookie was touched.
Age == idle[cookie]

\* What the answer of a renewal on its way can do to the cookie.
RenewalOf(f) ==
    /\ fetches[f].got \in {"ok", "cut"} =>
          fetches[f].session = cookie /\ cookie # 0 /\ Age = 0
    /\ fetches[f].got = "no" => ~Alive(fetches[f].session)
    /\ fetches[f].session = cookie \/ (cookie = 0 /\ ~Alive(fetches[f].session))

\* The renewals of a settled console leave a live session in the cookie.
RenewalsHarmless == Settled => \A f \in Fetches : Flight(f, Renewals) => RenewalOf(f)

\* How old a session gets before the renewal that is due comes.
Slack == IF misses = 0 THEN RenewCap ELSE RenewCap + RetryDelay

\* The kinds of renewal that are waited for: once one failed, the retry too.
Awaited == IF misses = 0 THEN {"renew"} ELSE Renewals

\* A timer renews the session in time, or a renewal is on its way in time.
RenewalDue ==
    \/ \E t \in timers : t.kind \in Awaited /\ Age + t.left <= Slack
    \/ Age <= Slack /\ \E f \in Fetches : Flight(f, Awaited)

\* A settled console has a session and a renewal ahead of its end.
RenewalAhead == Settled /\ misses <= 1 => cookie # 0 /\ Age # Nil /\ RenewalDue

\* The page.
PageInv == PageTyped /\ OneAtATime /\ SignInFresh /\ RenewalsHarmless /\ RenewalAhead

\* A fetch record is a fetch record, not Nil.
LEMMA NilIsNoFlight ==
    ASSUME NEW n \in 0..MaxSignIns PROVE Nil \notin Flights(n) /\ 0 # Nil
  <1>1. 0..n \subseteq 0..MaxSignIns
    BY ConsoleAssumptions
  <1> QED BY <1>1, NilAssumption DEF Flights

\* A request that is sent is a fetch record.
LEMMA FetchEffect ==
    ASSUME NEW n \in 0..MaxSignIns, NEW c \in 0..n, NEW kind \in Kinds
    PROVE  /\ Fetch(kind, c) \in Flights(n) /\ Fetch(kind, c).kind = kind
           /\ Fetch(kind, c).got = "waiting" /\ Fetch(kind, c).session = c
  <1>1. "waiting" \in Answers /\ FALSE \in BOOLEAN /\ 1 \in 1..MaxTries
    BY ConsoleAssumptions DEF Answers
  <1> QED BY <1>1 DEF Fetch, Flights

\* A fetch is sent.
LEMMA SendEffect ==
    ASSUME PageTyped, NEW f \in Fetches, NEW kind \in Kinds, Send(f, kind)
    PROVE  /\ fetches[f] = Nil /\ fetches' \in [Fetches -> {Nil} \cup Flights(minted)]
           /\ fetches'[f] # Nil /\ fetches'[f].kind = kind /\ fetches'[f].got = "waiting"
           /\ fetches'[f].session = cookie
           /\ \A g \in Fetches : g # f => fetches'[g] = fetches[g]
  <1> DEFINE r == Fetch(kind, cookie)
  <1>1. r \in Flights(minted) /\ r.kind = kind /\ r.got = "waiting" /\ r.session = cookie
    BY FetchEffect DEF PageTyped
  <1>2. r # Nil
    BY <1>1, NilIsNoFlight DEF PageTyped
  <1>3. fetches[f] = Nil /\ fetches' = [fetches EXCEPT ![f] = r]
    BY DEF Send
  <1> HIDE DEF r
  <1> QED BY <1>1, <1>2, <1>3 DEF PageTyped

\* An answer arrives, or the page gives up.
LEMMA ArrivesEffect ==
    ASSUME PageTyped, NEW f \in Fetches, fetches[f] # Nil, Arrives(f)
    PROVE  /\ fetches' \in [Fetches -> {Nil} \cup Flights(minted)] /\ fetches'[f] = Nil
           /\ \A g \in Fetches : g # f => fetches'[g] = fetches[g]
           /\ cookie' \in 0..minted
           /\ fetches[f].got \in {"ok", "cut"} => cookie' = fetches[f].session
           /\ fetches[f].got = "no" /\ fetches[f].session # 0 => cookie' = 0
           /\ fetches[f].got = "no" /\ fetches[f].session = 0 => cookie' = cookie
           /\ fetches[f].got = "failed" => cookie' = cookie
  <1>1. fetches' = [fetches EXCEPT ![f] = Nil] /\ cookie' = CookieAfter(f)
    BY DEF Arrives
  <1>2. fetches[f].session \in 0..minted /\ cookie \in 0..minted /\ 0 \in 0..minted
    BY DEF PageTyped, Flights
  <1>3. /\ fetches[f].got \in {"ok", "cut"} => cookie' = fetches[f].session
        /\ fetches[f].got = "no" /\ fetches[f].session # 0 => cookie' = 0
        /\ fetches[f].got = "no" /\ fetches[f].session = 0 => cookie' = cookie
        /\ fetches[f].got \notin {"ok", "cut", "no"} => cookie' = cookie
    BY <1>1 DEF CookieAfter
  <1>4. cookie' \in 0..minted
    BY <1>2, <1>3
  <1> QED BY <1>1, <1>3, <1>4 DEF PageTyped

\* A fetch is answered.
LEMMA AnswerEffect ==
    ASSUME PageTyped, NEW f \in Fetches, fetches[f] # Nil, NEW n \in 0..MaxSignIns, minted <= n,
           NEW got \in Answers, NEW session \in 0..n, Answer(f, got, session)
    PROVE  /\ fetches' \in [Fetches -> {Nil} \cup Flights(n)]
           /\ fetches'[f] # Nil /\ fetches'[f].kind = fetches[f].kind
           /\ fetches'[f].got = got /\ fetches'[f].session = session
           /\ \A g \in Fetches : g # f => fetches'[g] = fetches[g]
  <1> DEFINE r == [fetches[f] EXCEPT !.got = got, !.session = session, !.admin = admin]
  <1>1. 0..minted \subseteq 0..n
    BY ConsoleAssumptions DEF PageTyped
  <1>2. Flights(minted) \subseteq Flights(n)
    BY <1>1 DEF Flights
  <1>3. fetches[f] \in Flights(n)
    BY <1>2 DEF PageTyped
  <1>4. r \in Flights(n) /\ r.kind = fetches[f].kind /\ r.got = got /\ r.session = session
    BY <1>3 DEF Flights, PageTyped
  <1>5. r # Nil
    BY <1>4, NilIsNoFlight
  <1>6. fetches' = [fetches EXCEPT ![f] = r]
    BY DEF Answer
  <1> HIDE DEF r, Flights
  <1> QED BY <1>2, <1>4, <1>5, <1>6 DEF PageTyped

\* The login form is submitted.
LEMMA SubmitLoginStep == ASSUME PageInv, NEW f \in Fetches, SubmitLogin(f) PROVE PageInv'
  <1>1. /\ ~signedIn /\ minted < MaxSignIns /\ ~OnTheWay("login") /\ ~OnTheWay("restore")
        /\ UNCHANGED <<signedIn, admin, cookie, idle, minted, timers, misses, writes>>
    BY DEF SubmitLogin, pageVars, timerVars, storeVars, tableVars
  <1>2. /\ fetches[f] = Nil /\ fetches' \in [Fetches -> {Nil} \cup Flights(minted)]
        /\ fetches'[f] # Nil /\ fetches'[f].kind = "login" /\ fetches'[f].got = "waiting"
        /\ \A g \in Fetches : g # f => fetches'[g] = fetches[g]
    BY SendEffect DEF SubmitLogin, PageInv, Kinds
  <1>3. PageTyped'
    BY <1>1, <1>2 DEF PageInv, PageTyped
  <1>4. \A g \in Fetches : ~Flight(g, SignIns)
    BY <1>1 DEF Flight, OnTheWay, SignIns
  <1>5. OneAtATime'
    BY <1>1, <1>2, <1>4 DEF PageInv, OneAtATime, Flight, SignIns
  <1>6. SignInFresh'
    BY <1>2, <1>4 DEF SignInFresh, Flight, SignIns
  <1> QED BY <1>1, <1>3, <1>5, <1>6 DEF PageInv, RenewalAhead, RenewalsHarmless, Settled

\* What scheduleTokenRenewal sets.
LEMMA RenewalScheduled ==
    ASSUME PageTyped, NEW ttl \in Nat, ScheduleTokenRenewal(ttl)
    PROVE  /\ timers' \subseteq [kind : Renewals, left : Nat]
           /\ \E t \in timers' : t.kind = "renew" /\ t.left <= RenewCap /\ t.left \in Nat
  <1> DEFINE t == Timer("renew", RenewDelay(ttl))
  <1>1. RenewDelay(ttl) \in Nat /\ RenewDelay(ttl) <= RenewCap
    BY ConsoleAssumptions DEF RenewDelay, Smaller, Larger
  <1>2. t \in [kind : Renewals, left : Nat] /\ t.kind = "renew" /\ t.left = RenewDelay(ttl)
    BY <1>1 DEF Timer, Renewals
  <1>3. timers' = (timers \ {handle}) \cup {t}
    BY DEF ScheduleTokenRenewal
  <1> HIDE DEF t
  <1> QED BY <1>1, <1>2, <1>3 DEF PageTyped

\* The dashboard is shown.
LEMMA ShowSessionStep == ASSUME PageInv, NEW f \in Fetches, ShowSession(f) PROVE PageInv'
  <1>1. /\ Flight(f, SignIns) /\ fetches[f].got = "ok" /\ Arrives(f)
        /\ signedIn' = TRUE /\ misses' = 0 /\ overtaken' = (OnTheWay("renew") \/ OnTheWay("retry"))
        /\ UNCHANGED <<admin, idle, minted, writes>>
    BY DEF ShowSession, Got, Flight, SignIns, storeVars, tableVars
  <1>2. PageTyped /\ fetches[f] # Nil
    BY <1>1 DEF PageInv, Flight
  <1>3. /\ fetches' \in [Fetches -> {Nil} \cup Flights(minted)] /\ fetches'[f] = Nil
        /\ \A g \in Fetches : g # f => fetches'[g] = fetches[g]
        /\ cookie' \in 0..minted /\ cookie' = fetches[f].session
    BY <1>1, <1>2, ArrivesEffect
  <1>4. /\ timers' \subseteq [kind : Renewals, left : Nat]
        /\ \E t \in timers' : t.kind = "renew" /\ t.left <= RenewCap /\ t.left \in Nat
    <2>1. ScheduleTokenRenewal(DefaultTtl) /\ DefaultTtl \in Nat
      BY ConsoleAssumptions DEF ShowSession
    <2> QED BY <1>2, <2>1, RenewalScheduled
  <1>5. cookie' # 0 /\ Age' = 0 /\ 0 # Nil
    BY <1>1, <1>3, NilAssumption DEF PageInv, SignInFresh, Age
  <1>6. \A g \in Fetches : ~Flight(g, {"logout"}) /\ (Flight(g, SignIns) => g = f)
    BY <1>1 DEF PageInv, OneAtATime
  <1>7. PageTyped'
    <2>1. signedIn' \in BOOLEAN
      BY <1>1
    <2>2. misses' \in 0..2
      BY <1>1
    <2> QED BY <1>1, <1>2, <1>3, <1>4, <2>1, <2>2 DEF PageTyped
  <1>8. OneAtATime'
    BY <1>1, <1>3, <1>6 DEF OneAtATime, Flight, SignIns
  <1>9. SignInFresh'
    BY <1>3, <1>6 DEF SignInFresh, Flight
  <1>10. RenewalsHarmless'
    BY <1>1, <1>3 DEF RenewalsHarmless, Settled, Flight, Renewals, OnTheWay
  <1>11. RenewalDue'
    BY <1>1, <1>4, <1>5, ConsoleAssumptions DEF RenewalDue, Slack, Awaited
  <1> QED BY <1>5, <1>7, <1>8, <1>9, <1>10, <1>11 DEF PageInv, RenewalAhead

\* A sign-in is over that did not succeed, or is tried again.
LEMMA SignInFailsStep ==
    ASSUME PageInv, NEW f \in Fetches, LoginFails(f) \/ RestoreFails(f) PROVE PageInv'
  <1>1. /\ Flight(f, SignIns) /\ fetches[f] # Nil
        /\ UNCHANGED <<signedIn, admin, idle, minted, timers, misses, writes>>
    BY DEF LoginFails, RestoreFails, Got, Flight, SignIns, pageVars, timerVars, storeVars, tableVars
  <1>2. ~signedIn /\ \A g \in Fetches : Flight(g, SignIns) => g = f
    BY <1>1 DEF PageInv, OneAtATime
  <1>3. PageTyped
    BY DEF PageInv
  <1>4. ASSUME fetches' \in [Fetches -> {Nil} \cup Flights(minted)], cookie' \in 0..minted,
               \A g \in Fetches : g # f => fetches'[g] = fetches[g],
               fetches'[f] = Nil \/ (fetches'[f].kind = "restore" /\ fetches'[f].got = "waiting")
        PROVE  PageInv'
    <2>1. PageTyped'
      BY <1>1, <1>3, <1>4 DEF PageTyped
    <2>2. OneAtATime'
      BY <1>1, <1>2, <1>4 DEF PageInv, OneAtATime, Flight, SignIns
    <2>3. SignInFresh'
      BY <1>2, <1>4 DEF SignInFresh, Flight
    <2> QED BY <1>1, <1>2, <2>1, <2>2, <2>3 DEF PageInv, RenewalAhead, RenewalsHarmless, Settled
  <1>5. CASE Arrives(f)
    BY <1>1, <1>3, <1>4, <1>5, ArrivesEffect
  <1>6. CASE ~Arrives(f)
    <2> DEFINE r == [Fetch("restore", cookie) EXCEPT !.tries = fetches[f].tries + 1]
    <2>1. /\ fetches' = [fetches EXCEPT ![f] = r] /\ fetches[f].tries < MaxTries
          /\ cookie' = cookie /\ fetches[f] \in Flights(minted)
      BY <1>1, <1>3, <1>6 DEF LoginFails, RestoreFails, PageTyped
    <2>2. fetches[f].tries + 1 \in 1..MaxTries
      <3>1. fetches[f].tries \in 1..MaxTries /\ MaxTries \in Nat
        BY <2>1, ConsoleAssumptions DEF Flights
      <3> QED BY <2>1, <3>1
    <2>3. r \in Flights(minted) /\ r.kind = "restore" /\ r.got = "waiting"
      <3> DEFINE q == Fetch("restore", cookie)
                 n == fetches[f].tries + 1
      <3>1. q \in Flights(minted) /\ q.kind = "restore" /\ q.got = "waiting"
        BY <1>3, FetchEffect DEF PageTyped, Kinds
      <3>2. r = [q EXCEPT !.tries = n] /\ n \in 1..MaxTries
        BY <2>2
      <3> HIDE DEF q, n, r
      <3> QED BY <3>1, <3>2 DEF Flights
    <2> HIDE DEF r
    <2>4. fetches' \in [Fetches -> {Nil} \cup Flights(minted)]
      BY <1>3, <2>1, <2>3 DEF PageTyped
    <2>5. fetches'[f] = r /\ \A g \in Fetches : g # f => fetches'[g] = fetches[g]
      BY <1>3, <2>1 DEF PageTyped
    <2>6. cookie' \in 0..minted
      BY <1>3, <2>1 DEF PageTyped
    <2> QED BY <1>4, <2>3, <2>4, <2>5, <2>6
  <1> QED BY <1>5, <1>6

\* A new page.
LEMMA ReloadStep == ASSUME PageInv, NEW f \in Fetches, Reload(f) PROVE PageInv'
  <1> DEFINE r == Fetch("restore", cookie')
  <1>1. /\ signedIn' = FALSE /\ timers' = {} /\ misses' = 0 /\ UNCHANGED <<admin, idle, minted, writes>>
        /\ cookie' \in {cookie} \cup {CookieAfter(g) : g \in {h \in Fetches : fetches[h] # Nil}}
        /\ fetches' = [g \in Fetches |-> IF g = f THEN r ELSE Nil]
    BY DEF Reload, storeVars
  <1>2. PageTyped
    BY DEF PageInv
  <1>3. cookie' \in 0..minted
    <2>1. ASSUME NEW g \in Fetches, fetches[g] # Nil PROVE CookieAfter(g) \in 0..minted
      <3>1. fetches[g].session \in 0..minted /\ cookie \in 0..minted /\ 0 \in 0..minted
        BY <1>2, <2>1 DEF PageTyped, Flights
      <3> QED BY <3>1 DEF CookieAfter
    <2>2. cookie \in 0..minted
      BY <1>2 DEF PageTyped
    <2> QED BY <1>1, <2>1, <2>2
  <1>4. r \in Flights(minted) /\ r.kind = "restore" /\ r.got = "waiting"
    BY <1>2, <1>3, FetchEffect DEF PageTyped, Kinds
  <1> HIDE DEF r
  <1>5. PageTyped'
    <2>1. fetches' \in [Fetches -> {Nil} \cup Flights(minted)]
      BY <1>1, <1>4
    <2>2. Flights(minted)' = Flights(minted)
      BY <1>1 DEF Flights
    <2>3. misses' \in 0..2
      BY <1>1
    <2>4. signedIn' \in BOOLEAN /\ timers' \subseteq [kind : Renewals, left : Nat]
      BY <1>1, Zenon
    <2>5. UNCHANGED <<admin, idle, minted, writes>>
      BY <1>1
    <2> QED BY <1>2, <1>3, <2>1, <2>2, <2>3, <2>4, <2>5 DEF PageTyped
  <1>6. \A g \in Fetches : fetches'[g] # Nil => g = f /\ fetches'[g].kind = "restore" /\ fetches'[g].got = "waiting"
    BY <1>1, <1>4
  <1>7. OneAtATime' /\ SignInFresh'
    BY <1>1, <1>6 DEF OneAtATime, SignInFresh, Flight, SignIns
  <1> QED BY <1>1, <1>5, <1>7 DEF PageInv, RenewalAhead, RenewalsHarmless, Settled

\* The numbers the page works with.
LEMMA PageNumbers ==
    ASSUME PageTyped
    PROVE  /\ cookie # 0 => cookie \in Sessions
           /\ cookie # 0 /\ Age # Nil => Age \in Nat
           /\ RenewCap \in Nat /\ RetryDelay \in Nat /\ SessionTtl \in Nat /\ misses \in 0..2
           /\ RenewCap + RetryDelay <= SessionTtl
           /\ Slack \in Nat /\ RenewCap <= Slack /\ Slack <= SessionTtl
           /\ \A t \in timers : t.left \in Nat /\ t.kind \in Renewals
  <1>1. cookie # 0 => cookie \in Sessions
    BY ConsoleAssumptions DEF PageTyped, Sessions
  <1>2. cookie # 0 => Age \in 0..SessionTtl + 1 \cup {Nil}
    BY <1>1 DEF PageTyped, Age
  <1>3. 0..SessionTtl + 1 \subseteq Nat
    BY ConsoleAssumptions
  <1>4. Slack \in Nat /\ RenewCap <= Slack /\ Slack <= SessionTtl
    BY ConsoleAssumptions DEF Slack
  <1> QED BY <1>1, <1>2, <1>3, <1>4, ConsoleAssumptions DEF PageTyped

\* A settled console whose renewals do not fail has a live session.
LEMMA SettledAlive ==
    ASSUME PageInv, Settled, misses <= 1
    PROVE  Alive(cookie) /\ cookie # 0 /\ Age \in Nat /\ Age <= Slack /\ RenewalDue
  <1>1. PageTyped /\ cookie # 0 /\ Age # Nil /\ RenewalDue
    BY DEF PageInv, RenewalAhead
  <1>2. /\ Age \in Nat /\ SessionTtl \in Nat /\ Slack \in Nat /\ Slack <= SessionTtl
        /\ \A t \in timers : t.left \in Nat
    BY <1>1, PageNumbers
  <1>3. Age <= Slack
    BY <1>1, <1>2 DEF RenewalDue
  <1> QED BY <1>1, <1>2, <1>3 DEF Alive, Age

\* A renewal that is due stays due while nothing is taken away.
LEMMA DueKept ==
    ASSUME PageTyped, RenewalDue, cookie # 0, Age # Nil, misses' = misses, Age' \in Nat, Age' <= Age,
           timers \subseteq timers', \A g \in Fetches : Flight(g, Awaited) => Flight(g, Awaited)'
    PROVE  RenewalDue'
  <1>1. Slack' = Slack /\ Awaited' = Awaited /\ Age \in Nat /\ Slack \in Nat
    BY PageNumbers DEF Slack, Awaited
  <1>2. CASE \E t \in timers : t.kind \in Awaited /\ Age + t.left <= Slack
    <2>1. PICK t \in timers : t.kind \in Awaited /\ Age + t.left <= Slack
      BY <1>2
    <2>2. t.left \in Nat
      BY PageNumbers
    <2>3. t \in timers' /\ t.kind \in Awaited' /\ Age' + t.left <= Slack'
      BY <1>1, <2>1, <2>2
    <2> QED BY <2>3 DEF RenewalDue
  <1>3. CASE Age <= Slack /\ \E f \in Fetches : Flight(f, Awaited)
    BY <1>1, <1>3 DEF RenewalDue
  <1> QED BY <1>2, <1>3 DEF RenewalDue

\* A timer fires.
LEMMA TimerFiresStep ==
    ASSUME PageInv, NEW f \in Fetches, NEW t \in timers, TimerFires(t, f) PROVE PageInv'
  <1>1. /\ t.left = 0 /\ timers' = timers \ {t}
        /\ UNCHANGED <<signedIn, overtaken, admin, cookie, idle, minted, misses, writes>>
    BY DEF TimerFires, Due, pageVars, storeVars, tableVars
  <1>2. t.kind \in Renewals /\ PageTyped
    BY PageNumbers DEF PageInv
  <1>3. CASE ~signedIn
    <2>1. fetches' = fetches
      BY <1>3 DEF TimerFires
    <2>2. PageTyped'
      BY <1>1, <1>2, <2>1 DEF PageTyped
    <2>3. OneAtATime' /\ SignInFresh'
      BY <1>1, <1>3, <2>1 DEF PageInv, OneAtATime, SignInFresh, Flight
    <2> QED BY <1>1, <1>3, <2>2, <2>3 DEF PageInv, RenewalAhead, RenewalsHarmless, Settled
  <1>4. CASE signedIn
    <2>1. /\ fetches[f] = Nil /\ fetches' \in [Fetches -> {Nil} \cup Flights(minted)]
          /\ fetches'[f] # Nil /\ fetches'[f].kind = t.kind /\ fetches'[f].got = "waiting"
          /\ fetches'[f].session = cookie
          /\ \A g \in Fetches : g # f => fetches'[g] = fetches[g]
      BY <1>2, <1>4, SendEffect DEF TimerFires, Renewals, Kinds
    <2>2. PageTyped'
      BY <1>1, <1>2, <2>1 DEF PageTyped
    <2>3. OneAtATime'
      BY <1>1, <1>2, <2>1 DEF PageInv, OneAtATime, Flight, SignIns, Renewals
    <2>4. Settled' => Settled
      <3>1. OnTheWay("logout") => OnTheWay("logout")'
        BY <2>1 DEF OnTheWay
      <3> QED BY <1>1, <3>1 DEF Settled
    <2>5. SignInFresh'
      BY <1>1, <2>1 DEF PageInv, SignInFresh, Flight
    <2>6. RenewalsHarmless'
      <3> SUFFICES ASSUME Settled', NEW g \in Fetches, Flight(g, Renewals)' PROVE RenewalOf(g)'
        BY DEF RenewalsHarmless
      <3>1. CASE g = f
        BY <1>1, <2>1, <3>1 DEF RenewalOf
      <3>2. CASE g # f
        <4>1. RenewalOf(g) /\ fetches'[g] = fetches[g]
          BY <2>1, <2>4, <3>2 DEF PageInv, RenewalsHarmless, Flight
        <4> QED BY <1>1, <4>1 DEF RenewalOf, Alive, Age
      <3> QED BY <3>1, <3>2
    <2>7. RenewalAhead'
      <3> SUFFICES ASSUME Settled', misses' <= 1 PROVE cookie' # 0 /\ Age' # Nil /\ RenewalDue'
        BY DEF RenewalAhead
      <3>1. cookie # 0 /\ Age # Nil /\ RenewalDue /\ Age' = Age
        BY <1>1, <2>4 DEF PageInv, RenewalAhead, Age
      <3>2. Slack' = Slack /\ Awaited' = Awaited /\ Age \in Nat /\ Slack \in Nat
        BY <1>1, <1>2, <3>1, PageNumbers DEF Slack, Awaited
      <3>3. CASE t.kind \in Awaited /\ Age + t.left <= Slack
        <4>1. Age' <= Slack' /\ Flight(f, Awaited)'
          BY <1>1, <2>1, <3>1, <3>2, <3>3 DEF Flight
        <4> QED BY <1>1, <3>1, <4>1 DEF RenewalDue
      <3>4. CASE \E s \in timers : s # t /\ s.kind \in Awaited /\ Age + s.left <= Slack
        BY <1>1, <3>1, <3>2, <3>4 DEF RenewalDue
      <3>5. CASE Age <= Slack /\ \E g \in Fetches : Flight(g, Awaited)
        <4>1. \E g \in Fetches : Flight(g, Awaited)'
          BY <2>1, <3>2, <3>5 DEF Flight
        <4> QED BY <1>1, <3>1, <3>2, <3>5, <4>1 DEF RenewalDue
      <3> QED BY <1>1, <3>1, <3>3, <3>4, <3>5 DEF RenewalDue
    <2> QED BY <2>2, <2>3, <2>5, <2>6, <2>7 DEF PageInv
  <1> QED BY <1>3, <1>4

\* What a renewal leaves behind that is over, whatever became of it.
LEMMA RenewalGone ==
    ASSUME PageInv, NEW f \in Fetches, Flight(f, Renewals), Arrives(f), fetches[f].got # "waiting",
           UNCHANGED <<signedIn, overtaken, admin, idle, minted, writes>>,
           timers' \subseteq [kind : Renewals, left : Nat], misses' \in 0..2
    PROVE  /\ fetches'[f] = Nil /\ \A g \in Fetches : g # f => fetches'[g] = fetches[g]
           /\ PageTyped' /\ OneAtATime' /\ SignInFresh' /\ RenewalsHarmless'
           /\ Settled' = Settled
           /\ Settled /\ (fetches[f].got \in {"ok", "cut"} \/ misses <= 1) => cookie' = cookie
  <1>1. PageTyped /\ fetches[f] # Nil /\ fetches[f] \in Flights(minted)
    BY DEF PageInv, PageTyped, Flight
  <1>2. /\ fetches' \in [Fetches -> {Nil} \cup Flights(minted)] /\ fetches'[f] = Nil
        /\ \A g \in Fetches : g # f => fetches'[g] = fetches[g]
        /\ cookie' \in 0..minted
        /\ fetches[f].got \in {"ok", "cut"} => cookie' = fetches[f].session
        /\ fetches[f].got = "no" /\ fetches[f].session # 0 => cookie' = 0
        /\ fetches[f].got = "no" /\ fetches[f].session = 0 => cookie' = cookie
        /\ fetches[f].got = "failed" => cookie' = cookie
    BY <1>1, ArrivesEffect
  <1>3. fetches[f].got \in {"ok", "cut", "no", "failed"}
    BY <1>1 DEF Flights, Answers
  <1>4. PageTyped'
    BY <1>1, <1>2 DEF PageTyped
  <1>5. OneAtATime'
    BY <1>2 DEF PageInv, OneAtATime, Flight
  <1>6. OnTheWay("logout")' <=> OnTheWay("logout")
    <2>1. fetches[f].kind # "logout"
      BY DEF Flight, Renewals
    <2> QED BY <1>2, <2>1 DEF OnTheWay
  <1>7. Settled' = Settled
    BY <1>6 DEF Settled
  <1>8. SignInFresh'
    BY <1>2 DEF PageInv, SignInFresh, Flight
  <1>9. ASSUME Settled PROVE RenewalOf(f)
    BY <1>9 DEF PageInv, RenewalsHarmless
  <1>10. ASSUME Settled, fetches[f].got \in {"ok", "cut"} \/ misses <= 1 PROVE cookie' = cookie
    <2>1. CASE fetches[f].got = "no"
      <3>1. misses <= 1
        BY <1>10, <2>1
      <3>2. Alive(cookie) /\ cookie # 0
        BY <1>10, <3>1, SettledAlive
      <3> QED BY <1>9, <1>10, <2>1, <3>2 DEF RenewalOf
    <2> QED BY <1>2, <1>3, <1>9, <1>10, <2>1 DEF RenewalOf
  <1>11. RenewalsHarmless'
    <2> SUFFICES ASSUME Settled, NEW g \in Fetches, Flight(g, Renewals)' PROVE RenewalOf(g)'
      BY <1>7 DEF RenewalsHarmless
    <2>1. g # f /\ fetches'[g] = fetches[g]
      BY <1>2 DEF Flight
    <2>2. RenewalOf(g) /\ RenewalOf(f)
      BY <2>1 DEF PageInv, RenewalsHarmless, Flight
    <2>3. CASE cookie' = cookie
      <3>1. Alive(fetches[g].session)' <=> Alive(fetches[g].session)
        BY <2>1 DEF Alive
      <3>2. Age' = Age
        BY <2>3 DEF Age
      <3> QED BY <2>1, <2>2, <2>3, <3>1, <3>2 DEF RenewalOf
    <2>4. CASE cookie' # cookie
      <3>1. fetches[f].got = "no" /\ fetches[f].session # 0 /\ cookie' = 0 /\ cookie # 0
        BY <1>2, <1>3, <2>2, <2>4 DEF RenewalOf
      <3>2. fetches[f].session = cookie /\ ~Alive(cookie) /\ fetches[g].session = cookie
        BY <2>2, <3>1 DEF RenewalOf
      <3>3. fetches[g].got \notin {"ok", "cut"}
        <4> SUFFICES ASSUME fetches[g].got \in {"ok", "cut"} PROVE FALSE
          OBVIOUS
        <4>1. Age = 0
          BY <2>2 DEF RenewalOf
        <4>2. idle[cookie] = 0 /\ 0 # Nil /\ 0 <= SessionTtl
          BY <4>1, NilAssumption, ConsoleAssumptions DEF Age
        <4> QED BY <3>1, <3>2, <4>2 DEF Alive
      <3>4. ~Alive(fetches[g].session)'
        BY <2>1, <3>2 DEF Alive
      <3> QED BY <2>1, <3>1, <3>3, <3>4 DEF RenewalOf
    <2> QED BY <2>3, <2>4
  <1> QED BY <1>2, <1>4, <1>5, <1>7, <1>8, <1>10, <1>11

\* The session is renewed.
LEMMA RenewedStep == ASSUME PageInv, NEW f \in Fetches, Renewed(f) PROVE PageInv'
  <1>1. /\ Flight(f, Renewals) /\ fetches[f].got = "ok" /\ Arrives(f) /\ misses' = 0
        /\ UNCHANGED <<signedIn, overtaken, admin, idle, minted, writes>>
    BY DEF Renewed, Got, Flight, Renewals, storeVars, tableVars
  <1>2. /\ timers' \subseteq [kind : Renewals, left : Nat]
        /\ \E t \in timers' : t.kind = "renew" /\ t.left <= RenewCap /\ t.left \in Nat
    <2>1. ScheduleTokenRenewal(AccessTtl) /\ AccessTtl \in Nat
      BY ConsoleAssumptions DEF Renewed
    <2> QED BY <2>1, RenewalScheduled DEF PageInv
  <1>3. misses' \in 0..2
    BY <1>1
  <1>4. /\ PageTyped' /\ OneAtATime' /\ SignInFresh' /\ RenewalsHarmless' /\ Settled' = Settled
        /\ Settled => cookie' = cookie
    BY <1>1, <1>2, <1>3, RenewalGone
  <1>5. RenewalAhead'
    <2> SUFFICES ASSUME Settled PROVE cookie' # 0 /\ Age' # Nil /\ RenewalDue'
      BY <1>4 DEF RenewalAhead
    <2>1. cookie # 0 /\ Age = 0 /\ 0 # Nil
      BY <1>1, NilAssumption DEF PageInv, RenewalsHarmless, RenewalOf
    <2>2. cookie' # 0 /\ Age' = 0
      BY <1>1, <1>4, <2>1 DEF Age
    <2>3. RenewalDue'
      BY <1>1, <1>2, <2>2, ConsoleAssumptions DEF RenewalDue, Slack, Awaited
    <2> QED BY <2>1, <2>2, <2>3
  <1> QED BY <1>4, <1>5 DEF PageInv

\* A renewal fails; a retry is set.
LEMMA NotRenewedStep == ASSUME PageInv, NEW f \in Fetches, NotRenewed(f) PROVE PageInv'
  <1> DEFINE t == Timer("retry", RetryDelay)
  <1>1. /\ Flight(f, Renewals) /\ fetches[f].got # "waiting" /\ Arrives(f) /\ misses' = Smaller(misses + 1, 2)
        /\ UNCHANGED <<signedIn, overtaken, admin, idle, minted, writes>>
        /\ timers' = IF signedIn THEN timers \cup {t} ELSE timers
    BY DEF NotRenewed, Got, Flight, Renewals, pageVars, timerVars, storeVars, tableVars, ScheduleRetry
  <1>2. /\ RetryDelay \in Nat /\ t \in [kind : Renewals, left : Nat]
        /\ t.kind = "retry" /\ t.left = RetryDelay
    BY ConsoleAssumptions DEF Timer, Renewals
  <1> HIDE DEF t
  <1>3. PageTyped
    BY DEF PageInv
  <1>4. misses' \in 0..2 /\ (misses' <= 1 => misses = 0 /\ misses' = 1)
    BY <1>1, <1>3 DEF PageTyped, Smaller
  <1>5. timers' \subseteq [kind : Renewals, left : Nat]
    BY <1>1, <1>2, <1>3 DEF PageTyped
  <1>6. /\ PageTyped' /\ OneAtATime' /\ SignInFresh' /\ RenewalsHarmless' /\ Settled' = Settled
        /\ Settled /\ misses <= 1 => cookie' = cookie
    BY <1>1, <1>4, <1>5, RenewalGone
  <1>7. RenewalAhead'
    <2> SUFFICES ASSUME Settled', misses' <= 1 PROVE cookie' # 0 /\ Age' # Nil /\ RenewalDue'
      BY DEF RenewalAhead
    <2>1. Settled /\ misses = 0 /\ misses' = 1 /\ misses <= 1
      BY <1>4, <1>6
    <2>2. cookie # 0 /\ Age # Nil /\ RenewalDue /\ signedIn /\ cookie' = cookie /\ Age' = Age
      BY <1>1, <1>6, <2>1 DEF PageInv, RenewalAhead, Settled, Age
    <2>3. Slack = RenewCap /\ Slack' = RenewCap + RetryDelay /\ Awaited' = Renewals
      BY <2>1 DEF Slack, Awaited
    <2>4. Age \in Nat /\ RenewCap \in Nat /\ Age <= RenewCap
      BY <1>3, <2>2, <2>3, PageNumbers DEF RenewalDue
    <2>5. t \in timers' /\ t.kind \in Awaited' /\ Age' + t.left <= Slack'
      BY <1>1, <1>2, <2>2, <2>3, <2>4 DEF Renewals
    <2> QED BY <2>2, <2>5 DEF RenewalDue
  <1> QED BY <1>6, <1>7 DEF PageInv

\* A retry fails; another renewal is still ahead if none failed before.
LEMMA RetryFailsStep == ASSUME PageInv, NEW f \in Fetches, RetryFails(f) PROVE PageInv'
  <1>1. /\ Flight(f, Renewals) /\ fetches[f].kind = "retry" /\ fetches[f].got # "waiting"
        /\ Arrives(f) /\ misses' = Smaller(misses + 1, 2)
        /\ UNCHANGED <<signedIn, overtaken, admin, idle, minted, writes>> /\ timers' = timers
    BY DEF RetryFails, Got, Flight, Renewals, pageVars, timerVars, storeVars, tableVars
  <1>2. PageTyped
    BY DEF PageInv
  <1>3. misses' \in 0..2 /\ (misses' <= 1 => misses = 0 /\ misses' = 1)
    BY <1>1, <1>2 DEF PageTyped, Smaller
  <1>4. timers' \subseteq [kind : Renewals, left : Nat]
    BY <1>1, <1>2 DEF PageTyped
  <1>5. /\ \A g \in Fetches : g # f => fetches'[g] = fetches[g]
        /\ PageTyped' /\ OneAtATime' /\ SignInFresh' /\ RenewalsHarmless' /\ Settled' = Settled
        /\ Settled /\ misses <= 1 => cookie' = cookie
    BY <1>1, <1>3, <1>4, RenewalGone
  <1>6. RenewalAhead'
    <2> SUFFICES ASSUME Settled', misses' <= 1 PROVE cookie' # 0 /\ Age' # Nil /\ RenewalDue'
      BY DEF RenewalAhead
    <2>1. Settled /\ misses = 0 /\ misses' = 1 /\ misses <= 1
      BY <1>3, <1>5
    <2>2. cookie # 0 /\ Age # Nil /\ RenewalDue /\ cookie' = cookie /\ Age' = Age
      BY <1>1, <1>5, <2>1 DEF PageInv, RenewalAhead, Age
    <2>3. Slack = RenewCap /\ Slack' = RenewCap + RetryDelay /\ Awaited' = Renewals /\ Awaited = {"renew"}
      BY <2>1 DEF Slack, Awaited
    <2>4. Age \in Nat /\ RenewCap \in Nat /\ RetryDelay \in Nat /\ \A s \in timers : s.left \in Nat
      BY <1>2, <2>2, PageNumbers
    <2>5. CASE \E s \in timers : s.kind \in Awaited /\ Age + s.left <= Slack
      <3>1. PICK s \in timers : s.kind \in Awaited /\ Age + s.left <= Slack
        BY <2>5
      <3>2. s \in timers' /\ s.kind \in Awaited' /\ Age' + s.left <= Slack'
        BY <1>1, <2>2, <2>3, <2>4, <3>1 DEF Renewals
      <3> QED BY <2>2, <3>2 DEF RenewalDue
    <2>6. CASE Age <= Slack /\ \E g \in Fetches : Flight(g, Awaited)
      <3>1. PICK g \in Fetches : Flight(g, Awaited)
        BY <2>6
      <3>2. g # f
        BY <1>1, <2>3, <3>1 DEF Flight
      <3>3. Flight(g, Awaited)'
        BY <1>5, <2>3, <3>1, <3>2 DEF Flight, Renewals
      <3>4. Age' <= Slack'
        BY <2>2, <2>3, <2>4, <2>6
      <3> QED BY <2>2, <3>3, <3>4 DEF RenewalDue
    <2> QED BY <2>2, <2>5, <2>6 DEF RenewalDue
  <1> QED BY <1>5, <1>6 DEF PageInv

\* The operator signs out.
LEMMA ClickLogoutStep == ASSUME PageInv, NEW f \in Fetches, ClickLogout(f) PROVE PageInv'
  <1>1. /\ signedIn /\ ~OnTheWay("logout")
        /\ UNCHANGED <<signedIn, admin, cookie, idle, minted, timers, misses, writes>>
    BY DEF ClickLogout, pageVars, timerVars, storeVars, tableVars
  <1>2. /\ fetches[f] = Nil /\ fetches' \in [Fetches -> {Nil} \cup Flights(minted)]
        /\ fetches'[f] # Nil /\ fetches'[f].kind = "logout" /\ fetches'[f].got = "waiting"
        /\ \A g \in Fetches : g # f => fetches'[g] = fetches[g]
    BY SendEffect DEF ClickLogout, PageInv, Kinds
  <1>3. PageTyped'
    BY <1>1, <1>2 DEF PageInv, PageTyped
  <1>4. \A g \in Fetches : ~Flight(g, {"logout"}) /\ ~Flight(g, SignIns)
    BY <1>1 DEF Flight, OnTheWay, PageInv, OneAtATime
  <1>5. OneAtATime'
    BY <1>1, <1>2, <1>4 DEF OneAtATime, Flight, SignIns
  <1>6. ~Settled'
    BY <1>2 DEF Settled, OnTheWay
  <1>7. SignInFresh'
    BY <1>2, <1>4 DEF SignInFresh, Flight, SignIns
  <1> QED BY <1>3, <1>5, <1>6, <1>7 DEF PageInv, RenewalAhead, RenewalsHarmless

\* The form is shown again.
LEMMA ShowFormStep == ASSUME PageInv, NEW f \in Fetches, ShowForm(f) PROVE PageInv'
  <1>1. /\ Flight(f, {"logout"}) /\ fetches[f] # Nil /\ Arrives(f)
        /\ signedIn' = FALSE /\ timers' = timers \ {handle}
        /\ UNCHANGED <<admin, idle, minted, misses, writes>>
    BY DEF ShowForm, Got, Flight, StopTokenRenewal, storeVars, tableVars
  <1>2. /\ fetches' \in [Fetches -> {Nil} \cup Flights(minted)] /\ fetches'[f] = Nil
        /\ \A g \in Fetches : g # f => fetches'[g] = fetches[g]
        /\ cookie' \in 0..minted
    BY <1>1, ArrivesEffect DEF PageInv
  <1>3. \A g \in Fetches : ~Flight(g, SignIns) /\ (Flight(g, {"logout"}) => g = f)
    BY <1>1 DEF PageInv, OneAtATime
  <1>4. PageTyped'
    <2>1. signedIn' \in BOOLEAN
      BY <1>1
    <2> QED BY <1>1, <1>2, <2>1 DEF PageInv, PageTyped
  <1>5. OneAtATime'
    BY <1>1, <1>2, <1>3 DEF OneAtATime, Flight, SignIns
  <1>6. ~Settled'
    BY <1>1 DEF Settled
  <1>7. SignInFresh'
    BY <1>2, <1>3 DEF SignInFresh, Flight, SignIns
  <1> QED BY <1>4, <1>5, <1>6, <1>7 DEF PageInv, RenewalAhead, RenewalsHarmless

\* An answer is lost or cut off, or the server cannot be reached.
LEMMA FetchFailsStep == ASSUME PageInv, NEW f \in Fetches, FetchFails(f) PROVE PageInv'
  <1>1. PICK got \in {"failed", "cut"} :
            /\ got = "cut" => fetches[f].got = "ok"
            /\ fetches' = [fetches EXCEPT ![f].got = got]
    BY DEF FetchFails
  <1> DEFINE r == [fetches[f] EXCEPT !.got = got]
  <1>2. /\ fetches[f] # Nil
        /\ UNCHANGED <<signedIn, overtaken, admin, cookie, idle, minted, timers, misses, writes>>
    BY DEF FetchFails, pageVars, timerVars, storeVars, tableVars
  <1>3. PageTyped
    BY DEF PageInv
  <1>4. /\ r \in Flights(minted) /\ r.kind = fetches[f].kind /\ r.session = fetches[f].session
        /\ r.got = got /\ fetches' = [fetches EXCEPT ![f] = r]
    <2>1. fetches[f] \in Flights(minted) /\ got \in Answers
      BY <1>2, <1>3 DEF PageTyped, Answers
    <2> QED BY <1>1, <2>1 DEF Flights
  <1>5. r # Nil
    BY <1>3, <1>4, NilIsNoFlight DEF PageTyped
  <1> HIDE DEF r
  <1>6. /\ fetches' \in [Fetches -> {Nil} \cup Flights(minted)]
        /\ fetches'[f] # Nil /\ fetches'[f].kind = fetches[f].kind
        /\ fetches'[f].session = fetches[f].session /\ fetches'[f].got = got
        /\ \A g \in Fetches : g # f => fetches'[g] = fetches[g]
    BY <1>3, <1>4, <1>5 DEF PageTyped
  <1>7. \A g \in Fetches : (fetches'[g] # Nil <=> fetches[g] # Nil) /\ (fetches[g] # Nil => fetches'[g].kind = fetches[g].kind)
    BY <1>2, <1>6
  <1>8. PageTyped'
    BY <1>2, <1>3, <1>6 DEF PageTyped
  <1>9. OneAtATime'
    BY <1>2, <1>6, <1>7 DEF PageInv, OneAtATime, Flight
  <1>10. Settled' = Settled
    BY <1>2, <1>7 DEF Settled, OnTheWay
  <1>11. SignInFresh'
    BY <1>2, <1>6, <1>7 DEF PageInv, SignInFresh, Flight
  <1>12. RenewalsHarmless'
    <2> SUFFICES ASSUME Settled, NEW g \in Fetches, Flight(g, Renewals)' PROVE RenewalOf(g)'
      BY <1>10 DEF RenewalsHarmless
    <2>1. RenewalOf(g)
      BY <1>7 DEF PageInv, RenewalsHarmless, Flight
    <2>2. Age' = Age
      BY <1>2 DEF Age
    <2>3. fetches'[g].session = fetches[g].session
      BY <1>6
    <2>4. Alive(fetches[g].session)' <=> Alive(fetches[g].session)
      BY <1>2, <2>3 DEF Alive
    <2>5. CASE g = f
      BY <1>1, <1>2, <1>6, <2>1, <2>2, <2>3, <2>4, <2>5 DEF RenewalOf
    <2>6. CASE g # f
      BY <1>2, <1>6, <2>1, <2>2, <2>3, <2>4, <2>6 DEF RenewalOf
    <2> QED BY <2>5, <2>6
  <1>13. RenewalAhead'
    <2> SUFFICES ASSUME Settled, misses <= 1 PROVE cookie' # 0 /\ Age' # Nil /\ RenewalDue'
      BY <1>2, <1>10 DEF RenewalAhead
    <2>1. cookie # 0 /\ Age # Nil /\ RenewalDue /\ Age' = Age
      BY <1>2 DEF PageInv, RenewalAhead, Age
    <2>2. Age \in Nat
      BY <1>3, <2>1, PageNumbers
    <2>3. \A g \in Fetches : Flight(g, Awaited) => Flight(g, Awaited)'
      BY <1>2, <1>7 DEF Flight, Awaited
    <2>4. RenewalDue'
      BY <1>2, <1>3, <2>1, <2>2, <2>3, DueKept
    <2> QED BY <1>2, <2>1, <2>4
  <1> QED BY <1>8, <1>9, <1>11, <1>12, <1>13 DEF PageInv

\* The server answers a login.
LEMMA ServeLoginStep ==
    ASSUME PageInv, NEW f \in Fetches, ServeFetch(f), fetches[f].kind = "login" PROVE PageInv'
  <1>1. /\ fetches[f] # Nil /\ fetches[f].got = "waiting" /\ Answer(f, "ok", minted + 1)
        /\ minted' = minted + 1 /\ idle' = [idle EXCEPT ![minted + 1] = 0]
        /\ UNCHANGED <<signedIn, admin, cookie, timers, misses, writes>>
    BY DEF ServeFetch, ServeLogin, pageVars, timerVars, tableVars
  <1>2. /\ Flight(f, SignIns) /\ Flight(f, {"login"}) /\ ~signedIn /\ minted < MaxSignIns
        /\ \A g \in Fetches : Flight(g, SignIns) => g = f
    BY <1>1 DEF PageInv, OneAtATime, Flight, SignIns
  <1>3. PageTyped /\ minted \in Nat /\ MaxSignIns \in Nat /\ SessionTtl \in Nat
    BY ConsoleAssumptions DEF PageInv, PageTyped
  <1>4. minted' \in 0..MaxSignIns /\ minted + 1 \in Sessions /\ minted + 1 # 0 /\ minted <= minted'
    BY <1>1, <1>2, <1>3 DEF Sessions
  <1>5. /\ fetches' \in [Fetches -> {Nil} \cup Flights(minted')]
        /\ fetches'[f] # Nil /\ fetches'[f].kind = fetches[f].kind /\ fetches'[f].got = "ok"
        /\ fetches'[f].session = minted + 1
        /\ \A g \in Fetches : g # f => fetches'[g] = fetches[g]
    <2>1. "ok" \in Answers /\ minted + 1 \in 0..minted'
      BY <1>1, <1>3 DEF Answers
    <2>2. ASSUME NEW n \in 0..MaxSignIns, n = minted'
          PROVE  /\ fetches' \in [Fetches -> {Nil} \cup Flights(n)]
                 /\ fetches'[f] # Nil /\ fetches'[f].kind = fetches[f].kind /\ fetches'[f].got = "ok"
                 /\ fetches'[f].session = minted + 1
                 /\ \A g \in Fetches : g # f => fetches'[g] = fetches[g]
      BY <1>1, <1>3, <1>4, <2>1, <2>2, AnswerEffect
    <2> QED BY <1>4, <2>2
  <1>6. PageTyped'
    <2>1. cookie' \in 0..minted'
      BY <1>1, <1>3 DEF PageTyped
    <2>2. idle' \in [Sessions -> 0..SessionTtl + 1 \cup {Nil}]
      <3>1. 0 \in 0..SessionTtl + 1
        BY <1>3
      <3> QED BY <1>1, <1>3, <3>1 DEF PageTyped
    <2> QED BY <1>1, <1>3, <1>4, <1>5, <2>1, <2>2 DEF PageTyped
  <1>7. OneAtATime'
    BY <1>1, <1>2, <1>5 DEF PageInv, OneAtATime, Flight, SignIns
  <1>8. SignInFresh'
    <2>1. idle'[minted + 1] = 0
      BY <1>1, <1>3, <1>4 DEF PageTyped
    <2>2. \A g \in Fetches : Flight(g, SignIns)' => g = f
      BY <1>2, <1>5 DEF Flight
    <2> QED BY <1>4, <1>5, <2>1, <2>2 DEF SignInFresh
  <1> QED BY <1>1, <1>2, <1>6, <1>7, <1>8 DEF PageInv, RenewalAhead, RenewalsHarmless, Settled

\* The server answers a sign-out.
LEMMA ServeLogoutStep ==
    ASSUME PageInv, NEW f \in Fetches, ServeFetch(f), fetches[f].kind = "logout" PROVE PageInv'
  <1>1. /\ fetches[f] # Nil /\ Answer(f, "ok", 0)
        /\ idle' = [s \in Sessions |-> IF s = fetches[f].session THEN Nil ELSE idle[s]]
        /\ UNCHANGED <<minted, signedIn, admin, cookie, timers, misses, writes>>
    BY DEF ServeFetch, ServeLogout, pageVars, timerVars, tableVars
  <1>2. PageTyped
    BY DEF PageInv
  <1>3. /\ fetches' \in [Fetches -> {Nil} \cup Flights(minted)]
        /\ fetches'[f] # Nil /\ fetches'[f].kind = fetches[f].kind
        /\ \A g \in Fetches : g # f => fetches'[g] = fetches[g]
    <2>1. "ok" \in Answers /\ minted \in 0..MaxSignIns /\ 0 \in 0..minted /\ minted <= minted
      BY <1>2, ConsoleAssumptions DEF Answers, PageTyped
    <2> QED BY <1>1, <1>2, <2>1, AnswerEffect
  <1>4. Flight(f, {"logout"}) /\ \A g \in Fetches : ~Flight(g, SignIns)
    BY <1>1 DEF PageInv, OneAtATime, Flight
  <1>5. PageTyped'
    <2>1. idle' \in [Sessions -> 0..SessionTtl + 1 \cup {Nil}]
      BY <1>1, <1>2 DEF PageTyped
    <2> QED BY <1>1, <1>2, <1>3, <2>1 DEF PageTyped
  <1>6. OneAtATime'
    BY <1>1, <1>3, <1>4 DEF PageInv, OneAtATime, Flight, SignIns
  <1>7. ~Settled'
    BY <1>3 DEF Settled, OnTheWay
  <1>8. SignInFresh'
    BY <1>3, <1>4 DEF SignInFresh, Flight, SignIns
  <1> QED BY <1>5, <1>6, <1>7, <1>8 DEF PageInv, RenewalAhead, RenewalsHarmless

\* The server answers a renewal, or the page that asks who is signed in: it
\* touches a live session, and a session that is dead stays dead.
LEMMA ServeRefreshStep ==
    ASSUME PageInv, NEW f \in Fetches, ServeFetch(f), fetches[f].kind \notin {"login", "logout"}
    PROVE  PageInv'
  <1> DEFINE c == fetches[f].session
             answer == IF Alive(c) THEN "ok" ELSE "no"
  <1>1. /\ fetches[f] # Nil /\ Answer(f, answer, c)
        /\ idle' = IF Alive(c) THEN [idle EXCEPT ![c] = 0] ELSE idle
        /\ UNCHANGED <<minted, signedIn, overtaken, admin, cookie, timers, misses, writes>>
    BY DEF ServeFetch, ServeRefresh, pageVars, timerVars, tableVars
  <1>2. PageTyped
    BY DEF PageInv
  <1>3. c \in 0..minted /\ minted \in 0..MaxSignIns /\ minted <= minted /\ (c # 0 => c \in Sessions)
    <2>1. c \in 0..minted /\ minted \in 0..MaxSignIns
      BY <1>1, <1>2 DEF PageTyped, Flights
    <2> QED BY <2>1, ConsoleAssumptions DEF Sessions
  <1>4. answer \in Answers /\ answer \in {"ok", "no"} /\ (answer = "ok" <=> Alive(c))
    BY DEF Answers
  <1> HIDE DEF answer
  <1>5. /\ fetches' \in [Fetches -> {Nil} \cup Flights(minted)]
        /\ fetches'[f] # Nil /\ fetches'[f].kind = fetches[f].kind /\ fetches'[f].got = answer
        /\ fetches'[f].session = c
        /\ \A g \in Fetches : g # f => fetches'[g] = fetches[g]
    BY <1>1, <1>2, <1>3, <1>4, AnswerEffect
  <1>6. \A g \in Fetches : (fetches'[g] # Nil <=> fetches[g] # Nil) /\ (fetches[g] # Nil => fetches'[g].kind = fetches[g].kind)
    BY <1>1, <1>5
  <1>7. /\ idle' \in [Sessions -> 0..SessionTtl + 1 \cup {Nil}]
        /\ Alive(c) => idle'[c] = 0 /\ c # 0
        /\ \A s \in Sessions : idle'[s] = idle[s] \/ (s = c /\ Alive(c) /\ idle'[s] = 0)
    <2>1. 0 \in 0..SessionTtl + 1
      BY ConsoleAssumptions
    <2>2. idle \in [Sessions -> 0..SessionTtl + 1 \cup {Nil}]
      BY <1>2 DEF PageTyped
    <2>3. CASE Alive(c)
      <3>1. c \in Sessions /\ c # 0 /\ idle' = [idle EXCEPT ![c] = 0]
        BY <1>1, <1>3, <2>3 DEF Alive
      <3> HIDE DEF c
      <3> QED BY <2>1, <2>2, <2>3, <3>1
    <2>4. CASE ~Alive(c)
      BY <1>1, <2>2, <2>4
    <2> QED BY <2>3, <2>4
  <1>8. ASSUME NEW s \in 0..MaxSignIns, ~Alive(s) PROVE ~(s # 0 /\ idle'[s] # Nil /\ idle'[s] <= SessionTtl)
    <2>1. s # 0 => s \in Sessions
      BY ConsoleAssumptions DEF Sessions
    <2>2. s # 0 => idle'[s] = idle[s]
      BY <1>7, <1>8, <2>1
    <2> QED BY <1>8, <2>2 DEF Alive
  <1>9. PageTyped'
    BY <1>1, <1>2, <1>5, <1>7 DEF PageTyped
  <1>10. OneAtATime'
    BY <1>1, <1>4, <1>5, <1>6 DEF PageInv, OneAtATime, Flight
  <1>11. Settled' = Settled
    BY <1>1, <1>6 DEF Settled, OnTheWay
  <1>12. SignInFresh'
    <2> SUFFICES ASSUME NEW g \in Fetches, Flight(g, SignIns)', fetches'[g].got = "ok"
                 PROVE  fetches'[g].session # 0 /\ idle'[fetches'[g].session] = 0
      BY DEF SignInFresh
    <2>1. CASE g = f
      BY <1>4, <1>5, <1>7, <2>1
    <2>2. CASE g # f
      <3>1. fetches'[g] = fetches[g] /\ fetches[g].session # 0 /\ idle[fetches[g].session] = 0
        BY <1>5, <2>2 DEF PageInv, SignInFresh, Flight
      <3>2. fetches[g].session \in Sessions
        BY <1>2, <1>5, <2>2, <3>1, ConsoleAssumptions DEF PageTyped, Flights, Sessions, Flight
      <3> QED BY <1>7, <3>1, <3>2
    <2> QED BY <2>1, <2>2
  <1>13. cookie # 0 /\ Age = 0 => Age' = 0
    <2>1. cookie # 0 => cookie \in Sessions
      BY <1>2, PageNumbers
    <2> QED BY <1>1, <1>7, <2>1 DEF Age
  <1>14. RenewalsHarmless'
    <2> SUFFICES ASSUME Settled, NEW g \in Fetches, Flight(g, Renewals)' PROVE RenewalOf(g)'
      BY <1>11 DEF RenewalsHarmless
    <2>1. RenewalOf(g) /\ fetches[g] # Nil
      BY <1>6 DEF PageInv, RenewalsHarmless, Flight
    <2>2. fetches'[g].session = fetches[g].session /\ fetches[g].session \in 0..MaxSignIns
      <3>1. fetches[g].session \in 0..minted
        BY <1>2, <2>1 DEF PageTyped, Flights
      <3> QED BY <1>3, <1>5, <3>1, ConsoleAssumptions
    <2>3. ~Alive(fetches[g].session) => ~Alive(fetches[g].session)'
      BY <1>8, <2>2 DEF Alive
    <2>4. CASE g = f /\ answer = "ok"
      <3>1. c = cookie /\ cookie # 0 /\ Age' = 0
        BY <1>1, <1>4, <1>7, <2>1, <2>4 DEF RenewalOf, Age
      <3> QED BY <1>1, <1>5, <2>4, <3>1 DEF RenewalOf
    <2>5. CASE g = f /\ answer = "no"
      <3>1. ~Alive(c)
        BY <1>4, <2>5
      <3> QED BY <1>1, <1>5, <2>1, <2>3, <2>5, <3>1 DEF RenewalOf
    <2>6. CASE g # f
      BY <1>1, <1>5, <1>13, <2>1, <2>2, <2>3, <2>6 DEF RenewalOf
    <2> QED BY <1>4, <2>4, <2>5, <2>6
  <1>15. RenewalAhead'
    <2> SUFFICES ASSUME Settled, misses <= 1 PROVE cookie' # 0 /\ Age' # Nil /\ RenewalDue'
      BY <1>1, <1>11 DEF RenewalAhead
    <2>1. cookie # 0 /\ Age # Nil /\ RenewalDue /\ 0 # Nil
      BY NilAssumption DEF PageInv, RenewalAhead
    <2>2. Age \in Nat /\ cookie \in Sessions
      BY <1>2, <2>1, PageNumbers
    <2>3. Age' = Age \/ Age' = 0
      BY <1>1, <1>7, <2>2 DEF Age
    <2>4. Age' \in Nat /\ Age' <= Age /\ Age' # Nil
      BY <2>1, <2>2, <2>3
    <2>5. \A g \in Fetches : Flight(g, Awaited) => Flight(g, Awaited)'
      BY <1>1, <1>6 DEF Flight, Awaited
    <2>6. RenewalDue'
      BY <1>1, <1>2, <2>1, <2>4, <2>5, DueKept
    <2> QED BY <1>1, <2>1, <2>4, <2>6
  <1> QED BY <1>9, <1>10, <1>12, <1>14, <1>15 DEF PageInv

\* Time passes: no fetch is on its way, so a timer is what renews the session.
LEMMA TickStep == ASSUME PageInv, Tick PROVE PageInv'
  <1>1. /\ \A t \in timers : t.left > 0
        /\ \A f \in Fetches : fetches[f] = Nil
        /\ idle' = [s \in Sessions |-> IF idle[s] = Nil THEN Nil ELSE Smaller(idle[s] + 1, SessionTtl + 1)]
        /\ timers' = {[t EXCEPT !.left = t.left - 1] : t \in timers}
        /\ UNCHANGED <<signedIn, overtaken, admin, cookie, minted, fetches, misses, writes>>
    BY DEF Tick
  <1>2. PageTyped
    BY DEF PageInv
  <1>3. ASSUME NEW t \in timers
        PROVE  /\ [t EXCEPT !.left = t.left - 1] \in [kind : Renewals, left : Nat]
               /\ [t EXCEPT !.left = t.left - 1].left = t.left - 1
               /\ [t EXCEPT !.left = t.left - 1].kind = t.kind
    <2>1. t \in [kind : Renewals, left : Nat] /\ t.left \in Nat /\ t.left > 0
      BY <1>1, <1>2 DEF PageTyped
    <2>2. t.left - 1 \in Nat
      BY <2>1
    <2> QED BY <2>1, <2>2
  <1>4. PageTyped'
    <2>1. timers' \subseteq [kind : Renewals, left : Nat]
      BY <1>1, <1>3
    <2>2. ASSUME NEW s \in Sessions
          PROVE  (IF idle[s] = Nil THEN Nil ELSE Smaller(idle[s] + 1, SessionTtl + 1))
                     \in 0..SessionTtl + 1 \cup {Nil}
      <3>1. idle[s] \in 0..SessionTtl + 1 \cup {Nil} /\ SessionTtl \in Nat
        BY <1>2, <2>2, ConsoleAssumptions DEF PageTyped
      <3> QED BY <3>1 DEF Smaller
    <2>3. idle' \in [Sessions -> 0..SessionTtl + 1 \cup {Nil}]
      BY <1>1, <2>2
    <2> QED BY <1>1, <1>2, <2>1, <2>3 DEF PageTyped
  <1>5. OneAtATime' /\ SignInFresh' /\ RenewalsHarmless'
    BY <1>1 DEF OneAtATime, SignInFresh, RenewalsHarmless, Flight
  <1>6. RenewalAhead'
    <2> SUFFICES ASSUME Settled, misses <= 1 PROVE cookie' # 0 /\ Age' # Nil /\ RenewalDue'
      BY <1>1 DEF RenewalAhead, Settled, OnTheWay
    <2>1. cookie # 0 /\ Age # Nil /\ RenewalDue
      BY DEF PageInv, RenewalAhead
    <2>2. PICK t \in timers : t.kind \in Awaited /\ Age + t.left <= Slack
      BY <1>1, <2>1 DEF RenewalDue, Flight
    <2>3. /\ Age \in Nat /\ t.left \in Nat /\ t.left > 0 /\ SessionTtl \in Nat /\ Slack \in Nat
          /\ Slack <= SessionTtl /\ cookie \in Sessions
      BY <1>1, <1>2, <2>1, PageNumbers
    <2>4. Age' = Age + 1
      <3>1. Age' = Smaller(Age + 1, SessionTtl + 1)
        BY <1>1, <2>1, <2>3 DEF Age
      <3> QED BY <2>2, <2>3, <3>1 DEF Smaller
    <2> DEFINE s == [t EXCEPT !.left = t.left - 1]
    <2>5. s \in timers' /\ s.left = t.left - 1 /\ s.kind = t.kind
      BY <1>1, <1>3
    <2> HIDE DEF s
    <2>6. Slack' = Slack /\ Awaited' = Awaited
      BY <1>1 DEF Slack, Awaited
    <2>7. s.kind \in Awaited' /\ Age' + s.left <= Slack'
      BY <2>2, <2>3, <2>4, <2>5, <2>6
    <2>8. Age' # Nil
      BY <2>3, <2>4, NilAssumption
    <2> QED BY <1>1, <2>1, <2>5, <2>7, <2>8 DEF RenewalDue
  <1> QED BY <1>4, <1>5, <1>6 DEF PageInv

\* A page on which nothing happens.
LEMMA PageAlone ==
    ASSUME PageInv, UNCHANGED <<signedIn, overtaken, cookie, idle, minted, timers, fetches, misses>>,
           admin' \in BOOLEAN, writes' \in 0..MaxWrites
    PROVE  PageInv'
  <1>1. PageTyped'
    BY DEF PageInv, PageTyped
  <1>2. Settled' = Settled
    BY DEF Settled, OnTheWay
  <1>3. OneAtATime' /\ SignInFresh'
    BY DEF PageInv, OneAtATime, SignInFresh, Flight
  <1>4. RenewalsHarmless'
    BY <1>2 DEF PageInv, RenewalsHarmless, RenewalOf, Alive, Age, Flight
  <1>5. RenewalAhead'
    BY <1>2 DEF PageInv, RenewalAhead, RenewalDue, Slack, Awaited, Age, Flight
  <1> QED BY <1>1, <1>3, <1>4, <1>5 DEF PageInv

\* Every step keeps the invariant of the page.
LEMMA PageStep == ASSUME PageInv, [Next]_vars PROVE PageInv'
  <1>1. writes \in 0..MaxWrites /\ admin \in BOOLEAN
    BY DEF PageInv, PageTyped
  <1>2. ASSUME UNCHANGED sessionVars, writes' \in 0..MaxWrites PROVE PageInv'
    <2>1. UNCHANGED <<signedIn, overtaken, cookie, idle, minted, timers, fetches, misses, admin>>
      BY <1>2 DEF sessionVars, pageVars, timerVars, storeVars
    <2> QED BY <1>1, <1>2, <2>1, PageAlone
  <1>3. CASE UNCHANGED vars \/ (HostNext /\ UNCHANGED <<sessionVars, tableVars>>)
    BY <1>1, <1>2, <1>3 DEF vars, tableVars
  <1>4. CASE Tick
    BY <1>4, TickStep
  <1>5. ASSUME NEW f \in Fetches, SessionStep(f) PROVE PageInv'
    <2>1. CASE ServeFetch(f)
      BY <2>1, ServeLoginStep, ServeLogoutStep, ServeRefreshStep
    <2> QED BY <1>5, <2>1, SubmitLoginStep, ShowSessionStep, SignInFailsStep, ReloadStep, TimerFiresStep,
         RenewedStep, NotRenewedStep, RetryFailsStep, ClickLogoutStep, ShowFormStep,
         FetchFailsStep DEF SessionStep
  <1>6. ASSUME NEW l \in Loads, TableStep(l) PROVE PageInv'
    BY <1>1, <1>2, <1>6 DEF TableStep, RefreshDashboardTiles, ServeLoad, RenderTrustedAddons,
                            TrustAnswered
  <1>7. ASSUME NEW a, NEW k, SubmitTrust(a, k) PROVE PageInv'
    <2>1. writes' \in 0..MaxWrites
      BY <1>1, <1>7, ConsoleAssumptions DEF SubmitTrust
    <2> QED BY <1>2, <1>7, <2>1 DEF SubmitTrust
  <1>8. CASE ServeTrust
    BY <1>1, <1>2, <1>8 DEF ServeTrust
  <1>9. CASE SetGlobalAdmin
    <2>1. /\ UNCHANGED <<signedIn, overtaken, cookie, idle, minted, timers, fetches, misses, writes>>
          /\ admin' = ~admin
      BY <1>9 DEF SetGlobalAdmin, pageVars, timerVars, tableVars
    <2>2. admin' \in BOOLEAN
      BY <2>1, Zenon
    <2> QED BY <1>1, <2>1, <2>2, PageAlone
  <1> QED BY <1>3, <1>4, <1>5, <1>6, <1>7, <1>8, <1>9 DEF Next

\* It holds in every state the page reaches.
LEMMA PageInvariant == Spec => []PageInv
  <1>1. Init => PageInv
    <2> SUFFICES ASSUME Init PROVE PageInv
      OBVIOUS
    <2>1. /\ signedIn = FALSE /\ admin = TRUE /\ cookie = 0 /\ idle = [s \in Sessions |-> Nil]
          /\ minted = 0 /\ timers = {}
          /\ fetches = [f \in Fetches |-> Nil] /\ misses = 0 /\ writes = 0
      BY DEF Init
    <2>2. PageTyped
      <3>1. signedIn \in BOOLEAN /\ admin \in BOOLEAN /\ timers \subseteq [kind : Renewals, left : Nat]
        BY <2>1, Zenon
      <3>2. minted \in 0..MaxSignIns /\ cookie \in 0..minted /\ misses \in 0..2 /\ writes \in 0..MaxWrites
        BY <2>1, ConsoleAssumptions
      <3>3. /\ fetches \in [Fetches -> {Nil} \cup Flights(minted)]
            /\ idle \in [Sessions -> 0..SessionTtl + 1 \cup {Nil}]
        BY <2>1
      <3> QED BY <3>1, <3>2, <3>3 DEF PageTyped
    <2>3. OneAtATime /\ SignInFresh
      BY <2>1 DEF OneAtATime, SignInFresh, Flight
    <2> QED BY <2>1, <2>2, <2>3 DEF PageInv, RenewalAhead, RenewalsHarmless, Settled
  <1>2. PageInv /\ [Next]_vars => PageInv'
    BY PageStep
  <1> QED BY <1>1, <1>2, PTL DEF Spec

\* A console that is signed in keeps a live session in its cookie while no two
\* renewals in a row fail, for every lifetime that leaves room for a renewal
\* and a retry: scheduleTokenRenewal and its retry are always ahead of the
\* expiry, and no answer of a renewal, a sign-in or a sign-out, however late,
\* deletes or replaces the cookie, unless the sign-in overtook a renewal
\* (app.js, auth.router.ts).
THEOREM ConsoleKeepsSession == Spec => []SessionKept
  <1>1. PageInv => SessionKept
    <2> SUFFICES ASSUME PageInv, Settled, misses <= 1 PROVE Alive(cookie)
      BY DEF SessionKept, Settled
    <2> QED BY SettledAlive
  <1> QED BY <1>1, PageInvariant, PTL

\* The flags of the page and its token.
FlagsTyped ==
    pageAdmin \in BOOLEAN /\ overtaken \in BOOLEAN /\ token \in 0..AccessTtl \cup {Nil}

\* Every step keeps their types.
LEMMA FlagsStep == ASSUME PageInv, FlagsTyped, [Next]_vars PROVE FlagsTyped'
  <1>1. AccessTtl \in Nat /\ AccessTtl \in 0..AccessTtl
    BY ConsoleAssumptions
  <1>2. ASSUME UNCHANGED pageVars PROVE FlagsTyped'
    BY <1>2 DEF pageVars, FlagsTyped
  <1>3. CASE UNCHANGED vars \/ (HostNext /\ UNCHANGED <<sessionVars, tableVars>>)
    BY <1>2, <1>3 DEF vars, sessionVars
  <1>4. CASE Tick
    <2>1. token' = Aged(token) /\ UNCHANGED <<pageAdmin, overtaken>>
      BY <1>4 DEF Tick
    <2>2. token' \in 0..AccessTtl \cup {Nil}
      BY <1>1, <2>1 DEF FlagsTyped, Aged, Larger
    <2> QED BY <2>1, <2>2 DEF FlagsTyped
  <1>5. ASSUME NEW f \in Fetches, SessionStep(f) PROVE FlagsTyped'
    <2>1. CASE ShowSession(f)
      <3>1. /\ token' = AccessTtl /\ pageAdmin' = fetches[f].admin /\ fetches[f] # Nil
            /\ overtaken' = (OnTheWay("renew") \/ OnTheWay("retry"))
        BY <2>1 DEF ShowSession, Got
      <3>2. fetches[f].admin \in BOOLEAN
        BY <3>1 DEF PageInv, PageTyped, Flights
      <3>3. overtaken' \in BOOLEAN
        BY <3>1, Zenon DEF OnTheWay
      <3> QED BY <1>1, <3>1, <3>2, <3>3 DEF FlagsTyped
    <2>2. CASE Reload(f)
      <3>1. token' = Nil /\ pageAdmin' = FALSE /\ overtaken' = FALSE
        BY <2>2 DEF Reload
      <3>2. pageAdmin' \in BOOLEAN /\ overtaken' \in BOOLEAN
        BY <3>1, Zenon
      <3> QED BY <3>1, <3>2 DEF FlagsTyped
    <2>3. CASE Renewed(f)
      BY <1>1, <2>3 DEF Renewed, FlagsTyped
    <2>4. CASE ShowForm(f)
      <3>1. token' = Nil /\ pageAdmin' = FALSE /\ overtaken' = overtaken
        BY <2>4 DEF ShowForm
      <3>2. pageAdmin' \in BOOLEAN
        BY <3>1, Zenon
      <3> QED BY <3>1, <3>2 DEF FlagsTyped
    <2>5. CASE ~(ShowSession(f) \/ Reload(f) \/ Renewed(f) \/ ShowForm(f))
      BY <1>2, <1>5, <2>5 DEF SessionStep, SubmitLogin, LoginFails, RestoreFails, TimerFires, NotRenewed,
                              RetryFails, ClickLogout, ServeFetch, FetchFails
    <2> QED BY <2>1, <2>2, <2>3, <2>4, <2>5
  <1>6. ASSUME NEW l \in Loads, TableStep(l) PROVE FlagsTyped'
    BY <1>2, <1>6 DEF TableStep, RefreshDashboardTiles, ServeLoad, RenderTrustedAddons, TrustAnswered,
                      sessionVars
  <1>7. ASSUME NEW a, NEW k, SubmitTrust(a, k) PROVE FlagsTyped'
    BY <1>2, <1>7 DEF SubmitTrust, sessionVars
  <1>8. CASE ServeTrust \/ SetGlobalAdmin
    BY <1>2, <1>8 DEF ServeTrust, SetGlobalAdmin, sessionVars
  <1> QED BY <1>3, <1>4, <1>5, <1>6, <1>7, <1>8 DEF Next

\* They are typed in every state the page reaches.
LEMMA FlagsInvariant == Spec => []FlagsTyped
  <1>1. Init => FlagsTyped
    <2> SUFFICES ASSUME Init PROVE FlagsTyped
      OBVIOUS
    <2>1. pageAdmin = FALSE /\ overtaken = FALSE /\ token = Nil
      BY DEF Init
    <2>2. pageAdmin \in BOOLEAN /\ overtaken \in BOOLEAN
      BY <2>1, Zenon
    <2> QED BY <2>1, <2>2 DEF FlagsTyped
  <1>2. PageInv /\ FlagsTyped /\ [Next]_vars => FlagsTyped'
    BY FlagsStep
  <1> QED BY <1>1, <1>2, PageInvariant, PTL DEF Spec

\* The process and the page hold what the code can write, for any number of
\* addons, calls and fetches; in particular a breaker counts no failure beyond
\* the calls that could be running when it opened.
THEOREM PlatformTyped == Spec => []PlatformTypeOK
  <1>1. ProcessInv /\ PageInv /\ FlagsTyped => PlatformTypeOK
    <2> SUFFICES ASSUME ProcessInv, PageInv, FlagsTyped PROVE PlatformTypeOK
      OBVIOUS
    <2>1. InPaths \subseteq Addons /\ setup \in Starts /\ Nil \notin Addons /\ MaxFailures \in Nat \ {0}
      BY ConsoleAssumptions, HostAssumptions DEF ProcessInv, HostInv, LicenceInv, InPaths
    <2>2. failures \in [Addons -> 0..MaxFailures + Cardinality(Calls) - 1]
      <3>1. failures \in [Addons -> Nat] /\ Cardinality(Calls) \in Nat
        BY RunningFinite DEF ProcessInv, HostInv, BreakerInv
      <3>2. ASSUME NEW a \in Addons PROVE failures[a] <= MaxFailures + Cardinality(Calls) - 1
        <4>1. CASE a \in disabled
          <5>1. failures[a] + Cardinality(Running(a)) <= MaxFailures + Cardinality(Calls) - 1
            BY <4>1 DEF ProcessInv, RunningInv
          <5>2. Running(a) \in SUBSET Calls
            BY DEF Running
          <5>3. Cardinality(Running(a)) \in Nat
            BY <5>2, RunningFinite
          <5> QED BY <2>1, <3>1, <5>1, <5>3
        <4>2. CASE a \notin disabled
          <5>1. /\ failures[a] \in Nat /\ worst[a] \in Nat /\ failures[a] <= worst[a]
                /\ ~(worst[a] >= MaxFailures)
            BY <4>2 DEF ProcessInv, HostInv, BreakerInv, DisabledAfterStreak
          <5> QED BY <2>1, <3>1, <5>1
        <4> QED BY <4>1, <4>2
      <3> QED BY <3>1, <3>2
    <2>3. window \in [Sources -> [count : 0..CertLimit, since : 0..MaxClock]]
      <3>1. \A s \in Sources : window[s] \in CertWindows /\ window[s].count \in 0..CertLimit
        BY DEF ProcessInv, CertInv, WindowOK
      <3>2. \A s \in Sources : window[s] \in [count : 0..CertLimit, since : 0..MaxClock]
        BY <3>1 DEF CertWindows
      <3> QED BY <3>2 DEF ProcessInv, CertInv
    <2>4. HostTypeOK
      BY <2>2, <2>3 DEF HostTypeOK, ProcessInv, HostInv, LicenceInv, BootInv, CallInv
    <2> QED BY <2>4 DEF PlatformTypeOK, PageInv, PageTyped, FlagsTyped, Renewals
  <1> QED BY <1>1, ProcessInvariant, PageInvariant, FlagsInvariant, PTL

=============================================================================
