--------------------------- MODULE MCAdminConsole ---------------------------
EXTENDS AdminConsole, TLC

CONSTANTS o1, c1, c2, k1

Licensed(expires, addons) ==
    [wellFormed |-> TRUE, signed |-> TRUE, expiresAt |-> expires, tier |-> "community",
     addons |-> addons]

Rules(official, community, max) == [official |-> official, community |-> community, max |-> max]

Package(tier, signer) ==
    [tier |-> tier, valid |-> TRUE, signer |-> signer, route |-> TRUE, activates |-> TRUE]

Packages == [a \in Addons |-> IF a = o1 THEN Package("official", Deltix)
                              ELSE Package("community", k1)]

NoTrust == [a \in Addons |-> Nil]

Deployment(operations) ==
    [ops |-> operations, clocks |-> {}, licence |-> Licensed(Nil, Nil), packages |-> Packages,
     paths |-> <<o1>>, free |-> {o1}, latestCommit |-> Nil, trusted |-> NoTrust]

\* The licence: expiry, a clock that is set back, a commit log from before.
LicenceStarts ==
    { [Deployment({"restart", "commit", "time"}) EXCEPT
          !.clocks = {0, 2, 5}, !.licence = Licensed(2, Nil), !.latestCommit = l] : l \in {Nil, 1} }
    \cup { [Deployment({}) EXCEPT !.licence.wellFormed = FALSE],
           [Deployment({}) EXCEPT !.licence.signed = FALSE] }

\* Addons: every licence rule, packages that are broken or signed by another
\* key, one without routes, one whose activate() throws.
AddonStarts ==
    { [Deployment({"restart", "trust"}) EXCEPT
          !.licence = Licensed(Nil, rules), !.packages = packages,
          !.paths = <<c1, o1, c2>>, !.free = {}, !.trusted = [NoTrust EXCEPT ![c2] = k1]] :
        rules \in {Nil, Rules({o1}, TRUE, 2), Rules({o1}, TRUE, 1), Rules({}, FALSE, Nil)},
        packages \in {Packages, [Packages EXCEPT ![c1].valid = FALSE],
                      [Packages EXCEPT ![o1].signer = k1], [Packages EXCEPT ![c2].signer = Deltix],
                      [Packages EXCEPT ![c1].route = FALSE], [Packages EXCEPT ![c1].activates = FALSE]} }

MCStarts ==
    LicenceStarts \cup AddonStarts \cup
    { Deployment({"call", "restart"}),
      Deployment({"certificate", "time"}),
      Deployment({"console", "logout", "time", "loss", "reload"}),
      Deployment({"console", "logout", "tables", "edit", "reload", "roles"}),
      Deployment({"console", "tables", "time", "restart"}) }

\* A key trusted, revoked and trusted for another addon.
MCRequests == {<<c1, k1>>, <<c1, Nil>>, <<c2, k1>>}

=============================================================================
