----------------------------- MODULE MCTakeover -----------------------------
(***************************************************************************)
(* Two zones for the takeover check, and what its comment says of a run    *)
(* that reports nothing.                                                   *)
(***************************************************************************)
EXTENDS Takeover, TLC

CONSTANTS h1, h2, h3, k1, k2, k3, gone   \* hosts, and what they are aliases of

MCHosts == <<h1, h2, h3>>
NoAlias == [n \in DnsName |-> Nowhere]
Page(says, accented) == [says |-> says, accented |-> accented]
\* A chain longer than a walk that dangles, an abandoned provider, a page alone.
OpenZone ==
    [alias |-> (h1 :> k1) @@ (k1 :> k2) @@ (k2 :> gone) @@ (h2 :> k3) @@ NoAlias,
     exists |-> DnsName \ {gone}, provider |-> {k1, k3, gone}, mute |-> {gone},
     page |-> (h1 :> Page("none", FALSE)) @@ (h2 :> Page("unclaimed", FALSE))
              @@ (h3 :> Page("unclaimed", FALSE))]
\* A loop, a provider behind a provider, and a page that cannot be cut.
OddZone ==
    [alias |-> (h1 :> k1) @@ (k1 :> h1) @@ (h2 :> k2) @@ (k2 :> k3) @@ (h3 :> k3) @@ NoAlias,
     exists |-> DnsName \ {h1, k1}, provider |-> {k1, k2, k3}, mute |-> {k2},
     page |-> (h1 :> Page("normal", FALSE)) @@ (h2 :> Page("unclaimed", FALSE))
              @@ (h3 :> Page("unclaimed", TRUE))]
MCZones == {OpenZone, OddZone}

TakeoverSpec == TakeoverInit /\ [][TakeoverNext]_tkVars

\* voyage/src/daemon.rs: "a run that checked 250 of 900 names must not read as
\* 'your domain is clean'".  When a run that left no host out and got an answer to
\* every lookup reports nothing, none of its hosts is open to a takeover.
NeverSilent ==
    tkPhase = "done" /\ tkOutage = 0 /\ tkCut = 0 /\ tkFound = {} =>
        \A h \in Range(tkHosts) : ~ DanglingHost(h) /\ ~ Abandoned(h)
=============================================================================
