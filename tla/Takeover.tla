------------------------------ MODULE Takeover ------------------------------
(***************************************************************************)
(* The subdomain takeover check of the voyage daemon: the host list, the   *)
(* chunks of concurrent checks, what one check concludes from DNS and from *)
(* a page, and the events that are written to the client.                  *)
(*                                                                         *)
(* The zone is what DNS and the web say of the names: the name a name is   *)
(* an alias of, the names that exist, the providers the fingerprints know, *)
(* and the page a host serves.  MaxOutage lookups or fetches fail.         *)
(***************************************************************************)
EXTENDS Integers, Sequences, SequencesExt, FiniteSets

CONSTANTS
    Host,         \* the hosts of a request, in their sorted order
    Apex,         \* the domain itself
    DnsName,      \* every name of the zone
    Nowhere,
    Zones,        \* [alias, exists, provider, mute (providers without a page), page]
    MaxHosts,     \* max_hosts
    TkTasks,      \* tasks
    MaxHops,      \* MAX_HOPS
    MaxOutage     \* bound: lookups and fetches that fail

ASSUME TakeoverAssumption ==
    /\ MaxHosts \in Nat /\ TkTasks \in Nat \ {0} /\ MaxHops \in Nat \ {0}
    /\ MaxOutage \in Nat /\ Nowhere \notin DnsName
    /\ IsFiniteSet(DnsName) /\ Host \in Seq(DnsName)
    /\ \A z \in Zones : z.alias \in [DnsName -> DnsName \cup {Nowhere}]

VARIABLES
    tkZone,
    tkPhase,    \* "start", "listed", "check", "done", "error", "gone"
    tkHosts,    \* the list that is checked
    tkCut,      \* truncated: how many hosts were not taken
    tkFrom,     \* hosts before this are in a chunk that was started
    tkStage,    \* per host in flight: "walk", "resolve", "fetch", or its verdict
    tkChain,    \* per host in flight: the names walked
    tkDone,     \* processed
    tkFound,    \* hosts a finding was written for
    tkClient,   \* the client reads
    tkOutage

tkTasks == <<tkStage, tkChain>>
tkList == <<tkHosts, tkCut>>
tkVars == <<tkZone, tkPhase, tkList, tkFrom, tkTasks, tkDone, tkFound, tkClient, tkOutage>>

Verdict == {"dangling", "unclaimed", "claimed", "clean", "panicked"}
Walking == {"walk", "resolve", "fetch"}
HostSet == Range(Host)

TakeoverTypeOK ==
    /\ tkZone \in Zones
    /\ tkPhase \in {"start", "listed", "check", "done", "error", "gone"}
    /\ tkHosts \in Seq(HostSet) /\ Len(tkHosts) <= MaxHosts
    /\ tkCut \in 0..Len(Host)
    /\ tkFrom \in 1..(Len(tkHosts) + 1)
    /\ tkStage \in [HostSet -> Walking \cup Verdict \cup {"off"}]
    /\ tkChain \in [HostSet -> Seq(DnsName)]
    /\ \A h \in HostSet : Len(tkChain[h]) <= MaxHops
    /\ tkDone \in 0..Len(tkHosts)
    /\ tkFound \subseteq Range(tkHosts)
    /\ tkClient \in BOOLEAN /\ tkOutage \in 0..MaxOutage

NoTasks == [h \in HostSet |-> "off"]

TakeoverInit ==
    /\ tkZone \in Zones
    /\ tkPhase = "start"
    /\ tkHosts = <<>> /\ tkCut = 0 /\ tkFrom = 1
    /\ tkStage = NoTasks /\ tkChain = [h \in HostSet |-> <<>>]
    /\ tkDone = 0 /\ tkFound = {}
    /\ tkClient = TRUE /\ tkOutage = 0

-----------------------------------------------------------------------------
(* The handler *)

\* Unreadable parameters, no client, neither hosts nor a domain, no resolver.
TakeoverRefused ==
    /\ tkPhase \in {"start", "listed"}
    /\ tkPhase' = "error"
    /\ UNCHANGED <<tkZone, tkList, tkFrom, tkTasks, tkDone, tkFound, tkClient, tkOutage>>

Before(g, h) == \E k, l \in 1..Len(Host) : k < l /\ Host[k] = g /\ Host[l] = h

\* hosts.sort(), dedup(), truncate(max_hosts).
TakeList(asked) ==
    \E sorted \in SetToSeqs(asked) :
        /\ \A i, j \in 1..Len(sorted) : i < j => Before(sorted[i], sorted[j])
        /\ tkHosts' = SubSeq(sorted, 1, IF Len(sorted) < MaxHosts THEN Len(sorted) ELSE MaxHosts)
        /\ tkCut' = IF Len(sorted) > MaxHosts THEN Len(sorted) - MaxHosts ELSE 0

\* The hosts of the request, or the domain and what passive sources know of it;
\* then the first progress event.
ListHosts ==
    /\ tkPhase = "start"
    /\ \E asked \in SUBSET HostSet \ {{}} :
           /\ TakeList(asked)
           /\ asked = HostSet \/ Apex \in asked
    /\ tkPhase' = IF tkClient THEN "listed" ELSE "gone"
    /\ UNCHANGED <<tkZone, tkFrom, tkTasks, tkDone, tkFound, tkClient, tkOutage>>

NextChunk == {tkHosts[i] : i \in {k \in 1..Len(tkHosts) : k >= tkFrom /\ k < tkFrom + TkTasks}}

\* A chunk of the list is spawned when the one before it was joined.
SpawnChunk ==
    /\ tkPhase \in {"listed", "check"}
    /\ tkStage = NoTasks /\ NextChunk # {}
    /\ tkPhase' = "check"
    /\ tkFrom' = tkFrom + Cardinality(NextChunk)
    /\ tkStage' = [h \in HostSet |-> IF h \in NextChunk THEN "walk" ELSE "off"]
    /\ tkChain' = [h \in HostSet |-> <<>>]
    /\ UNCHANGED <<tkZone, tkList, tkDone, tkFound, tkClient, tkOutage>>

\* A check ended: it is counted; a finding and the progress are written.  One
\* that panicked is counted and nothing is written.  A client that is gone ends
\* the handler, and the tasks of the chunk with it.
JoinOne(h) ==
    LET finding == tkStage[h] \in {"dangling", "unclaimed"}
        written == tkStage[h] = "panicked" \/ tkClient
    IN /\ tkPhase = "check" /\ tkStage[h] \in Verdict
       /\ tkDone' = tkDone + 1
       /\ tkFound' = IF finding /\ tkClient THEN tkFound \cup {h} ELSE tkFound
       /\ tkPhase' = IF written THEN "check" ELSE "gone"
       /\ tkStage' = IF written THEN [tkStage EXCEPT ![h] = "off"] ELSE NoTasks
       /\ UNCHANGED <<tkZone, tkList, tkFrom, tkChain, tkClient, tkOutage>>

FinishTakeover ==
    /\ tkPhase \in {"listed", "check"}
    /\ tkStage = NoTasks /\ NextChunk = {}
    /\ tkPhase' = IF tkClient THEN "done" ELSE "gone"
    /\ UNCHANGED <<tkZone, tkList, tkFrom, tkTasks, tkDone, tkFound, tkClient, tkOutage>>

ClientGoes ==
    /\ tkClient
    /\ tkClient' = FALSE
    /\ UNCHANGED <<tkZone, tkPhase, tkList, tkFrom, tkTasks, tkDone, tkFound, tkOutage>>

-----------------------------------------------------------------------------
(* check: one host *)

\* A lookup or a fetch that fails, or not.
Answered(ok) ==
    /\ ok \/ tkOutage < MaxOutage
    /\ tkOutage' = IF ok THEN tkOutage ELSE tkOutage + 1

NameAt(h) == IF tkChain[h] = <<>> THEN h ELSE Last(tkChain[h])
Stage(h, s) == tkStage' = [tkStage EXCEPT ![h] = s]
CheckUnchanged == UNCHANGED <<tkZone, tkPhase, tkList, tkFrom, tkDone, tkFound, tkClient>>

\* cname_chain: the walk ends at a name that is no alias, at one seen before, at
\* a failed lookup, or after MAX_HOPS.
WalkEnds(h) == Stage(h, IF tkChain'[h] = <<>> THEN "clean" ELSE "resolve")
CnameLookup(h) ==
    /\ tkStage[h] = "walk"
    /\ \E ok \in BOOLEAN :
           LET next == tkZone.alias[NameAt(h)]
               goes == ok /\ next # Nowhere /\ ~ Contains(tkChain[h], next)
           IN /\ Answered(ok)
              /\ tkChain' = IF goes THEN [tkChain EXCEPT ![h] = Append(@, next)] ELSE tkChain
              /\ IF goes /\ Len(tkChain[h]) + 1 < MaxHops THEN UNCHANGED tkStage ELSE WalkEnds(h)
    /\ CheckUnchanged

\* The names a name leads to, alias after alias: they are in every set that has
\* it and, with a name, its alias.  A loop has no end.
Reach(name) ==
    {x \in DnsName : \A S \in SUBSET DnsName :
        name \in S /\ (\A y \in S : tkZone.alias[y] \in S \cup {Nowhere}) => x \in S}
Ends(name) == {x \in Reach(name) : tkZone.alias[x] = Nowhere}
Nonexistent(name) == Ends(name) \ tkZone.exists # {}

\* fingerprint_for, and whether the provider has a page to know it by.
HasFingerprint(name) == name \in tkZone.provider
HasBodies(name) == name \in tkZone.provider \ tkZone.mute

\* is_nxdomain: only the answer that the name does not exist counts.
Resolve(h) ==
    /\ tkStage[h] = "resolve"
    /\ \E ok \in BOOLEAN :
           /\ Answered(ok)
           /\ Stage(h, IF ok /\ Nonexistent(NameAt(h)) THEN "dangling"
                       ELSE IF ~ HasFingerprint(NameAt(h)) THEN "clean"
                       ELSE IF HasBodies(NameAt(h)) THEN "fetch" ELSE "claimed")
    /\ UNCHANGED tkChain /\ CheckUnchanged

\* The fetch: https, then http (an outage is of both).  The body is cut after the
\* first byte of its last character: a page that ends in a longer one panics.
Fetched(h, ok) ==
    CASE ~ ok -> "none"
      [] ok /\ tkZone.page[h].says # "none" /\ tkZone.page[h].accented -> "panicked"
      [] OTHER -> tkZone.page[h].says

FetchPage(h) ==
    /\ tkStage[h] = "fetch"
    /\ \E ok \in BOOLEAN :
           /\ Answered(ok)
           /\ Stage(h, IF Fetched(h, ok) \in {"panicked", "unclaimed"} THEN Fetched(h, ok)
                       ELSE "claimed")
    /\ UNCHANGED tkChain /\ CheckUnchanged

TakeoverStep ==
    \/ TakeoverRefused \/ ListHosts \/ SpawnChunk \/ FinishTakeover
    \/ \E h \in HostSet : CnameLookup(h) \/ Resolve(h) \/ FetchPage(h) \/ JoinOne(h)
TakeoverNext == TakeoverStep \/ ClientGoes

-----------------------------------------------------------------------------
\* The names behind a host's alias.
Behind(h) == IF tkZone.alias[h] = Nowhere THEN {} ELSE Reach(tkZone.alias[h])

DanglingHost(h) == tkZone.alias[h] # Nowhere /\ Nonexistent(h)
Unclaimed(h) == tkZone.page[h].says = "unclaimed"

\* A finding is real whatever lookups failed: the host's alias leads to a name that
\* does not exist, or through a known provider whose page says it is unclaimed.  A
\* timeout is never taken for a name that is gone (is_nxdomain, check).
TakeoverBacked ==
    \A h \in tkFound : DanglingHost(h) \/ (Unclaimed(h) /\ Behind(h) \cap tkZone.provider # {})

\* The provider at the end of the walk, as far as a walk may go, has an unclaimed
\* page, and serves it here.
Abandoned(h) ==
    /\ Unclaimed(h) /\ Cardinality(Behind(h)) <= MaxHops
    /\ \E x \in Behind(h) \cap Ends(h) : HasBodies(x)

\* With an answer to every lookup, a run that is done has counted every host of
\* its list and reported those whose alias dangles, behind a chain of any length,
\* and those at the end of whose chain a provider serves its unclaimed page, as
\* long as the page can be cut (handle_stream_takeover, check).
TakeoverCovers ==
    tkPhase = "done" /\ tkOutage = 0 =>
        /\ tkDone = Len(tkHosts)
        /\ \A h \in Range(tkHosts) :
               DanglingHost(h) \/ (Abandoned(h) /\ ~ tkZone.page[h].accented) => h \in tkFound
=============================================================================
