------------------------------- MODULE Crawl -------------------------------
(***************************************************************************)
(* A web crawl of the mach daemon: waves of concurrent fetches over a      *)
(* frontier with a page budget, a depth limit, a cap on the set of visited *)
(* keys, and a client that may hang up while the crawl goes on.            *)
(*                                                                         *)
(* A site is what its pages reveal.  Pages are fetched concurrently and    *)
(* joined in any order; what a page reveals is taken in when it is joined. *)
(***************************************************************************)
EXTENDS Integers, FiniteSets, Sequences, SequencesExt

CONSTANTS
    Url,
    Seed,        \* the normalised seed
    Key,         \* norm_key of each URL: query values and a final slash dropped
    Scope,       \* the URLs resolve_and_scope lets pass
    Static,      \* is_static_asset
    Tracked,     \* static, and is_trackable_static with capture_static
    Sites,       \* possible sites: [links, calls : Url -> set of URLs, specs]
    MaxPages, MaxDepth, Tasks,   \* the parameters, clamped
    MaxVisited,  \* MAX_VISITED
    MaxPanic     \* bound: fetch tasks that panic

ASSUME CrawlAssumption ==
    /\ Seed \in Url /\ Scope \subseteq Url
    /\ Static \subseteq Url /\ Tracked \subseteq Static
    /\ MaxPages \in Nat \ {0} /\ Tasks \in Nat \ {0}
    /\ MaxDepth \in Nat /\ MaxVisited \in Nat \ {0} /\ MaxPanic \in Nat
    /\ \A s \in Sites : /\ s.links \in [Url -> SUBSET Url]
                        /\ s.calls \in [Url -> SUBSET Url]
                        /\ s.specs \subseteq Url
                        /\ \A u \in Url : IsFiniteSet(s.links[u])

VARIABLES
    crSite,
    crFrontier,  \* queue of [url, depth]
    crVisited,   \* keys
    crWave,      \* fetches in flight
    crPages,     \* pages_crawled
    crFetched,   \* history: the pages that were joined, with their depth
    crRead,      \* history: the pages that answered
    crLost,      \* history: pages whose task panicked
    crSent,      \* URLs reported, as events sent
    crPhase,
    crClient     \* "there" or "gone"

crVars == <<crSite, crFrontier, crVisited, crWave, crPages, crFetched, crRead, crLost, crSent,
            crPhase, crClient>>

Visit == [url : Url, depth : 0..(MaxDepth + 1)]
KeysOf(U) == {Key[u] : u \in U}
UrlsOf(V) == {v.url : v \in V}

CrawlTypeOK ==
    /\ crSite \in Sites
    /\ crFrontier \in Seq(Visit)
    /\ crVisited \subseteq KeysOf(Url)
    /\ crWave \subseteq Visit
    /\ crPages \in Nat
    /\ crFetched \subseteq Visit /\ crLost \subseteq Visit /\ crRead \subseteq Url
    /\ crSent \subseteq Url
    /\ crPhase \in {"crawl", "drain", "specs", "done"}
    /\ crClient \in {"there", "gone"}

CrawlInit ==
    /\ crSite \in Sites
    /\ crFrontier = <<[url |-> Seed, depth |-> 0]>>
    /\ crVisited = {Key[Seed]}
    /\ crWave = {} /\ crPages = 0
    /\ crFetched = {} /\ crRead = {} /\ crLost = {} /\ crSent = {}
    /\ crPhase = "crawl"
    /\ crClient = "there"

-----------------------------------------------------------------------------
Smallest(a, b) == IF a < b THEN a ELSE b

\* Up to Tasks fetches start, within the page budget.
StartWave ==
    LET n == Smallest(Smallest(Tasks, MaxPages - crPages), Len(crFrontier)) IN
    /\ crPhase = "crawl" /\ crWave = {}
    /\ crFrontier # <<>> /\ crPages < MaxPages
    /\ crWave' = ToSet(SubSeq(crFrontier, 1, n))
    /\ crFrontier' = SubSeq(crFrontier, n + 1, Len(crFrontier))
    /\ UNCHANGED <<crSite, crVisited, crPages, crFetched, crRead, crLost, crSent, crPhase, crClient>>

\* What a page reveals and was not seen: one URL per key, up to the cap.
Fresh(links, seen) == {u \in links \cap Scope : Key[u] \notin seen}
NewVisits(links, seen) ==
    {C \in SUBSET Fresh(links, seen) :
        /\ Cardinality(KeysOf(C)) = Cardinality(C)
        /\ \/ KeysOf(C) = KeysOf(Fresh(links, seen))
           \/ Cardinality(C) + Cardinality(seen) = MaxVisited
        /\ Cardinality(C) + Cardinality(seen) <= MaxVisited \/ C = {}}

\* Children that are not assets, when they may still be followed, are queued in
\* the order of the page; assets and deeper pages are reported at once.
Queued(C, d) == IF d + 1 <= MaxDepth THEN C \ Static ELSE {}
Told(C, d) == (C \cap Tracked) \cup IF d + 1 <= MaxDepth THEN {} ELSE C \ Static

\* fetch_page: the links of an answer, and the calls and forms found in it.
Links(u, answered) == IF answered THEN crSite.links[u] ELSE {}
Calls(u, answered) == IF answered THEN crSite.calls[u] ELSE {}

\* A fetch is joined; one that failed is a page with status 0 and no links.
JoinPage(v) ==
    /\ crPhase = "crawl" /\ v \in crWave
    /\ crWave' = crWave \ {v}
    /\ crPages' = crPages + 1
    /\ crFetched' = crFetched \cup {v}
    /\ \E answered \in BOOLEAN : \E C \in NewVisits(Links(v.url, answered), crVisited) :
        \E q \in SetToSeqs(Queued(C, v.depth)) :
            /\ crRead' = IF answered THEN crRead \cup {v.url} ELSE crRead
            /\ crVisited' = crVisited \cup KeysOf(C)
            /\ crFrontier' = crFrontier \o
                 [k \in DOMAIN q |-> [url |-> q[k], depth |-> v.depth + 1]]
            /\ crSent' = crSent \cup {v.url} \cup Told(C, v.depth)
                        \cup (Calls(v.url, answered) \cap Scope)
    /\ UNCHANGED <<crSite, crLost, crPhase, crClient>>

\* The task of a fetch panics: it counts for nothing.
LosePage(v) ==
    /\ crPhase = "crawl" /\ v \in crWave
    /\ Cardinality(crLost) < MaxPanic
    /\ crWave' = crWave \ {v}
    /\ crLost' = crLost \cup {v}
    /\ UNCHANGED <<crSite, crFrontier, crVisited, crPages, crFetched, crRead, crSent,
                   crPhase, crClient>>

\* Nothing is left, or the budget is used up.
CrawlStops ==
    /\ crPhase = "crawl" /\ crWave = {}
    /\ crFrontier = <<>> \/ crPages >= MaxPages
    /\ crPhase' = "drain"
    /\ UNCHANGED <<crSite, crFrontier, crVisited, crWave, crPages, crFetched, crRead, crLost,
                   crSent, crClient>>

\* Mutant: what the budget left unfetched is forgotten.
DrainForgets ==
    /\ crPhase = "drain"
    /\ crFrontier' = <<>>
    /\ crPhase' = "specs"
    /\ UNCHANGED <<crSite, crVisited, crWave, crPages, crFetched, crRead, crLost, crSent, crClient>>

\* The URLs that are known and were not fetched are reported.
DrainFrontier ==
    /\ crPhase = "drain"
    /\ crSent' = crSent \cup UrlsOf(ToSet(crFrontier))
    /\ crFrontier' = <<>>
    /\ crPhase' = "specs"
    /\ UNCHANGED <<crSite, crVisited, crWave, crPages, crFetched, crRead, crLost, crClient>>

\* probe_specs: some of the well-known locations answer with routes; then done.
ProbeSpecs ==
    /\ crPhase = "specs"
    /\ \E S \in SUBSET crSite.specs : crSent' = crSent \cup (S \cap Scope)
    /\ crPhase' = "done"
    /\ UNCHANGED <<crSite, crFrontier, crVisited, crWave, crPages, crFetched, crRead, crLost,
                   crClient>>

\* Writing to the client fails: the events go nowhere, the crawl goes on.
CrawlHangUp ==
    /\ crClient = "there" /\ crPhase # "done"
    /\ crClient' = "gone"
    /\ UNCHANGED <<crSite, crFrontier, crVisited, crWave, crPages, crFetched, crRead, crLost,
                   crSent, crPhase>>

-----------------------------------------------------------------------------
CrawlStep ==
    \/ StartWave \/ CrawlStops \/ DrainFrontier \/ ProbeSpecs
    \/ \E v \in crWave : JoinPage(v)

CrawlNext == CrawlStep \/ CrawlHangUp \/ \E v \in crWave : LosePage(v)

CrawlSpec == CrawlInit /\ [][CrawlNext]_crVars

-----------------------------------------------------------------------------
(* Properties *)

\* Once the crawl is over nothing it learned is missing: each page that a page it
\* read links to, as far as it is in scope, is reported or stands for one that is
\* (same key), whatever the budget, the depth and the order of the fetches.  The
\* exceptions are pages whose task panicked, a full visited set, and the key of an
\* asset that is not tracked: a page whose path is that of an asset with a final
\* slash shares its key.
CrawlCovers ==
    crPhase = "done" /\ Cardinality(crVisited) < MaxVisited =>
        \A p \in crRead : \A u \in crSite.links[p] \cap Scope :
            Key[u] \in KeysOf((Static \ Tracked) \cup crSent \cup UrlsOf(crLost))
=============================================================================
