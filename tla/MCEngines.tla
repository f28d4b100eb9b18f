----------------------------- MODULE MCEngines -----------------------------
(***************************************************************************)
(* What scans: the port scanner, the subdomain engine, the crawler, the    *)
(* recursive operation handlers, the shared pace, the takeover check, the  *)
(* active checks, the interaction store alone, and a vulnerability scan    *)
(* together with that store.  They share no state but for the last two, so *)
(* one run checks them all: focus picks the one that runs, the others stay *)
(* at their start.                                                         *)
(***************************************************************************)
EXTENDS PulseScan, VoyageScan, Crawl, Recursion, Cortex, Confirm, MCTakeover, Pace

CONSTANTS
    e1, e2,                          \* enumerations
    s0, a, b, b2, c, css, png, ext,  \* URLs
    dir, sub, leaf, file, deep,      \* places of a recursive operation
    c1,                              \* a correlation
    ep1, ep2, q1, j1, x1             \* endpoints and sites

VARIABLE focus

loopVars == <<puVars, vyVars, crVars, rcVars>>
checkVars == <<cfVars, tkVars, pcVars>>
engineVars == <<focus, loopVars, cortexVars, checkVars>>

\* Two pools for the first enumeration and one worker for the second.
MCWorker == {<<e1, 0>>, <<e1, 1>>, <<e2, 0>>}

MCRequest ==
    {[mode |-> "stream",  pool |-> "fixed",    fresh |-> FALSE],
     [mode |-> "instant", pool |-> "adaptive", fresh |-> FALSE],
     [mode |-> "queue",   pool |-> "fixed",    fresh |-> TRUE],
     [mode |-> "stream",  pool |-> "none",     fresh |-> FALSE]}

\* b2 is b with a fragment: the same key.
MCKey == [u \in Url |-> IF u = b2 THEN b ELSE u]

NoLinks == [u \in Url |-> {}]
WideSite ==
    [links |-> (s0 :> {a, b, ext}) @@ (a :> {b2, c, css}) @@ (b :> {c, png, s0})
               @@ (c :> {a}) @@ NoLinks,
     calls |-> (a :> {c, ext}) @@ NoLinks,
     specs |-> {c}]
DeepSite ==
    [links |-> (s0 :> {a}) @@ (a :> {b}) @@ (b :> {c, s0}) @@ (c :> {css}) @@ NoLinks,
     calls |-> NoLinks,
     specs |-> {}]
MCSites == {WideSite, DeepSite}

MCTree == (dir :> {sub, leaf, file}) @@ (sub :> {deep, file}) @@ (leaf :> {deep})
          @@ (deep :> {sub}) @@ (file :> {})

Template(oob, fires, byId, bySev) ==
    [oob |-> oob, fires |-> fires, byId |-> byId, bySev |-> bySev]

\* An out-of-band template, one a filter passes over, and one that is matched.
MCLoads ==
    {<<Template(TRUE, TRUE, TRUE, TRUE), Template(FALSE, TRUE, FALSE, TRUE),
       Template(FALSE, TRUE, TRUE, TRUE)>>,
     <<Template(TRUE, FALSE, TRUE, TRUE), Template(FALSE, TRUE, TRUE, FALSE),
       Template(FALSE, TRUE, TRUE, TRUE)>>}
MCCorr == [t \in 1..3 |-> c1]

SitePlace == {ep1, ep2, q1, j1, x1}
Like(open, quirks) == [open |-> open, quirks |-> quirks]
Sound == [x \in SitePlace |-> Like({}, {})]
\* A target with nothing to find, one with much, and one with quirks only but for
\* a call back.
OpenTarget ==
    (q1 :> Like({<<"sqli", "delay">>, <<"xss", "marker">>, <<"redirect", "marker">>}, {}))
    @@ (j1 :> Like({<<"xss", "marker">>, <<"nosql", "size">>, <<"lfi", "marker">>,
                    <<"type", "error">>, <<"bfla", "status">>, <<"argument", "error">>}, {}))
    @@ (x1 :> Like({<<"cmdi", "delay">>, <<"crlf", "marker">>}, {}))
    @@ (ep1 :> Like({<<"cors", "marker">>, <<"inventory", "status">>, <<"massassign", "echo">>,
                     <<"field", "size">>, <<"schema", "status">>, <<"dos", "status">>,
                     <<"sensitive", "status">>}, {}))
    @@ (ep2 :> Like({<<"ratelimit", "status">>, <<"inventory", "status">>, <<"mined", "error">>,
                     <<"field", "size">>}, {}))
QuirkyTarget ==
    (q1 :> Like({}, {"fragile", "slow"})) @@ (j1 :> Like({}, {"wobbly"}))
    @@ (x1 :> Like({<<"ssrf", "proof">>}, {"broken"})) @@ (ep1 :> Like({}, {"echoing"}))
    @@ (ep2 :> Like({}, {"broken"}))
MCTargets == {Sound, OpenTarget, QuirkyTarget}
MCEndpoints == <<ep1, ep2>>
MCSitesOf == (ep1 :> <<q1, j1>>) @@ (ep2 :> <<x1>>)
\* The second endpoint names as many fields as one endpoint may bring.
MCNamed == (ep1 :> 1) @@ (ep2 :> 2)
\* One path in two versions.
MCFamily == [e \in {ep1, ep2} |-> ep1]

Focus == {"pulse", "voyage", "crawl", "recursion", "oast", "cortex", "confirm", "takeover", "pace"}

EnginesInit ==
    /\ focus \in Focus
    /\ PulseInit /\ VoyageInit /\ CrawlInit /\ RecursionInit /\ CortexInit
    /\ ConfirmInit /\ TakeoverInit /\ PaceInit
    /\ puReq \in {[mode |-> "stream", adaptive |-> TRUE],
                  [mode |-> "instant", adaptive |-> FALSE],
                  [mode |-> "queue", adaptive |-> FALSE]}
    /\ puOp = IF puReq.mode = "stream" THEN "none" ELSE "queued"
    /\ vyReq[e2].mode = "queue" /\ vyReq[e1].mode # "queue"
    /\ focus # "pulse" => puReq.mode = "stream"
    /\ focus # "voyage" => vyReq[e1].mode = "instant"
    /\ focus # "crawl" => crSite = WideSite
    /\ focus # "recursion" => rcOp.enum /\ rcOp.passive
    /\ focus # "cortex" => Tmpl[1].fires
    /\ focus # "confirm" => cfMode = "inject" /\ cfTarget = Sound
    /\ focus # "takeover" => tkZone = OpenZone
    /\ focus # "pace" => ~ pcSlow

EnginesNext ==
    /\ UNCHANGED focus
    /\ \/ /\ UNCHANGED checkVars
          /\ \/ focus = "pulse" /\ PulseNext /\ UNCHANGED <<vyVars, crVars, rcVars, cortexVars>>
             \/ focus = "voyage" /\ VoyageNext /\ UNCHANGED <<puVars, crVars, rcVars, cortexVars>>
             \/ focus = "crawl" /\ CrawlNext /\ UNCHANGED <<puVars, vyVars, rcVars, cortexVars>>
             \/ focus = "recursion" /\ RecursionNext
                /\ UNCHANGED <<puVars, vyVars, crVars, cortexVars>>
             \/ focus = "oast" /\ OastNext /\ UNCHANGED <<loopVars, cxVars>>
             \/ focus = "cortex" /\ CortexNext /\ UNCHANGED loopVars
       \/ /\ UNCHANGED <<loopVars, cortexVars>>
          /\ \/ focus = "confirm" /\ ConfirmNext /\ UNCHANGED <<tkVars, pcVars>>
             \/ focus = "takeover" /\ TakeoverNext /\ UNCHANGED <<cfVars, pcVars>>
             \/ focus = "pace" /\ PaceNext /\ UNCHANGED <<cfVars, tkVars>>

\* Tasks are scheduled by tokio.  Their calls to a target have a timeout; that the
\* database answers, and that an engine ends the stream its handler reads, is
\* assumed.  The chunks that share a pace go on observing outcomes.
EnginesFair ==
    /\ WF_puVars(focus = "pulse" /\ (ScanStep \/ \E p \in Probe : ProbeStep(p)))
    /\ WF_puVars(focus = "pulse" /\ GovStep)
    /\ \A w \in Worker : WF_vyVars(focus = "voyage" /\ WorkerStep(w))
    /\ WF_vyVars(focus = "voyage" /\ \E e \in Enum : PrepareStep(e) \/ EnumDone(e))
    /\ WF_crVars(focus = "crawl" /\ CrawlStep)
    /\ WF_rcVars(focus = "recursion" /\ RecursionStep)
    /\ WF_cortexVars(focus = "cortex" /\ EngineStep)
    /\ WF_cortexVars(focus = "cortex" /\ HandlerStep)
    /\ WF_cfVars(focus = "confirm" /\ ConfirmStep)
    /\ WF_tkVars(focus = "takeover" /\ TakeoverStep)
    /\ \A k \in Chunk : WF_pcVars(focus = "pace" /\ ObserveStep(k))

EnginesSpec == EnginesInit /\ [][EnginesNext]_engineVars /\ EnginesFair

-----------------------------------------------------------------------------
\* The engine that runs keeps its variables in their types.
EnginesTypeOK ==
    CASE focus = "pulse"     -> PulseTypeOK
      [] focus = "voyage"    -> VoyageTypeOK
      [] focus = "crawl"     -> CrawlTypeOK
      [] focus = "recursion" -> RecursionTypeOK
      [] focus \in {"oast", "cortex"} -> CortexTypeOK
      [] focus = "confirm"   -> ConfirmTypeOK
      [] focus = "takeover"  -> TakeoverTypeOK
      [] focus = "pace"      -> PaceTypeOK

\* Every report is backed by the target: what a vulnerability scan finds
\* (FindingsBacked), what the active checks confirm although an answer may be wrong
\* (ConfirmBacked), and what the takeover check reports although a lookup may fail
\* (TakeoverBacked).
ReportsBacked == FindingsBacked /\ ConfirmBacked /\ TakeoverBacked

\* What is there is reached: the pages of a crawl (CrawlCovers), the places the
\* active checks look at (ConfirmCovers), the hosts of a takeover check
\* (TakeoverCovers).
ScanCovers == CrawlCovers /\ ConfirmCovers /\ TakeoverCovers

EngineEnded ==
    CASE focus = "pulse"     -> PulseEnded
      [] focus = "voyage"    -> \A e \in Enum : EnumEnds(e)
      [] focus = "crawl"     -> crPhase = "done"
      [] focus = "recursion" -> rcPhase \in {"completed", "cancelled", "unreachable"}
      [] focus = "cortex"    -> cxNode # "reading"
      [] focus = "confirm"   -> cfPhase \in {"done", "failed"}
      [] focus = "takeover"  -> tkPhase \in {"done", "error", "gone"}
      [] focus = "pace"      -> AtFullPace
      [] focus = "oast"      -> TRUE

\* No engine hangs, from any state.  A port scan ends although its limit shrinks
\* under load (scanner.rs, governor.rs); enumerations end although their workers
\* wait for each other's rows (voyage scanner.rs); a crawl ends on a cyclic site
\* (crawler.rs); a recursive handler ends with its frontier
\* (content_discovery.rs); and a vulnerability scan comes back to its handler
\* whatever the target answers (engine.rs, vuln_scan.rs); the active checks and the
\* takeover check end; and a pace that backed off comes back to full speed once its
\* host answers, whatever order its chunks tick and publish in (TargetPace.observe).
\* The store owes nothing.
EnginesEnd == []<>EngineEnded

Waiting == InStatus("queued") \cup InStatus("scanning")

\* The subdomain engine does what a scan engine promises (ScanJob): rows that
\* wait for a worker, rows with a result, rows a failed call left behind.
VoyageJob == INSTANCE ScanJob WITH
    Item <- Name,
    todo <- Waiting \ vyStuck,
    settled <- InStatus("found") \cup InStatus("not_found"),
    lost <- vyStuck \cap Waiting,
    over <- Settled /\ Dependable

\* VoyageScan implements ScanJob: no step of two enumerations, a fresh start or
\* a crash makes a row disappear, or calls the scan over while a row waits.
VoyageKeepsItems == VoyageJob!SjSpec
=============================================================================
