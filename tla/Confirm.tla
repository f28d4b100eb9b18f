------------------------------ MODULE Confirm ------------------------------
(***************************************************************************)
(* The active checks of the cortex daemon: inject, fuzz, discover and      *)
(* graphql.  Each goes through the endpoints of its request and the checks *)
(* that apply to them, and reports what it could confirm.                  *)
(*                                                                         *)
(* A check is a list of attempts, an attempt a list of requests, each with *)
(* what its answer has to show.  What is sent is left out, and one attempt *)
(* stands for the variants the code loops over in the same way.  A target  *)
(* may be open to a check, it may have quirks that look like it (some come *)
(* and go from one answer to the next), and up to MaxNoise answers are not *)
(* its own: wrong (a hiccup of the network, of a cache, of a busy server)  *)
(* or missing.                                                             *)
(***************************************************************************)
EXTENDS Integers, Sequences, SequencesExt, FiniteSets

CONSTANTS
    Endpoints,     \* the endpoints of a request, in order
    SitesOf,       \* per endpoint: its sites (graphql: the fields of its schema)
    JsonBody,      \* sites in a JSON body
    Hinted,        \* sites whose name or value hints at a URL
    Versioned,     \* endpoints with a version in their path
    Sensitive,     \* endpoints of a sensitive flow
    Mutation,      \* graphql fields that are mutations (the others are queries),
    StringArg,     \*   that take a string,
    Privileged,    \*   that have a privileged name
    TestWrites,    \* test_writes: mutations may be called
    Named,         \* per endpoint: the fields its validation errors name
    MaxNew,        \* MAX_NEW_PER_EP
    Family,        \* per endpoint: its path with the version blanked
    Targets,       \* what the places of a target may be like
    MaxEndpoints,  \* MAX_ENDPOINTS
    MaxSites,      \* MAX_SITES_PER_EP, MAX_FIELDS_PER_EP
    UseOast,       \* an interaction server is configured
    MaxNoise       \* bound: wrong or missing answers

ASSUME ConfirmAssumption ==
    /\ MaxEndpoints \in Nat \ {0} /\ MaxSites \in Nat \ {0} /\ MaxNew \in Nat \ {0}
    /\ MaxNoise \in Nat
    /\ UseOast \in BOOLEAN /\ TestWrites \in BOOLEAN
    /\ Endpoints \in Seq(DOMAIN SitesOf)
    /\ \A e \in DOMAIN SitesOf : SitesOf[e] \in Seq(Range(SitesOf[e]))

VARIABLES
    cfMode,     \* the daemon's mode
    cfTarget,   \* per place: the signs it shows by fault (open) and by nature (quirks)
    cfPhase,    \* "start", "run", "done", or "failed" before it began
    cfAt,       \* where the loops are,
    cfTry,      \*   the attempt of the check there,
    cfReq,      \*   and the request of that
    cfDirty,    \* the site's baseline is an error page itself
    cfPast,     \* groups of checks that are given up, families that were looked at
    cfFound,    \* findings sent to the handler
    cfTold,     \* findings written to the client
    cfClient,   \* the client reads
    cfNoise,    \* answers so far that were not the target's
    cfLucky     \* checks whose control fell on a moment an unsteady place looked steady

cfItemVars == <<cfAt, cfTry, cfReq>>
cfRequest == <<cfMode, cfTarget>>
cfVars == <<cfRequest, cfPhase, cfItemVars, cfDirty, cfPast, cfFound, cfTold, cfClient, cfNoise, cfLucky>>

CfMode == {"inject", "fuzz", "discover", "graphql"}

-----------------------------------------------------------------------------
(* The checks *)

\* What a request expects: the sign (hit); no sign, as a control (clean) or as
\* the usual value (plain); the sign but not the control's (alone); or any answer.
\* Then what a missing answer and what an unexpected one do to the check.
Step(expect, missing, other) == [expect |-> expect, missing |-> missing, other |-> other]
Hit == Step("hit", "next", "next")
Clean == Step("clean", "next", "next")
Attempt(signal, steps) == [signal |-> signal, steps |-> steps]
Twice(signal) == Attempt(signal, <<Hit, Hit>>)
\* A sign with a control, and again.
Controlled(signal) == Attempt(signal, <<Hit, Clean, Hit>>)

\* Error text; an error page that two balanced forms do not show; a difference
\* above the page's own jitter (whose sample may be missing), twice; a delay.
ProbeSqli ==
    << Controlled("error"),
       Attempt("error", <<Hit, Clean, Clean, Hit>>),
       Attempt("size", <<Step("plain", "ok", "next"), Hit, Hit>>),
       Controlled("delay") >>
\* A product only a shell computes, a call back (these come from nowhere else:
\* proof), or a delay.
CalledBack == IF UseOast THEN << Attempt("proof", <<Hit>>) >> ELSE <<>>
ProbeCmdi == << Attempt("proof", <<Hit>>) >> \o CalledBack \o << Controlled("delay") >>
ProbeSsrf == CalledBack
\* Reflected at all, reflected intact, and again.
ProbeXss == << Attempt("marker", <<Step("hit", "end", "end"), Hit, Hit>>), Twice("marker") >>
\* An answer that is missing ends these two.
Insist == Step("hit", "end", "next")
ProbeLfi == << Attempt("marker", <<Insist, Insist>>), Attempt("marker", <<Insist, Insist>>) >>
ProbeSsti == ProbeLfi
ProbeCrlf == << Twice("marker"), Twice("marker") >>
ProbeNosql == << Twice("size") >>
ProbeOpenRedirect == << Twice("marker"), Twice("marker") >>
ProbeCors == << Twice("marker") >>
\* One answer that is not "not found".
ProbeInventory == << Attempt("status", <<Hit>>) >>
\* A burst of which no answer is throttled and three quarters come.
ProbeRatelimit == << Attempt("status", [i \in 1..4 |-> Step("hit", "ok", "next")]) >>

ProbeTypefuzz == << Twice("error"), Twice("error") >>
ProbeMassassign == << Attempt("echo", <<Step("alone", "next", "next")>>) >>

\* A validation error that names a field; a field that differs from two that
\* cannot exist, twice.
MineFields == << Attempt("error", <<Hit>>) >>
BruteFields ==
    LET calibrate == Step("clean", "end", "end")
    IN << Attempt("size", <<calibrate, calibrate, Hit, Hit>>) >>

\* What one document's answer shows.
OneDocument == << Attempt("status", <<Hit>>) >>
ProbeFieldInjection ==
    << Attempt("error", <<Step("plain", "ok", "next"), Hit, Clean>>) >> \o CalledBack

\* The usual value, asked for before the checks of a site, or of its types.
SiteBaseline == << Attempt("error", <<Step("any", "end", "end")>>) >>
TypeBaseline == << Attempt("error", <<Step("plain", "end", "end")>>) >>

AttemptsOf(class) ==
    CASE class = "sqli" -> ProbeSqli [] class = "cmdi" -> ProbeCmdi
      [] class = "ssrf" -> ProbeSsrf [] class = "xss" -> ProbeXss
      [] class = "lfi" -> ProbeLfi [] class = "ssti" -> ProbeSsti
      [] class = "crlf" -> ProbeCrlf [] class = "nosql" -> ProbeNosql
      [] class = "redirect" -> ProbeOpenRedirect [] class = "cors" -> ProbeCors
      [] class = "inventory" -> ProbeInventory [] class = "ratelimit" -> ProbeRatelimit
      [] class = "type" -> ProbeTypefuzz [] class = "massassign" -> ProbeMassassign
      [] class = "mined" -> MineFields [] class = "field" -> BruteFields
      [] class \in {"schema", "suggestion", "dos", "batching", "sensitive", "bfla"} -> OneDocument
      [] class = "argument" -> ProbeFieldInjection
      [] class = "baseline" -> SiteBaseline [] class = "typebase" -> TypeBaseline

-----------------------------------------------------------------------------
(* The order of the checks *)

FirstOf(seq, n) == SubSeq(seq, 1, IF Len(seq) < n THEN Len(seq) ELSE n)

\* A part of the loop over the endpoints: checks of the endpoint itself, or of
\* each of its sites.
Part(each, classes) == [each |-> each, classes |-> classes]

InjectPlan ==
    << Part(FALSE, <<"inventory", "ratelimit", "cors">>),
       Part(TRUE, <<"baseline", "sqli", "cmdi", "ssrf", "xss", "lfi", "ssti", "crlf",
                    "nosql", "redirect">>) >>
FuzzPlan == << Part(FALSE, <<"typebase">>), Part(TRUE, <<"type">>), Part(FALSE, <<"massassign">>) >>
DiscoverPlan == << Part(FALSE, <<"mined", "field">>) >>
\* One document endpoint; the slow checks of its arguments come last.
GraphqlPlan ==
    << Part(FALSE, <<"schema", "suggestion", "dos", "batching", "sensitive">>),
       Part(TRUE, <<"bfla">>), Part(TRUE, <<"argument">>) >>
Plans == [inject |-> InjectPlan, fuzz |-> FuzzPlan, discover |-> DiscoverPlan,
          graphql |-> GraphqlPlan]

TakenBy(mode) == FirstOf(Endpoints, IF mode = "graphql" THEN 1 ELSE MaxEndpoints)
SitesFor(mode, e) == IF mode = "graphql" THEN SitesOf[e] ELSE FirstOf(SitesOf[e], MaxSites)

\* What a part looks at, for the i-th endpoint.
Spots(mode, i, part) ==
    IF Plans[mode][part].each THEN SitesFor(mode, TakenBy(mode)[i]) ELSE << TakenBy(mode)[i] >>

\* Where the loops are, and their order.
Slot(i, part, site, check) == [ep |-> i, part |-> part, site |-> site, check |-> check]
SlotsOf(mode, i, part) ==
    {Slot(i, part, site, check) :
        site \in 1..Len(Spots(mode, i, part)), check \in 1..Len(Plans[mode][part].classes)}
Slots == [mode \in CfMode |->
    UNION {SlotsOf(mode, i, part) : i \in 1..Len(TakenBy(mode)), part \in 1..Len(Plans[mode])}]
Precedes(k, l) ==
    \/ k.ep < l.ep
    \/ k.ep = l.ep /\ k.part < l.part
    \/ k.ep = l.ep /\ k.part = l.part /\ k.site < l.site
    \/ k.ep = l.ep /\ k.part = l.part /\ k.site = l.site /\ k.check < l.check
Start == Slot(0, 0, 0, 0)
End == Slot(Len(Endpoints) + 1, 0, 0, 0)

\* The checks that are given up together: those of a site, those that need a well
\* typed baseline, those that need a schema.
GroupOf(k, class) ==
    CASE class \in {"typebase", "type"} -> <<"type", k.ep>>
      [] class \in {"schema", "dos", "sensitive", "bfla", "argument"} -> <<"schema", k.ep>>
      [] OTHER -> <<"site", k.ep, k.part, k.site>>
ItemAt(mode, k) ==
    LET class == Plans[mode][k.part].classes[k.check]
    IN [on |-> Spots(mode, k.ep, k.part)[k.site], class |-> class, group |-> GroupOf(k, class)]

\* inv_seen keeps path families, rl_seen and cors_seen endpoints.
SeenKey(item) == <<item.class, IF item.class = "inventory" THEN Family[item.on] ELSE item.on>>
OncePerKey == {"inventory", "ratelimit", "cors"}

\* Whether a check looks at a place at all.
Suits(item) ==
    CASE item.class = "inventory" -> item.on \in Versioned
      [] item.class = "ratelimit" -> item.on \in Sensitive
      [] item.class = "ssrf" -> UseOast /\ item.on \in Hinted
      [] item.class = "redirect" -> item.on \in Hinted
      [] item.class \in {"nosql", "type"} -> item.on \in JsonBody
      [] item.class = "crlf" -> item.on \notin JsonBody
      [] item.class \in {"typebase", "massassign"} ->
            \E i \in 1..Len(SitesOf[item.on]) : SitesOf[item.on][i] \in JsonBody
      [] item.class = "dos" ->
            \E i \in 1..Len(SitesOf[item.on]) : SitesOf[item.on][i] \notin Mutation \cup StringArg
      [] item.class = "bfla" -> item.on \in Privileged /\ (item.on \in Mutation => TestWrites)
      [] item.class = "argument" -> item.on \in StringArg
      [] OTHER -> TRUE
Applies(item) ==
    /\ Suits(item)
    /\ item.group \notin cfPast
    /\ item.class \in OncePerKey => SeenKey(item) \notin cfPast

\* A finding of these ends the checks of its site.
Stops == {"sqli", "cmdi", "ssrf"}
\* So does an error that names as many fields as one endpoint may bring.
EndsPlace(f) == f.class \in Stops \/ (f.class = "mined" /\ Named[f.on] >= MaxNew)
\* These are asked for only to compare with.
Samples == {"baseline", "typebase"}
\* A failure of these ends the checks that rest on them.
Gates == {"baseline", "typebase", "schema"}

-----------------------------------------------------------------------------
(* The run *)

ConfirmTypeOK ==
    /\ cfMode \in CfMode /\ cfTarget \in Targets
    /\ cfPhase \in {"start", "run", "done", "failed"}
    /\ cfAt \in Slots[cfMode] \cup {Start, End} /\ cfTry \in Nat \ {0} /\ cfReq \in Nat \ {0}
    /\ cfTold \subseteq cfFound
    /\ \A f \in cfFound \cup cfLucky :
           \E k \in Slots[cfMode] : LET item == ItemAt(cfMode, k)
                                   IN f = [on |-> item.on, class |-> item.class]
    /\ cfDirty \in BOOLEAN /\ cfClient \in BOOLEAN /\ cfNoise \in 0..MaxNoise

ConfirmInit ==
    /\ cfMode \in CfMode /\ cfTarget \in Targets
    /\ cfPhase = "start"
    /\ cfAt = Start /\ cfTry = 1 /\ cfReq = 1
    /\ cfDirty = FALSE /\ cfPast = {} /\ cfFound = {} /\ cfTold = {}
    /\ cfClient = TRUE /\ cfNoise = 0 /\ cfLucky = {}

Current == ItemAt(cfMode, cfAt)
Attempts == AttemptsOf(Current.class)
CurrentStep == Attempts[cfTry].steps[cfReq]
Checking == cfPhase = "run" /\ cfAt # End

GoTo(at, try, req) == cfAt' = at /\ cfTry' = try /\ cfReq' = req

\* The loops go on with the first check behind the one at hand.
NextItem ==
    LET later == {l \in Slots[cfMode] \cup {End} : Precedes(cfAt, l)}
    IN \E l \in later : (\A r \in later : ~ Precedes(r, l)) /\ GoTo(l, 1, 1)

\* The request is read and the client built.
BeginConfirm ==
    /\ cfPhase = "start"
    /\ \/ cfPhase' = "failed" /\ UNCHANGED cfItemVars
       \/ Endpoints # <<>> /\ cfPhase' = "run" /\ NextItem
    /\ UNCHANGED <<cfRequest, cfDirty, cfPast, cfFound, cfTold, cfClient, cfNoise, cfLucky>>

PassOver ==
    /\ Checking /\ ~ Applies(Current)
    /\ NextItem
    /\ UNCHANGED <<cfRequest, cfPhase, cfDirty, cfPast, cfFound, cfTold, cfClient, cfNoise, cfLucky>>

\* The quirks that show a sign to any unusual request, and to every request.
OddlyShown(signal) ==
    CASE signal = "error" -> {"fragile", "broken"} [] signal = "size" -> {"wobbly"}
      [] signal = "delay" -> {"slow"} [] signal = "echo" -> {"echoing"} [] OTHER -> {}
AlwaysShown(signal) == OddlyShown(signal) \ {"fragile", "echoing"}

\* The target's own answer is what a request of a check expects.
Shows(item, signal, expect) ==
    LET fault  == <<item.class, signal>> \in cfTarget[item.on].open
        quirks == cfTarget[item.on].quirks
        odd    == quirks \cap OddlyShown(signal) # {}
    IN CASE expect = "hit"   -> fault \/ odd
         [] expect = "clean" -> ~ odd
         [] expect = "plain" -> quirks \cap AlwaysShown(signal) = {}
         [] expect = "alone" -> fault /\ ~ odd
         [] expect = "any"   -> TRUE
AsExpected == Shows(Current, Attempts[cfTry].signal, CurrentStep.expect)

FindingAtHand == [on |-> Current.on, class |-> Current.class]

\* A finding of the check at hand goes to the handler, which writes it to a
\* client that is there.
ReportFinding ==
    LET new == IF Current.class \in Samples THEN {} ELSE {FindingAtHand}
    IN /\ cfFound' = cfFound \cup new
       /\ cfTold' = IF cfClient THEN cfTold \cup new ELSE cfTold

\* What the check leaves behind, by whether it confirmed its sign.
LeaveBehind(confirmed) ==
    cfPast' = cfPast
        \cup (IF Current.class \in OncePerKey THEN {SeenKey(Current)} ELSE {})
        \cup (IF (confirmed /\ EndsPlace(Current)) \/ (~ confirmed /\ Current.class \in Gates)
              THEN {Current.group} ELSE {})

GiveUp == NextItem /\ LeaveBehind(FALSE) /\ UNCHANGED <<cfFound, cfTold>>

TryNext ==
    IF cfTry = Len(Attempts) THEN GiveUp
    ELSE GoTo(cfAt, cfTry + 1, 1) /\ UNCHANGED <<cfPast, cfFound, cfTold>>

\* An attempt's first hit is taken for proof (mutant).
MatchedAtOnce ==
    IF cfReq < Len(Attempts[cfTry].steps) /\ CurrentStep.expect # "hit"
    THEN GoTo(cfAt, cfTry, cfReq + 1) /\ UNCHANGED <<cfPast, cfFound, cfTold>>
    ELSE NextItem /\ LeaveBehind(TRUE) /\ ReportFinding

Matched ==
    IF cfReq < Len(Attempts[cfTry].steps)
    THEN GoTo(cfAt, cfTry, cfReq + 1) /\ UNCHANGED <<cfPast, cfFound, cfTold>>
    ELSE NextItem /\ LeaveBehind(TRUE) /\ ReportFinding

Proceed(how) == CASE how = "ok" -> Matched [] how = "next" -> TryNext [] how = "end" -> GiveUp

\* A site whose baseline is an error page is not asked about errors.
OutOfQuestion == cfDirty /\ Current.class = "sqli" /\ Attempts[cfTry].signal = "error"

\* What a wobbly or a slow place shows comes and goes.
Unsteady == cfTarget[Current.on].quirks \cap OddlyShown(Attempts[cfTry].signal) \cap {"wobbly", "slow"} # {}

\* One request and its answer: the target's own, one that shows the opposite, or
\* none.  An unsteady place may look like a steady one for once: the jitter of a
\* page is sampled once, and held against fixed thresholds.
Send ==
    /\ Checking /\ Applies(Current) /\ ~ OutOfQuestion /\ Current.class # "sensitive"
    /\ \E answer \in {"own", "wrong", "none"}, varied \in BOOLEAN :
           /\ answer # "own" => cfNoise < MaxNoise
           /\ answer = "wrong" => AsExpected \/ Attempts[cfTry].signal # "proof"
           /\ varied => answer = "own" /\ Unsteady
           /\ cfNoise' = IF answer = "own" THEN cfNoise ELSE cfNoise + 1
           /\ cfLucky' = cfLucky \cup IF varied /\ ~ AsExpected THEN {FindingAtHand} ELSE {}
           /\ Proceed(IF answer = "none" THEN CurrentStep.missing
                      ELSE IF (AsExpected <=> answer = "own" /\ ~ varied) \/ CurrentStep.expect = "any"
                      THEN "ok" ELSE CurrentStep.other)
           /\ cfDirty' = IF Current.class # "baseline" THEN cfDirty
                         ELSE "broken" \in cfTarget[Current.on].quirks <=> answer = "own"
    /\ UNCHANGED <<cfRequest, cfPhase, cfClient>>

\* The schema that was harvested is looked through for sensitive names; it is the
\* target's own if every answer was.
ReadSchema ==
    /\ Checking /\ Applies(Current) /\ Current.class = "sensitive"
    /\ \E named \in BOOLEAN :
           /\ (named <=> AsExpected) \/ cfNoise > 0
           /\ Proceed(IF named THEN "ok" ELSE CurrentStep.other)
    /\ UNCHANGED <<cfRequest, cfPhase, cfDirty, cfClient, cfNoise, cfLucky>>

SkipErrors ==
    /\ Checking /\ Applies(Current) /\ OutOfQuestion
    /\ TryNext
    /\ UNCHANGED <<cfRequest, cfPhase, cfDirty, cfClient, cfNoise, cfLucky>>

FinishConfirm ==
    /\ cfPhase = "run" /\ cfAt = End
    /\ cfPhase' = "done"
    /\ UNCHANGED <<cfRequest, cfItemVars, cfDirty, cfPast, cfFound, cfTold, cfClient, cfNoise, cfLucky>>

\* The client goes; the handler ends and the checks go on.
ClientHangsUp ==
    /\ cfClient
    /\ cfClient' = FALSE
    /\ UNCHANGED <<cfRequest, cfPhase, cfItemVars, cfDirty, cfPast, cfFound, cfTold, cfNoise, cfLucky>>

ConfirmStep == BeginConfirm \/ PassOver \/ Send \/ ReadSchema \/ SkipErrors \/ FinishConfirm
ConfirmNext == ConfirmStep \/ ClientHangsUp
ConfirmSpec == ConfirmInit /\ [][ConfirmNext]_cfVars

-----------------------------------------------------------------------------
Sought(class) == {AttemptsOf(class)[t].signal : t \in 1..Len(AttemptsOf(class))}
OpenTo(place, class) == \E sign \in Sought(class) : <<class, sign>> \in cfTarget[place].open
Quirky(place) == cfTarget[place].quirks # {}

\* These report on a single answer.
OneAnswer == {"inventory", "massassign", "mined", "schema", "suggestion", "dos", "batching",
              "sensitive", "bfla", "argument"}
\* A place that fails on any unusual request is open to these; the operator check
\* has no noise floor of its own.
Natural(f) ==
    \/ f.class \in {"type", "mined"} /\ cfTarget[f.on].quirks \cap {"fragile", "broken"} # {}
    \/ f.class = "nosql" /\ "wobbly" \in cfTarget[f.on].quirks

\* What is reported is there.  As long as one thing at most is misleading, a place
\* with quirks or one answer that is not the target's own, a check that repeats
\* its hits and holds them against a control reports no place that is not open to
\* it; a check that reports on one answer needs every answer to be the target's
\* (inject.rs: "a hit is re-issued (and ... checked against a control) before it
\* is reported").  It is no promise where the control itself fell on a moment an
\* unsteady place looked steady: one sample is all the code takes of its jitter.
ConfirmBacked ==
    \A f \in cfFound :
        \/ OpenTo(f.on, f.class) \/ Natural(f)
        \/ cfNoise + (IF Quirky(f.on) THEN 1 ELSE 0) > 1
        \/ f.class \in OneAnswer /\ cfNoise > 0
        \/ f \in cfLucky

\* A stopping finding at the site, an item before it that stands for its family,
\* or nothing to go by.
Shadowed(k) ==
    LET item == ItemAt(cfMode, k)
        earlier == {ItemAt(cfMode, l) : l \in {r \in Slots[cfMode] : Precedes(r, k)}}
    IN \/ \E f \in cfFound : EndsPlace(f) /\ f.on = item.on
       \/ \E x \in earlier : /\ item.class \in OncePerKey /\ x.class = item.class
                             /\ Suits(x) /\ SeenKey(x) = SeenKey(item)
       \/ \E x \in earlier : /\ x.group = item.group
                             /\ \/ x.class = "typebase" /\ Quirky(x.on)
                                \/ x.class = "schema" /\ ~ OpenTo(x.on, "schema")

\* A place without quirks that is open to a check that looks at it.
Due(item) ==
    /\ OpenTo(item.on, item.class) /\ ~ Quirky(item.on)
    /\ Suits(item) /\ item.class \notin Samples

\* What is there is reported: when every answer was the target's own and the
\* client read to the end, a place without quirks that is open to a check that
\* looks at it was told, unless a graver finding ended the checks of its site, the
\* check was done for another of its family, or there was no schema to go by
\* (run of inject.rs, fuzz.rs, discover.rs and graphql.rs).
ConfirmCovers ==
    cfPhase = "done" /\ cfNoise = 0 /\ cfClient =>
        \A k \in Slots[cfMode] :
            LET item == ItemAt(cfMode, k)
            IN Due(item) => [on |-> item.on, class |-> item.class] \in cfTold \/ Shadowed(k)
=============================================================================
