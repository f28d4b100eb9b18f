------------------------------- MODULE Cortex -------------------------------
(***************************************************************************)
(* A template scan: the node's vuln-scan handler, the cortex daemon and    *)
(* engine it streams from, the target, and the OAST store (module Oast)    *)
(* through which out-of-band templates are confirmed.  cortex is its only  *)
(* client here: what several clients do to the store is checked in Oast.   *)
(*                                                                         *)
(* A template stands for one of its requests.  An answer is what fetch     *)
(* returns after its bounded retries: the page matches, is a challenge, is *)
(* anything else, or never came.  Matchers, payloads, identities and       *)
(* sealing are left out, and so are the modes other than "scan".           *)
(***************************************************************************)
EXTENDS Oast

CONSTANTS
    Loads,       \* what may be loaded: templates [oob, fires, byId, bySev] in order
    CxCorr,      \* the correlation drawn for the template in each place
    RlTries,     \* backoffs on a rate limit, 4 in react
    BlockTries,  \* backoffs on a block or challenge, 2 in react
    Polls,       \* polls of one correlation, 4 in eval_template
    Broker,      \* the challenge policy may hand over to a solver
    MayCrash     \* the daemon may die

ASSUME CortexAssumption ==
    /\ Loads \subseteq Seq([oob : BOOLEAN, fires : BOOLEAN, byId : BOOLEAN, bySev : BOOLEAN])
    /\ \A load \in Loads : DOMAIN load \subseteq DOMAIN CxCorr
    /\ \A t \in DOMAIN CxCorr : CxCorr[t] \in Corr
    /\ RlTries \in Nat /\ BlockTries \in Nat /\ Polls \in Nat \ {0}
    /\ Broker \in BOOLEAN /\ MayCrash \in BOOLEAN

VARIABLES
    Tmpl,       \* the templates loaded for this scan
    cxPc,       \* where the engine is
    cxAttempt,  \* challenges met on the base
    cxCleared,  \* clearance: the solver's cookie is there
    cxAt,       \* current template
    cxPolls,    \* polls made for the current template
    cxHit,      \* hits > 0
    cxDone,     \* done: templates worked off
    cxChan,     \* events between the engine and the handler
    cxNode,     \* the handler: idle, reading, failed, halted, completed
    cxGot,      \* findings the handler relayed
    cxProg,     \* processed and total, as the handler knows them
    cxFired,    \* templates whose payload went out
    cxSeen      \* history: matching answers of each template

cxEngine == <<cxPc, cxAttempt, cxCleared, cxAt, cxPolls, cxHit, cxDone>>
cxHandler == <<cxNode, cxGot, cxProg>>
cxVars == <<Tmpl, cxEngine, cxChan, cxHandler, cxFired, cxSeen>>
cortexVars == <<cxVars, oaVars>>

TmplAt == DOMAIN Tmpl
Finding == {"waf", "header"} \X {0} \cup {"template"} \X TmplAt
Fetching == {"detect", "evade", "confirm"}
EngineOver == cxPc \in {"ended", "dead"}

\* The templates the id filter admits: what progress is measured against.
TotalTemplates == Cardinality({t \in TmplAt : Tmpl[t].byId})

CortexTypeOK ==
    /\ OastTypeOK
    /\ Tmpl \in Loads
    /\ cxPc \in Fetching \cup {"idle", "base", "next", "register", "fire", "wait",
                               "asked", "dereg", "ended", "dead"}
    /\ cxAttempt \in 0..(RlTries + BlockTries + 1) /\ cxCleared \in BOOLEAN
    /\ cxAt \in 1..(Len(Tmpl) + 1) /\ cxPolls \in 0..Polls /\ cxHit \in BOOLEAN
    /\ cxDone \in 0..Len(Tmpl)
    /\ cxNode \in {"idle", "reading", "failed", "halted", "completed"}
    /\ cxGot \subseteq Finding
    /\ cxProg \in [done : 0..Len(Tmpl), total : 0..Len(Tmpl)]
    /\ cxFired \subseteq TmplAt /\ cxSeen \in [TmplAt -> 0..2]

CortexInit ==
    /\ OastInit
    /\ Tmpl \in Loads
    /\ cxPc = "idle" /\ cxAttempt = 0 /\ cxCleared = FALSE
    /\ cxAt = 1 /\ cxPolls = 0 /\ cxHit = FALSE /\ cxDone = 0
    /\ cxChan = <<>> /\ cxNode = "idle" /\ cxGot = {}
    /\ cxProg = [done |-> 0, total |-> 0]
    /\ cxFired = {} /\ cxSeen = [t \in TmplAt |-> 0]

-----------------------------------------------------------------------------
(* Events *)

Event(type, finding, done) == [type |-> type, finding |-> finding, done |-> done]
Found(f) == Event("finding", f, 0)
Progress(n) == Event("progress", <<"waf", 0>>, n)
Done == Event("done", <<"waf", 0>>, 0)
Failure == Event("error", <<"waf", 0>>, 0)

\* The writer gives up when the handler is gone, and the engine does not look
\* at the result of a send.
Emit(events) == cxChan' = IF cxNode = "reading" THEN cxChan \o events ELSE cxChan

-----------------------------------------------------------------------------
(* The engine *)

\* The handler connects and asks; the daemon parses the request and starts the
\* engine, which refuses a target it cannot normalise or a client it cannot
\* build.
AskCortex ==
    /\ cxNode = "idle"
    /\ \/ cxNode' = "failed" /\ UNCHANGED <<cxPc, cxChan>>
       \/ /\ cxNode' = "reading"
          /\ \/ cxPc' = "ended" /\ cxChan' = <<Failure>>
             \/ cxPc' = "base" /\ cxChan' = <<>>
    /\ UNCHANGED <<cxAttempt, cxCleared, cxAt, cxPolls, cxHit, cxDone, cxGot, cxProg,
                   cxFired, cxSeen, Tmpl, oaVars>>

\* react: the policy of the repository aborts after its backoffs; one that the
\* engine is written for as well hands a block over to a solver.
React(challenge, attempt) ==
    IF attempt < (IF challenge = "rate" THEN RlTries ELSE BlockTries) THEN {"backoff"}
    ELSE {"abort"} \cup IF Broker /\ challenge = "block" THEN {"broker"} ELSE {}

\* A challenge that stays is reported, and the templates are skipped.
Blocked ==
    /\ cxPc' = "ended" /\ Emit(<<Found(<<"waf", 0>>), Done>>)
    /\ UNCHANGED <<cxAttempt, cxCleared>>

\* Mutant: a second attempt starts counting anew.
AgainAnew(cleared) ==
    /\ cxAttempt' = IF cxAttempt = 0 THEN 1 ELSE 0
    /\ cxCleared' = cleared
    /\ UNCHANGED <<cxPc, cxChan>>

\* The loop goes on.
Again(cleared) ==
    /\ cxAttempt' = cxAttempt + 1 /\ cxCleared' = cleared
    /\ UNCHANGED <<cxPc, cxChan>>

\* One turn of the loop that fetches the base.  The solver is asked once; a
\* base that does not answer ends the scan.  The counters go out of scope.
FetchBase ==
    /\ cxPc = "base"
    /\ \E answer \in {"none", "clear", "rate", "block"} :
        \/ /\ answer = "none" /\ cxPc' = "ended" /\ Emit(<<Done>>)
           /\ UNCHANGED <<cxAttempt, cxCleared>>
        \/ /\ answer = "clear" /\ cxPc' = "next" /\ cxAttempt' = 0 /\ cxCleared' = FALSE
           /\ Emit(<<>>) \/ Emit(<<Found(<<"header", 0>>)>>)
        \/ /\ answer \in {"rate", "block"}
           /\ \E reaction \in React(answer, cxAttempt) :
              \/ reaction = "backoff" /\ Again(cxCleared)
              \/ reaction = "broker" /\ ~cxCleared /\ (Again(TRUE) \/ Blocked)
              \/ reaction = "broker" /\ cxCleared /\ Blocked
              \/ reaction = "abort" /\ Blocked
    /\ UNCHANGED <<cxAt, cxPolls, cxHit, cxDone, cxHandler, cxFired, cxSeen, Tmpl, oaVars>>

\* The end of a template: its finding, if any, and the progress event.
FinishTemplate(found) ==
    /\ cxPc' = "next" /\ cxAt' = cxAt + 1 /\ cxDone' = cxDone + 1
    /\ Emit((IF found THEN <<Found(<<"template", cxAt>>)>> ELSE <<>>) \o <<Progress(cxDone + 1)>>)

\* Passed over by the id filter, which is not work done; by severity, which is.
NextTemplate ==
    /\ cxPc = "next"
    /\ \/ cxAt > Len(Tmpl) /\ cxPc' = "ended" /\ Emit(<<Done>>) /\ UNCHANGED <<cxAt, cxDone>>
       \/ /\ cxAt \in TmplAt /\ ~Tmpl[cxAt].byId
          /\ cxAt' = cxAt + 1 /\ UNCHANGED <<cxPc, cxDone, cxChan>>
       \/ /\ cxAt \in TmplAt /\ Tmpl[cxAt].byId /\ ~Tmpl[cxAt].bySev
          /\ FinishTemplate(FALSE)
       \/ /\ cxAt \in TmplAt /\ Tmpl[cxAt].byId /\ Tmpl[cxAt].bySev
          /\ cxPc' = IF Tmpl[cxAt].oob THEN "register" ELSE "detect"
          /\ UNCHANGED <<cxAt, cxDone, cxChan>>
    /\ cxPolls' = 0 /\ cxHit' = FALSE
    /\ UNCHANGED <<cxAttempt, cxCleared, cxHandler, cxFired, cxSeen, Tmpl, oaVars>>

Match(yes) ==
    cxSeen' = IF yes THEN [cxSeen EXCEPT ![cxAt] = IF @ < 2 THEN @ + 1 ELSE @] ELSE cxSeen
Stays == UNCHANGED <<cxAt, cxDone, cxChan>>

\* fetch, after its bounded retries: a page, a challenge, or nothing.
Answers == {"none", "other"} \cup IF Tmpl[cxAt].fires THEN {"match", "challenge"} ELSE {}

\* The request goes out: a match is confirmed, a challenge is met with encoded
\* variants, everything else ends it.
Detect ==
    /\ cxPc = "detect"
    /\ \E answer \in Answers :
       \/ answer \in {"none", "other"} /\ FinishTemplate(FALSE) /\ Match(FALSE)
       \/ answer = "match" /\ cxPc' = "confirm" /\ Match(TRUE) /\ Stays
       \/ answer = "challenge" /\ cxPc' = "evade" /\ Match(FALSE) /\ Stays
    /\ UNCHANGED <<cxAttempt, cxCleared, cxPolls, cxHit, cxHandler, cxFired, Tmpl, oaVars>>

\* The variants, until one matches.
Evade ==
    /\ cxPc = "evade"
    /\ \/ FinishTemplate(FALSE) /\ Match(FALSE)
       \/ cxPc' = "confirm" /\ Match(TRUE) /\ Stays
    /\ UNCHANGED <<cxAttempt, cxCleared, cxPolls, cxHit, cxHandler, cxFired, Tmpl, oaVars>>

\* The winning request goes out again and must match again.
Confirm ==
    /\ cxPc = "confirm"
    /\ \E yes \in BOOLEAN : FinishTemplate(yes) /\ Match(yes)
    /\ UNCHANGED <<cxAttempt, cxCleared, cxPolls, cxHit, cxHandler, cxFired, Tmpl, oaVars>>

-----------------------------------------------------------------------------
(* The out-of-band path: one client of the store *)

Quiet == UNCHANGED <<cxAttempt, cxCleared, cxHandler, cxSeen, Tmpl>>

\* register: refused, lost on the way there, lost on the way back (the store
\* keeps a registration nobody polls), or granted.
RegisterOob ==
    /\ cxPc = "register"
    /\ \/ FinishTemplate(FALSE) /\ UNCHANGED oaVars
       \/ Register(CxCorr[cxAt]) /\ FinishTemplate(FALSE)
       \/ Register(CxCorr[cxAt]) /\ cxPc' = "fire" /\ Stays
    /\ Quiet /\ UNCHANGED <<cxPolls, cxHit, cxFired>>

\* The payloads go out; a template that expands to no request gives up.
FireOob ==
    /\ cxPc = "fire"
    /\ IF Tmpl[cxAt].fires
       THEN cxFired' = cxFired \cup {cxAt} /\ cxPc' = "wait"
       ELSE cxPc' = "dereg" /\ UNCHANGED cxFired
    /\ Quiet /\ Stays /\ UNCHANGED <<cxPolls, cxHit, oaVars>>

\* One poll is over, with or without interactions.
PollOver(hit) ==
    /\ cxPolls' = cxPolls + 1 /\ cxHit' = hit
    /\ cxPc' = IF hit \/ cxPolls + 1 = Polls THEN "dereg" ELSE "wait"

\* The poll reaches the store, or comes back with an error.
PollAsk ==
    /\ cxPc = "wait"
    /\ \/ PollCheck(CxCorr[cxAt]) /\ cxPc' = "asked" /\ UNCHANGED <<cxPolls, cxHit>>
       \/ PollOver(FALSE) /\ UNCHANGED oaVars
    /\ Quiet /\ Stays /\ UNCHANGED cxFired

PollAnswer ==
    /\ cxPc = "asked"
    /\ PollDrain(CxCorr[cxAt])
    /\ PollOver(oaStore[CxCorr[cxAt]] # <<>>)
    /\ Quiet /\ Stays /\ UNCHANGED cxFired

\* The client's six seconds pass first.
PollTimeout ==
    /\ cxPc = "asked"
    /\ PollOver(FALSE)
    /\ Quiet /\ Stays /\ UNCHANGED <<cxFired, oaVars>>

\* The store serves a poll that nobody waits for: what it hands out is lost.
PollLate(c) ==
    /\ ~(cxPc = "asked" /\ CxCorr[cxAt] = c)
    /\ PollDrain(c)
    /\ UNCHANGED cxVars

\* deregister, whose answer nobody looks at; the store goes on by itself.
DeregisterOob ==
    /\ cxPc = "dereg"
    /\ DeregCheck(CxCorr[cxAt]) \/ UNCHANGED oaVars
    /\ FinishTemplate(cxHit)
    /\ Quiet /\ UNCHANGED <<cxPolls, cxHit, cxFired>>

-----------------------------------------------------------------------------
(* The target, the handler and the rest of the store *)

\* A payload that went out makes the target call back, at any later time.
CallBack(i) == \E t \in cxFired : CaptureCheck(CxCorr[t], i) /\ UNCHANGED cxVars

\* The daemon dies; what it wrote is still read.
DaemonDies ==
    /\ MayCrash /\ cxPc # "idle" /\ ~EngineOver
    /\ cxPc' = "dead"
    /\ UNCHANGED <<cxAttempt, cxCleared, cxAt, cxPolls, cxHit, cxDone, cxChan, cxHandler,
                   cxFired, cxSeen, Tmpl, oaVars>>

\* The handler reads a line: it stops at a cancelled workflow, at done and at
\* an error, and finishes the operation with what it has.
ReadEvent ==
    /\ cxNode = "reading" /\ cxChan # <<>>
    /\ LET e == Head(cxChan) IN
       \/ cxNode' = "halted" /\ cxChan' = <<>> /\ UNCHANGED <<cxGot, cxProg>>
       \/ /\ e.type \in {"done", "error"}
          /\ cxNode' = "completed" /\ cxChan' = <<>> /\ UNCHANGED <<cxGot, cxProg>>
       \/ /\ e.type = "finding"
          /\ cxGot' = cxGot \cup {e.finding} /\ cxChan' = Tail(cxChan)
          /\ UNCHANGED <<cxNode, cxProg>>
       \/ /\ e.type = "progress"
          /\ cxProg' = [done |-> e.done, total |-> TotalTemplates] /\ cxChan' = Tail(cxChan)
          /\ UNCHANGED <<cxNode, cxGot>>
    /\ UNCHANGED <<cxEngine, cxFired, cxSeen, Tmpl, oaVars>>

\* The stream ends without either: the operation is finished all the same.
StreamEnds ==
    /\ cxNode = "reading" /\ cxChan = <<>> /\ EngineOver
    /\ cxNode' = "completed"
    /\ UNCHANGED <<cxEngine, cxChan, cxGot, cxProg, cxFired, cxSeen, Tmpl, oaVars>>

EngineStep ==
    \/ FetchBase \/ NextTemplate \/ Detect \/ Evade \/ Confirm
    \/ RegisterOob \/ FireOob \/ PollAsk \/ PollAnswer \/ PollTimeout \/ DeregisterOob

HandlerStep == AskCortex \/ ReadEvent \/ StreamEnds

\* The store's own steps.
StoreStep ==
    /\ \/ \E c \in Corr : Expire(c) \/ DeregRemove(c) \/ DeregClear(c)
       \/ \E c \in Corr, i \in Item : CaptureStore(c, i)
       \/ GcCollect \/ GcClear
    /\ UNCHANGED cxVars

CortexNext ==
    \/ EngineStep \/ HandlerStep \/ DaemonDies \/ StoreStep
    \/ \E c \in Corr : PollLate(c)
    \/ \E i \in Item : CallBack(i)

CortexSpec ==
    /\ CortexInit /\ [][CortexNext]_cortexVars
    /\ WF_cortexVars(EngineStep) /\ WF_cortexVars(HandlerStep)

-----------------------------------------------------------------------------
(* Properties *)

\* A finding is confirmed: the target's answer matched twice, or the target
\* called back for the correlation of this very template.  (eval_template)
FindingsBacked ==
    \A t \in TmplAt : <<"template", t>> \in cxGot =>
        IF Tmpl[t].oob THEN \E i \in Item : oaBorn[i].corr = CxCorr[t] ELSE cxSeen[t] = 2
=============================================================================
