----------------------------- MODULE PulseScan -----------------------------
(***************************************************************************)
(* One port scan of the pulse daemon: the probe tasks, the rate governor   *)
(* that resizes their concurrency limit while they run, the collector of   *)
(* their results, and the connection that asked for the scan.              *)
(*                                                                         *)
(* The semaphore hands a permit to any waiter (tokio is fair; no property  *)
(* here needs that), and the surplus permits of a shrink are taken one by  *)
(* one.  Times and latencies are choices.                                  *)
(***************************************************************************)
EXTENDS Integers, FiniteSets, Sequences

CONSTANTS
    Probe,                  \* the host:port pairs of the scan
    Floor, Ceil,            \* Limits: conc_floor, conc_ceil
    SeedConc,                   \* tasks of the request
    RetryFloor, RetryCeil   \* Limits: retry_floor, retry_ceil

ASSUME PulseAssumption ==
    /\ IsFiniteSet(Probe) /\ "done" \notin Probe
    /\ Floor \in Nat \ {0} /\ Ceil \in Nat /\ Floor <= Ceil
    /\ SeedConc \in Nat
    /\ RetryFloor \in Nat \ {0} /\ RetryCeil \in Nat /\ RetryFloor <= RetryCeil

VARIABLES
    puReq,      \* the request: [mode, adaptive]
    puProbe,    \* the state of each probe task
    puVerdict,  \* what each probe found
    puLeft,     \* attempts a running probe has left
    puAvail,    \* permits in the semaphore
    puCurrent,  \* DynLimiter.current
    puGov,      \* the governor loop
    puNeed,     \* permits a shrink still waits for
    puTarget,   \* the limit a shrink goes to
    puWin,      \* the window accumulators [sent, lost]
    puSnap,     \* the window being read [sent, shutting]
    puWarm,     \* Estimator.warmup
    puRetries,  \* the attempt budget of probes not yet issued
    puDone,     \* Governor: [done, notified]
    puPhase,    \* run_connect_scan: its result loop and what follows
    puEvents,   \* the channel of the connection
    puGot,      \* what the client has been sent
    puClient,   \* the client: "there" or "gone"
    puOp        \* the row of the operation

puGovVars == <<puCurrent, puGov, puNeed, puTarget, puSnap, puWarm, puRetries>>
puConnVars == <<puEvents, puGot, puClient, puOp>>
puVars == <<puReq, puProbe, puVerdict, puLeft, puAvail, puWin, puDone, puPhase,
            puGovVars, puConnVars>>

Clamp(x, lo, hi) == IF x < lo THEN lo ELSE IF x > hi THEN hi ELSE x

ProbeStates == {"wait", "run", "answered", "half", "recorded", "reported", "counted"}
Holding == {p \in Probe : puProbe[p] \in {"run", "answered", "half", "recorded"}}
DoneEvent == "done"
ScanEvent == Probe \cup {DoneEvent}  \* StreamEvent: a result, or the end
PulseRequest == [mode : {"stream", "instant", "queue"}, adaptive : BOOLEAN]

PulseTypeOK ==
    /\ puReq \in PulseRequest
    /\ puProbe \in [Probe -> ProbeStates]
    /\ puVerdict \in [Probe -> {"none", "open", "closed", "filtered", "unresolved"}]
    /\ puLeft \in [Probe -> 0..(RetryCeil + 3)]
    /\ puAvail \in Nat /\ puCurrent \in Nat
    /\ puReq.adaptive => puCurrent \in Floor..Ceil
    /\ puGov \in {"off", "idle", "snapped", "shrinking", "stopped"}
    /\ puNeed \in Nat /\ puTarget \in Nat
    /\ puWin \in [sent : Nat, lost : Nat]
    /\ puSnap \in [sent : Nat, shutting : BOOLEAN]
    /\ puWarm \in BOOLEAN /\ puRetries \in RetryFloor..RetryCeil
    /\ puDone \in [done : BOOLEAN, notified : BOOLEAN]
    /\ puPhase \in {"collect", "stopping", "finished", "ended"}
    /\ puEvents \in Seq(ScanEvent)
    /\ puGot \subseteq ScanEvent
    /\ puClient \in {"there", "gone"}
    /\ puOp \in {"none", "queued", "completed"}

\* run_connect_scan starts: adaptive scans are governed, small and single-port
\* ones run at a fixed rate of at least one.
PulseInit ==
    /\ puReq \in PulseRequest
    /\ puProbe = [p \in Probe |-> "wait"]
    /\ puVerdict = [p \in Probe |-> "none"]
    /\ puLeft = [p \in Probe |-> 0]
    /\ puCurrent = IF puReq.adaptive THEN Clamp(SeedConc, Floor, Ceil)
                   ELSE Clamp(SeedConc, 1, SeedConc + 1)
    /\ puAvail = puCurrent
    /\ puGov = IF puReq.adaptive THEN "idle" ELSE "off"
    /\ puNeed = 0 /\ puTarget = 0
    /\ puWin = [sent |-> 0, lost |-> 0]
    /\ puSnap = [sent |-> 0, shutting |-> FALSE]
    /\ puWarm = TRUE
    /\ puRetries = Clamp(2, RetryFloor, RetryCeil)
    /\ puDone = [done |-> FALSE, notified |-> FALSE]
    /\ puPhase = "collect"
    /\ puEvents = <<>> /\ puGot = {}
    /\ puClient = "there"
    /\ puOp \in {"none", "queued"}

-----------------------------------------------------------------------------
(* The probe tasks *)

\* A slot is free: read the attempt budget of the moment (three at a fixed
\* rate) and start probing.
ProbeStart(p) ==
    /\ puProbe[p] = "wait"
    /\ puAvail > 0
    /\ puAvail' = puAvail - 1
    /\ puProbe' = [puProbe EXCEPT ![p] = "run"]
    /\ puLeft' = [puLeft EXCEPT ![p] = IF puReq.adaptive THEN puRetries ELSE 3]
    /\ UNCHANGED <<puReq, puVerdict, puWin, puDone, puPhase, puGovVars, puConnVars>>

Answer(p, v) ==
    /\ puProbe' = [puProbe EXCEPT ![p] = "answered"]
    /\ puVerdict' = [puVerdict EXCEPT ![p] = v]
    /\ puLeft' = [puLeft EXCEPT ![p] = 0]

\* probe_port: one attempt over every address of the host.  A connection or a
\* refusal is an answer; a timeout is retried while the budget lasts.  A name
\* that does not resolve is filtered, but no loss.
ProbeAttempt(p) ==
    /\ puProbe[p] = "run"
    /\ \/ \E v \in {"open", "closed", "unresolved"} : Answer(p, v)
       \/ puLeft[p] = 1 /\ Answer(p, "filtered")
       \/ /\ puLeft[p] > 1
          /\ puLeft' = [puLeft EXCEPT ![p] = @ - 1]
          /\ UNCHANGED <<puProbe, puVerdict>>
    /\ UNCHANGED <<puReq, puAvail, puWin, puDone, puPhase, puGovVars, puConnVars>>

\* Governor.record, first counter.
RecordSent(p) ==
    /\ puReq.adaptive /\ puProbe[p] = "answered"
    /\ puProbe' = [puProbe EXCEPT ![p] = "half"]
    /\ puWin' = [puWin EXCEPT !.sent = @ + 1]
    /\ UNCHANGED <<puReq, puVerdict, puLeft, puAvail, puDone, puPhase, puGovVars,
                   puConnVars>>

\* Governor.record, the outcome's counter.
RecordOutcome(p) ==
    /\ puProbe[p] = "half"
    /\ puProbe' = [puProbe EXCEPT ![p] = "recorded"]
    /\ puWin' = [puWin EXCEPT !.lost = @ + IF puVerdict[p] = "filtered" THEN 1 ELSE 0]
    /\ UNCHANGED <<puReq, puVerdict, puLeft, puAvail, puDone, puPhase, puGovVars,
                   puConnVars>>

\* The task ends: its result is in the channel, its permit returns.
ProbeEnd(p) ==
    /\ puProbe[p] = IF puReq.adaptive THEN "recorded" ELSE "answered"
    /\ puProbe' = [puProbe EXCEPT ![p] = "reported"]
    /\ puAvail' = puAvail + 1
    /\ UNCHANGED <<puReq, puVerdict, puLeft, puWin, puDone, puPhase, puGovVars,
                   puConnVars>>

-----------------------------------------------------------------------------
(* The governor *)

\* congestion::decide: the next limit and attempt budget from the limit cur, a
\* window with lost of sent probes, and how far the latency is above its floor.
Congested(sent, lost, latency) == 10 * lost > sent \/ latency = "inflated"
Healthy(sent, lost, latency) == 20 * lost < sent /\ latency = "low"

DecideConc(cur, warm, sent, lost, latency) ==
    Clamp(IF Congested(sent, lost, latency) THEN cur \div 2
          ELSE IF ~ Healthy(sent, lost, latency) THEN cur
          ELSE IF ~ warm THEN cur + 1
          ELSE IF 2 * cur > cur + 4 THEN 2 * cur ELSE cur + 4,
          Floor, Ceil)

DecideRetries(sent, lost) ==
    IF 10 * lost > sent THEN RetryCeil
    ELSE IF 20 * lost < sent THEN RetryFloor
    ELSE Clamp((RetryFloor + RetryCeil) \div 2, RetryFloor, RetryCeil)

\* The window is over, or the scan is: the sent counter is read and reset.
GovSnapshot ==
    /\ puGov = "idle"
    /\ \E shutting \in BOOLEAN :
        /\ shutting => puDone.notified
        /\ puSnap' = [sent |-> puWin.sent, shutting |-> shutting]
        /\ puDone' = [puDone EXCEPT !.notified = @ /\ ~ shutting]
    /\ puWin' = [puWin EXCEPT !.sent = 0]
    /\ puGov' = "snapped"
    /\ UNCHANGED <<puReq, puProbe, puVerdict, puLeft, puAvail, puPhase, puCurrent,
                   puNeed, puTarget, puWarm, puRetries, puConnVars>>

GovLeaves == puSnap.shutting \/ puDone.done

\* Mutant: the new limit is stored, and the surplus never collected.
SetLimitEager(d) ==
    IF d >= puCurrent
    THEN /\ puAvail' = puAvail + (d - puCurrent)
         /\ puCurrent' = d
         /\ puGov' = "idle"
         /\ UNCHANGED <<puNeed, puTarget>>
    ELSE /\ puGov' = "idle"
         /\ puCurrent' = d
         /\ UNCHANGED <<puAvail, puNeed, puTarget>>

\* DynLimiter.set: a larger limit is in force at once, for a smaller one the
\* surplus has to be collected first.
SetLimit(d) ==
    IF d >= puCurrent
    THEN /\ puAvail' = puAvail + (d - puCurrent)
         /\ puCurrent' = d
         /\ puGov' = "idle"
         /\ UNCHANGED <<puNeed, puTarget>>
    ELSE /\ puGov' = "shrinking"
         /\ puNeed' = puCurrent - d
         /\ puTarget' = d
         /\ UNCHANGED <<puAvail, puCurrent>>

\* The other counters are read and reset, the next knobs decided and applied.
\* An empty window is not fed to the loop.
GovDecide ==
    /\ puGov = "snapped"
    /\ puWin' = [puWin EXCEPT !.lost = 0]
    /\ IF puSnap.sent = 0
       THEN /\ puGov' = IF GovLeaves THEN "stopped" ELSE "idle"
            /\ UNCHANGED <<puAvail, puCurrent, puNeed, puTarget, puWarm, puRetries>>
       ELSE \E latency \in {"low", "raised", "inflated"} :
            /\ puRetries' = DecideRetries(puSnap.sent, puWin.lost)
            /\ puWarm' = (puWarm /\ ~ Congested(puSnap.sent, puWin.lost, latency))
            /\ IF GovLeaves
               THEN /\ puGov' = "stopped"
                    /\ UNCHANGED <<puAvail, puCurrent, puNeed, puTarget>>
               ELSE SetLimit(DecideConc(puCurrent, puWarm, puSnap.sent, puWin.lost, latency))
    /\ puSnap' = [sent |-> 0, shutting |-> FALSE]
    /\ UNCHANGED <<puReq, puProbe, puVerdict, puLeft, puDone, puPhase, puConnVars>>

\* acquire_many_owned gets one of the permits it waits for.
GovTake ==
    /\ puGov = "shrinking" /\ puNeed > 0
    /\ puAvail > 0
    /\ puAvail' = puAvail - 1
    /\ puNeed' = puNeed - 1
    /\ UNCHANGED <<puReq, puProbe, puVerdict, puLeft, puWin, puDone, puPhase,
                   puCurrent, puGov, puTarget, puSnap, puWarm, puRetries, puConnVars>>

\* It has them all and forgets them.
GovShrunk ==
    /\ puGov = "shrinking" /\ puNeed = 0
    /\ puGov' = "idle"
    /\ puCurrent' = puTarget
    /\ puTarget' = 0
    /\ UNCHANGED <<puReq, puProbe, puVerdict, puLeft, puAvail, puWin, puDone, puPhase,
                   puNeed, puSnap, puWarm, puRetries, puConnVars>>

-----------------------------------------------------------------------------
(* The collector and the connection *)

SendEvent(e) ==
    puEvents' = IF puClient = "there" /\ puReq.mode # "queue" THEN Append(puEvents, e)
                ELSE puEvents

\* A result is counted; closed ports are not passed on.
Collect(p) ==
    /\ puPhase = "collect"
    /\ puProbe[p] = "reported"
    /\ puProbe' = [puProbe EXCEPT ![p] = "counted"]
    /\ IF puVerdict[p] = "closed" THEN UNCHANGED puEvents ELSE SendEvent(p)
    /\ UNCHANGED <<puReq, puVerdict, puLeft, puAvail, puWin, puDone, puPhase,
                   puGovVars, puGot, puClient, puOp>>

\* Every sender is gone and the channel is empty: Governor.finish.
CollectEnds ==
    /\ puPhase = "collect"
    /\ \A p \in Probe : puProbe[p] = "counted"
    /\ puPhase' = "stopping"
    /\ puDone' = [done |-> TRUE, notified |-> TRUE]
    /\ UNCHANGED <<puReq, puProbe, puVerdict, puLeft, puAvail, puWin, puGovVars,
                   puConnVars>>

\* Mutant: the done event does not wait for the results.
SendDoneEarly ==
    /\ puPhase \in {"collect", "stopping"}
    /\ puGov \in {"off", "stopped", "idle"}
    /\ puPhase' = "finished"
    /\ SendEvent(DoneEvent)
    /\ UNCHANGED <<puReq, puProbe, puVerdict, puLeft, puAvail, puWin, puDone,
                   puGovVars, puGot, puClient, puOp>>

\* The governor's task has ended: the done event.
SendDone ==
    /\ puPhase = "stopping"
    /\ puGov \in {"off", "stopped"}
    /\ puPhase' = "finished"
    /\ SendEvent(DoneEvent)
    /\ UNCHANGED <<puReq, puProbe, puVerdict, puLeft, puAvail, puWin, puDone,
                   puGovVars, puGot, puClient, puOp>>

\* The scan task marks its operation completed, if it has a row.
CompleteOp ==
    /\ puPhase = "finished"
    /\ puPhase' = "ended"
    /\ puOp' = IF puOp = "none" THEN "none" ELSE "completed"
    /\ UNCHANGED <<puReq, puProbe, puVerdict, puLeft, puAvail, puWin, puDone,
                   puGovVars, puEvents, puGot, puClient>>

\* The connection writes the next event: as it comes for a stream, when the scan
\* is over for an instant scan.
WriteEvent ==
    /\ puClient = "there" /\ DoneEvent \notin puGot
    /\ puReq.mode = "instant" => puPhase = "ended"
    /\ puEvents # <<>>
    /\ puGot' = puGot \cup {Head(puEvents)}
    /\ puEvents' = Tail(puEvents)
    /\ UNCHANGED <<puReq, puProbe, puVerdict, puLeft, puAvail, puWin, puDone, puPhase,
                   puGovVars, puClient, puOp>>

\* The client goes: the connection ends on its next write, the scan goes on and
\* its events are dropped.
HangUp ==
    /\ puClient = "there"
    /\ puClient' = "gone"
    /\ puEvents' = <<>>
    /\ UNCHANGED <<puReq, puProbe, puVerdict, puLeft, puAvail, puWin, puDone, puPhase,
                   puGovVars, puGot, puOp>>

\* db_reset on another connection.
DbReset ==
    /\ puOp # "none"
    /\ puOp' = "none"
    /\ UNCHANGED <<puReq, puProbe, puVerdict, puLeft, puAvail, puWin, puDone, puPhase,
                   puGovVars, puEvents, puGot, puClient>>

-----------------------------------------------------------------------------
ProbeStep(p) ==
    ProbeStart(p) \/ ProbeAttempt(p) \/ RecordSent(p) \/ RecordOutcome(p) \/ ProbeEnd(p)
GovStep == GovSnapshot \/ GovDecide \/ GovTake \/ GovShrunk
ScanStep == (\E p \in Probe : Collect(p)) \/ CollectEnds \/ SendDone \/ CompleteOp

PulseNext ==
    \/ \E p \in Probe : ProbeStep(p)
    \/ GovStep \/ ScanStep
    \/ WriteEvent \/ HangUp \/ DbReset

PulseSpec == PulseInit /\ [][PulseNext]_puVars

-----------------------------------------------------------------------------
(* Properties *)

Taken == IF puGov = "shrinking" THEN puCurrent - puTarget - puNeed ELSE 0

\* DynLimiter keeps its permits while it is resized under load: those in the
\* semaphore, with the probes and with the shrink in progress are the limit, so
\* never more probes run than the limit that is being left.
LimiterConserves == puAvail + Cardinality(Holding) + Taken = puCurrent

\* A client that is sent the done event was sent the result of every port that
\* is not closed before it, whatever the governor did.
DoneIsLast ==
    DoneEvent \in puGot =>
        \A p \in Probe : puVerdict[p] # "none" /\ (p \in puGot \/ puVerdict[p] = "closed")

\* The scan is over: nothing of it is left.
PulseEnded == puPhase = "ended" /\ puGov \in {"off", "stopped"}
=============================================================================
