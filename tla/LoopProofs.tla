----------------------------- MODULE LoopProofs -----------------------------
(***************************************************************************)
(* Proofs about the engines that work off a list: the port scanner, the    *)
(* recursive operation handlers, the crawler and the enumerations of the   *)
(* subdomain engine.                                                       *)
(***************************************************************************)
EXTENDS PulseScan, Recursion, Crawl, VoyageScan, FiniteSetTheorems, TLAPS

-----------------------------------------------------------------------------
(* The port scanner *)

\* What the clamp of a knob returns.
LEMMA ClampInRange ==
    ASSUME NEW x \in Int, NEW lo \in Int, NEW hi \in Int, lo <= hi
    PROVE  Clamp(x, lo, hi) \in lo..hi
  BY DEF Clamp

\* The controller's next limit is within its limits.
LEMMA DecideConcInRange ==
    ASSUME NEW cur \in Nat, NEW warm, NEW sent, NEW lost, NEW latency
    PROVE  DecideConc(cur, warm, sent, lost, latency) \in Floor..Ceil
  <1>1. /\ cur \div 2 \in Int /\ cur + 1 \in Int /\ 2 * cur \in Int
        /\ cur + 4 \in Int /\ cur \in Int
    OBVIOUS
  <1>2. Floor \in Int /\ Ceil \in Int /\ Floor <= Ceil
    BY PulseAssumption
  <1>3. QED
    BY <1>1, <1>2, ClampInRange DEF DecideConc

\* The controller's next attempt budget is within its limits.
LEMMA DecideRetriesInRange ==
    ASSUME NEW sent, NEW lost
    PROVE  DecideRetries(sent, lost) \in RetryFloor..RetryCeil
  <1>1. RetryFloor \in Int /\ RetryCeil \in Int /\ RetryFloor <= RetryCeil
    BY PulseAssumption
  <1>2. (RetryFloor + RetryCeil) \div 2 \in Int
    BY <1>1
  <1>3. RetryFloor \in RetryFloor..RetryCeil /\ RetryCeil \in RetryFloor..RetryCeil
    BY <1>1
  <1>4. QED
    BY <1>1, <1>2, <1>3, ClampInRange DEF DecideRetries

(***************************************************************************)
(* The inductive invariant.                                                *)
(***************************************************************************)

\* A shrink has collected what it no longer waits for, and its target is a
\* limit.
ShrinkInProgress ==
    puGov = "shrinking" => puTarget \in Floor..Ceil /\ puNeed + puTarget <= puCurrent

\* Only adaptive scans have a governor.
GovernedIsAdaptive == puGov = "off" \/ puReq.adaptive

\* Past the result loop every result is counted; a task that has ended probing
\* has a verdict.
ResultsInOrder ==
    /\ puPhase # "collect" => \A p \in Probe : puProbe[p] = "counted"
    /\ \A p \in Probe : puProbe[p] \notin {"wait", "run"} => puVerdict[p] # "none"

InChannel(e) == \E k \in 1..Len(puEvents) : puEvents[k] = e

\* While the client listens, a counted result that it should see was sent, or
\* is in the channel.
CountedIsSent ==
    puClient = "there" /\ puReq.mode # "queue" =>
        \A p \in Probe :
            puProbe[p] = "counted" /\ puVerdict[p] # "closed" => p \in puGot \/ InChannel(p)

\* The done event is put into the channel once, behind every result.
DoneAtEnd ==
    /\ DoneEvent \in puGot \/ InChannel(DoneEvent) => puPhase \in {"finished", "ended"}
    /\ \A k \in 1..Len(puEvents) : puEvents[k] = DoneEvent => k = Len(puEvents)
    /\ puReq.mode = "queue" => puEvents = <<>>

\* The invariant of the permits, and the one of the events.
LimiterInv == PulseTypeOK /\ GovernedIsAdaptive /\ ShrinkInProgress /\ LimiterConserves
Delivery == ResultsInOrder /\ CountedIsSent /\ DoneAtEnd /\ DoneIsLast

-----------------------------------------------------------------------------
(* The port scanner: types *)

LEMMA InitType == PulseInit => PulseTypeOK
  <1> SUFFICES ASSUME PulseInit PROVE PulseTypeOK
    OBVIOUS
  <1>1. /\ SeedConc \in Int /\ SeedConc + 1 \in Int /\ 1 <= SeedConc + 1
        /\ Floor \in Nat \ {0} /\ Ceil \in Nat /\ Floor <= Ceil
        /\ RetryFloor \in Nat \ {0} /\ RetryCeil \in Nat /\ RetryFloor <= RetryCeil
    BY PulseAssumption
  <1>2. Clamp(SeedConc, Floor, Ceil) \in Floor..Ceil
    BY <1>1, ClampInRange
  <1>3. Clamp(SeedConc, 1, SeedConc + 1) \in 1..(SeedConc + 1)
    BY <1>1, ClampInRange
  <1>4. Clamp(2, RetryFloor, RetryCeil) \in RetryFloor..RetryCeil
    BY <1>1, ClampInRange
  <1>5. puCurrent \in Nat /\ (puReq.adaptive => puCurrent \in Floor..Ceil)
    BY <1>1, <1>2, <1>3 DEF PulseInit
  <1>6. puEvents \in Seq(ScanEvent)
    BY DEF PulseInit
  <1>7. puLeft \in [Probe -> 0..(RetryCeil + 3)]
    BY <1>1 DEF PulseInit
  <1>8. QED
    BY <1>4, <1>5, <1>6, <1>7 DEF PulseInit, PulseTypeOK, ProbeStates

LEMMA ProbeType ==
    ASSUME PulseTypeOK, NEW p \in Probe, ProbeStep(p)
    PROVE  PulseTypeOK'
  <1> USE DEF puGovVars, puConnVars
  <1>1. CASE ProbeStart(p)
    <2>1. (IF puReq.adaptive THEN puRetries ELSE 3) \in 0..(RetryCeil + 3)
      BY PulseAssumption DEF PulseTypeOK
    <2>2. puLeft' \in [Probe -> 0..(RetryCeil + 3)]
      BY <1>1, <2>1 DEF PulseTypeOK, ProbeStart
    <2>3. QED
      BY <1>1, <2>2 DEF PulseTypeOK, ProbeStart, ProbeStates
  <1>2. CASE ProbeAttempt(p)
    <2>1. puLeft[p] \in 0..(RetryCeil + 3) /\ RetryCeil \in Nat
      BY PulseAssumption DEF PulseTypeOK
    <2>2. puLeft' \in [Probe -> 0..(RetryCeil + 3)]
      BY <1>2, <2>1 DEF PulseTypeOK, ProbeAttempt, Answer
    <2>3. /\ puProbe' \in [Probe -> ProbeStates]
          /\ puVerdict' \in [Probe -> {"none", "open", "closed", "filtered", "unresolved"}]
      <3>1. \/ \E v \in {"open", "closed", "unresolved", "filtered"} : Answer(p, v)
            \/ UNCHANGED <<puProbe, puVerdict>>
        BY <1>2 DEF ProbeAttempt
      <3>2. ASSUME NEW v \in {"open", "closed", "unresolved", "filtered"}, Answer(p, v)
            PROVE  /\ puProbe' \in [Probe -> ProbeStates]
                   /\ puVerdict' \in [Probe -> {"none", "open", "closed", "filtered",
                                                "unresolved"}]
        BY <3>2 DEF PulseTypeOK, Answer, ProbeStates
      <3>3. CASE UNCHANGED <<puProbe, puVerdict>>
        BY <3>3 DEF PulseTypeOK
      <3>4. QED
        BY <3>1, <3>2, <3>3
    <2>4. UNCHANGED <<puReq, puAvail, puWin, puDone, puPhase, puGovVars, puConnVars>>
      BY <1>2 DEF ProbeAttempt
    <2>5. QED
      BY <2>2, <2>3, <2>4 DEF PulseTypeOK
  <1>3. CASE RecordSent(p)
    <2>1. puWin' \in [sent : Nat, lost : Nat]
      <3>1. puWin \in [sent : Nat, lost : Nat] /\ puWin' = [puWin EXCEPT !.sent = @ + 1]
        BY <1>3 DEF PulseTypeOK, RecordSent
      <3>2. QED
        BY <3>1
    <2>2. puProbe' \in [Probe -> ProbeStates]
      BY <1>3 DEF PulseTypeOK, RecordSent, ProbeStates
    <2>3. UNCHANGED <<puReq, puVerdict, puLeft, puAvail, puDone, puPhase, puGovVars, puConnVars>>
      BY <1>3 DEF RecordSent
    <2>4. QED
      BY <2>1, <2>2, <2>3 DEF PulseTypeOK
  <1>4. CASE RecordOutcome(p)
    <2>1. puWin.lost + (IF puVerdict[p] = "filtered" THEN 1 ELSE 0) \in Nat
      BY DEF PulseTypeOK
    <2>2. puWin' \in [sent : Nat, lost : Nat]
      BY <1>4, <2>1 DEF PulseTypeOK, RecordOutcome
    <2>3. puProbe' \in [Probe -> ProbeStates]
      BY <1>4 DEF PulseTypeOK, RecordOutcome, ProbeStates
    <2>4. UNCHANGED <<puReq, puVerdict, puLeft, puAvail, puDone, puPhase, puGovVars, puConnVars>>
      BY <1>4 DEF RecordOutcome
    <2>5. QED
      BY <2>2, <2>3, <2>4 DEF PulseTypeOK
  <1>5. CASE ProbeEnd(p)
    BY <1>5 DEF PulseTypeOK, ProbeEnd, ProbeStates
  <1>6. QED
    BY <1>1, <1>2, <1>3, <1>4, <1>5 DEF ProbeStep

\* DynLimiter.set keeps the limit within its range.
LEMMA SetLimitType ==
    ASSUME PulseTypeOK, NEW d \in Floor..Ceil, SetLimit(d)
    PROVE  /\ puAvail' \in Nat /\ puNeed' \in Nat /\ puTarget' \in Nat
           /\ puCurrent' \in Nat
           /\ puReq.adaptive => puCurrent' \in Floor..Ceil
           /\ puGov' \in {"idle", "shrinking"}
  <1>1. d \in Nat /\ puCurrent \in Nat /\ puAvail \in Nat
    BY PulseAssumption DEF PulseTypeOK
  <1>2. QED
    BY <1>1 DEF PulseTypeOK, SetLimit

LEMMA GovType ==
    ASSUME PulseTypeOK, GovernedIsAdaptive, ShrinkInProgress, GovStep
    PROVE  PulseTypeOK'
  <1> USE DEF puGovVars, puConnVars
  <1>1. CASE GovSnapshot
    <2>1. PICK shutting \in BOOLEAN :
            /\ puSnap' = [sent |-> puWin.sent, shutting |-> shutting]
            /\ puDone' = [puDone EXCEPT !.notified = @ /\ ~ shutting]
      BY <1>1 DEF GovSnapshot
    <2>2. puSnap' \in [sent : Nat, shutting : BOOLEAN]
      BY <2>1 DEF PulseTypeOK
    <2>3. (puDone.notified /\ ~ shutting) \in BOOLEAN
      OBVIOUS
    <2>4. puDone' \in [done : BOOLEAN, notified : BOOLEAN]
      BY <2>1, <2>3 DEF PulseTypeOK
    <2>5. QED
      BY <1>1, <2>2, <2>4 DEF PulseTypeOK, GovSnapshot
  <1>2. CASE GovDecide
    <2>1. puWin' \in [sent : Nat, lost : Nat]
      BY <1>2 DEF PulseTypeOK, GovDecide
    <2>2. puSnap' \in [sent : Nat, shutting : BOOLEAN]
      BY <1>2 DEF PulseTypeOK, GovDecide
    <2>3. /\ puAvail' \in Nat /\ puNeed' \in Nat /\ puTarget' \in Nat
          /\ puCurrent' \in Nat /\ (puReq.adaptive => puCurrent' \in Floor..Ceil)
          /\ puGov' \in {"idle", "shrinking", "stopped"}
          /\ puRetries' \in RetryFloor..RetryCeil /\ puWarm' \in BOOLEAN
      <3>1. CASE puSnap.sent = 0
        BY <1>2, <3>1 DEF PulseTypeOK, GovDecide
      <3>2. CASE puSnap.sent # 0
        <4>1. PICK latency \in {"low", "raised", "inflated"} :
                /\ puRetries' = DecideRetries(puSnap.sent, puWin.lost)
                /\ puWarm' = (puWarm /\ ~ Congested(puSnap.sent, puWin.lost, latency))
                /\ IF GovLeaves
                   THEN /\ puGov' = "stopped"
                        /\ UNCHANGED <<puAvail, puCurrent, puNeed, puTarget>>
                   ELSE SetLimit(DecideConc(puCurrent, puWarm, puSnap.sent,
                                            puWin.lost, latency))
          BY <1>2, <3>2 DEF GovDecide
        <4>2. puRetries' \in RetryFloor..RetryCeil /\ puWarm' \in BOOLEAN
          BY <4>1, DecideRetriesInRange
        <4>3. puCurrent \in Nat
          BY DEF PulseTypeOK
        <4>4. CASE GovLeaves
          BY <4>1, <4>2, <4>4 DEF PulseTypeOK
        <4>5. CASE ~ GovLeaves
          <5>1. PICK d \in Floor..Ceil : SetLimit(d)
            BY <4>1, <4>3, <4>5, DecideConcInRange
          <5>2. QED
            BY <4>2, <5>1, SetLimitType
        <4>6. QED
          BY <4>4, <4>5
      <3>3. QED
        BY <3>1, <3>2
    <2>4. QED
      BY <1>2, <2>1, <2>2, <2>3, SMTT(30) DEF PulseTypeOK, GovDecide
  <1>3. CASE GovTake
    BY <1>3 DEF PulseTypeOK, GovTake
  <1>4. CASE GovShrunk
    <2>1. puTarget \in Floor..Ceil /\ puTarget \in Nat
      BY <1>4, PulseAssumption DEF GovShrunk, ShrinkInProgress, PulseTypeOK
    <2>2. QED
      BY <1>4, <2>1 DEF PulseTypeOK, GovShrunk
  <1>5. QED
    BY <1>1, <1>2, <1>3, <1>4 DEF GovStep

\* The collector's channel keeps its type.
LEMMA SendType ==
    ASSUME PulseTypeOK, NEW e \in ScanEvent, SendEvent(e)
    PROVE  puEvents' \in Seq(ScanEvent)
  BY DEF PulseTypeOK, SendEvent

LEMMA RestType ==
    ASSUME PulseTypeOK, ScanStep \/ WriteEvent \/ HangUp \/ DbReset
    PROVE  PulseTypeOK'
  <1> USE DEF puGovVars, puConnVars
  <1>1. ASSUME NEW p \in Probe, Collect(p) PROVE PulseTypeOK'
    <2>1. puEvents' \in Seq(ScanEvent)
      BY <1>1, SendType DEF Collect, PulseTypeOK, ScanEvent
    <2>2. QED
      BY <1>1, <2>1 DEF PulseTypeOK, Collect, ProbeStates
  <1>2. CASE CollectEnds
    BY <1>2 DEF PulseTypeOK, CollectEnds
  <1>3. CASE SendDone
    <2>1. puEvents' \in Seq(ScanEvent)
      BY <1>3, SendType DEF SendDone, ScanEvent
    <2>2. QED
      BY <1>3, <2>1 DEF PulseTypeOK, SendDone
  <1>4. CASE CompleteOp
    BY <1>4 DEF PulseTypeOK, CompleteOp
  <1>5. CASE WriteEvent
    <2>1. Head(puEvents) \in ScanEvent /\ Tail(puEvents) \in Seq(ScanEvent)
      BY <1>5 DEF WriteEvent, PulseTypeOK
    <2>2. QED
      BY <1>5, <2>1 DEF PulseTypeOK, WriteEvent
  <1>6. CASE HangUp
    <2>1. <<>> \in Seq(ScanEvent)
      OBVIOUS
    <2>2. QED
      BY <1>6, <2>1 DEF PulseTypeOK, HangUp
  <1>7. CASE DbReset
    BY <1>7 DEF PulseTypeOK, DbReset
  <1>8. QED
    BY <1>1, <1>2, <1>3, <1>4, <1>5, <1>6, <1>7 DEF ScanStep

-----------------------------------------------------------------------------
(* The port scanner: the limiter *)

\* The permit holders are counted one by one.
LEMMA HoldingCounts ==
    ASSUME PulseTypeOK, PulseTypeOK', NEW p \in Probe,
           \A q \in Probe : q # p => puProbe'[q] = puProbe[q]
    PROVE  /\ Cardinality(Holding) \in Nat
           /\ p \notin Holding /\ p \in Holding' =>
                Cardinality(Holding') = Cardinality(Holding) + 1
           /\ p \in Holding /\ p \notin Holding' =>
                Cardinality(Holding') = Cardinality(Holding) - 1
           /\ (p \in Holding <=> p \in Holding') => Holding' = Holding
  <1>1. IsFiniteSet(Holding)
    <2>1. Holding \subseteq Probe
      BY DEF Holding
    <2>2. QED
      BY <2>1, PulseAssumption, FS_Subset
  <1>2. ASSUME p \notin Holding, p \in Holding' PROVE Holding' = Holding \cup {p}
    BY <1>2 DEF Holding
  <1>3. ASSUME p \in Holding, p \notin Holding' PROVE Holding' = Holding \ {p}
    BY <1>3 DEF Holding
  <1>4. ASSUME p \in Holding <=> p \in Holding' PROVE Holding' = Holding
    BY <1>4 DEF Holding
  <1>5. Cardinality(Holding) \in Nat
    BY <1>1, FS_CardinalityType
  <1>6. ASSUME p \notin Holding, p \in Holding'
        PROVE  Cardinality(Holding') = Cardinality(Holding) + 1
    BY <1>1, <1>2, <1>6, FS_AddElement
  <1>7. ASSUME p \in Holding, p \notin Holding'
        PROVE  Cardinality(Holding') = Cardinality(Holding) - 1
    BY <1>1, <1>3, <1>7, FS_RemoveElement
  <1>8. QED
    BY <1>4, <1>5, <1>6, <1>7

LEMMA LimiterInit == PulseInit => LimiterInv
  <1> SUFFICES ASSUME PulseInit PROVE LimiterInv
    OBVIOUS
  <1>1. PulseTypeOK
    BY InitType
  <1>2. Holding = {}
    BY DEF PulseInit, Holding
  <1>3. Cardinality(Holding) = 0
    BY <1>2, FS_EmptySet
  <1>4. puGov # "shrinking" /\ puAvail = puCurrent /\ puCurrent \in Nat
    BY <1>1 DEF PulseInit, PulseTypeOK
  <1>5. LimiterConserves
    BY <1>3, <1>4 DEF LimiterConserves, Taken
  <1>6. QED
    BY <1>1, <1>4, <1>5 DEF LimiterInv, ShrinkInProgress, GovernedIsAdaptive, PulseInit

LEMMA LimiterNext == LimiterInv /\ [PulseNext]_puVars => LimiterInv'
  <1> SUFFICES ASSUME LimiterInv, [PulseNext]_puVars PROVE LimiterInv'
    OBVIOUS
  <1> USE DEF puGovVars, puConnVars
  <1>1. /\ PulseTypeOK /\ ShrinkInProgress /\ LimiterConserves
        /\ puAvail \in Nat /\ puCurrent \in Nat /\ puTarget \in Nat /\ puNeed \in Nat
        /\ Floor \in Nat /\ Ceil \in Nat
    BY PulseAssumption DEF LimiterInv, PulseTypeOK
  <1>2. Cardinality(Holding) \in Nat
    <2>1. Holding \subseteq Probe
      BY DEF Holding
    <2>2. QED
      BY <2>1, PulseAssumption, FS_Subset, FS_CardinalityType
  <1>3. ASSUME NEW p \in Probe, ProbeStep(p) PROVE LimiterInv'
    <2>1. PulseTypeOK'
      BY <1>1, <1>3, ProbeType
    <2>2. \A q \in Probe : q # p => puProbe'[q] = puProbe[q]
      BY <1>1, <1>3 DEF PulseTypeOK, ProbeStep, ProbeStart, ProbeAttempt, Answer,
         RecordSent, RecordOutcome, ProbeEnd
    <2>3. UNCHANGED <<puCurrent, puGov, puNeed, puTarget, puReq>>
      BY <1>3 DEF ProbeStep, ProbeStart, ProbeAttempt, Answer, RecordSent,
         RecordOutcome, ProbeEnd
    <2>4. CASE ProbeStart(p)
      <3>1. p \notin Holding /\ p \in Holding' /\ puAvail' = puAvail - 1 /\ puAvail > 0
        BY <1>1, <2>4 DEF ProbeStart, Holding, PulseTypeOK
      <3>2. Cardinality(Holding') = Cardinality(Holding) + 1
        BY <1>1, <2>1, <2>2, <3>1, HoldingCounts
      <3>3. LimiterConserves'
        BY <1>1, <1>2, <2>3, <3>1, <3>2 DEF LimiterConserves, Taken
      <3>4. QED
        BY <1>1, <2>1, <2>3, <3>3
           DEF LimiterInv, ShrinkInProgress, GovernedIsAdaptive
    <2>5. CASE ProbeEnd(p)
      <3>1. p \in Holding /\ p \notin Holding' /\ puAvail' = puAvail + 1
        BY <1>1, <2>5 DEF ProbeEnd, Holding, PulseTypeOK
      <3>2. Cardinality(Holding') = Cardinality(Holding) - 1
        BY <1>1, <2>1, <2>2, <3>1, HoldingCounts
      <3>3. LimiterConserves'
        BY <1>1, <1>2, <2>3, <3>1, <3>2 DEF LimiterConserves, Taken
      <3>4. QED
        BY <1>1, <2>1, <2>3, <3>3
           DEF LimiterInv, ShrinkInProgress, GovernedIsAdaptive
    <2>6. CASE ProbeAttempt(p) \/ RecordSent(p) \/ RecordOutcome(p)
      <3>1. p \in Holding /\ p \in Holding' /\ puAvail' = puAvail
        BY <1>1, <2>6 DEF ProbeAttempt, Answer, RecordSent, RecordOutcome, Holding,
           PulseTypeOK
      <3>2. Holding' = Holding
        BY <1>1, <2>1, <2>2, <3>1, HoldingCounts
      <3>3. LimiterConserves'
        BY <1>1, <2>3, <3>1, <3>2 DEF LimiterConserves, Taken
      <3>4. QED
        BY <1>1, <2>1, <2>3, <3>3
           DEF LimiterInv, ShrinkInProgress, GovernedIsAdaptive
    <2>7. QED
      BY <1>3, <2>4, <2>5, <2>6 DEF ProbeStep
  <1>4. ASSUME GovStep PROVE LimiterInv'
    <2>1. PulseTypeOK'
      BY <1>1, <1>4, GovType DEF LimiterInv
    <2>2. Holding' = Holding /\ puReq' = puReq
      BY <1>4 DEF GovStep, GovSnapshot, GovDecide, GovTake, GovShrunk, Holding
    <2>3. GovernedIsAdaptive'
      BY <1>4, <2>2 DEF LimiterInv, GovernedIsAdaptive, GovStep, GovSnapshot, GovDecide,
         GovTake, GovShrunk, SetLimit
    <2>4. ShrinkInProgress' /\ LimiterConserves'
      <3>1. CASE GovSnapshot
        BY <1>1, <2>2, <3>1
           DEF GovSnapshot, ShrinkInProgress, LimiterConserves, Taken
      <3>2. CASE GovDecide
        <4>1. puGov = "snapped" /\ Taken = 0
          BY <3>2 DEF GovDecide, Taken
        <4>2. CASE UNCHANGED <<puAvail, puCurrent>> /\ puGov' \in {"idle", "stopped"}
          BY <1>1, <2>2, <4>1, <4>2 DEF ShrinkInProgress, LimiterConserves, Taken
        <4>3. CASE \E d \in Floor..Ceil : SetLimit(d)
          <5>1. PICK d \in Floor..Ceil : SetLimit(d)
            BY <4>3
          <5>2. d \in Nat
            BY <1>1
          <5>3. CASE d >= puCurrent
            <6>1. /\ puAvail' = puAvail + (d - puCurrent)
                  /\ puCurrent' = d /\ puGov' = "idle"
              BY <5>1, <5>3 DEF SetLimit
            <6>2. QED
              BY <1>1, <1>2, <2>2, <4>1, <5>2, <6>1
                 DEF ShrinkInProgress, LimiterConserves, Taken
          <5>4. CASE d < puCurrent
            <6>1. /\ puGov' = "shrinking" /\ puNeed' = puCurrent - d
                  /\ puTarget' = d /\ puAvail' = puAvail /\ puCurrent' = puCurrent
              BY <1>1, <5>1, <5>2, <5>4 DEF SetLimit
            <6>2. QED
              BY <1>1, <1>2, <2>2, <4>1, <5>2, <6>1
                 DEF ShrinkInProgress, LimiterConserves, Taken
          <5>5. QED
            BY <1>1, <5>2, <5>3, <5>4
        <4>4. QED
          <5>1. CASE puSnap.sent = 0
            BY <3>2, <4>2, <5>1 DEF GovDecide
          <5>2. CASE puSnap.sent # 0
            BY <1>1, <3>2, <4>2, <4>3, <5>2, DecideConcInRange DEF GovDecide
          <5>3. QED
            BY <5>1, <5>2
      <3>3. CASE GovTake
        BY <1>1, <1>2, <2>2, <3>3
           DEF GovTake, ShrinkInProgress, LimiterConserves, Taken
      <3>4. CASE GovShrunk
        BY <1>1, <1>2, <2>2, <3>4
           DEF GovShrunk, ShrinkInProgress, LimiterConserves, Taken
      <3>5. QED
        BY <1>4, <3>1, <3>2, <3>3, <3>4 DEF GovStep
    <2>5. QED
      BY <2>1, <2>3, <2>4 DEF LimiterInv
  <1>5. ASSUME ScanStep \/ WriteEvent \/ HangUp \/ DbReset PROVE LimiterInv'
    <2>1. PulseTypeOK'
      BY <1>1, <1>5, RestType
    <2>2. UNCHANGED <<puAvail, puCurrent, puGov, puNeed, puTarget, puReq>>
      BY <1>5 DEF ScanStep, Collect, CollectEnds, SendDone, CompleteOp, WriteEvent,
         HangUp, DbReset
    <2>3. Holding' = Holding
      <3>1. ASSUME NEW p \in Probe, Collect(p) PROVE Holding' = Holding
        <4>1. /\ p \notin Holding /\ p \notin Holding'
              /\ \A q \in Probe : q # p => puProbe'[q] = puProbe[q]
          BY <1>1, <3>1 DEF Collect, Holding, PulseTypeOK
        <4>2. QED
          BY <1>1, <2>1, <4>1, HoldingCounts
      <3>2. CASE puProbe' = puProbe
        BY <3>2 DEF Holding
      <3>3. QED
        BY <1>5, <3>1, <3>2 DEF ScanStep, CollectEnds, SendDone, CompleteOp, WriteEvent,
           HangUp, DbReset
    <2>4. QED
      BY <1>1, <2>1, <2>2, <2>3
         DEF LimiterInv, ShrinkInProgress, GovernedIsAdaptive, LimiterConserves, Taken
  <1>6. CASE UNCHANGED puVars
    <2>1. Holding' = Holding
      BY <1>6 DEF puVars, Holding
    <2>2. QED
      BY <1>1, <1>6, <2>1 DEF puVars, LimiterInv, PulseTypeOK, ShrinkInProgress,
         GovernedIsAdaptive, LimiterConserves, Taken
  <1>7. QED
    BY <1>3, <1>4, <1>5, <1>6 DEF PulseNext

\* The invariant of the limiter holds in every reachable state.
THEOREM LimiterInvariant == PulseSpec => []LimiterInv
  BY LimiterInit, LimiterNext, PTL DEF PulseSpec

\* The states of a port scan are well typed, the limit of an adaptive scan
\* stays within the floor and the ceiling of its controller.
THEOREM PulseTypeCorrect == PulseSpec => []PulseTypeOK
  <1>1. LimiterInv => PulseTypeOK
    BY DEF LimiterInv
  <1>2. QED
    BY <1>1, LimiterInvariant, PTL

\* DynLimiter neither loses nor invents a permit while the governor resizes it
\* under load.
THEOREM LimiterConservesPermits == PulseSpec => []LimiterConserves
  <1>1. LimiterInv => LimiterConserves
    BY DEF LimiterInv
  <1>2. QED
    BY <1>1, LimiterInvariant, PTL

-----------------------------------------------------------------------------
(* The port scanner: the results and the done event *)

\* An event joins the end of the channel, if anyone listens.
LEMMA SendEffect ==
    ASSUME PulseTypeOK, NEW e, SendEvent(e)
    PROVE  /\ puClient = "there" /\ puReq.mode # "queue" =>
                 /\ Len(puEvents') = Len(puEvents) + 1
                 /\ puEvents'[Len(puEvents) + 1] = e
                 /\ \A k \in 1..Len(puEvents) : puEvents'[k] = puEvents[k]
           /\ ~ (puClient = "there" /\ puReq.mode # "queue") => puEvents' = puEvents
  <1>1. puEvents \in Seq(ScanEvent)
    BY DEF PulseTypeOK
  <1>2. QED
    BY <1>1 DEF SendEvent

LEMMA DeliveryInit == PulseInit => Delivery
  <1> SUFFICES ASSUME PulseInit PROVE Delivery
    OBVIOUS
  <1>2. Len(puEvents) = 0 /\ puEvents = <<>> /\ puGot = {}
    BY DEF PulseInit
  <1>3. \A e : ~ InChannel(e)
    BY <1>2 DEF InChannel
  <1>4. ResultsInOrder
    BY DEF PulseInit, ResultsInOrder
  <1>5. CountedIsSent
    BY DEF PulseInit, CountedIsSent
  <1>6. DoneAtEnd
    BY <1>2, <1>3 DEF DoneAtEnd
  <1>7. DoneIsLast
    BY <1>2 DEF DoneIsLast
  <1>8. QED
    BY <1>4, <1>5, <1>6, <1>7 DEF Delivery

\* A step that leaves the channel, the client and the phase alone, and changes
\* a verdict only for a task that still probes.
LEMMA QuietDelivery ==
    ASSUME PulseTypeOK, Delivery,
           UNCHANGED <<puReq, puPhase, puEvents, puGot, puClient>>,
           \A p \in Probe :
              \/ puProbe'[p] = puProbe[p] /\ puVerdict'[p] = puVerdict[p]
              \/ /\ puProbe[p] # "counted" /\ puProbe'[p] # "counted"
                 /\ puProbe'[p] \notin {"wait", "run"} => puVerdict'[p] # "none"
    PROVE  Delivery'
  <1>1. \A e : InChannel(e)' <=> InChannel(e)
    BY DEF InChannel
  <1>2. ResultsInOrder'
    BY DEF Delivery, ResultsInOrder
  <1>3. CountedIsSent'
    BY <1>1 DEF Delivery, CountedIsSent
  <1>4. DoneAtEnd'
    BY <1>1 DEF Delivery, DoneAtEnd
  <1>5. DoneIsLast'
    <2> SUFFICES ASSUME DoneEvent \in puGot, NEW p \in Probe
                 PROVE  puVerdict'[p] # "none"
                        /\ (p \in puGot \/ puVerdict'[p] = "closed")
      BY DEF DoneIsLast
    <2>1. puProbe[p] = "counted"
      BY DEF Delivery, DoneAtEnd, ResultsInOrder
    <2>2. QED
      BY <2>1 DEF Delivery, DoneIsLast
  <1>6. QED
    BY <1>2, <1>3, <1>4, <1>5 DEF Delivery

LEMMA ProbeDelivery ==
    ASSUME PulseTypeOK, Delivery, NEW p \in Probe, ProbeStep(p)
    PROVE  Delivery'
  <1> USE DEF puGovVars, puConnVars
  <1>1. UNCHANGED <<puReq, puPhase, puEvents, puGot, puClient>>
    BY DEF ProbeStep, ProbeStart, ProbeAttempt, RecordSent, RecordOutcome, ProbeEnd
  <1>2. \A q \in Probe : q # p => puProbe'[q] = puProbe[q] /\ puVerdict'[q] = puVerdict[q]
    BY DEF PulseTypeOK, ProbeStep, ProbeStart, ProbeAttempt, Answer, RecordSent,
       RecordOutcome, ProbeEnd
  <1>3. /\ puProbe[p] # "counted" /\ puProbe'[p] # "counted"
        /\ puProbe'[p] \notin {"wait", "run"} => puVerdict'[p] # "none"
    <2>1. CASE ProbeAttempt(p)
      BY <2>1 DEF PulseTypeOK, ProbeAttempt, Answer
    <2>2. CASE ProbeStart(p) \/ RecordSent(p) \/ RecordOutcome(p) \/ ProbeEnd(p)
      BY <2>2 DEF PulseTypeOK, ProbeStart, RecordSent, RecordOutcome, ProbeEnd,
         Delivery, ResultsInOrder
    <2>3. QED
      BY <2>1, <2>2 DEF ProbeStep
  <1>4. QED
    BY <1>1, <1>2, <1>3, QuietDelivery

LEMMA CollectDelivery ==
    ASSUME PulseTypeOK, Delivery, NEW p \in Probe, Collect(p)
    PROVE  Delivery'
  <1> USE DEF puGovVars, puConnVars
  <1>1. /\ puPhase = "collect" /\ puPhase' = puPhase
        /\ UNCHANGED <<puReq, puVerdict, puGot, puClient>>
        /\ puProbe[p] = "reported" /\ puProbe'[p] = "counted"
        /\ \A q \in Probe : q # p => puProbe'[q] = puProbe[q]
    BY DEF PulseTypeOK, Collect
  <1>2. /\ DoneEvent \notin puGot /\ ~ InChannel(DoneEvent) /\ p # DoneEvent
        /\ Len(puEvents) \in Nat
    BY <1>1, PulseAssumption DEF Delivery, DoneAtEnd, DoneEvent, PulseTypeOK
  <1>3. \/ puVerdict[p] = "closed" /\ puEvents' = puEvents
        \/ puVerdict[p] # "closed" /\ SendEvent(p)
    BY DEF Collect
  <1>4. /\ \A k \in 1..Len(puEvents) : puEvents'[k] = puEvents[k]
        /\ \/ puEvents' = puEvents /\
              (puVerdict[p] = "closed" \/ ~ (puClient = "there" /\ puReq.mode # "queue"))
           \/ /\ Len(puEvents') = Len(puEvents) + 1
              /\ puEvents'[Len(puEvents) + 1] = p
              /\ puReq.mode # "queue"
    BY <1>3, SendEffect
  <1>5. \A e : InChannel(e) => InChannel(e)'
    BY <1>2, <1>4 DEF InChannel
  <1>6. ~ InChannel(DoneEvent)'
    BY <1>2, <1>4 DEF InChannel
  <1>7. ResultsInOrder'
    BY <1>1 DEF Delivery, ResultsInOrder
  <1>8. CountedIsSent'
    <2> SUFFICES ASSUME puClient = "there", puReq.mode # "queue", NEW q \in Probe,
                        puProbe'[q] = "counted", puVerdict[q] # "closed"
                 PROVE  q \in puGot \/ InChannel(q)'
      BY <1>1 DEF CountedIsSent
    <2>1. CASE q = p
      BY <1>2, <1>4, <2>1 DEF InChannel
    <2>2. CASE q # p
      BY <1>1, <1>5, <2>2 DEF Delivery, CountedIsSent
    <2>3. QED
      BY <2>1, <2>2
  <1>9. DoneAtEnd'
    <2>1. puReq.mode = "queue" => puEvents' = <<>>
      BY <1>4 DEF Delivery, DoneAtEnd
    <2>2. \A k \in 1..Len(puEvents') : puEvents'[k] # DoneEvent
      BY <1>6 DEF InChannel
    <2>3. QED
      BY <1>1, <1>2, <1>6, <2>1, <2>2 DEF DoneAtEnd
  <1>10. DoneIsLast'
    BY <1>1, <1>2 DEF DoneIsLast
  <1>11. QED
    BY <1>7, <1>8, <1>9, <1>10 DEF Delivery

LEMMA SendDoneDelivery ==
    ASSUME PulseTypeOK, Delivery, SendDone
    PROVE  Delivery'
  <1> USE DEF puGovVars, puConnVars
  <1>1. /\ puPhase = "stopping" /\ puPhase' = "finished" /\ SendEvent(DoneEvent)
        /\ UNCHANGED <<puReq, puProbe, puVerdict, puGot, puClient>>
    BY DEF SendDone
  <1>2. DoneEvent \notin puGot /\ ~ InChannel(DoneEvent) /\ Len(puEvents) \in Nat
    BY <1>1 DEF Delivery, DoneAtEnd, PulseTypeOK
  <1>3. /\ \A k \in 1..Len(puEvents) : puEvents'[k] = puEvents[k]
        /\ \/ puEvents' = puEvents
           \/ Len(puEvents') = Len(puEvents) + 1 /\ puReq.mode # "queue"
    BY <1>1, SendEffect
  <1>4. \A e : InChannel(e) => InChannel(e)'
    BY <1>2, <1>3 DEF InChannel
  <1>5. ResultsInOrder'
    BY <1>1 DEF Delivery, ResultsInOrder
  <1>6. CountedIsSent'
    BY <1>1, <1>4 DEF Delivery, CountedIsSent
  <1>7. DoneAtEnd'
    <2>1. puReq.mode = "queue" => puEvents' = <<>>
      BY <1>3 DEF Delivery, DoneAtEnd
    <2>2. \A k \in 1..Len(puEvents') : puEvents'[k] = DoneEvent => k = Len(puEvents')
      BY <1>2, <1>3 DEF InChannel
    <2>3. QED
      BY <1>1, <2>1, <2>2 DEF DoneAtEnd
  <1>8. DoneIsLast'
    BY <1>1, <1>2 DEF DoneIsLast
  <1>9. QED
    BY <1>5, <1>6, <1>7, <1>8 DEF Delivery

LEMMA WriteDelivery ==
    ASSUME PulseTypeOK, Delivery, WriteEvent
    PROVE  Delivery'
  <1> USE DEF puGovVars, puConnVars
  <1> DEFINE h == Head(puEvents)
  <1>1. /\ puClient = "there" /\ DoneEvent \notin puGot /\ puEvents # <<>>
        /\ puGot' = puGot \cup {h} /\ puEvents' = Tail(puEvents)
        /\ UNCHANGED <<puReq, puProbe, puVerdict, puPhase, puClient>>
    BY DEF WriteEvent
  <1>2. puEvents \in Seq(ScanEvent)
    BY DEF PulseTypeOK
  <1>3. /\ h = puEvents[1] /\ Len(puEvents) \in Nat /\ Len(puEvents) > 0
        /\ Len(puEvents') = Len(puEvents) - 1
        /\ \A k \in 1..Len(puEvents') : puEvents'[k] = puEvents[k + 1]
    BY <1>1, <1>2
  <1> HIDE DEF h
  <1>4. \A e : InChannel(e) => e = h \/ InChannel(e)'
    <2> SUFFICES ASSUME NEW k \in 1..Len(puEvents), k # 1
                 PROVE  \E j \in 1..Len(puEvents') : puEvents'[j] = puEvents[k]
      BY <1>3 DEF InChannel
    <2>1. k - 1 \in 1..Len(puEvents') /\ (k - 1) + 1 = k
      BY <1>3
    <2>2. QED
      BY <1>3, <2>1
  <1>5. \A e : InChannel(e)' => InChannel(e)
    BY <1>3 DEF InChannel
  <1>6. InChannel(h) /\ puReq.mode # "queue"
    <2>1. 1 \in 1..Len(puEvents)
      BY <1>3
    <2>2. InChannel(h)
      BY <1>3, <2>1 DEF InChannel
    <2>3. QED
      BY <1>1, <2>2 DEF Delivery, DoneAtEnd
  <1>7. ResultsInOrder'
    BY <1>1 DEF Delivery, ResultsInOrder
  <1>8. CountedIsSent'
    BY <1>1, <1>4 DEF Delivery, CountedIsSent
  <1>9. DoneAtEnd'
    <2>1. ASSUME NEW k \in 1..Len(puEvents'), puEvents'[k] = DoneEvent
          PROVE  k = Len(puEvents')
      BY <1>3, <2>1 DEF Delivery, DoneAtEnd
    <2>2. DoneEvent \in puGot' \/ InChannel(DoneEvent)' => puPhase' \in {"finished", "ended"}
      BY <1>1, <1>5, <1>6 DEF Delivery, DoneAtEnd
    <2>3. QED
      BY <1>1, <1>6, <2>1, <2>2 DEF DoneAtEnd
  <1>10. DoneIsLast'
    <2> SUFFICES ASSUME h = DoneEvent, NEW p \in Probe
                 PROVE  puVerdict[p] # "none" /\ (p \in puGot \/ puVerdict[p] = "closed")
      BY <1>1 DEF DoneIsLast
    <2>1. puProbe[p] = "counted"
      BY <1>6 DEF Delivery, DoneAtEnd, ResultsInOrder
    <2>2. p # DoneEvent
      BY PulseAssumption DEF DoneEvent
    <2>3. Len(puEvents) = 1
      BY <1>3 DEF Delivery, DoneAtEnd
    <2>4. ~ InChannel(p)
      BY <1>3, <2>2, <2>3 DEF InChannel
    <2>5. QED
      BY <1>1, <1>6, <2>1, <2>4 DEF Delivery, CountedIsSent, ResultsInOrder
  <1>11. QED
    BY <1>7, <1>8, <1>9, <1>10 DEF Delivery

LEMMA DeliveryNext ==
    ASSUME PulseTypeOK, PulseTypeOK', Delivery, [PulseNext]_puVars
    PROVE  Delivery'
  <1> USE DEF puGovVars, puConnVars
  <1>1. CASE GovStep \/ DbReset
    <2>1. UNCHANGED <<puReq, puPhase, puProbe, puVerdict, puEvents, puGot, puClient>>
      BY <1>1 DEF GovStep, GovSnapshot, GovDecide, GovTake, GovShrunk, DbReset
    <2>2. QED
      BY <2>1, QuietDelivery
  <1>2. CASE CollectEnds \/ CompleteOp
    <2>1. /\ UNCHANGED <<puReq, puProbe, puVerdict, puEvents, puGot, puClient>>
          /\ puPhase' \in {"stopping", "ended"}
          /\ \A p \in Probe : puProbe[p] = "counted"
          /\ puPhase' = "stopping" => puPhase = "collect"
      BY <1>2 DEF CollectEnds, CompleteOp, Delivery, ResultsInOrder
    <2>2. \A e : InChannel(e)' <=> InChannel(e)
      BY <2>1 DEF InChannel
    <2>3. QED
      BY <2>1, <2>2 DEF Delivery, ResultsInOrder, CountedIsSent, DoneAtEnd, DoneIsLast
  <1>3. CASE HangUp
    <2>1. /\ UNCHANGED <<puReq, puPhase, puProbe, puVerdict, puGot>>
          /\ puClient' = "gone" /\ puEvents' = <<>> /\ Len(puEvents') = 0
      BY <1>3 DEF HangUp
    <2>2. \A e : ~ InChannel(e)'
      BY <2>1 DEF InChannel
    <2>3. QED
      BY <2>1, <2>2 DEF Delivery, ResultsInOrder, CountedIsSent, DoneAtEnd, DoneIsLast
  <1>4. CASE UNCHANGED puVars
    <2>1. UNCHANGED <<puReq, puPhase, puProbe, puVerdict, puEvents, puGot, puClient>>
      BY <1>4 DEF puVars
    <2>2. QED
      BY <2>1, QuietDelivery
  <1>5. QED
    BY <1>1, <1>2, <1>3, <1>4, ProbeDelivery, CollectDelivery, SendDoneDelivery,
       WriteDelivery DEF PulseNext, ScanStep

\* A client that is sent the done event of a port scan has been sent the result
\* of every port that is not closed.
THEOREM DoneEventIsLast == PulseSpec => []DoneIsLast
  <1>1. PulseInit => Delivery
    BY DeliveryInit
  <1>2. PulseTypeOK /\ PulseTypeOK' /\ Delivery /\ [PulseNext]_puVars => Delivery'
    BY DeliveryNext
  <1>3. Delivery => DoneIsLast
    BY DEF Delivery
  <1>4. QED
    BY <1>1, <1>2, <1>3, PulseTypeCorrect, PTL DEF PulseSpec

-----------------------------------------------------------------------------
(* The recursive handlers *)

\* A place is waiting in the frontier.
Waits(p) == \E k \in 1..Len(rcFrontier) : rcFrontier[k][1] = p

Streaming == rcPhase \in {"stream", "cancelled"}

\* Only the target is visited at depth 0, and a level has at least one result
\* left for each of its finds.
LevelsInOrder ==
    /\ \A k \in 1..Len(rcFrontier) : rcFrontier[k][2] = 0 => rcFrontier[k][1] = Root
    /\ Streaming => /\ IsFiniteSet(rcLevel.found)
                    /\ Cardinality(rcLevel.found) <= rcLevel.left

\* A place once queued waits, is being read, or had its level.
VisitedIsKept ==
    /\ \A p \in rcVisited :
          \/ Waits(p)
          \/ Streaming /\ rcLevel.place = p
          \/ \E m \in rcRead \cup rcCut : m[1] = p
    /\ rcPhase = "completed" => rcFrontier = <<>>

\* What a level has reported so far is published and queued.
Reported(place, depth, found) ==
    /\ Tree[place] \ found \subseteq rcOut
    /\ depth < RecurseDepth =>
         \A p \in Tree[place] \ found : CanEnter(p) => p \in rcVisited

ReportsKept ==
    /\ Streaming => Reported(rcLevel.place, rcLevel.depth, rcLevel.found)
    /\ \A l \in rcRead : Reported(l[1], l[2], {})

CoverInv == RecursionTypeOK /\ LevelsInOrder /\ VisitedIsKept /\ ReportsKept

\* The words still to come: of the level being read and of the queued places.
LeftNow == IF Streaming THEN rcLevel.left ELSE 0

\* Before the first level the total is the announced one; after it, the total
\* has room for the results that are left and for every queued place.
RoomLeft ==
    rcOp.given /\ ~ rcOp.passive =>
        \/ /\ rcFrontier = <<<<Root, 0>>>> /\ ~ Streaming
           /\ rcDone = 0 /\ rcTotal = IF rcOp.enum THEN 0 ELSE ChunkLines
        \/ /\ \A k \in 1..Len(rcFrontier) : rcFrontier[k][2] > 0
           /\ rcDone + LeftNow + Len(rcFrontier) * FullLines <= rcTotal

-----------------------------------------------------------------------------
(* The recursive handlers: the data of a level *)

\* A level has at least one result, and at least one for each of its finds.
LEMMA ResultsCover ==
    ASSUME RecursionTypeOK, NEW p \in Place, NEW d \in 0..RecurseDepth,
           d = 0 => p = Root
    PROVE  /\ Results(d) \in Nat /\ Lines(d) \in Nat \ {0}
           /\ IsFiniteSet(Tree[p]) /\ Cardinality(Tree[p]) <= Results(d)
           /\ Tree[p] \in SUBSET Place
  <1>1. /\ IsFiniteSet(Tree[p]) /\ Tree[p] \in SUBSET Place
        /\ ChunkLines \in Nat \ {0} /\ FullLines \in Nat \ {0}
        /\ Cardinality(Tree[p]) <= FullLines
        /\ p = Root => Cardinality(Tree[p]) <= ChunkLines
    BY RecursionAssumption
  <1>2. Cardinality(Tree[p]) \in Nat
    BY <1>1, FS_CardinalityType
  <1>3. /\ Lines(d) \in Nat \ {0} /\ Cardinality(Tree[p]) <= Lines(d)
    BY <1>1 DEF Lines
  <1>4. Results(d) \in Nat /\ Results(d) >= Lines(d)
    BY <1>3 DEF Results
  <1>5. QED
    BY <1>1, <1>2, <1>3, <1>4

\* The next level, taken from the frontier.
LEMMA HeadOfFrontier ==
    ASSUME RecursionTypeOK, LevelsInOrder, rcFrontier # <<>>
    PROVE  /\ Head(rcFrontier)[1] \in Place /\ Head(rcFrontier)[2] \in 0..RecurseDepth
           /\ Head(rcFrontier)[2] = 0 => Head(rcFrontier)[1] = Root
           /\ Head(rcFrontier) = rcFrontier[1]
           /\ Tail(rcFrontier) \in Seq(Place \X (0..RecurseDepth))
           /\ Len(rcFrontier) \in Nat /\ Len(rcFrontier) > 0
           /\ Len(Tail(rcFrontier)) = Len(rcFrontier) - 1
           /\ \A k \in 1..Len(Tail(rcFrontier)) : Tail(rcFrontier)[k] = rcFrontier[k + 1]
  <1>1. rcFrontier \in Seq(Place \X (0..RecurseDepth))
    BY DEF RecursionTypeOK
  <1>2. /\ Head(rcFrontier) \in Place \X (0..RecurseDepth)
        /\ Head(rcFrontier) = rcFrontier[1]
        /\ Tail(rcFrontier) \in Seq(Place \X (0..RecurseDepth))
        /\ Len(rcFrontier) \in Nat /\ Len(rcFrontier) > 0
        /\ Len(Tail(rcFrontier)) = Len(rcFrontier) - 1
        /\ \A k \in 1..Len(Tail(rcFrontier)) : Tail(rcFrontier)[k] = rcFrontier[k + 1]
    BY <1>1
  <1>3. 1 \in 1..Len(rcFrontier)
    BY <1>2
  <1>4. QED
    BY <1>2, <1>3 DEF LevelsInOrder

\* A find that may be entered joins the frontier, at its front or at its end.
Pushed(e) ==
    /\ rcFrontier' \in Seq(Place \X (0..RecurseDepth))
    /\ Len(rcFrontier') = Len(rcFrontier) + 1
    /\ \A k \in 1..Len(rcFrontier') :
          rcFrontier'[k] = e \/ \E j \in 1..Len(rcFrontier) : rcFrontier'[k] = rcFrontier[j]
    /\ \A j \in 1..Len(rcFrontier) :
          \E k \in 1..Len(rcFrontier') : rcFrontier'[k] = rcFrontier[j]
    /\ \E k \in 1..Len(rcFrontier') : rcFrontier'[k] = e

LEMMA PushesOne ==
    ASSUME RecursionTypeOK, NEW e \in Place \X (0..RecurseDepth),
           rcFrontier' = IF rcOp.depthFirst THEN <<e>> \o rcFrontier
                         ELSE Append(rcFrontier, e)
    PROVE  Pushed(e)
  <1>1. rcFrontier \in Seq(Place \X (0..RecurseDepth)) /\ Len(rcFrontier) \in Nat
    BY DEF RecursionTypeOK
  <1>2. CASE rcOp.depthFirst
    <2>1. /\ rcFrontier' \in Seq(Place \X (0..RecurseDepth))
          /\ Len(rcFrontier') = Len(rcFrontier) + 1
          /\ rcFrontier'[1] = e
          /\ \A k \in 1..Len(rcFrontier') : k # 1 => rcFrontier'[k] = rcFrontier[k - 1]
      BY <1>1, <1>2
    <2>2. \A k \in 1..Len(rcFrontier') : k # 1 => k - 1 \in 1..Len(rcFrontier)
      BY <1>1, <2>1
    <2>3. \A j \in 1..Len(rcFrontier) :
             j + 1 \in 1..Len(rcFrontier') /\ rcFrontier'[j + 1] = rcFrontier[j]
      BY <1>1, <2>1
    <2>4. 1 \in 1..Len(rcFrontier')
      BY <1>1, <2>1
    <2>5. QED
      BY <2>1, <2>2, <2>3, <2>4 DEF Pushed
  <1>3. CASE ~ rcOp.depthFirst
    <2>1. /\ rcFrontier' \in Seq(Place \X (0..RecurseDepth))
          /\ Len(rcFrontier') = Len(rcFrontier) + 1
          /\ rcFrontier'[Len(rcFrontier) + 1] = e
          /\ \A k \in 1..Len(rcFrontier) : rcFrontier'[k] = rcFrontier[k]
      BY <1>1, <1>3
    <2>2. \A k \in 1..Len(rcFrontier') :
             k = Len(rcFrontier) + 1 \/ k \in 1..Len(rcFrontier)
      BY <1>1, <2>1
    <2>3. \A j \in 1..Len(rcFrontier) : j \in 1..Len(rcFrontier')
      BY <1>1, <2>1
    <2>4. Len(rcFrontier) + 1 \in 1..Len(rcFrontier')
      BY <1>1, <2>1
    <2>5. QED
      BY <2>1, <2>2, <2>3, <2>4 DEF Pushed
  <1>4. QED
    BY <1>2, <1>3

\* One find less of a level: its results go down with its finds.
LEMMA FindCounts ==
    ASSUME RecursionTypeOK, LevelsInOrder, Streaming, NEW p \in rcLevel.found
    PROVE  /\ rcLevel.left \in Nat \ {0}
           /\ IsFiniteSet(rcLevel.found \ {p})
           /\ Cardinality(rcLevel.found \ {p}) <= rcLevel.left - 1
  <1>1. /\ IsFiniteSet(rcLevel.found) /\ Cardinality(rcLevel.found) <= rcLevel.left
        /\ rcLevel.left \in Nat
    BY DEF LevelsInOrder, RecursionTypeOK
  <1>2. /\ Cardinality(rcLevel.found) \in Nat /\ IsFiniteSet(rcLevel.found \ {p})
        /\ Cardinality(rcLevel.found \ {p}) = Cardinality(rcLevel.found) - 1
    BY <1>1, FS_CardinalityType, FS_RemoveElement
  <1>3. Cardinality(rcLevel.found \ {p}) \in Nat
    BY <1>2, FS_CardinalityType
  <1>4. QED
    BY <1>1, <1>2, <1>3

-----------------------------------------------------------------------------
(* The recursive handlers: types and the order of the levels *)

LEMMA InitCover == RecursionInit => CoverInv
  <1> SUFFICES ASSUME RecursionInit PROVE CoverInv
    OBVIOUS
  <1>1. Root \in Place /\ 0 \in 0..RecurseDepth /\ ChunkLines \in Nat
    BY RecursionAssumption
  <1>2. /\ rcFrontier \in Seq(Place \X (0..RecurseDepth))
        /\ Len(rcFrontier) = 1 /\ rcFrontier[1] = <<Root, 0>>
    BY <1>1 DEF RecursionInit
  <1>3. rcLevel \in [place : Place, depth : 0..RecurseDepth, left : Nat, found : SUBSET Place]
    BY <1>1 DEF RecursionInit, NoLevel
  <1>4. RecursionTypeOK
    BY <1>1, <1>2, <1>3 DEF RecursionInit, RecursionTypeOK
  <1>5. LevelsInOrder
    BY <1>2 DEF RecursionInit, LevelsInOrder, Streaming
  <1>6. VisitedIsKept
    BY <1>2 DEF RecursionInit, VisitedIsKept, Waits
  <1>7. ReportsKept
    BY DEF RecursionInit, ReportsKept, Streaming
  <1>8. QED
    BY <1>4, <1>5, <1>6, <1>7 DEF CoverInv

LEMMA StartType ==
    ASSUME RecursionTypeOK, LevelsInOrder, StartLevel
    PROVE  /\ RecursionTypeOK' /\ LevelsInOrder'
           /\ rcLevel' = [place |-> Head(rcFrontier)[1], depth |-> Head(rcFrontier)[2],
                          left |-> Results(Head(rcFrontier)[2]),
                          found |-> Tree[Head(rcFrontier)[1]]]
           /\ rcPhase = "next" /\ rcPhase' = "stream" /\ rcFrontier # <<>>
           /\ rcFrontier' = Tail(rcFrontier)
           /\ UNCHANGED <<rcOp, rcVisited, rcDone, rcOut, rcRead, rcCut>>
  <1> DEFINE p == Head(rcFrontier)[1]
             d == Head(rcFrontier)[2]
  <1>1. /\ rcPhase = "next" /\ rcFrontier # <<>>
        /\ rcFrontier' = Tail(rcFrontier)
        /\ rcLevel' = [place |-> p, depth |-> d, left |-> Results(d), found |-> Tree[p]]
        /\ rcTotal' = IF ~ rcOp.enum THEN Larger(rcTotal, Results(d))
                      ELSE rcTotal + IF d = 0 THEN Results(d) ELSE 0
        /\ rcPhase' = "stream"
        /\ UNCHANGED <<rcOp, rcVisited, rcDone, rcOut, rcRead, rcCut>>
    BY DEF StartLevel
  <1>2. /\ p \in Place /\ d \in 0..RecurseDepth /\ (d = 0 => p = Root)
        /\ rcFrontier' \in Seq(Place \X (0..RecurseDepth))
        /\ Len(rcFrontier) \in Nat /\ Len(rcFrontier') = Len(rcFrontier) - 1
        /\ \A k \in 1..Len(rcFrontier') : rcFrontier'[k] = rcFrontier[k + 1]
    BY <1>1, HeadOfFrontier
  <1> HIDE DEF p, d
  <1>3. /\ Results(d) \in Nat /\ IsFiniteSet(Tree[p])
        /\ Cardinality(Tree[p]) <= Results(d) /\ Tree[p] \in SUBSET Place
    BY <1>2, ResultsCover
  <1>4. rcLevel' \in [place : Place, depth : 0..RecurseDepth, left : Nat, found : SUBSET Place]
    BY <1>1, <1>2, <1>3
  <1>5. rcTotal' \in Nat
    BY <1>1, <1>3 DEF RecursionTypeOK, Larger
  <1>6. RecursionTypeOK'
    BY <1>1, <1>2, <1>4, <1>5 DEF RecursionTypeOK
  <1>7. \A k \in 1..Len(rcFrontier') : k + 1 \in 1..Len(rcFrontier)
    BY <1>2
  <1>8. rcLevel'.found = Tree[p] /\ rcLevel'.left = Results(d)
    BY <1>1
  <1>9. LevelsInOrder'
    BY <1>1, <1>2, <1>3, <1>7, <1>8 DEF LevelsInOrder, Streaming
  <1>10. QED
    BY <1>1, <1>6, <1>9 DEF p, d

LEMMA FoundType ==
    ASSUME RecursionTypeOK, LevelsInOrder, NEW p \in Place, ResultFound(p)
    PROVE  /\ RecursionTypeOK' /\ LevelsInOrder'
           /\ p \in rcLevel.found /\ rcPhase = "stream" /\ rcPhase' = "stream"
           /\ rcLevel' = [rcLevel EXCEPT !.left = @ - 1, !.found = @ \ {p}]
           /\ \/ /\ MayEnter(p) /\ Pushed(<<p, rcLevel.depth + 1>>)
                 /\ rcVisited' = rcVisited \cup {p}
                 /\ rcTotal' = rcTotal + IF rcOp.given THEN FullLines ELSE 0
              \/ ~ MayEnter(p) /\ UNCHANGED <<rcVisited, rcTotal, rcFrontier>>
  <1>1. /\ rcPhase = "stream" /\ p \in rcLevel.found
        /\ rcLevel' = [rcLevel EXCEPT !.left = @ - 1, !.found = @ \ {p}]
        /\ rcDone' = rcDone + 1 /\ rcOut' = rcOut \cup {p}
        /\ UNCHANGED <<rcOp, rcPhase, rcRead, rcCut>>
    BY DEF ResultFound
  <1>2. Streaming
    BY <1>1 DEF Streaming
  <1>3. /\ rcLevel.left \in Nat \ {0} /\ IsFiniteSet(rcLevel.found \ {p})
        /\ Cardinality(rcLevel.found \ {p}) <= rcLevel.left - 1
    BY <1>1, <1>2, FindCounts
  <1>4. /\ rcLevel' \in [place : Place, depth : 0..RecurseDepth, left : Nat,
                         found : SUBSET Place]
        /\ rcLevel'.left = rcLevel.left - 1 /\ rcLevel'.found = rcLevel.found \ {p}
    <2>1. rcLevel \in [place : Place, depth : 0..RecurseDepth, left : Nat,
                      found : SUBSET Place]
      BY DEF RecursionTypeOK
    <2>2. rcLevel.left - 1 \in Nat /\ rcLevel.found \ {p} \in SUBSET Place
      BY <1>3, <2>1
    <2>3. rcLevel'.left = rcLevel.left - 1 /\ rcLevel'.found = rcLevel.found \ {p}
      BY <1>1, <2>1
    <2>4. rcLevel' = [place |-> rcLevel.place, depth |-> rcLevel.depth,
                      left |-> rcLevel.left - 1, found |-> rcLevel.found \ {p}]
      BY <1>1, <2>1
    <2>5. QED
      BY <2>1, <2>2, <2>3, <2>4
  <1>5. \/ /\ MayEnter(p) /\ Pushed(<<p, rcLevel.depth + 1>>)
           /\ rcVisited' = rcVisited \cup {p}
           /\ rcTotal' = rcTotal + IF rcOp.given THEN FullLines ELSE 0
        \/ ~ MayEnter(p) /\ UNCHANGED <<rcVisited, rcTotal, rcFrontier>>
    <2>1. CASE MayEnter(p)
      <3>1. <<p, rcLevel.depth + 1>> \in Place \X (0..RecurseDepth)
        BY <2>1, RecursionAssumption DEF MayEnter, RecursionTypeOK
      <3>2. /\ rcVisited' = rcVisited \cup {p}
            /\ rcTotal' = rcTotal + IF rcOp.given THEN FullLines ELSE 0
            /\ rcFrontier' = IF rcOp.depthFirst
                             THEN <<<<p, rcLevel.depth + 1>>>> \o rcFrontier
                             ELSE Append(rcFrontier, <<p, rcLevel.depth + 1>>)
        BY <2>1 DEF ResultFound
      <3>3. Pushed(<<p, rcLevel.depth + 1>>)
        BY <3>1, <3>2, PushesOne
      <3>4. QED
        BY <2>1, <3>2, <3>3
    <2>2. CASE ~ MayEnter(p)
      BY <2>2 DEF ResultFound
    <2>3. QED
      BY <2>1, <2>2
  <1>6. rcTotal' \in Nat /\ rcVisited' \subseteq Place
        /\ rcFrontier' \in Seq(Place \X (0..RecurseDepth))
    <2>1. FullLines \in Nat
      BY RecursionAssumption
    <2>2. CASE ~ MayEnter(p)
      BY <1>5, <2>2 DEF RecursionTypeOK
    <2>3. CASE MayEnter(p)
      <3>1. rcFrontier' \in Seq(Place \X (0..RecurseDepth))
        BY <1>5, <2>3 DEF Pushed
      <3>2. QED
        BY <1>5, <2>1, <2>3, <3>1 DEF RecursionTypeOK
    <2>4. QED
      BY <2>2, <2>3
  <1>7. RecursionTypeOK'
    BY <1>1, <1>4, <1>6 DEF RecursionTypeOK
  <1>8. LevelsInOrder'
    <2>1. \A k \in 1..Len(rcFrontier') : rcFrontier'[k][2] = 0 => rcFrontier'[k][1] = Root
      <3>1. CASE ~ MayEnter(p)
        BY <1>5, <3>1 DEF LevelsInOrder
      <3>2. CASE MayEnter(p)
        <4>1. rcLevel.depth + 1 # 0 /\ <<p, rcLevel.depth + 1>>[2] = rcLevel.depth + 1
          BY RecursionAssumption DEF RecursionTypeOK
        <4>2. ASSUME NEW k \in 1..Len(rcFrontier')
              PROVE  \/ rcFrontier'[k] = <<p, rcLevel.depth + 1>>
                     \/ \E j \in 1..Len(rcFrontier) : rcFrontier'[k] = rcFrontier[j]
          BY <1>5, <3>2 DEF Pushed
        <4>3. QED
          BY <4>1, <4>2 DEF LevelsInOrder
      <3>3. QED
        BY <3>1, <3>2
    <2>2. QED
      BY <1>3, <1>4, <2>1 DEF LevelsInOrder
  <1>9. QED
    BY <1>1, <1>4, <1>5, <1>7, <1>8

\* The steps that leave the frontier and the visited places alone.
Other == ResultOther \/ LevelDone \/ LevelCut \/ SeeHalt \/ Complete \/ Unreachable

LEMMA OtherType ==
    ASSUME RecursionTypeOK, LevelsInOrder, Other
    PROVE  RecursionTypeOK' /\ LevelsInOrder' /\ UNCHANGED <<rcOp, rcFrontier, rcVisited, rcOut>>
  <1>1. UNCHANGED <<rcOp, rcFrontier, rcVisited, rcOut>>
    BY DEF Other, ResultOther, LevelDone, LevelCut, SeeHalt, Complete, Unreachable
  <1>2. NoLevel \in [place : Place, depth : 0..RecurseDepth, left : Nat, found : SUBSET Place]
    BY RecursionAssumption DEF NoLevel
  <1>3. <<rcLevel.place, rcLevel.depth>> \in Place \X (0..RecurseDepth)
    BY DEF RecursionTypeOK
  <1>4. CASE ResultOther
    <2>1. /\ rcPhase = "stream" /\ rcLevel.left > Cardinality(rcLevel.found)
          /\ rcLevel' = [rcLevel EXCEPT !.left = @ - 1] /\ rcDone' = rcDone + 1
          /\ UNCHANGED <<rcPhase, rcTotal, rcRead, rcCut>>
      BY <1>4 DEF ResultOther
    <2>2. /\ rcLevel.left \in Nat /\ IsFiniteSet(rcLevel.found)
          /\ Cardinality(rcLevel.found) \in Nat
      BY <2>1, FS_CardinalityType DEF RecursionTypeOK, LevelsInOrder, Streaming
    <2>3. /\ rcLevel' \in [place : Place, depth : 0..RecurseDepth, left : Nat,
                           found : SUBSET Place]
          /\ rcLevel'.left = rcLevel.left - 1 /\ rcLevel'.found = rcLevel.found
      <3>1. rcLevel \in [place : Place, depth : 0..RecurseDepth, left : Nat,
                        found : SUBSET Place]
        BY DEF RecursionTypeOK
      <3>2. rcLevel.left - 1 \in Nat
        BY <2>1, <2>2
      <3>3. rcLevel' = [place |-> rcLevel.place, depth |-> rcLevel.depth,
                        left |-> rcLevel.left - 1, found |-> rcLevel.found]
        BY <2>1, <3>1
      <3>4. QED
        BY <3>1, <3>2, <3>3
    <2>4. RecursionTypeOK'
      <3>1. rcDone' \in Nat
        BY <2>1 DEF RecursionTypeOK
      <3>2. QED
        BY <1>1, <2>1, <2>3, <3>1 DEF RecursionTypeOK
    <2>5. LevelsInOrder'
      <3>1. Streaming /\ Streaming'
        BY <2>1 DEF Streaming
      <3>2. Cardinality(rcLevel'.found) <= rcLevel'.left
        BY <2>1, <2>2, <2>3
      <3>3. QED
        BY <1>1, <2>2, <2>3, <3>1, <3>2 DEF LevelsInOrder
    <2>6. QED
      BY <1>1, <2>4, <2>5
  <1>5. CASE LevelDone \/ LevelCut
    <2>1. RecursionTypeOK'
      BY <1>1, <1>2, <1>3, <1>5 DEF LevelDone, LevelCut, RecursionTypeOK
    <2>2. LevelsInOrder'
      BY <1>1, <1>5 DEF LevelDone, LevelCut, LevelsInOrder, Streaming
    <2>3. QED
      BY <1>1, <2>1, <2>2
  <1>6. CASE SeeHalt \/ Complete \/ Unreachable
    <2>1. RecursionTypeOK'
      BY <1>1, <1>6 DEF SeeHalt, Complete, Unreachable, RecursionTypeOK
    <2>2. LevelsInOrder'
      BY <1>1, <1>6 DEF SeeHalt, Complete, Unreachable, LevelsInOrder, Streaming
    <2>3. QED
      BY <1>1, <2>1, <2>2
  <1>7. QED
    BY <1>4, <1>5, <1>6 DEF Other

-----------------------------------------------------------------------------
(* The recursive handlers: coverage *)

LEMMA StartCover ==
    ASSUME CoverInv, StartLevel
    PROVE  VisitedIsKept' /\ ReportsKept'
  <1> DEFINE p == Head(rcFrontier)[1]
             d == Head(rcFrontier)[2]
  <1>1. RecursionTypeOK /\ LevelsInOrder
    BY DEF CoverInv
  <1>2. /\ rcLevel' = [place |-> p, depth |-> d, left |-> Results(d), found |-> Tree[p]]
        /\ rcPhase = "next" /\ rcPhase' = "stream" /\ rcFrontier # <<>>
        /\ rcFrontier' = Tail(rcFrontier)
        /\ UNCHANGED <<rcOp, rcVisited, rcOut, rcRead, rcCut>>
    BY <1>1, StartType
  <1>3. /\ p = rcFrontier[1][1] /\ Len(rcFrontier) \in Nat
        /\ Len(rcFrontier') = Len(rcFrontier) - 1
        /\ \A k \in 1..Len(rcFrontier') : rcFrontier'[k] = rcFrontier[k + 1]
    BY <1>1, <1>2, HeadOfFrontier
  <1> HIDE DEF p, d
  <1>4. rcLevel'.place = p /\ rcLevel'.found = Tree[p] /\ Streaming' /\ ~ Streaming
    BY <1>2 DEF Streaming
  <1>5. \A q : Waits(q) => q = p \/ Waits(q)'
    <2> SUFFICES ASSUME NEW k \in 1..Len(rcFrontier), k # 1
                 PROVE  \E j \in 1..Len(rcFrontier') : rcFrontier'[j] = rcFrontier[k]
      BY <1>3 DEF Waits
    <2>1. k - 1 \in 1..Len(rcFrontier') /\ (k - 1) + 1 = k
      BY <1>3
    <2>2. QED
      BY <1>3, <2>1
  <1>6. VisitedIsKept'
    BY <1>2, <1>4, <1>5 DEF CoverInv, VisitedIsKept
  <1>7. ReportsKept'
    BY <1>2, <1>4 DEF CoverInv, ReportsKept, Reported, CanEnter
  <1>8. QED
    BY <1>6, <1>7

LEMMA FoundCover ==
    ASSUME CoverInv, NEW p \in Place, ResultFound(p)
    PROVE  VisitedIsKept' /\ ReportsKept'
  <1>1. RecursionTypeOK /\ LevelsInOrder
    BY DEF CoverInv
  <1>2. /\ p \in rcLevel.found /\ rcPhase = "stream" /\ rcPhase' = "stream"
        /\ rcLevel' = [rcLevel EXCEPT !.left = @ - 1, !.found = @ \ {p}]
        /\ \/ /\ MayEnter(p) /\ Pushed(<<p, rcLevel.depth + 1>>)
              /\ rcVisited' = rcVisited \cup {p}
           \/ ~ MayEnter(p) /\ UNCHANGED <<rcVisited, rcFrontier>>
    BY <1>1, FoundType
  <1>3. rcOut' = rcOut \cup {p} /\ UNCHANGED <<rcOp, rcRead, rcCut>>
    BY DEF ResultFound
  <1>4. /\ rcLevel'.place = rcLevel.place /\ rcLevel'.depth = rcLevel.depth
        /\ rcLevel'.found = rcLevel.found \ {p} /\ Streaming /\ Streaming'
    BY <1>1, <1>2 DEF RecursionTypeOK, Streaming
  <1>5. \A q : Waits(q) => Waits(q)'
    BY <1>2 DEF Waits, Pushed
  <1>6. p \in rcVisited' => p \in rcVisited \/ Waits(p)'
    BY <1>2 DEF Waits, Pushed
  <1>7. rcVisited \subseteq rcVisited' /\ rcVisited' \subseteq rcVisited \cup {p}
    BY <1>2
  <1>8. VisitedIsKept'
    BY <1>2, <1>3, <1>4, <1>5, <1>6, <1>7 DEF CoverInv, VisitedIsKept
  <1>9. \A q : CanEnter(q)' <=> CanEnter(q)
    BY <1>3 DEF CanEnter
  <1>10. rcLevel.depth < RecurseDepth /\ CanEnter(p) => p \in rcVisited'
    BY <1>2 DEF MayEnter
  <1>11. ReportsKept'
    BY <1>3, <1>4, <1>7, <1>9, <1>10 DEF CoverInv, ReportsKept, Reported
  <1>12. QED
    BY <1>8, <1>11

LEMMA OtherCover ==
    ASSUME CoverInv, Other
    PROVE  VisitedIsKept' /\ ReportsKept'
  <1>1. RecursionTypeOK /\ LevelsInOrder /\ VisitedIsKept /\ ReportsKept
    BY DEF CoverInv
  <1>2. UNCHANGED <<rcOp, rcFrontier, rcVisited, rcOut>>
    BY <1>1, OtherType
  <1>3. /\ \A q : Waits(q)' <=> Waits(q)
        /\ \A q : CanEnter(q)' <=> CanEnter(q)
        /\ \A a, b, c : Reported(a, b, c)' <=> Reported(a, b, c)
    BY <1>2 DEF Waits, CanEnter, Reported
  <1>4. CASE ResultOther
    <2>1. /\ rcLevel'.place = rcLevel.place /\ rcLevel'.depth = rcLevel.depth
          /\ rcLevel'.found = rcLevel.found
          /\ UNCHANGED <<rcPhase, rcRead, rcCut>>
      BY <1>1, <1>4 DEF ResultOther, RecursionTypeOK
    <2>2. Streaming' <=> Streaming
      BY <2>1 DEF Streaming
    <2>3. VisitedIsKept'
      BY <1>1, <1>2, <1>3, <2>1, <2>2 DEF VisitedIsKept
    <2>4. ReportsKept'
      BY <1>1, <1>3, <2>1, <2>2 DEF ReportsKept
    <2>5. QED
      BY <2>3, <2>4
  <1>5. CASE LevelDone \/ LevelCut
    <2> DEFINE l == <<rcLevel.place, rcLevel.depth>>
    <2>1. /\ rcPhase = "stream" /\ rcPhase' = "next"
          /\ rcRead \cup rcCut \cup {l} = rcRead' \cup rcCut'
          /\ l[1] = rcLevel.place /\ l[2] = rcLevel.depth
          /\ rcRead' = rcRead \/ (rcRead' = rcRead \cup {l} /\ rcLevel.left = 0)
      BY <1>5 DEF LevelDone, LevelCut
    <2>2. Streaming /\ ~ Streaming'
      BY <2>1 DEF Streaming
    <2> HIDE DEF l
    <2>3. VisitedIsKept'
      BY <1>1, <1>2, <1>3, <2>1, <2>2 DEF VisitedIsKept
    <2>4. rcLevel.left = 0 => rcLevel.found = {}
      <3>1. /\ IsFiniteSet(rcLevel.found) /\ Cardinality(rcLevel.found) \in Nat
            /\ Cardinality(rcLevel.found) <= rcLevel.left
        BY <1>1, <2>2, FS_CardinalityType DEF LevelsInOrder
      <3>2. rcLevel.left = 0 => Cardinality(rcLevel.found) = 0
        BY <3>1
      <3>3. QED
        BY <3>1, <3>2, FS_EmptySet
    <2>5. ReportsKept'
      BY <1>1, <1>3, <2>1, <2>2, <2>4 DEF ReportsKept
    <2>6. QED
      BY <2>3, <2>5
  <1>6. CASE SeeHalt \/ Complete \/ Unreachable
    <2>1. /\ UNCHANGED <<rcLevel, rcRead, rcCut>>
          /\ rcPhase' = "completed" => rcFrontier = <<>>
      BY <1>6 DEF SeeHalt, Complete, Unreachable
    <2>2. Streaming' <=> Streaming
      BY <1>6 DEF SeeHalt, Complete, Unreachable, Streaming
    <2>3. VisitedIsKept'
      BY <1>1, <1>2, <1>3, <2>1, <2>2 DEF VisitedIsKept
    <2>4. ReportsKept'
      BY <1>1, <1>3, <2>1, <2>2 DEF ReportsKept
    <2>5. QED
      BY <2>3, <2>4
  <1>7. QED
    BY <1>4, <1>5, <1>6 DEF Other

LEMMA NextCover == CoverInv /\ [RecursionNext]_rcVars => CoverInv'
  <1> SUFFICES ASSUME CoverInv, [RecursionNext]_rcVars PROVE CoverInv'
    OBVIOUS
  <1>1. CASE StartLevel
    BY <1>1, StartType, StartCover DEF CoverInv
  <1>2. ASSUME NEW p \in Place, ResultFound(p) PROVE CoverInv'
    BY <1>2, FoundType, FoundCover DEF CoverInv
  <1>3. CASE Other
    BY <1>3, OtherType, OtherCover DEF CoverInv
  <1>4. CASE UNCHANGED rcVars
    <2>1. \A q : (Waits(q)' <=> Waits(q)) /\ (CanEnter(q)' <=> CanEnter(q))
      BY <1>4 DEF rcVars, Waits, CanEnter
    <2>2. RecursionTypeOK' /\ LevelsInOrder'
      BY <1>4 DEF rcVars, CoverInv, RecursionTypeOK, LevelsInOrder, Streaming
    <2>3. VisitedIsKept'
      BY <1>4, <2>1 DEF rcVars, CoverInv, VisitedIsKept, Streaming
    <2>4. ReportsKept'
      BY <1>4, <2>1 DEF rcVars, CoverInv, ReportsKept, Reported, Streaming
    <2>5. QED
      BY <2>2, <2>3, <2>4 DEF CoverInv
  <1>5. QED
    BY <1>1, <1>2, <1>3, <1>4 DEF RecursionNext, RecursionStep, Other

\* The coverage invariant holds in every reachable state.
THEOREM CoverInvariant == RecursionSpec => []CoverInv
  BY InitCover, NextCover, PTL DEF RecursionSpec

\* The states of a recursive operation are well typed.
THEOREM RecursionTypeCorrect == RecursionSpec => []RecursionTypeOK
  <1>1. CoverInv => RecursionTypeOK
    BY DEF CoverInv
  <1>2. QED
    BY <1>1, CoverInvariant, PTL

\* A completed recursive discovery or enumeration published all that its
\* complete levels found, and gave every find it may enter a level of its own.
THEOREM RecursionCoversTree == RecursionSpec => []RecursionCovers
  <1>1. CoverInv => RecursionCovers
    <2> SUFFICES ASSUME CoverInv, rcPhase = "completed", NEW l \in rcRead
                 PROVE  /\ Tree[l[1]] \subseteq rcOut
                        /\ l[2] < RecurseDepth =>
                             \A p \in {q \in Tree[l[1]] : CanEnter(q)} :
                                \E m \in rcRead \cup rcCut : m[1] = p
      BY DEF RecursionCovers
    <2>1. Reported(l[1], l[2], {})
      BY DEF CoverInv, ReportsKept
    <2>2. Len(rcFrontier) = 0 /\ ~ Streaming
      BY DEF CoverInv, VisitedIsKept, Streaming
    <2>3. \A p \in rcVisited : \E m \in rcRead \cup rcCut : m[1] = p
      BY <2>2 DEF CoverInv, VisitedIsKept, Waits
    <2>4. QED
      BY <2>1, <2>3 DEF Reported
  <1>2. QED
    BY <1>1, CoverInvariant, PTL

-----------------------------------------------------------------------------
(* The recursive handlers: progress *)

LEMMA Distribute ==
    ASSUME NEW n \in Nat, NEW m \in Nat
    PROVE  (n + 1) * m = n * m + m /\ n * m \in Nat
  OBVIOUS

LEMMA NextRoom ==
    ASSUME CoverInv, CoverInv', RoomLeft, [RecursionNext]_rcVars
    PROVE  RoomLeft'
  <1>1. /\ RecursionTypeOK /\ LevelsInOrder
        /\ rcDone \in Nat /\ rcTotal \in Nat /\ rcLevel.left \in Nat
        /\ Len(rcFrontier) \in Nat /\ ChunkLines \in Nat \ {0} /\ FullLines \in Nat \ {0}
        /\ rcLevel.depth \in Nat
        /\ rcDone' \in Nat /\ rcTotal' \in Nat /\ rcLevel'.left \in Nat
        /\ Len(rcFrontier') \in Nat
    BY RecursionAssumption DEF CoverInv, RecursionTypeOK
  <1>2. rcOp' = rcOp
    BY DEF RecursionNext, RecursionStep, StartLevel, ResultFound, ResultOther, LevelDone,
       LevelCut, SeeHalt, Complete, Unreachable, rcVars
  <1>3. SUFFICES ASSUME rcOp.given, ~ rcOp.passive PROVE RoomLeft'
    BY <1>2 DEF RoomLeft
  <1>5. Streaming => /\ \A k \in 1..Len(rcFrontier) : rcFrontier[k][2] > 0
                     /\ rcDone + rcLevel.left + Len(rcFrontier) * FullLines <= rcTotal
    BY <1>3 DEF RoomLeft, LeftNow
  <1>6. CASE StartLevel
    <2> DEFINE d == Head(rcFrontier)[2]
               n == Len(rcFrontier')
    <2>1. /\ rcPhase = "next" /\ rcPhase' = "stream" /\ rcFrontier # <<>>
          /\ rcLevel'.left = Results(d) /\ rcDone' = rcDone
          /\ rcFrontier' = Tail(rcFrontier)
          /\ rcTotal' = IF ~ rcOp.enum THEN Larger(rcTotal, Results(d))
                        ELSE rcTotal + IF d = 0 THEN Results(d) ELSE 0
      BY <1>6 DEF StartLevel
    <2>2. /\ d \in 0..RecurseDepth /\ d = rcFrontier[1][2]
          /\ Len(rcFrontier) > 0 /\ Len(rcFrontier) = n + 1 /\ n \in Nat
          /\ \A k \in 1..n : rcFrontier'[k] = rcFrontier[k + 1]
          /\ 1 \in 1..Len(rcFrontier)
      BY <1>1, <2>1, HeadOfFrontier
    <2>3. Streaming' /\ ~ Streaming
      BY <2>1 DEF Streaming
    <2>4. LeftNow' = Results(d) /\ LeftNow = 0
      BY <2>1, <2>3 DEF LeftNow
    <2>5. Results(d) = IF d = 0 /\ ~ rcOp.enum THEN ChunkLines ELSE FullLines
      BY <1>1, <1>3 DEF Results, Lines
    <2> HIDE DEF d, n
    <2>6. CASE rcFrontier = <<<<Root, 0>>>> /\ rcDone = 0
               /\ rcTotal = IF rcOp.enum THEN 0 ELSE ChunkLines
      <3>1. Len(rcFrontier) = 1 /\ rcFrontier[1] = <<Root, 0>>
        BY <2>6
      <3>2. n = 0 /\ d = 0
        <4>1. n = 0
          <5>1. n \in Nat /\ n + 1 = 1
            BY <2>2, <3>1
          <5>2. QED
            BY <5>1
        <4>2. d = 0
          BY <2>2, <3>1
        <4>3. QED
          BY <4>1, <4>2
      <3>3. n * FullLines = 0
        BY <1>1, <3>2
      <3>4. Results(d) <= rcTotal'
        BY <1>1, <2>1, <2>5, <2>6, <3>2 DEF Larger
      <3>5. rcDone' + LeftNow' + n * FullLines <= rcTotal'
        BY <1>1, <2>1, <2>4, <2>5, <2>6, <3>3, <3>4
      <3>6. QED
        BY <3>2, <3>5 DEF RoomLeft, n
    <2>7. CASE /\ \A k \in 1..Len(rcFrontier) : rcFrontier[k][2] > 0
               /\ rcDone + LeftNow + Len(rcFrontier) * FullLines <= rcTotal
      <3>1. d > 0 /\ d # 0
        BY <2>2, <2>7, RecursionAssumption
      <3>2. Results(d) = FullLines /\ Len(rcFrontier) * FullLines = n * FullLines + FullLines
            /\ n * FullLines \in Nat
        BY <1>1, <2>2, <2>5, <3>1, Distribute
      <3>3. rcTotal' >= rcTotal
        BY <1>1, <2>1, <3>1, <3>2 DEF Larger
      <3>4. rcDone' + LeftNow' + n * FullLines <= rcTotal'
        BY <1>1, <2>1, <2>4, <2>7, <3>2, <3>3
      <3>5. \A k \in 1..n : rcFrontier'[k][2] > 0
        BY <2>2, <2>7
      <3>6. QED
        BY <3>4, <3>5 DEF RoomLeft, n
    <2>8. QED
      BY <1>3, <2>6, <2>7 DEF RoomLeft
  <1>7. ASSUME NEW p \in Place, ResultFound(p) PROVE RoomLeft'
    <2>1. /\ p \in rcLevel.found /\ rcPhase = "stream" /\ rcPhase' = "stream"
          /\ rcLevel' = [rcLevel EXCEPT !.left = @ - 1, !.found = @ \ {p}]
          /\ \/ /\ Pushed(<<p, rcLevel.depth + 1>>)
                /\ rcTotal' = rcTotal + IF rcOp.given THEN FullLines ELSE 0
             \/ UNCHANGED <<rcTotal, rcFrontier>>
      BY <1>1, <1>7, FoundType
    <2>2. rcDone' = rcDone + 1
      BY <1>7 DEF ResultFound
    <2>3. Streaming /\ Streaming' /\ rcLevel'.left = rcLevel.left - 1
      BY <1>1, <2>1 DEF Streaming, RecursionTypeOK
    <2>4. LeftNow' = rcLevel.left - 1
      BY <2>3 DEF LeftNow
    <2>5. CASE UNCHANGED <<rcTotal, rcFrontier>>
      <3>1. PICK w \in Nat : w = Len(rcFrontier) * FullLines
        BY <1>1, Distribute
      <3>2. rcDone + rcLevel.left + w <= rcTotal
        BY <1>5, <2>3, <3>1
      <3>3. rcDone' + LeftNow' + w <= rcTotal'
        <4>1. rcDone \in Nat /\ rcTotal \in Nat /\ rcLevel.left \in Nat
          BY <1>1
        <4>2. rcDone' + LeftNow' = rcDone + rcLevel.left
          BY <2>2, <2>4, <4>1
        <4>3. QED
          BY <2>5, <3>2, <4>1, <4>2
      <3>4. rcDone' + LeftNow' + Len(rcFrontier') * FullLines <= rcTotal'
        BY <2>5, <3>1, <3>3
      <3>5. QED
        BY <1>5, <2>3, <2>5, <3>4 DEF RoomLeft
    <2>6. CASE /\ Pushed(<<p, rcLevel.depth + 1>>)
               /\ rcTotal' = rcTotal + IF rcOp.given THEN FullLines ELSE 0
      <3>1. /\ Len(rcFrontier') * FullLines = Len(rcFrontier) * FullLines + FullLines
            /\ Len(rcFrontier) * FullLines \in Nat
        BY <1>1, <2>6, Distribute DEF Pushed
      <3>2. PICK w \in Nat : w = Len(rcFrontier) * FullLines
        BY <3>1
      <3>3. rcDone + rcLevel.left + w <= rcTotal
        BY <1>5, <2>3, <3>2
      <3>4. rcTotal' = rcTotal + FullLines
        BY <1>3, <2>6
      <3>5. rcDone' + LeftNow' + (w + FullLines) <= rcTotal'
        <4>1. /\ rcDone \in Nat /\ rcTotal \in Nat /\ rcLevel.left \in Nat
              /\ FullLines \in Nat
          BY <1>1
        <4>2. rcDone' + LeftNow' = rcDone + rcLevel.left
          BY <2>2, <2>4, <4>1
        <4>3. QED
          BY <3>3, <3>4, <4>1, <4>2
      <3>6. rcDone' + LeftNow' + Len(rcFrontier') * FullLines <= rcTotal'
        <4>1. Len(rcFrontier') * FullLines = w + FullLines
          BY <3>1, <3>2
        <4>2. QED
          BY <3>5, <4>1
      <3>7. \A k \in 1..Len(rcFrontier') : rcFrontier'[k][2] > 0
        <4>1. rcLevel.depth + 1 > 0 /\ <<p, rcLevel.depth + 1>>[2] = rcLevel.depth + 1
          BY <1>1
        <4>2. QED
          BY <1>5, <2>3, <2>6, <4>1 DEF Pushed
      <3>8. QED
        BY <3>6, <3>7 DEF RoomLeft
    <2>7. QED
      BY <2>1, <2>5, <2>6
  <1>8. CASE Other
    <2>1. UNCHANGED <<rcFrontier>>
      BY <1>1, <1>8, OtherType
    <2>2. Len(rcFrontier) * FullLines \in Nat
      BY <1>1, Distribute
    <2>3. CASE ResultOther
      <3>1. /\ rcDone' = rcDone + 1 /\ rcTotal' = rcTotal
            /\ rcLevel'.left = rcLevel.left - 1 /\ Streaming /\ Streaming'
        BY <1>1, <2>3 DEF ResultOther, RecursionTypeOK, Streaming
      <3>2. rcDone' + LeftNow' + Len(rcFrontier') * FullLines <= rcTotal'
        <4>1. /\ rcDone \in Nat /\ rcTotal \in Nat /\ rcLevel.left \in Nat
              /\ LeftNow = rcLevel.left /\ LeftNow' = rcLevel.left - 1
          BY <1>1, <3>1 DEF LeftNow
        <4>2. PICK w \in Nat : w = Len(rcFrontier) * FullLines
          BY <2>2
        <4>3. rcDone + rcLevel.left + w <= rcTotal
          BY <1>5, <3>1, <4>2
        <4>4. rcDone' + LeftNow' = rcDone + rcLevel.left
          BY <3>1, <4>1
        <4>5. QED
          BY <2>1, <3>1, <4>1, <4>2, <4>3, <4>4
      <3>3. QED
        BY <1>5, <2>1, <3>1, <3>2 DEF RoomLeft
    <2>4. CASE LevelDone \/ LevelCut
      <3>1. /\ rcDone' = rcDone /\ rcTotal' = rcTotal /\ Streaming /\ ~ Streaming'
        BY <2>4 DEF LevelDone, LevelCut, Streaming
      <3>2. rcDone' + LeftNow' + Len(rcFrontier') * FullLines <= rcTotal'
        BY <1>1, <1>5, <2>1, <2>2, <3>1 DEF LeftNow
      <3>3. QED
        BY <1>5, <2>1, <3>1, <3>2 DEF RoomLeft
    <2>5. CASE SeeHalt \/ Unreachable
      <3>1. /\ UNCHANGED <<rcDone, rcTotal, rcLevel>> /\ (Streaming' <=> Streaming)
        BY <2>5 DEF SeeHalt, Unreachable, Streaming
      <3>2. LeftNow' = LeftNow
        BY <3>1 DEF LeftNow
      <3>3. QED
        BY <1>2, <2>1, <3>1, <3>2 DEF RoomLeft
    <2>6. CASE Complete
      <3>1. /\ rcDone' = rcTotal /\ rcTotal' = rcTotal /\ Len(rcFrontier') = 0
            /\ ~ Streaming'
        BY <2>6 DEF Complete, Streaming
      <3>2. LeftNow' = 0 /\ Len(rcFrontier') * FullLines = 0
        BY <1>1, <3>1 DEF LeftNow
      <3>3. rcDone' + LeftNow' + Len(rcFrontier') * FullLines <= rcTotal'
        BY <1>1, <3>1, <3>2
      <3>4. QED
        BY <3>1, <3>3 DEF RoomLeft
    <2>7. QED
      BY <1>8, <2>3, <2>4, <2>5, <2>6 DEF Other
  <1>9. CASE UNCHANGED rcVars
    <2>1. Streaming' <=> Streaming
      BY <1>9 DEF rcVars, Streaming
    <2>2. LeftNow' = LeftNow
      BY <1>9, <2>1 DEF rcVars, LeftNow
    <2>3. QED
      BY <1>9, <2>1, <2>2 DEF rcVars, RoomLeft
  <1>10. QED
    BY <1>6, <1>7, <1>8, <1>9 DEF RecursionNext, RecursionStep, Other

\* The progress that a recursive operation publishes never exceeds its total.
THEOREM ProgressStaysWithinTotal == RecursionSpec => []ProgressWithinTotal
  <1>1. RecursionInit => RoomLeft
    BY DEF RecursionInit, RoomLeft, Streaming
  <1>2. CoverInv /\ CoverInv' /\ RoomLeft /\ [RecursionNext]_rcVars => RoomLeft'
    BY NextRoom
  <1>3. CoverInv /\ RoomLeft => ProgressWithinTotal
    <2> SUFFICES ASSUME CoverInv, RoomLeft, rcOp.given, ~ rcOp.passive
                 PROVE  rcDone <= rcTotal
      BY DEF ProgressWithinTotal
    <2>1. /\ rcDone \in Nat /\ rcTotal \in Nat /\ LeftNow \in Nat
          /\ Len(rcFrontier) \in Nat /\ FullLines \in Nat /\ ChunkLines \in Nat
      BY RecursionAssumption DEF CoverInv, RecursionTypeOK, LeftNow
    <2>2. Len(rcFrontier) * FullLines \in Nat
      BY <2>1, Distribute
    <2>3. QED
      BY <2>1, <2>2 DEF RoomLeft
  <1>4. QED
    BY <1>1, <1>2, <1>3, CoverInvariant, PTL DEF RecursionSpec

-----------------------------------------------------------------------------
(* Sequences and sets *)

\* The members of a sequence after another.
LEMMA ConcatSet ==
  ASSUME NEW S, NEW s \in Seq(S), NEW t \in Seq(S)
  PROVE  s \o t \in Seq(S) /\ ToSet(s \o t) = ToSet(s) \cup ToSet(t)
<1>1. /\ s \o t \in Seq(S) /\ Len(s) \in Nat /\ Len(t) \in Nat
      /\ DOMAIN (s \o t) = 1..(Len(s) + Len(t)) /\ DOMAIN s = 1..Len(s) /\ DOMAIN t = 1..Len(t)
  OBVIOUS
<1>2. \A i \in 1..Len(s) : i \in DOMAIN (s \o t) /\ (s \o t)[i] = s[i]
  OBVIOUS
<1>3. \A i \in 1..Len(t) : Len(s) + i \in DOMAIN (s \o t) /\ (s \o t)[Len(s) + i] = t[i]
  OBVIOUS
<1>4. ASSUME NEW i \in DOMAIN (s \o t)
      PROVE  \/ i \in 1..Len(s) /\ (s \o t)[i] = s[i]
             \/ i - Len(s) \in 1..Len(t) /\ (s \o t)[i] = t[i - Len(s)]
  <2>1. CASE i <= Len(s)
    BY <1>1, <1>2, <2>1
  <2>2. CASE i > Len(s)
    <3>1. i - Len(s) \in 1..Len(t) /\ Len(s) + (i - Len(s)) = i
      BY <1>1, <2>2
    <3>2. QED
      BY <1>3, <3>1
  <2>3. QED
    BY <1>1, <2>1, <2>2
<1>5. ToSet(s \o t) \subseteq ToSet(s) \cup ToSet(t)
  BY <1>1, <1>4 DEF ToSet
<1>6. ToSet(s) \subseteq ToSet(s \o t) /\ ToSet(t) \subseteq ToSet(s \o t)
  BY <1>1, <1>2, <1>3 DEF ToSet
<1>7. QED
  BY <1>1, <1>5, <1>6

\* A sequence cut in two.
LEMMA CutSet ==
  ASSUME NEW S, NEW s \in Seq(S), NEW n \in 0..Len(s)
  PROVE  /\ SubSeq(s, 1, n) \in Seq(S) /\ SubSeq(s, n + 1, Len(s)) \in Seq(S)
         /\ ToSet(s) = ToSet(SubSeq(s, 1, n)) \cup ToSet(SubSeq(s, n + 1, Len(s)))
<1>0. PICK l, r : l = SubSeq(s, 1, n) /\ r = SubSeq(s, n + 1, Len(s))
  OBVIOUS
<1>1. Len(s) \in Nat /\ n \in Nat /\ n <= Len(s) /\ DOMAIN s = 1..Len(s)
      /\ \A i \in 1..Len(s) : s[i] \in S
  OBVIOUS
<1>2. l \in Seq(S) /\ DOMAIN l = 1..n /\ \A i \in 1..n : l[i] = s[i]
  BY <1>0, <1>1
<1>3. r \in Seq(S) /\ DOMAIN r = 1..(Len(s) - n) /\ \A i \in 1..(Len(s) - n) : r[i] = s[n + i]
  BY <1>0, <1>1
<1>4. ToSet(l) \subseteq ToSet(s)
  BY <1>1, <1>2 DEF ToSet
<1>5. ToSet(r) \subseteq ToSet(s)
  <2>1. \A i \in 1..(Len(s) - n) : n + i \in 1..Len(s)
    BY <1>1
  <2>2. QED
    BY <1>1, <1>3, <2>1 DEF ToSet
<1>6. ASSUME NEW i \in 1..Len(s) PROVE s[i] \in ToSet(l) \cup ToSet(r)
  <2>1. CASE i <= n
    BY <1>1, <1>2, <2>1 DEF ToSet
  <2>2. CASE i > n
    <3>1. i - n \in 1..(Len(s) - n) /\ n + (i - n) = i
      BY <1>1, <2>2
    <3>2. QED
      BY <1>3, <3>1 DEF ToSet
  <2>3. QED
    BY <1>1, <2>1, <2>2
<1>7. ToSet(s) \subseteq ToSet(l) \cup ToSet(r)
  BY <1>1, <1>6 DEF ToSet
<1>8. QED
  BY <1>0, <1>2, <1>3, <1>4, <1>5, <1>7

\* A listing of a finite set has all its members.
LEMMA ListingSet ==
  ASSUME NEW S, IsFiniteSet(S), NEW s \in SetToSeqs(S)
  PROVE  s \in Seq(S) /\ ToSet(s) = S
<1>1. Cardinality(S) \in Nat
  BY FS_CardinalityType
<1>2. PICK n \in Nat : n = Cardinality(S)
  BY <1>1
<1>3. s \in [1..n -> S] /\ \A i, j \in 1..n : i # j => s[i] # s[j]
  BY <1>2 DEF SetToSeqs
<1>4. s \in Injection(1..n, S)
  BY <1>3 DEF Injection, IsInjective
<1>5. IsFiniteSet(1..n) /\ Cardinality(1..n) = n
  BY <1>2, FS_Interval
<1>6. s \in Surjection(1..n, S)
  BY <1>2, <1>4, <1>5, FS_Injection
<1>7. \A u \in S : \E i \in 1..n : s[i] = u
  BY <1>6 DEF Surjection
<1>8. DOMAIN s = 1..n
  BY <1>3
<1>9. QED
  BY <1>2, <1>3, <1>7, <1>8 DEF ToSet
-----------------------------------------------------------------------------
(* A crawl *)

\* What is reported, waits, is being fetched or was lost, and the assets that
\* nobody asked for.
Placed ==
    (Static \ Tracked) \cup crSent \cup UrlsOf(crLost \cup crWave \cup ToSet(crFrontier))

\* A key that was seen is that of a URL with a place.
SeenIsPlaced == crVisited \subseteq KeysOf(Placed)

\* The pages read so far link only to keys that were seen, as long as there was
\* room for them.
LinksAreSeen ==
    Cardinality(crVisited) < MaxVisited =>
        \A p \in crRead : \A u \in crSite.links[p] \cap Scope : Key[u] \in crVisited

\* The end of the crawl leaves no fetch, and the drain no URL.
NothingLeft ==
    /\ crPhase # "crawl" => crWave = {}
    /\ crPhase \in {"specs", "done"} => crFrontier = <<>>

CrawlInv ==
    /\ CrawlTypeOK /\ IsFiniteSet(crVisited)
    /\ SeenIsPlaced /\ LinksAreSeen /\ NothingLeft

\* The keys of a set of URLs: more URLs have more keys, finitely many have
\* finitely many.
LEMMA KeysGrow ==
  ASSUME NEW U, NEW V, U \subseteq V
  PROVE  KeysOf(U) \subseteq KeysOf(V)
BY DEF KeysOf

LEMMA KeysFinite ==
  ASSUME NEW U, IsFiniteSet(U)
  PROVE  IsFiniteSet(KeysOf(U))
<1>1. PICK f : f = [u \in U |-> Key[u]]
  OBVIOUS
<1>2. f \in Surjection(U, KeysOf(U))
  BY <1>1 DEF Surjection, KeysOf
<1>3. QED
  BY <1>2, FS_Surjection

\* The visits that are queued for a listing of URLs.
LEMMA VisitsQueued ==
  ASSUME NEW S \in SUBSET Url, IsFiniteSet(S), NEW q \in SetToSeqs(S), NEW d \in Nat,
         S # {} => d <= MaxDepth + 1,
         NEW t, t = [k \in DOMAIN q |-> [url |-> q[k], depth |-> d]]
  PROVE  t \in Seq(Visit) /\ UrlsOf(ToSet(t)) = S
<1>1. q \in Seq(S) /\ ToSet(q) = S
  BY ListingSet
<1>2. DOMAIN q = 1..Len(q) /\ Len(q) \in Nat /\ \A k \in 1..Len(q) : q[k] \in S
  BY <1>1
<1>3. MaxDepth \in Nat
  BY CrawlAssumption
<1>4. \A k \in 1..Len(q) : [url |-> q[k], depth |-> d] \in Visit
  BY <1>2, <1>3 DEF Visit
<1>5. t \in [1..Len(q) -> Visit]
  BY <1>2, <1>4
<1>6. t \in Seq(Visit) /\ DOMAIN t = 1..Len(q)
  BY <1>2, <1>5
<1>7. \A k \in 1..Len(q) : t[k].url = q[k]
  BY <1>2
<1>8. UrlsOf(ToSet(t)) = ToSet(q)
  BY <1>2, <1>6, <1>7 DEF UrlsOf, ToSet
<1>9. QED
  BY <1>1, <1>6, <1>8

\* What a page reveals is taken in whole, or the visited set is full after it.
LEMMA RoomOrFull ==
  ASSUME NEW L, IsFiniteSet(L), NEW seen, IsFiniteSet(seen), NEW C \in NewVisits(L, seen)
  PROVE  /\ IsFiniteSet(C) /\ IsFiniteSet(seen \cup KeysOf(C))
         /\ C \subseteq L \cap Scope
         /\ Cardinality(seen) \in Nat /\ Cardinality(seen \cup KeysOf(C)) \in Nat
         /\ Cardinality(seen) <= Cardinality(seen \cup KeysOf(C))
         /\ Cardinality(seen \cup KeysOf(C)) < MaxVisited =>
              \A u \in L \cap Scope : Key[u] \in seen \cup KeysOf(C)
<1>1. C \subseteq Fresh(L, seen) /\ C \subseteq L \cap Scope
  BY DEF NewVisits, Fresh
<1>2. IsFiniteSet(C) /\ IsFiniteSet(KeysOf(C))
  BY <1>1, FS_Subset, KeysFinite
<1>3. KeysOf(C) \cap seen = {}
  BY <1>1 DEF KeysOf, Fresh
<1>4. /\ IsFiniteSet(seen \cup KeysOf(C)) /\ Cardinality({}) = 0
      /\ Cardinality(seen \cup KeysOf(C)) =
           Cardinality(seen) + Cardinality(KeysOf(C)) - Cardinality(seen \cap KeysOf(C))
  BY <1>2, FS_Union, FS_EmptySet
<1>5. /\ Cardinality(seen) \in Nat /\ Cardinality(KeysOf(C)) \in Nat
      /\ Cardinality(seen \cup KeysOf(C)) \in Nat
  BY <1>2, <1>4, FS_CardinalityType
<1>6. Cardinality(seen \cup KeysOf(C)) = Cardinality(seen) + Cardinality(KeysOf(C))
  <2>1. seen \cap KeysOf(C) = {}
    BY <1>3
  <2>2. QED
    BY <1>4, <1>5, <2>1
<1>7. ASSUME Cardinality(seen \cup KeysOf(C)) < MaxVisited, NEW u \in L \cap Scope
      PROVE  Key[u] \in seen \cup KeysOf(C)
  <2>1. /\ Cardinality(KeysOf(C)) = Cardinality(C)
        /\ \/ KeysOf(C) = KeysOf(Fresh(L, seen))
           \/ Cardinality(C) + Cardinality(seen) = MaxVisited
    BY DEF NewVisits
  <2>2. MaxVisited \in Nat
    BY CrawlAssumption
  <2>3. KeysOf(C) = KeysOf(Fresh(L, seen))
    BY <1>5, <1>6, <1>7, <2>1, <2>2
  <2>4. Key[u] \in seen \/ u \in Fresh(L, seen)
    BY DEF Fresh
  <2>5. QED
    BY <2>3, <2>4 DEF KeysOf
<1>8. QED
  BY <1>1, <1>2, <1>4, <1>5, <1>6, <1>7

\* The start of a crawl.
LEMMA CrawlInitInv == CrawlInit => CrawlInv
<1> SUFFICES ASSUME CrawlInit PROVE CrawlInv
  OBVIOUS
<1>1. PICK v : v = [url |-> Seed, depth |-> 0]
  OBVIOUS
<1>2. v \in Visit /\ v.url = Seed
  BY <1>1, CrawlAssumption DEF Visit
<1>3. crFrontier = <<v>> /\ crFrontier \in Seq(Visit) /\ ToSet(crFrontier) = {v}
  BY <1>1, <1>2 DEF CrawlInit, ToSet
<1>4. CrawlTypeOK
  BY <1>3, CrawlAssumption DEF CrawlInit, CrawlTypeOK, KeysOf
<1>5. IsFiniteSet(crVisited)
  BY FS_Singleton DEF CrawlInit
<1>6. SeenIsPlaced
  BY <1>2, <1>3 DEF CrawlInit, SeenIsPlaced, Placed, UrlsOf, KeysOf
<1>7. LinksAreSeen /\ NothingLeft
  BY DEF CrawlInit, LinksAreSeen, NothingLeft
<1>8. QED
  BY <1>4, <1>5, <1>6, <1>7 DEF CrawlInv

\* A step that sees no new key keeps what it has in place.
LEMMA StaysPlaced ==
  ASSUME CrawlInv, Placed \subseteq Placed', crVisited' = crVisited
  PROVE  SeenIsPlaced'
BY DEF CrawlInv, SeenIsPlaced, KeysOf

\* A page is joined: what it reveals is reported or queued.
LEMMA JoinInv ==
  ASSUME CrawlInv, NEW v \in crWave, JoinPage(v)
  PROVE  CrawlInv'
<1>1. /\ crSite \in Sites /\ crFrontier \in Seq(Visit) /\ crVisited \subseteq KeysOf(Url)
      /\ crWave \subseteq Visit /\ crPages \in Nat /\ crFetched \subseteq Visit
      /\ crLost \subseteq Visit /\ crRead \subseteq Url /\ crSent \subseteq Url
      /\ IsFiniteSet(crVisited)
  BY DEF CrawlInv, CrawlTypeOK
<1>2. v \in Visit /\ v.url \in Url /\ v.depth \in Nat /\ MaxDepth \in Nat
  BY <1>1, CrawlAssumption DEF Visit
<1>3. PICK answered \in BOOLEAN : \E C \in NewVisits(Links(v.url, answered), crVisited) :
        \E q \in SetToSeqs(Queued(C, v.depth)) :
            /\ crRead' = IF answered THEN crRead \cup {v.url} ELSE crRead
            /\ crVisited' = crVisited \cup KeysOf(C)
            /\ crFrontier' = crFrontier \o
                 [k \in DOMAIN q |-> [url |-> q[k], depth |-> v.depth + 1]]
            /\ crSent' = crSent \cup {v.url} \cup Told(C, v.depth)
                        \cup (Calls(v.url, answered) \cap Scope)
  BY DEF JoinPage
<1>4. PICK L : L = Links(v.url, answered)
  OBVIOUS
<1>5. PICK C \in NewVisits(L, crVisited) :
        \E q \in SetToSeqs(Queued(C, v.depth)) :
            /\ crRead' = IF answered THEN crRead \cup {v.url} ELSE crRead
            /\ crVisited' = crVisited \cup KeysOf(C)
            /\ crFrontier' = crFrontier \o
                 [k \in DOMAIN q |-> [url |-> q[k], depth |-> v.depth + 1]]
            /\ crSent' = crSent \cup {v.url} \cup Told(C, v.depth)
                        \cup (Calls(v.url, answered) \cap Scope)
  BY <1>3, <1>4
<1>6. L \subseteq Url /\ IsFiniteSet(L) /\ Calls(v.url, answered) \subseteq Url
  BY <1>1, <1>2, <1>4, CrawlAssumption, FS_EmptySet DEF Links, Calls
<1>7. /\ IsFiniteSet(C) /\ IsFiniteSet(crVisited \cup KeysOf(C)) /\ C \subseteq L \cap Scope
      /\ Cardinality(crVisited) \in Nat /\ Cardinality(crVisited \cup KeysOf(C)) \in Nat
      /\ Cardinality(crVisited) <= Cardinality(crVisited \cup KeysOf(C))
      /\ Cardinality(crVisited \cup KeysOf(C)) < MaxVisited =>
           \A u \in L \cap Scope : Key[u] \in crVisited \cup KeysOf(C)
  BY <1>1, <1>6, RoomOrFull
<1>8. PICK Q : Q = Queued(C, v.depth)
  OBVIOUS
<1>9. PICK q \in SetToSeqs(Q) :
            /\ crRead' = IF answered THEN crRead \cup {v.url} ELSE crRead
            /\ crVisited' = crVisited \cup KeysOf(C)
            /\ crFrontier' = crFrontier \o
                 [k \in DOMAIN q |-> [url |-> q[k], depth |-> v.depth + 1]]
            /\ crSent' = crSent \cup {v.url} \cup Told(C, v.depth)
                        \cup (Calls(v.url, answered) \cap Scope)
  BY <1>5, <1>8
<1>10. Q \in SUBSET Url /\ IsFiniteSet(Q) /\ (Q # {} => v.depth + 1 <= MaxDepth + 1)
  <2>1. Q \subseteq C
    BY <1>8 DEF Queued
  <2>2. Q # {} => v.depth + 1 <= MaxDepth
    BY <1>8 DEF Queued
  <2>3. QED
    BY <1>2, <1>6, <1>7, <2>1, <2>2, FS_Subset
<1>11. PICK t : t = [k \in DOMAIN q |-> [url |-> q[k], depth |-> v.depth + 1]]
  OBVIOUS
<1>12. v.depth + 1 \in Nat
  BY <1>2
<1>13. t \in Seq(Visit) /\ UrlsOf(ToSet(t)) = Q
  BY <1>10, <1>11, <1>12, VisitsQueued
<1>14. crFrontier' \in Seq(Visit) /\ ToSet(crFrontier') = ToSet(crFrontier) \cup ToSet(t)
  BY <1>1, <1>9, <1>11, <1>13, ConcatSet
<1>15. /\ crWave' = crWave \ {v} /\ crPages' = crPages + 1 /\ crFetched' = crFetched \cup {v}
       /\ UNCHANGED <<crSite, crLost, crPhase, crClient>> /\ crPhase = "crawl"
  BY DEF JoinPage
<1>16. CrawlTypeOK'
  <2>1. Told(C, v.depth) \subseteq Url
    BY <1>6, <1>7 DEF Told
  <2>2. crSent' \subseteq Url /\ crRead' \subseteq Url
    BY <1>1, <1>2, <1>6, <1>9, <2>1
  <2>3. crVisited' \subseteq KeysOf(Url)
    BY <1>1, <1>6, <1>7, <1>9 DEF KeysOf
  <2>4. crWave' \subseteq Visit /\ crPages' \in Nat /\ crFetched' \subseteq Visit
        /\ crLost' \subseteq Visit
    BY <1>1, <1>2, <1>15
  <2>5. QED
    BY <1>14, <1>15, <2>2, <2>3, <2>4 DEF CrawlInv, CrawlTypeOK
<1>17. SeenIsPlaced'
  <2>1. Placed \subseteq Placed'
    BY <1>9, <1>14, <1>15 DEF Placed, UrlsOf
  <2>2. ASSUME NEW u \in C PROVE u \in Placed'
    <3>1. CASE u \in Static
      BY <1>9, <3>1 DEF Placed, Told
    <3>2. CASE u \notin Static /\ v.depth + 1 <= MaxDepth
      <4>1. u \in UrlsOf(ToSet(t))
        BY <1>8, <1>13, <3>2 DEF Queued
      <4>2. QED
        BY <1>14, <4>1 DEF Placed, UrlsOf
    <3>3. CASE u \notin Static /\ ~ v.depth + 1 <= MaxDepth
      BY <1>9, <3>3 DEF Placed, Told
    <3>4. QED
      BY <3>1, <3>2, <3>3
  <2>3. C \subseteq Placed'
    BY <2>2
  <2>4. QED
    BY <1>9, <2>1, <2>3 DEF CrawlInv, SeenIsPlaced, KeysOf
<1>18. LinksAreSeen'
  <2> SUFFICES ASSUME Cardinality(crVisited') < MaxVisited, NEW p \in crRead',
                      NEW u \in crSite.links[p] \cap Scope
               PROVE  Key[u] \in crVisited'
    BY <1>15 DEF LinksAreSeen
  <2>1. MaxVisited \in Nat
    BY CrawlAssumption
  <2>2. CASE p \in crRead
    <3>1. Cardinality(crVisited) < MaxVisited
      BY <1>7, <1>9, <2>1
    <3>2. QED
      BY <1>9, <2>2, <3>1 DEF CrawlInv, LinksAreSeen
  <2>3. CASE p \notin crRead
    <3>1. p = v.url /\ answered
      BY <1>9, <2>3
    <3>2. u \in L \cap Scope
      BY <1>4, <3>1 DEF Links
    <3>3. QED
      BY <1>7, <1>9, <3>2
  <2>4. QED
    BY <2>2, <2>3
<1>19. NothingLeft'
  BY <1>15 DEF NothingLeft
<1>20. IsFiniteSet(crVisited')
  BY <1>7, <1>9
<1>21. QED
  BY <1>16, <1>17, <1>18, <1>19, <1>20 DEF CrawlInv

\* A wave starts: its fetches were waiting.
LEMMA WaveInv == CrawlInv /\ StartWave => CrawlInv'
<1> SUFFICES ASSUME CrawlInv, StartWave PROVE CrawlInv'
  OBVIOUS
<1>1. PICK n : n = Smallest(Smallest(Tasks, MaxPages - crPages), Len(crFrontier))
  OBVIOUS
<1>2. /\ crWave' = ToSet(SubSeq(crFrontier, 1, n))
      /\ crFrontier' = SubSeq(crFrontier, n + 1, Len(crFrontier))
      /\ crPhase = "crawl" /\ crWave = {} /\ crPages < MaxPages
      /\ UNCHANGED <<crSite, crVisited, crPages, crFetched, crRead, crLost, crSent, crPhase, crClient>>
  BY <1>1 DEF StartWave
<1>3. crFrontier \in Seq(Visit) /\ crPages \in Nat
  BY DEF CrawlInv, CrawlTypeOK
<1>4. n \in 0..Len(crFrontier)
  <2>1. Len(crFrontier) \in Nat
    BY <1>3
  <2>2. QED
    BY <1>1, <1>2, <1>3, <2>1, CrawlAssumption DEF Smallest
<1>5. PICK l, r : l = SubSeq(crFrontier, 1, n) /\ r = SubSeq(crFrontier, n + 1, Len(crFrontier))
  OBVIOUS
<1>6. l \in Seq(Visit) /\ r \in Seq(Visit) /\ ToSet(crFrontier) = ToSet(l) \cup ToSet(r)
  BY <1>3, <1>4, <1>5, CutSet
<1>7. crWave' = ToSet(l) /\ crFrontier' = r
  BY <1>2, <1>5
<1>8. ToSet(l) \subseteq Visit
  BY <1>6 DEF ToSet
<1>9. CrawlTypeOK'
  BY <1>2, <1>6, <1>7, <1>8 DEF CrawlInv, CrawlTypeOK
<1>10. Placed \subseteq Placed'
  BY <1>2, <1>6, <1>7 DEF Placed
<1>11. SeenIsPlaced'
  BY <1>2, <1>10, StaysPlaced
<1>12. LinksAreSeen' /\ NothingLeft' /\ IsFiniteSet(crVisited')
  BY <1>2 DEF CrawlInv, LinksAreSeen, NothingLeft
<1>13. QED
  BY <1>9, <1>11, <1>12 DEF CrawlInv

\* Every step of a crawl keeps its invariant.
LEMMA CrawlStepInv == CrawlInv /\ [CrawlNext]_crVars => CrawlInv'
<1> SUFFICES ASSUME CrawlInv, [CrawlNext]_crVars PROVE CrawlInv'
  OBVIOUS
<1>1. ASSUME NEW v \in crWave, LosePage(v) PROVE CrawlInv'
  <2>1. CrawlTypeOK'
    BY <1>1 DEF LosePage, CrawlInv, CrawlTypeOK
  <2>2. Placed \subseteq Placed'
    BY <1>1 DEF LosePage, Placed, UrlsOf
  <2>3. QED
    BY <1>1, <2>1, <2>2, StaysPlaced DEF LosePage, CrawlInv, LinksAreSeen, NothingLeft
<1>2. CASE DrainFrontier
  <2>1. crFrontier \in Seq(Visit) /\ crSent \subseteq Url
    BY DEF CrawlInv, CrawlTypeOK
  <2>2. ToSet(crFrontier) \subseteq Visit
    BY <2>1 DEF ToSet
  <2>3. UrlsOf(ToSet(crFrontier)) \subseteq Url
    BY <2>2 DEF UrlsOf, Visit
  <2>4. crFrontier' = <<>> /\ <<>> \in Seq(Visit)
    BY <1>2 DEF DrainFrontier
  <2>5. CrawlTypeOK'
    BY <1>2, <2>1, <2>3, <2>4 DEF DrainFrontier, CrawlInv, CrawlTypeOK
  <2>6. Placed \subseteq Placed'
    BY <1>2 DEF DrainFrontier, Placed, UrlsOf
  <2>7. QED
    BY <1>2, <2>5, <2>6, StaysPlaced DEF DrainFrontier, CrawlInv, LinksAreSeen, NothingLeft
<1>3. CASE ProbeSpecs
  <2>1. PICK T : crSent' = crSent \cup (T \cap Scope)
    BY <1>3 DEF ProbeSpecs
  <2>2. CrawlTypeOK'
    BY <1>3, <2>1, CrawlAssumption DEF ProbeSpecs, CrawlInv, CrawlTypeOK
  <2>3. Placed \subseteq Placed'
    BY <1>3, <2>1 DEF ProbeSpecs, Placed
  <2>4. QED
    BY <1>3, <2>2, <2>3, StaysPlaced DEF ProbeSpecs, CrawlInv, LinksAreSeen, NothingLeft
<1>4. CASE CrawlStops \/ CrawlHangUp \/ UNCHANGED crVars
  <2>1. /\ UNCHANGED <<crSite, crFrontier, crVisited, crWave, crPages, crFetched, crRead,
                       crLost, crSent>>
        /\ crPhase' \in {"crawl", "drain", "specs", "done"} /\ crClient' \in {"there", "gone"}
    BY <1>4 DEF CrawlStops, CrawlHangUp, crVars, CrawlInv, CrawlTypeOK
  <2>2. CrawlTypeOK'
    BY <2>1 DEF CrawlInv, CrawlTypeOK
  <2>3. Placed' = Placed
    BY <2>1 DEF Placed
  <2>4. NothingLeft'
    BY <1>4 DEF CrawlStops, CrawlHangUp, crVars, CrawlInv, NothingLeft
  <2>5. QED
    BY <2>1, <2>2, <2>3, <2>4, StaysPlaced DEF CrawlInv, LinksAreSeen
<1>5. QED
  BY <1>1, <1>2, <1>3, <1>4, JoinInv, WaveInv DEF CrawlNext, CrawlStep

\* When the crawl is over, what was seen was reported or lost.
LEMMA CrawlInvSafe == CrawlInv => CrawlCovers
<1> SUFFICES ASSUME CrawlInv, crPhase = "done", Cardinality(crVisited) < MaxVisited,
                    NEW p \in crRead, NEW u \in crSite.links[p] \cap Scope
             PROVE  Key[u] \in KeysOf((Static \ Tracked) \cup crSent \cup UrlsOf(crLost))
  BY DEF CrawlCovers
<1>1. Key[u] \in KeysOf(Placed)
  BY DEF CrawlInv, LinksAreSeen, SeenIsPlaced
<1>2. crWave = {} /\ ToSet(crFrontier) = {}
  BY DEF CrawlInv, NothingLeft, ToSet
<1>3. Placed = (Static \ Tracked) \cup crSent \cup UrlsOf(crLost)
  BY <1>2 DEF Placed
<1>4. QED
  BY <1>1, <1>3

\* In every run of a crawl, on any site and with any limits, the visited set
\* loses nothing: when the crawl is over and the set has room, each page in scope
\* that a page it read links to is reported, or one of its key is, or its task
\* panicked (crawler.rs).
THEOREM CrawlSafe == CrawlSpec => [](CrawlTypeOK /\ CrawlCovers)
<1>1. CrawlInv => CrawlTypeOK
  BY DEF CrawlInv
<1>2. QED
  BY <1>1, CrawlInitInv, CrawlStepInv, CrawlInvSafe, PTL DEF CrawlSpec
-----------------------------------------------------------------------------
(* The subdomain engine: its types *)

LEMMA VoyageInitType == VoyageInit => VoyageTypeOK
<1> SUFFICES ASSUME VoyageInit PROVE VoyageTypeOK
  OBVIOUS
<1>1. vyScan \in BOOLEAN /\ vyDrained \in [Enum -> BOOLEAN]
  BY DEF VoyageInit
<1>2. vyRow \in [Name -> {"absent", "queued", "scanning", "found", "not_found"}] /\ vyGen \in Nat
  BY DEF VoyageInit
<1>3. vyWork \in [Worker -> [st : {"off", "poll", "empty", "lock", "work", "undo", "gone"},
                             row : Name \cup {NoName}, gen : Nat]]
  BY DEF VoyageInit, Idle
<1>4. /\ vyReq \in [Enum -> Request] /\ vyStuck \subseteq Name /\ vyUnserved \subseteq Enum /\ vyTarget \in [Enum -> Nat \ {0}]
      /\ vyPhase \in [Enum -> {"idle", "create", "clear", "passive", "words", "reset",
                               "running", "done", "failed"}]
      /\ vyOp \in [Enum -> {"none", "queued", "completed", "error"}]
      /\ vyFaults \in 0..MaxFault /\ vyCrashes \in 0..MaxCrash
  BY VoyageAssumption DEF VoyageInit
<1>5. QED
  BY <1>1, <1>2, <1>3, <1>4 DEF VoyageTypeOK

\* The workers and the flags of the pools.
PoolType ==
    /\ vyWork \in [Worker -> [st : {"off", "poll", "empty", "lock", "work", "undo", "gone"},
                              row : Name \cup {NoName}, gen : Nat]]
    /\ vyTarget \in [Enum -> Nat \ {0}]
    /\ vyDrained \in [Enum -> BOOLEAN]
\* The rows and the operations.
RowType ==
    /\ vyRow \in [Name -> {"absent", "queued", "scanning", "found", "not_found"}]
    /\ vyGen \in Nat /\ vyStuck \subseteq Name /\ vyUnserved \subseteq Enum
    /\ vyPhase \in [Enum -> {"idle", "create", "clear", "passive", "words", "reset",
                             "running", "done", "failed"}]
    /\ vyOp \in [Enum -> {"none", "queued", "completed", "error"}]
    /\ vyFaults \in 0..MaxFault /\ vyCrashes \in 0..MaxCrash

LEMMA VoyageTypeParts ==
  VoyageTypeOK <=> RowType /\ PoolType /\ vyScan \in BOOLEAN /\ vyReq \in [Enum -> Request]
BY DEF VoyageTypeOK, RowType, PoolType

\* A worker that works has a row.
HoldsRow == \A w \in Worker : vyWork[w].st \in {"lock", "work", "undo"} => vyWork[w].row \in Name

LEMMA PrepareType ==
  ASSUME VoyageTypeOK, NEW e \in Enum,
         Begin(e) \/ CreateScan(e) \/ ClearScan(e) \/ PassiveRows(e) \/ WordRows(e) \/ PrepareFails(e) \/ EnumDone(e)
  PROVE  VoyageTypeOK'
<1>1. RowType /\ PoolType /\ vyScan \in BOOLEAN /\ vyReq \in [Enum -> Request]
  BY VoyageTypeParts
<1>2. MaxFault \in Nat
  BY VoyageAssumption
<1>3. vyReq' = vyReq /\ vyWork' = vyWork /\ vyTarget' = vyTarget /\ vyDrained' = vyDrained
  BY DEF Begin, CreateScan, ClearScan, PassiveRows, WordRows, PrepareFails, EnumDone, vyPool
<1>4. PoolType'
  BY <1>1, <1>3 DEF PoolType
<1>5. vyScan' \in BOOLEAN
  BY <1>1 DEF Begin, CreateScan, ClearScan, PassiveRows, WordRows, PrepareFails, EnumDone
<1>6. RowType'
  <2>1. CASE Begin(e)
    BY <1>1, <2>1 DEF Begin, RowType, Goto, vyBounds
  <2>2. ASSUME Failed(e)
        PROVE  /\ vyOp' \in [Enum -> {"none", "queued", "completed", "error"}]
               /\ vyPhase' \in [Enum -> {"idle", "create", "clear", "passive", "words", "reset",
                                         "running", "done", "failed"}]
    <3>1. vyReq[e].mode \in {"stream", "instant", "queue"}
      BY <1>1, VoyageAssumption
    <3>2. QED
      BY <1>1, <2>2, <3>1 DEF Failed, RowType, Goto
  <2>3. CASE CreateScan(e)
    <3>1. CASE vyScan
      BY <1>1, <2>2, <2>3, <3>1 DEF CreateScan, RowType, vyBounds
    <3>2. CASE ~ vyScan
      BY <1>1, <2>3, <3>2 DEF CreateScan, RowType, Goto, vyBounds
    <3>3. QED
      BY <3>1, <3>2
  <2>4. CASE ClearScan(e)
    <3>1. CASE vyReq[e].fresh
      BY <1>1, <2>4, <3>1 DEF ClearScan, RowType, Goto, vyBounds
    <3>2. CASE ~ vyReq[e].fresh
      BY <1>1, <2>4, <3>2 DEF ClearScan, RowType, Goto, vyBounds
    <3>3. QED
      BY <3>1, <3>2
  <2>5. CASE PassiveRows(e)
    BY <1>1, <2>5 DEF PassiveRows, InsertEntries, RowType, Goto, vyBounds
  <2>6. CASE WordRows(e)
    BY <1>1, <2>6 DEF WordRows, InsertEntries, RowType, Goto, vyBounds
  <2>7. CASE PrepareFails(e)
    BY <1>1, <1>2, <2>2, <2>7 DEF PrepareFails, Fault, OneFault, RowType
  <2>8. CASE EnumDone(e)
    BY <1>1, <2>8 DEF EnumDone, RowType, Goto, vyBounds
  <2>9. QED
    BY <2>1, <2>3, <2>4, <2>5, <2>6, <2>7, <2>8
<1>7. QED
  BY <1>1, <1>3, <1>4, <1>5, <1>6 DEF VoyageTypeOK, RowType, PoolType

LEMMA VoyageStartType ==
  ASSUME VoyageTypeOK, NEW e \in Enum, StartWorkers(e) \/ StartShort(e)
  PROVE  VoyageTypeOK'
<1>1. RowType /\ PoolType /\ vyScan \in BOOLEAN /\ vyReq \in [Enum -> Request]
  BY VoyageTypeParts
<1>2. PICK B : StartPool(e, B)
  BY DEF StartWorkers, StartShort
<1>3. vyReq' = vyReq /\ vyScan' \in BOOLEAN
  BY <1>1, <1>2 DEF StartPool
<1>8. vyFaults' \in 0..MaxFault /\ vyCrashes' \in 0..MaxCrash /\ vyUnserved' \subseteq Enum
  BY <1>1, VoyageAssumption DEF StartWorkers, StartShort, OneFault, RowType, vyBounds
<1>9. RowType'
  BY <1>1, <1>2, <1>8 DEF StartPool, ResetHalted, RowType, Goto
<1>4. vyDrained' \in [Enum -> BOOLEAN]
  BY <1>1, <1>2 DEF StartPool, PoolType
<1>5. vyTarget' \in [Enum -> Nat \ {0}]
  BY <1>1, <1>2 DEF StartPool, PoolType
<1>6. vyWork' \in [Worker -> [st : {"off", "poll", "empty", "lock", "work", "undo", "gone"},
                              row : Name \cup {NoName}, gen : Nat]]
  BY <1>1, <1>2 DEF StartPool, PoolType, WorkerState
<1>7. QED
  BY <1>1, <1>3, <1>4, <1>5, <1>6, <1>9 DEF VoyageTypeOK, RowType

LEMMA StartFailsType ==
  ASSUME VoyageTypeOK, NEW e \in Enum, StartFails(e)
  PROVE  VoyageTypeOK'
<1>1. RowType /\ PoolType /\ vyScan \in BOOLEAN /\ vyReq \in [Enum -> Request]
  BY VoyageTypeParts
<1>2. /\ vyReq' = vyReq /\ vyScan' = vyScan /\ vyWork' = vyWork /\ vyTarget' = vyTarget
      /\ vyDrained' = vyDrained
  BY DEF StartFails, vyPool
<1>3. vyFaults' \in 0..MaxFault /\ vyCrashes' \in 0..MaxCrash /\ vyUnserved' \subseteq Enum
  BY <1>1, VoyageAssumption DEF StartFails, OneFault, RowType
<1>4. RowType'
  BY <1>1, <1>3 DEF StartFails, ResetHalted, RowType, Goto
<1>5. QED
  BY <1>1, <1>2, <1>4 DEF VoyageTypeOK, RowType, PoolType

LEMMA WorkerType ==
  ASSUME VoyageTypeOK, HoldsRow, NEW w \in Worker,
         WorkerStep(w) \/ FetchFails(w) \/ CheckActiveFails(w) \/ RecordFails(w) \/ UndoFails(w)
  PROVE  VoyageTypeOK'
<1>1. RowType /\ PoolType /\ vyScan \in BOOLEAN /\ vyReq \in [Enum -> Request]
  BY VoyageTypeParts
<1>2. MaxFault \in Nat /\ w[1] \in Enum
  BY VoyageAssumption
<1>3. vyReq' = vyReq /\ vyScan' = vyScan /\ vyTarget' = vyTarget /\ vyGen' = vyGen
      /\ vyPhase' = vyPhase /\ vyOp' = vyOp /\ vyCrashes' = vyCrashes
  BY DEF WorkerStep, Fetch, Mark, FetchFails, CheckActive, ParkedLeaves, Record, Undo, CheckActiveFails, RecordFails, UndoFails,
         Fault, OneFault, vyBounds
<1>12. vyUnserved' = vyUnserved
  BY DEF WorkerStep, Fetch, Mark, FetchFails, CheckActive, ParkedLeaves, Record, Undo, CheckActiveFails, RecordFails,
         UndoFails, Fault, vyBounds
<1>4. vyScan' \in BOOLEAN
  BY <1>1, <1>3
<1>5. vyDrained' \in [Enum -> BOOLEAN]
  <2>1. \/ vyDrained' = vyDrained \/ Leave(w)
    BY DEF WorkerStep, Fetch, Mark, FetchFails, CheckActive, ParkedLeaves, Record, Undo, CheckActiveFails, RecordFails, UndoFails
  <2>2. (vyDrained[w[1]] \/ Adaptive(w)) \in BOOLEAN
    OBVIOUS
  <2>3. CASE Leave(w)
    BY <1>1, <1>2, <2>2, <2>3 DEF Leave, PoolType
  <2>4. QED
    BY <1>1, <2>1, <2>3 DEF PoolType
<1>6. vyFaults' \in 0..MaxFault
  BY <1>1, <1>2 DEF RowType, WorkerStep, Fetch, Mark, FetchFails, CheckActive, ParkedLeaves, Record, Undo, CheckActiveFails, RecordFails,
         UndoFails, Fault, OneFault, vyBounds
<1>7. vyWork[w] \in [st : {"off", "poll", "empty", "lock", "work", "undo", "gone"}, row : Name \cup {NoName}, gen : Nat]
  BY <1>1 DEF PoolType
<1>8. vyWork' \in [Worker -> [st : {"off", "poll", "empty", "lock", "work", "undo", "gone"},
                              row : Name \cup {NoName}, gen : Nat]]
  <2>1. \E x \in [st : {"off", "poll", "empty", "lock", "work", "undo", "gone"}, row : Name \cup {NoName}, gen : Nat] :
          vyWork' = [vyWork EXCEPT ![w] = x]
    <3>1. CASE Fetch(w)
      <4>1. CASE \E r \in InStatus("queued") :
                   vyWork' = [vyWork EXCEPT ![w] = [st |-> "lock", row |-> r, gen |-> vyGen]]
        BY <1>1, <4>1 DEF InStatus, RowType
      <4>2. QED
        BY <3>1, <4>1 DEF Fetch, WorkerGoes, WorkerState
    <3>2. CASE CheckActive(w) \/ CheckActiveFails(w) \/ ParkedLeaves(w) \/ Record(w) \/ Undo(w) \/ UndoFails(w)
      BY <3>2 DEF CheckActive, CheckActiveFails, ParkedLeaves, Record, Undo, UndoFails, Leave, WorkerGoes, WorkerState
    <3>3. CASE RecordFails(w)
      <4>1. vyWork' = [vyWork EXCEPT ![w] = [vyWork[w] EXCEPT !.st = "undo"]]
        BY <3>3 DEF RecordFails
      <4>2. QED
        BY <1>7, <4>1
    <3>5. CASE Mark(w)
      <4>1. vyWork' = [vyWork EXCEPT ![w] = [vyWork[w] EXCEPT !.st = "work"]]
        BY <3>5 DEF Mark
      <4>2. QED
        BY <1>7, <4>1
    <3>6. CASE FetchFails(w)
      BY <3>6 DEF FetchFails, WorkerGoes, WorkerState
    <3>4. QED
      BY <3>1, <3>2, <3>3, <3>5, <3>6 DEF WorkerStep
  <2>2. QED
    BY <1>1, <2>1 DEF PoolType
<1>9. vyRow' \in [Name -> {"absent", "queued", "scanning", "found", "not_found"}]
  BY <1>1 DEF RowType, WorkerStep, Fetch, Mark, FetchFails, CheckActive, ParkedLeaves, Record, Undo, CheckActiveFails, RecordFails,
         UndoFails, SetRow, InStatus
<1>10. vyStuck' \subseteq Name
  <2>1. CASE UndoFails(w) \/ FetchFails(w)
    BY <1>1, <2>1 DEF RowType, UndoFails, FetchFails, HoldsRow
  <2>2. CASE ~ (UndoFails(w) \/ FetchFails(w))
    BY <1>1, <2>2 DEF RowType, WorkerStep, Fetch, Mark, CheckActive, ParkedLeaves, Record, Undo, CheckActiveFails, RecordFails,
         SetRow
  <2>3. QED
    BY <2>1, <2>2
<1>11. QED
  BY <1>1, <1>3, <1>4, <1>5, <1>6, <1>8, <1>9, <1>10, <1>12 DEF VoyageTypeOK, RowType, PoolType

\* A worker that goes to another state, and the others that stay.
LEMMA OneWorkerMoves ==
  ASSUME VoyageTypeOK, NEW w \in Worker,
         WorkerStep(w) \/ FetchFails(w) \/ CheckActiveFails(w) \/ RecordFails(w) \/ UndoFails(w)
  PROVE  /\ \A u \in Worker : u # w => vyWork'[u] = vyWork[u]
         /\ \/ vyWork'[w].st \in {"poll", "empty", "gone"}
            \/ /\ vyWork'[w].st = "lock" /\ vyWork'[w].row \in InStatus("queued") /\ vyWork'[w].gen = vyGen
               /\ vyWork[w].st = "poll"
            \/ /\ vyWork[w].st = "lock" /\ vyWork'[w].st = "work" /\ vyWork'[w].row = vyWork[w].row
               /\ vyWork'[w].gen = vyWork[w].gen
            \/ /\ vyWork[w].st = "work" /\ vyWork'[w].st = "undo" /\ vyWork'[w].row = vyWork[w].row
               /\ vyWork'[w].gen = vyWork[w].gen
<1>1. vyWork \in [Worker -> [st : {"off", "poll", "empty", "lock", "work", "undo", "gone"},
                             row : Name \cup {NoName}, gen : Nat]]
  BY DEF VoyageTypeOK
<1>2. CASE Fetch(w)
  <2>1. CASE \E r \in InStatus("queued") :
            vyWork' = [vyWork EXCEPT ![w] = [st |-> "lock", row |-> r, gen |-> vyGen]]
    BY <1>1, <1>2, <2>1 DEF Fetch
  <2>2. QED
    BY <1>1, <1>2, <2>1 DEF Fetch, WorkerGoes, WorkerState
<1>3. CASE \/ CheckActive(w) \/ CheckActiveFails(w) \/ ParkedLeaves(w) \/ Record(w) \/ Undo(w) \/ UndoFails(w)
           \/ FetchFails(w)
  BY <1>1, <1>3 DEF FetchFails, CheckActive, CheckActiveFails, ParkedLeaves, Record, Undo, UndoFails, Leave, WorkerGoes, WorkerState
<1>4. CASE RecordFails(w)
  <2>1. vyWork' = [vyWork EXCEPT ![w] = [vyWork[w] EXCEPT !.st = "undo"]]
    BY <1>4 DEF RecordFails
  <2>2. vyWork[w] \in [st : {"off", "poll", "empty", "lock", "work", "undo", "gone"}, row : Name \cup {NoName}, gen : Nat]
    BY <1>1
  <2>3. QED
    BY <1>1, <1>4, <2>1, <2>2 DEF RecordFails
<1>6. CASE Mark(w)
  <2>1. vyWork' = [vyWork EXCEPT ![w] = [vyWork[w] EXCEPT !.st = "work"]]
    BY <1>6 DEF Mark
  <2>2. vyWork[w] \in [st : {"off", "poll", "empty", "lock", "work", "undo", "gone"}, row : Name \cup {NoName}, gen : Nat]
    BY <1>1
  <2>3. QED
    BY <1>1, <1>6, <2>1, <2>2 DEF Mark
<1>5. QED
  BY <1>2, <1>3, <1>4, <1>6 DEF WorkerStep

LEMMA VoyageStepRow == VoyageTypeOK /\ HoldsRow /\ [VoyageNext]_vyVars => HoldsRow'
<1> SUFFICES ASSUME VoyageTypeOK, HoldsRow, [VoyageNext]_vyVars PROVE HoldsRow'
  OBVIOUS
<1>1. ASSUME NEW w \in Worker, WorkerStep(w) \/ FetchFails(w) \/ CheckActiveFails(w) \/ RecordFails(w) \/ UndoFails(w)
      PROVE  HoldsRow'
  BY <1>1, OneWorkerMoves DEF HoldsRow, InStatus
<1>2. ASSUME NEW e \in Enum, StartWorkers(e) \/ StartShort(e) PROVE HoldsRow'
  BY <1>2 DEF StartWorkers, StartShort, StartPool, HoldsRow, WorkerState
<1>3. ASSUME NEW e \in Enum, \/ Begin(e) \/ CreateScan(e) \/ ClearScan(e) \/ PassiveRows(e) \/ WordRows(e)
                             \/ PrepareFails(e) \/ StartFails(e) \/ EnumDone(e) \/ ControllerTick(e)
      PROVE  HoldsRow'
  BY <1>3 DEF Begin, CreateScan, ClearScan, PassiveRows, WordRows, PrepareFails, StartFails, EnumDone, ControllerTick, vyPool, HoldsRow
<1>4. CASE Crash
  BY <1>4 DEF Crash, HoldsRow, Idle
<1>5. CASE UNCHANGED vyVars
  BY <1>5 DEF vyVars, vyPool, HoldsRow
<1>6. QED
  BY <1>1, <1>2, <1>3, <1>4, <1>5 DEF VoyageNext, PrepareStep

LEMMA VoyageStepType == VoyageTypeOK /\ HoldsRow /\ [VoyageNext]_vyVars => VoyageTypeOK'
<1> SUFFICES ASSUME VoyageTypeOK, HoldsRow, [VoyageNext]_vyVars PROVE VoyageTypeOK'
  OBVIOUS
<1>1. RowType /\ PoolType /\ vyScan \in BOOLEAN /\ vyReq \in [Enum -> Request]
  BY VoyageTypeParts
<1>2. ASSUME NEW e \in Enum, ControllerTick(e) PROVE VoyageTypeOK'
  <2>1. vyTarget' \in [Enum -> Nat \ {0}]
    BY <1>1, <1>2 DEF ControllerTick, PoolType
  <2>2. vyDrained' = vyDrained /\ vyScan' = vyScan
    BY <1>2 DEF ControllerTick
  <2>3. QED
    BY <1>1, <1>2, <2>1, <2>2 DEF ControllerTick, VoyageTypeOK, RowType, PoolType, vyBounds
<1>3. CASE Crash
  <2>1. vyDrained' = vyDrained /\ vyScan' = vyScan
    BY <1>3 DEF Crash
  <2>2. vyWork' \in [Worker -> [st : {"off", "poll", "empty", "lock", "work", "undo", "gone"},
                                row : Name \cup {NoName}, gen : Nat]]
    BY <1>3 DEF Crash, Idle
  <2>3. vyCrashes' \in 0..MaxCrash
    BY <1>1, <1>3, VoyageAssumption DEF Crash, RowType
  <2>4. QED
    BY <1>1, <1>3, <2>1, <2>2, <2>3 DEF Crash, VoyageTypeOK, RowType, PoolType
<1>4. CASE UNCHANGED vyVars
  <2>1. vyDrained' = vyDrained /\ vyScan' = vyScan
    BY <1>4 DEF vyVars, vyPool
  <2>2. QED
    BY <1>1, <1>4, <2>1 DEF vyVars, vyPool, vyBounds, VoyageTypeOK, RowType, PoolType
<1>5. QED
  BY <1>2, <1>3, <1>4, PrepareType, VoyageStartType, StartFailsType, WorkerType DEF VoyageNext, PrepareStep
-----------------------------------------------------------------------------
(* The subdomain engine: no row is left behind *)

Holder(w, r) == vyWork[w].st \in {"work", "undo"} /\ vyWork[w].row = r /\ vyWork[w].gen = vyGen
\* A worker that will look for a row again, and is never parked.
Keen(w) == vyWork[w].st \in {"poll", "lock", "work", "undo"} /\ (vyReq[w[1]].pool # "adaptive" \/ w[2] = 0)
Trusted ==
    /\ vyFaults = 0 \/ \A e \in Enum : vyReq[e].pool = "fixed"
    /\ \A e \in Enum : vyReq[e].pool # "none" /\ vyPhase[e] # "failed"
    /\ vyUnserved = {}

\* A row that a call has locked is queued, and no other call has locked it.
Locker(w, r) == vyWork[w].st = "lock" /\ vyWork[w].row = r
LocksApart ==
    \A w \in Worker : vyWork[w].st = "lock" =>
        /\ vyWork[w].row \in Name /\ vyRow[vyWork[w].row] = "queued" /\ vyWork[w].gen = vyGen
        /\ \A u \in Worker : u # w => ~ Locker(u, vyWork[w].row)

StuckScans == vyStuck \subseteq InStatus("scanning")
AtWork == \A w \in Worker : vyWork[w].st \notin {"off", "gone"} => Running(w[1])
UndoneFault == \A w \in Worker : vyWork[w].st = "undo" => vyFaults > 0
HeldRows ==
    (\E e \in Enum : vyPhase[e] \in {"running", "done"}) =>
        \A r \in InStatus("scanning") : r \in vyStuck \/ \E w \in Worker : Holder(w, r)
Attended ==
    Trusted /\ (\E e \in Enum : vyPhase[e] # "idle") =>
        \/ (\A r \in InStatus("queued") : Locked(r)) \/ (\E e \in Enum : Preparing(e)) \/ (\E w \in Worker : Keen(w))

VoyageInv ==
    /\ VoyageTypeOK /\ HoldsRow /\ LocksApart /\ StuckScans /\ AtWork /\ UndoneFault
    /\ HeldRows /\ Attended

LEMMA VoyageInitInv == VoyageInit => VoyageInv
<1> SUFFICES ASSUME VoyageInit PROVE VoyageInv
  OBVIOUS
<1>1. HoldsRow /\ LocksApart /\ StuckScans /\ AtWork /\ UndoneFault
  BY DEF VoyageInit, HoldsRow, LocksApart, StuckScans, AtWork, UndoneFault, Idle
<1>2. HeldRows /\ Attended
  BY DEF VoyageInit, HeldRows, Attended
<1>3. QED
  BY <1>1, <1>2, VoyageInitType DEF VoyageInv

\* What the steps of a worker do to the rows.
LEMMA WorkerRows ==
  ASSUME VoyageInv, NEW w \in Worker,
         WorkerStep(w) \/ FetchFails(w) \/ CheckActiveFails(w) \/ RecordFails(w) \/ UndoFails(w)
  PROVE  /\ vyWork[w].st \in {"poll", "empty", "lock", "work", "undo"} /\ w[1] \in Enum
         /\ vyReq' = vyReq /\ vyPhase' = vyPhase /\ vyGen' = vyGen
         /\ vyFaults \in Nat /\ vyFaults' \in Nat /\ vyFaults <= vyFaults'
         /\ vyRow \in [Name -> {"absent", "queued", "scanning", "found", "not_found"}]
<1>1. w[1] \in Enum
  BY VoyageAssumption
<1>2. vyRow \in [Name -> {"absent", "queued", "scanning", "found", "not_found"}] /\ vyFaults \in Nat
  BY DEF VoyageInv, VoyageTypeOK
<1>3. QED
  BY <1>1, <1>2 DEF WorkerStep, Fetch, Mark, FetchFails, CheckActive, ParkedLeaves, Record, Undo, CheckActiveFails, RecordFails, UndoFails,
         Fault, OneFault, vyBounds

LEMMA WorkerHeld ==
  ASSUME VoyageInv, NEW w \in Worker,
         WorkerStep(w) \/ FetchFails(w) \/ CheckActiveFails(w) \/ RecordFails(w) \/ UndoFails(w)
  PROVE  HeldRows' /\ StuckScans'
<1>1. /\ vyPhase' = vyPhase /\ vyGen' = vyGen
      /\ vyRow \in [Name -> {"absent", "queued", "scanning", "found", "not_found"}]
  BY WorkerRows
<1>2. /\ \A u \in Worker : u # w => vyWork'[u] = vyWork[u]
      /\ \/ vyWork'[w].st \in {"poll", "empty", "gone"}
         \/ /\ vyWork'[w].st = "lock" /\ vyWork'[w].row \in InStatus("queued") /\ vyWork'[w].gen = vyGen
            /\ vyWork[w].st = "poll"
         \/ /\ vyWork[w].st = "lock" /\ vyWork'[w].st = "work" /\ vyWork'[w].row = vyWork[w].row
            /\ vyWork'[w].gen = vyWork[w].gen
         \/ /\ vyWork[w].st = "work" /\ vyWork'[w].st = "undo" /\ vyWork'[w].row = vyWork[w].row
            /\ vyWork'[w].gen = vyWork[w].gen
  BY OneWorkerMoves DEF VoyageInv
<1>3. vyWork[w].st \in {"lock", "work", "undo"} => vyWork[w].row \in Name
  BY DEF VoyageInv, HoldsRow
<1>4. vyStuck \subseteq InStatus("scanning") /\ HeldRows
  BY DEF VoyageInv, StuckScans
<1>5. ASSUME NEW u \in Worker, u # w, NEW r, Holder(u, r) PROVE Holder(u, r)'
  BY <1>1, <1>2, <1>5 DEF Holder
<1>6. CASE Mark(w)
  <2>1. PICK r : r = vyWork[w].row
    OBVIOUS
  <2>2. r \in Name /\ vyRow[r] = "queued" /\ vyWork[w].st = "lock" /\ vyWork[w].gen = vyGen
    BY <1>6, <2>1 DEF Mark, VoyageInv, LocksApart
  <2>9. vyRow' = [vyRow EXCEPT ![r] = "scanning"] /\ vyStuck' = vyStuck
    BY <1>6, <2>1 DEF Mark
  <2>10. vyWork' = [vyWork EXCEPT ![w] = [vyWork[w] EXCEPT !.st = "work"]]
         /\ vyWork[w] \in [st : {"off", "poll", "empty", "lock", "work", "undo", "gone"},
                            row : Name \cup {NoName}, gen : Nat]
    BY <1>6 DEF Mark, VoyageInv, VoyageTypeOK
  <2>3. vyWork'[w] = [vyWork[w] EXCEPT !.st = "work"]
    BY <2>10 DEF VoyageInv, VoyageTypeOK
  <2>4. Holder(w, r)'
    BY <1>1, <2>1, <2>2, <2>3, <2>10 DEF Holder
  <2>5. \A q \in Name : vyRow'[q] = IF q = r THEN "scanning" ELSE vyRow[q]
    BY <1>1, <2>2, <2>9
  <2>6. StuckScans'
    BY <1>4, <2>2, <2>5, <2>9 DEF StuckScans, InStatus
  <2>7. ASSUME NEW q \in InStatus("scanning")', q \notin vyStuck', \E e \in Enum : vyPhase'[e] \in {"running", "done"}
        PROVE  \E u \in Worker : Holder(u, q)'
    <3>1. CASE q = r
      BY <2>4, <3>1
    <3>2. CASE q # r
      <4>1. q \in InStatus("scanning") /\ q \notin vyStuck
        BY <2>5, <2>7, <2>9, <3>2 DEF InStatus
      <4>2. PICK u \in Worker : Holder(u, q)
        BY <1>1, <1>4, <2>7, <4>1 DEF HeldRows
      <4>3. u # w
        BY <2>2, <4>2 DEF Holder
      <4>4. QED
        BY <1>5, <4>2, <4>3
    <3>3. QED
      BY <3>1, <3>2
  <2>8. QED
    BY <2>6, <2>7 DEF HeldRows
<1>7. CASE vyRow' = vyRow /\ vyStuck' = vyStuck
  <2>1. StuckScans'
    BY <1>4, <1>7 DEF StuckScans, InStatus
  <2>2. ASSUME NEW q \in InStatus("scanning")', q \notin vyStuck', \E e \in Enum : vyPhase'[e] \in {"running", "done"}
        PROVE  \E u \in Worker : Holder(u, q)'
    <3>1. q \in InStatus("scanning") /\ q \notin vyStuck /\ q \in Name
      BY <1>7, <2>2 DEF InStatus
    <3>2. PICK u \in Worker : Holder(u, q)
      BY <1>1, <1>4, <2>2, <3>1 DEF HeldRows
    <3>3. CASE u # w
      BY <1>5, <3>2, <3>3
    <3>4. CASE u = w /\ RecordFails(w)
      <4>1. vyWork[w].st = "work" /\ vyWork[w].row = q /\ vyWork[w].gen = vyGen
        BY <3>2, <3>4 DEF Holder, RecordFails
      <4>2. vyWork' = [vyWork EXCEPT ![w] = [vyWork[w] EXCEPT !.st = "undo"]]
        BY <3>4 DEF RecordFails
      <4>3. vyWork'[w] = [vyWork[w] EXCEPT !.st = "undo"] /\ vyWork[w] \in [st : {"off", "poll", "empty", "lock", "work", "undo", "gone"},
                                          row : Name \cup {NoName}, gen : Nat]
        BY <4>2 DEF VoyageInv, VoyageTypeOK
      <4>4. Holder(w, q)'
        BY <1>1, <4>1, <4>3 DEF Holder
      <4>5. QED
        BY <4>4
    <3>5. CASE u = w /\ ~ RecordFails(w)
      <4>1. vyWork[w].st \in {"work", "undo"} /\ vyWork[w].row = q /\ vyWork[w].gen = vyGen
        BY <3>2, <3>5 DEF Holder
      <4>2. Record(w) \/ Undo(w) \/ UndoFails(w)
        BY <3>5, <4>1 DEF WorkerStep, Fetch, Mark, FetchFails, CheckActive, CheckActiveFails, ParkedLeaves
      <4>3. vyRow[q] = "scanning" /\ q \in Name
        BY <3>1 DEF InStatus
      <4>4. CASE UndoFails(w)
        BY <1>7, <3>1, <4>1, <4>3, <4>4 DEF UndoFails
      <4>5. CASE Record(w) \/ Undo(w)
        <5>1. \E s \in {"found", "not_found", "queued"} : vyRow' = [vyRow EXCEPT ![q] = s]
          BY <4>1, <4>5 DEF Record, Undo, SetRow
        <5>2. vyRow'[q] # "scanning"
          BY <1>1, <4>3, <5>1
        <5>3. QED
          BY <1>7, <4>3, <5>2
      <4>6. QED
        BY <4>2, <4>4, <4>5
    <3>6. QED
      BY <3>3, <3>4, <3>5
  <2>3. QED
    BY <2>1, <2>2 DEF HeldRows
<1>8. ASSUME vyWork[w].st \in {"work", "undo"}, vyWork[w].gen = vyGen,
             \E s \in {"found", "not_found", "queued"} : SetRow(w, s)
      PROVE  HeldRows' /\ StuckScans'
  <2>1. PICK p : p = vyWork[w].row
    OBVIOUS
  <2>2. p \in Name /\ vyStuck' = vyStuck \ {p} /\ \E s \in {"found", "not_found", "queued"} : vyRow' = [vyRow EXCEPT ![p] = s]
    BY <1>3, <1>8, <2>1 DEF SetRow
  <2>3. vyRow'[p] # "scanning" /\ \A q \in Name : q # p => vyRow'[q] = vyRow[q]
    BY <1>1, <2>2
  <2>4. StuckScans'
    BY <1>4, <2>2, <2>3 DEF StuckScans, InStatus
  <2>5. ASSUME NEW q \in InStatus("scanning")', q \notin vyStuck', \E e \in Enum : vyPhase'[e] \in {"running", "done"}
        PROVE  \E u \in Worker : Holder(u, q)'
    <3>1. q # p /\ q \in InStatus("scanning") /\ q \notin vyStuck
      BY <2>2, <2>3, <2>5 DEF InStatus
    <3>2. PICK u \in Worker : Holder(u, q)
      BY <1>1, <1>4, <2>5, <3>1 DEF HeldRows
    <3>3. u # w
      BY <2>1, <3>1, <3>2 DEF Holder
    <3>4. QED
      BY <1>5, <3>2, <3>3
  <2>6. QED
    BY <2>4, <2>5 DEF HeldRows
<1>9. CASE UndoFails(w) /\ vyWork[w].gen = vyGen /\ vyRow[vyWork[w].row] = "scanning"
  <2>1. PICK p : p = vyWork[w].row
    OBVIOUS
  <2>2. p \in Name /\ vyRow[p] = "scanning" /\ vyStuck' = vyStuck \cup {p} /\ vyRow' = vyRow
    BY <1>3, <1>9, <2>1 DEF UndoFails
  <2>3. StuckScans'
    BY <1>4, <2>2 DEF StuckScans, InStatus
  <2>4. ASSUME NEW q \in InStatus("scanning")', q \notin vyStuck', \E e \in Enum : vyPhase'[e] \in {"running", "done"}
        PROVE  \E u \in Worker : Holder(u, q)'
    <3>1. q # p /\ q \in InStatus("scanning") /\ q \notin vyStuck
      BY <2>2, <2>4 DEF InStatus
    <3>2. PICK u \in Worker : Holder(u, q)
      BY <1>1, <1>4, <2>4, <3>1 DEF HeldRows
    <3>3. u # w
      BY <2>1, <3>1, <3>2 DEF Holder
    <3>4. QED
      BY <1>5, <3>2, <3>3
  <2>5. QED
    BY <2>3, <2>4 DEF HeldRows
<1>11. CASE FetchFails(w) /\ ~ (vyRow' = vyRow /\ vyStuck' = vyStuck)
  <2>1. PICK p : p = vyWork[w].row
    OBVIOUS
  <2>2. p \in Name /\ vyRow' = [vyRow EXCEPT ![p] = "scanning"] /\ vyStuck' = vyStuck \cup {p}
        /\ vyWork[w].st = "lock"
    BY <1>3, <1>11, <2>1 DEF FetchFails
  <2>3. vyRow'[p] = "scanning" /\ \A q \in Name : q # p => vyRow'[q] = vyRow[q]
    BY <1>1, <2>2
  <2>4. StuckScans'
    BY <1>4, <2>2, <2>3 DEF StuckScans, InStatus
  <2>5. ASSUME NEW q \in InStatus("scanning")', q \notin vyStuck', \E e \in Enum : vyPhase'[e] \in {"running", "done"}
        PROVE  \E u \in Worker : Holder(u, q)'
    <3>1. q # p /\ q \in InStatus("scanning") /\ q \notin vyStuck
      BY <2>2, <2>3, <2>5 DEF InStatus
    <3>2. PICK u \in Worker : Holder(u, q)
      BY <1>1, <1>4, <2>5, <3>1 DEF HeldRows
    <3>3. u # w
      BY <2>2, <3>2 DEF Holder
    <3>4. QED
      BY <1>5, <3>2, <3>3
  <2>6. QED
    BY <2>4, <2>5 DEF HeldRows
<1>10. QED
  <2>1. CASE Record(w) \/ Undo(w) \/ RecordFails(w)
    <3>1. vyWork[w].st \in {"work", "undo"}
      BY <2>1 DEF Record, Undo, RecordFails
    <3>2. (vyRow' = vyRow /\ vyStuck' = vyStuck) \/ \E s \in {"found", "not_found", "queued"} : SetRow(w, s)
      BY <2>1 DEF Record, Undo, RecordFails
    <3>3. CASE vyWork[w].gen = vyGen
      BY <1>7, <1>8, <3>1, <3>2, <3>3
    <3>4. CASE vyWork[w].gen # vyGen
      BY <1>7, <3>2, <3>4 DEF SetRow
    <3>5. QED
      BY <3>3, <3>4
  <2>2. CASE UndoFails(w)
    BY <1>7, <1>9, <2>2 DEF UndoFails
  <2>4. CASE Fetch(w) \/ CheckActive(w) \/ CheckActiveFails(w) \/ ParkedLeaves(w)
    BY <1>7, <2>4 DEF Fetch, CheckActive, CheckActiveFails, ParkedLeaves
  <2>5. QED
    BY <1>6, <1>7, <1>11, <2>1, <2>2, <2>4 DEF WorkerStep

\* The calls that have locked a row keep it to themselves.
LEMMA WorkerLocks ==
  ASSUME VoyageInv, NEW w \in Worker,
         WorkerStep(w) \/ FetchFails(w) \/ CheckActiveFails(w) \/ RecordFails(w) \/ UndoFails(w)
  PROVE  LocksApart'
<1>1. /\ vyGen' = vyGen
      /\ vyRow \in [Name -> {"absent", "queued", "scanning", "found", "not_found"}]
  BY WorkerRows
<1>2. \A u \in Worker : u # w => vyWork'[u] = vyWork[u]
  BY OneWorkerMoves DEF VoyageInv
<1>3. LocksApart
  BY DEF VoyageInv
\* The others keep their locks, whatever the step does to a row they have not locked.
<1>4. ASSUME vyWork'[w].st # "lock",
             \A u \in Worker : u # w /\ vyWork[u].st = "lock" => vyRow'[vyWork[u].row] = vyRow[vyWork[u].row]
      PROVE  LocksApart'
  <2>1. SUFFICES ASSUME NEW u \in Worker, vyWork'[u].st = "lock"
        PROVE  /\ vyWork'[u].row \in Name /\ vyRow'[vyWork'[u].row] = "queued" /\ vyWork'[u].gen = vyGen'
               /\ \A v \in Worker : v # u => ~ (vyWork'[v].st = "lock" /\ vyWork'[v].row = vyWork'[u].row)
    BY DEF LocksApart, Locker
  <2>2. u # w /\ vyWork'[u] = vyWork[u] /\ vyWork[u].st = "lock"
    BY <1>2, <1>4, <2>1
  <2>3. /\ vyWork[u].row \in Name /\ vyRow[vyWork[u].row] = "queued" /\ vyWork[u].gen = vyGen
        /\ \A v \in Worker : v # u => ~ (vyWork[v].st = "lock" /\ vyWork[v].row = vyWork[u].row)
    BY <1>3, <2>2 DEF LocksApart, Locker
  <2>4. \A v \in Worker : v # u => ~ (vyWork'[v].st = "lock" /\ vyWork'[v].row = vyWork'[u].row)
    BY <1>2, <1>4, <2>2, <2>3
  <2>5. QED
    BY <1>1, <1>4, <2>2, <2>3, <2>4
<1>5. CASE Fetch(w)
  <2>1. vyRow' = vyRow
    BY <1>5 DEF Fetch
  <2>2. CASE WorkerGoes(w, "empty")
    <3>1. vyWork'[w].st = "empty"
      BY <2>2 DEF WorkerGoes, WorkerState, VoyageInv, VoyageTypeOK
    <3>2. QED
      BY <1>4, <2>1, <3>1
  <2>3. ASSUME NEW r \in InStatus("queued"), ~ Locked(r),
               vyWork' = [vyWork EXCEPT ![w] = [st |-> "lock", row |-> r, gen |-> vyGen]]
        PROVE  LocksApart'
    <3>1. vyWork'[w] = [st |-> "lock", row |-> r, gen |-> vyGen] /\ r \in Name /\ vyRow[r] = "queued"
      BY <2>3 DEF VoyageInv, VoyageTypeOK, InStatus
    <3>2. \A u \in Worker : ~ (vyWork[u].st = "lock" /\ vyWork[u].row = r)
      BY <2>3 DEF Locked
    <3>3. ASSUME NEW u \in Worker, vyWork'[u].st = "lock"
          PROVE  /\ vyWork'[u].row \in Name /\ vyRow'[vyWork'[u].row] = "queued" /\ vyWork'[u].gen = vyGen'
                 /\ \A v \in Worker : v # u => ~ (vyWork'[v].st = "lock" /\ vyWork'[v].row = vyWork'[u].row)
      <4>1. CASE u = w
        BY <1>1, <1>2, <2>1, <3>1, <3>2, <4>1
      <4>2. CASE u # w
        <5>1. vyWork'[u] = vyWork[u] /\ vyWork[u].st = "lock"
          BY <1>2, <3>3, <4>2
        <5>2. /\ vyWork[u].row \in Name /\ vyRow[vyWork[u].row] = "queued" /\ vyWork[u].gen = vyGen
              /\ \A v \in Worker : v # u => ~ (vyWork[v].st = "lock" /\ vyWork[v].row = vyWork[u].row)
          BY <1>3, <5>1 DEF LocksApart, Locker
        <5>3. vyWork[u].row # r
          BY <3>2, <5>1
        <5>4. QED
          BY <1>1, <1>2, <2>1, <3>1, <5>1, <5>2, <5>3
      <4>3. QED
        BY <4>1, <4>2
    <3>4. QED
      BY <3>3 DEF LocksApart, Locker
  <2>4. QED
    BY <1>5, <2>2, <2>3 DEF Fetch
<1>6. CASE Mark(w) \/ FetchFails(w)
  <2>1. vyWork[w].st = "lock" /\ vyWork'[w].st # "lock"
    BY <1>6, OneWorkerMoves DEF Mark, FetchFails, VoyageInv, VoyageTypeOK, WorkerGoes, WorkerState
  <2>2. vyRow' = vyRow \/ vyRow' = [vyRow EXCEPT ![vyWork[w].row] = "scanning"]
    BY <1>6 DEF Mark, FetchFails
  <2>3. ASSUME NEW u \in Worker, u # w, vyWork[u].st = "lock"
        PROVE  vyRow'[vyWork[u].row] = vyRow[vyWork[u].row]
    <3>1. vyWork[u].row \in Name /\ vyWork[u].row # vyWork[w].row
      BY <1>3, <2>1, <2>3 DEF LocksApart, Locker
    <3>2. QED
      BY <1>1, <2>2, <3>1
  <2>4. QED
    BY <1>4, <2>1, <2>3
<1>7. CASE Record(w) \/ Undo(w) \/ RecordFails(w)
  <2>1. vyWork'[w].st # "lock"
    BY <1>7, OneWorkerMoves DEF Record, Undo, RecordFails, VoyageInv
  <2>2. vyRow' = vyRow \/ (~ Locked(vyWork[w].row) /\ \E s : vyRow' = [vyRow EXCEPT ![vyWork[w].row] = s])
    BY <1>7 DEF Record, Undo, RecordFails, SetRow
  <2>3. ASSUME NEW u \in Worker, u # w, vyWork[u].st = "lock"
        PROVE  vyRow'[vyWork[u].row] = vyRow[vyWork[u].row]
    <3>1. vyWork[u].row \in Name
      BY <1>3, <2>3 DEF LocksApart
    <3>2. CASE vyRow' # vyRow
      <4>1. vyWork[u].row # vyWork[w].row
        BY <2>2, <2>3, <3>2 DEF Locked
      <4>2. QED
        BY <1>1, <2>2, <3>1, <3>2, <4>1
    <3>3. QED
      BY <3>2
  <2>4. QED
    BY <1>4, <2>1, <2>3
<1>8. CASE CheckActive(w) \/ CheckActiveFails(w) \/ ParkedLeaves(w) \/ UndoFails(w)
  <2>1. vyRow' = vyRow
    BY <1>8 DEF CheckActive, CheckActiveFails, ParkedLeaves, UndoFails
  <2>2. vyWork'[w].st # "lock"
    BY <1>8 DEF CheckActive, CheckActiveFails, ParkedLeaves, UndoFails, Leave, WorkerGoes, WorkerState,
                VoyageInv, VoyageTypeOK
  <2>3. QED
    BY <1>4, <2>1, <2>2
<1>9. QED
  BY <1>5, <1>6, <1>7, <1>8 DEF WorkerStep

LEMMA WorkerAttends ==
  ASSUME VoyageInv, NEW w \in Worker,
         WorkerStep(w) \/ FetchFails(w) \/ CheckActiveFails(w) \/ RecordFails(w) \/ UndoFails(w)
  PROVE  AtWork' /\ UndoneFault' /\ Attended'
<1>1. /\ vyWork[w].st \in {"poll", "empty", "lock", "work", "undo"} /\ w[1] \in Enum
      /\ vyReq' = vyReq /\ vyPhase' = vyPhase /\ vyGen' = vyGen
      /\ vyFaults \in Nat /\ vyFaults' \in Nat /\ vyFaults <= vyFaults'
      /\ vyRow \in [Name -> {"absent", "queued", "scanning", "found", "not_found"}]
  BY WorkerRows
<1>2. \A u \in Worker : u # w => vyWork'[u] = vyWork[u]
  BY OneWorkerMoves DEF VoyageInv
<1>3. vyWork'[w].st = "undo" => vyFaults' > 0
  <2>1. ASSUME vyWork'[w].st = "undo" PROVE vyFaults' > 0
    <3>1. vyWork[w].st = "work"
      BY <2>1, OneWorkerMoves DEF VoyageInv
    <3>2. CASE RecordFails(w)
      BY <1>1, <3>2 DEF RecordFails, Fault, OneFault
    <3>3. CASE ~ RecordFails(w)
      <4>1. Record(w)
        BY <3>1, <3>3 DEF WorkerStep, Fetch, Mark, FetchFails, CheckActive, CheckActiveFails, ParkedLeaves, Undo, UndoFails
      <4>2. vyWork'[w].st = "poll"
        BY <4>1 DEF Record, WorkerGoes, WorkerState, VoyageInv, VoyageTypeOK
      <4>3. QED
        BY <2>1, <4>2
    <3>4. QED
      BY <3>2, <3>3
  <2>2. QED
    BY <2>1
<1>4. AtWork' /\ UndoneFault'
  BY <1>1, <1>2, <1>3 DEF VoyageInv, AtWork, UndoneFault, Running
<1>5. ASSUME Trusted' PROVE Trusted
  <2>1. vyUnserved' = vyUnserved
    BY DEF WorkerStep, Fetch, Mark, FetchFails, CheckActive, ParkedLeaves, Record, Undo, CheckActiveFails,
           RecordFails, UndoFails, Fault, vyBounds
  <2>2. QED
    BY <1>1, <1>5, <2>1 DEF Trusted
<1>6. ASSUME NEW u \in Worker, Keen(u), u # w \/ vyWork'[w].st \in {"poll", "lock", "work", "undo"} PROVE Keen(u)'
  BY <1>1, <1>2, <1>6 DEF Keen
<1>7. SUFFICES ASSUME Trusted', \E e \in Enum : vyPhase'[e] # "idle", ~ \E e \in Enum : Preparing(e)',
                      NEW q \in Name, vyRow'[q] = "queued", ~ Locked(q)'
      PROVE  \E u \in Worker : Keen(u)'
  BY <1>4 DEF Attended, InStatus
<1>8. vyRow[q] = "queued" /\ ~ Locked(q) => \E u \in Worker : Keen(u)
  BY <1>1, <1>5, <1>7 DEF VoyageInv, Attended, Preparing, InStatus
<1>9. vyWork \in [Worker -> [st : {"off", "poll", "empty", "lock", "work", "undo", "gone"},
                             row : Name \cup {NoName}, gen : Nat]]
      /\ vyTarget \in [Enum -> Nat \ {0}]
  BY DEF VoyageInv, VoyageTypeOK
<1>15. ASSUME vyWork[w].st # "lock" \/ vyWork[w].row # q PROVE ~ Locked(q)
  <2>1. ASSUME NEW v \in Worker, vyWork[v].st = "lock", vyWork[v].row = q PROVE FALSE
    <3>1. v # w
      BY <1>15, <2>1
    <3>2. vyWork'[v] = vyWork[v]
      BY <1>2, <3>1
    <3>3. QED
      BY <1>7, <2>1, <3>2 DEF Locked
  <2>2. QED
    BY <2>1 DEF Locked
<1>10. CASE Undo(w) \/ FetchFails(w)
  <2>1. vyFaults' > 0
    BY <1>1, <1>10 DEF Undo, FetchFails, Fault, OneFault, VoyageInv, UndoneFault
  <2>2. vyReq[w[1]].pool = "fixed"
    BY <1>1, <1>7, <2>1 DEF Trusted
  <2>3. vyWork'[w].st = "poll"
    BY <1>9, <1>10 DEF Undo, FetchFails, WorkerGoes, WorkerState
  <2>4. Keen(w)'
    BY <1>1, <2>2, <2>3 DEF Keen
  <2>5. QED
    BY <2>4
<1>11. CASE Fetch(w)
  <2>1. vyRow[q] = "queued" /\ ~ Locked(q)
    BY <1>7, <1>11, <1>15 DEF Fetch
  <2>2. ~ \A r \in InStatus("queued") : Locked(r)
    BY <2>1 DEF InStatus
  <2>3. vyWork'[w].st = "lock"
    BY <1>9, <1>11, <2>2 DEF Fetch
  <2>4. QED
    BY <1>6, <1>8, <2>1, <2>3
<1>16. CASE Mark(w)
  <2>1. vyWork[w].st = "lock" /\ vyWork[w].row \in Name
    BY <1>16 DEF Mark, VoyageInv, LocksApart
  <2>2. vyRow' = [vyRow EXCEPT ![vyWork[w].row] = "scanning"]
    BY <1>16 DEF Mark
  <2>3. q # vyWork[w].row /\ vyRow[q] = "queued"
    BY <1>1, <1>7, <2>1, <2>2
  <2>4. vyWork'[w].st = "work"
    BY <1>9, <1>16 DEF Mark
  <2>5. QED
    BY <1>6, <1>8, <1>15, <2>3, <2>4
<1>12. CASE Record(w) \/ RecordFails(w) \/ UndoFails(w)
  <2>1. vyRow[q] = "queued"
    BY <1>1, <1>7, <1>12 DEF Record, RecordFails, UndoFails, SetRow
  <2>2. vyWork'[w].st \in {"poll", "undo"}
    BY <1>9, <1>12 DEF Record, RecordFails, UndoFails, WorkerGoes, WorkerState
  <2>4. vyWork[w].st # "lock"
    BY <1>12 DEF Record, RecordFails, UndoFails
  <2>3. QED
    BY <1>6, <1>8, <1>15, <2>1, <2>2, <2>4
<1>13. CASE CheckActive(w) \/ CheckActiveFails(w) \/ ParkedLeaves(w)
  <2>1. vyRow[q] = "queued" /\ vyWork[w].st # "lock"
    BY <1>7, <1>13 DEF CheckActive, CheckActiveFails, ParkedLeaves
  <2>2. ~ Keen(w)
    <3>1. CASE vyWork[w].st = "empty"
      BY <3>1 DEF Keen
    <3>2. CASE ParkedLeaves(w)
      BY <1>1, <1>9, <3>2 DEF ParkedLeaves, Parked, Adaptive, Keen
    <3>3. QED
      BY <1>13, <3>1, <3>2 DEF CheckActive, CheckActiveFails
  <2>3. QED
    BY <1>6, <1>8, <1>15, <2>1, <2>2
<1>14. QED
  BY <1>10, <1>11, <1>16, <1>12, <1>13 DEF WorkerStep

\* A step of the preparation, the end of an enumeration and a tick of its
\* controller leave the workers alone.
LEMMA PrepareMoves ==
  ASSUME VoyageInv, NEW e \in Enum,
         \/ Begin(e) \/ CreateScan(e) \/ ClearScan(e) \/ PassiveRows(e) \/ WordRows(e) \/ PrepareFails(e)
         \/ EnumDone(e) \/ ControllerTick(e)
  PROVE  /\ vyWork' = vyWork /\ vyReq' = vyReq /\ vyUnserved' = vyUnserved
         /\ vyFaults \in Nat /\ vyFaults' \in Nat /\ vyFaults <= vyFaults'
         /\ vyPhase[e] # "failed" /\ vyPhase[e] # "done"
         /\ \A f \in Enum : f # e => vyPhase'[f] = vyPhase[f]
         /\ \/ vyPhase[e] # "running" /\ Preparing(e)'
            \/ vyPhase[e] # "running" /\ vyPhase'[e] = "failed"
            \/ EnumDone(e) /\ vyPhase[e] = "running" /\ vyPhase'[e] = "done" /\ vyRow' = vyRow
            \/ vyPhase[e] = "running" /\ vyPhase'[e] = "running" /\ vyRow' = vyRow
<1>1. vyPhase \in [Enum -> {"idle", "create", "clear", "passive", "words", "reset", "running", "done", "failed"}]
      /\ vyFaults \in Nat
  BY DEF VoyageInv, VoyageTypeOK
<1>2. CASE Begin(e) \/ ClearScan(e) \/ PassiveRows(e) \/ WordRows(e)
  BY <1>1, <1>2 DEF Begin, ClearScan, PassiveRows, WordRows, Goto, Preparing, vyPool, vyBounds
<1>3. CASE CreateScan(e)
  BY <1>1, <1>3 DEF CreateScan, Failed, Goto, Preparing, vyPool, vyBounds
<1>4. CASE PrepareFails(e)
  BY <1>1, <1>4 DEF PrepareFails, Fault, OneFault, Failed, Goto, Preparing, vyPool
<1>5. CASE EnumDone(e)
  BY <1>1, <1>5 DEF EnumDone, Running, Goto, vyPool, vyBounds
<1>6. CASE ControllerTick(e)
  BY <1>1, <1>6 DEF ControllerTick, Running, vyBounds
<1>7. QED
  BY <1>2, <1>3, <1>4, <1>5, <1>6

\* What those steps do to the rows: those in scanning stay in it, and stay the same
\* rows, or all are gone.
LEMMA PrepareRows ==
  ASSUME VoyageInv, NEW e \in Enum,
         \/ Begin(e) \/ CreateScan(e) \/ ClearScan(e) \/ PassiveRows(e) \/ WordRows(e) \/ PrepareFails(e)
         \/ EnumDone(e) \/ ControllerTick(e)
  PROVE  \/ /\ vyGen' = vyGen /\ vyStuck' = vyStuck /\ InStatus("scanning")' = InStatus("scanning")
            /\ \A r \in Name : vyRow[r] = "queued" => vyRow'[r] = "queued"
         \/ vyStuck' = {} /\ InStatus("scanning")' = {} /\ \A w \in Worker : vyWork[w].st # "lock"
<1>1. CASE Begin(e) \/ CreateScan(e) \/ PrepareFails(e) \/ EnumDone(e) \/ ControllerTick(e)
  BY <1>1 DEF Begin, CreateScan, PrepareFails, EnumDone, ControllerTick, InStatus
<1>2. CASE ClearScan(e)
  <2>1. CASE vyReq[e].fresh
    <3>1. vyStuck' = {} /\ InStatus("scanning")' = {} /\ \A r \in Name : ~ Locked(r)
      BY <1>2, <2>1 DEF ClearScan, InStatus
    <3>2. \A w \in Worker : vyWork[w].st = "lock" => vyWork[w].row \in Name
      BY DEF VoyageInv, LocksApart
    <3>3. QED
      BY <3>1, <3>2 DEF Locked
  <2>2. CASE ~ vyReq[e].fresh
    BY <1>2, <2>2 DEF ClearScan, InStatus
  <2>3. QED
    BY <2>1, <2>2
<1>3. CASE PassiveRows(e)
  BY <1>3 DEF PassiveRows, InsertEntries, InStatus
<1>4. CASE WordRows(e)
  BY <1>4 DEF WordRows, InsertEntries, InStatus
<1>5. QED
  BY <1>1, <1>2, <1>3, <1>4

LEMMA PrepareInv ==
  ASSUME VoyageInv, NEW e \in Enum,
         \/ Begin(e) \/ CreateScan(e) \/ ClearScan(e) \/ PassiveRows(e) \/ WordRows(e) \/ PrepareFails(e)
         \/ EnumDone(e) \/ ControllerTick(e)
  PROVE  LocksApart' /\ StuckScans' /\ AtWork' /\ UndoneFault' /\ HeldRows' /\ Attended'
<1>1. /\ vyWork' = vyWork /\ vyReq' = vyReq /\ vyUnserved' = vyUnserved
      /\ vyFaults \in Nat /\ vyFaults' \in Nat /\ vyFaults <= vyFaults'
      /\ vyPhase[e] # "failed" /\ vyPhase[e] # "done"
      /\ \A f \in Enum : f # e => vyPhase'[f] = vyPhase[f]
      /\ \/ vyPhase[e] # "running" /\ Preparing(e)'
         \/ vyPhase[e] # "running" /\ vyPhase'[e] = "failed"
         \/ EnumDone(e) /\ vyPhase[e] = "running" /\ vyPhase'[e] = "done" /\ vyRow' = vyRow
         \/ vyPhase[e] = "running" /\ vyPhase'[e] = "running" /\ vyRow' = vyRow
  BY PrepareMoves
<1>2. \/ /\ vyGen' = vyGen /\ vyStuck' = vyStuck /\ InStatus("scanning")' = InStatus("scanning")
         /\ \A r \in Name : vyRow[r] = "queued" => vyRow'[r] = "queued"
      \/ vyStuck' = {} /\ InStatus("scanning")' = {} /\ \A w \in Worker : vyWork[w].st # "lock"
  BY PrepareRows
<1>3. LocksApart /\ StuckScans /\ AtWork /\ UndoneFault /\ HeldRows /\ Attended
  BY DEF VoyageInv
<1>4. \A w \in Worker : w[1] \in Enum
  BY VoyageAssumption
<1>5. StuckScans' /\ UndoneFault'
  BY <1>1, <1>2, <1>3 DEF StuckScans, UndoneFault
<1>6. AtWork'
  <2>1. SUFFICES ASSUME NEW w \in Worker, vyWork[w].st \notin {"off", "gone"} PROVE vyPhase'[w[1]] = "running"
    BY <1>1 DEF AtWork, Running
  <2>2. vyPhase[w[1]] = "running"
    BY <1>3, <2>1 DEF AtWork, Running
  <2>3. CASE w[1] = e
    <3>1. ~ EnumDone(e)
      BY <2>1, <2>3 DEF EnumDone, Of
    <3>2. QED
      BY <1>1, <2>2, <2>3, <3>1
  <2>4. QED
    BY <1>1, <1>4, <2>2, <2>3
<1>7. HeldRows'
  <2>1. SUFFICES ASSUME NEW f \in Enum, vyPhase'[f] \in {"running", "done"},
                        NEW r \in InStatus("scanning")', r \notin vyStuck'
        PROVE  \E w \in Worker : Holder(w, r)'
    BY DEF HeldRows
  <2>2. vyPhase[f] \in {"running", "done"}
    BY <1>1, <2>1 DEF Preparing
  <2>3. PICK w \in Worker : Holder(w, r) /\ vyGen' = vyGen
    BY <1>2, <1>3, <2>1, <2>2 DEF HeldRows
  <2>4. QED
    BY <1>1, <2>3 DEF Holder
<1>8. Attended'
  <2>1. SUFFICES ASSUME Trusted', ~ \E f \in Enum : Preparing(f)',
                        NEW q \in Name, vyRow'[q] = "queued", ~ Locked(q)'
        PROVE  \E w \in Worker : Keen(w)'
    BY DEF Attended, InStatus
  <2>2. /\ vyPhase[e] = "running" /\ vyRow' = vyRow
        /\ \A f \in Enum : Preparing(f) => Preparing(f)'
    BY <1>1, <2>1 DEF Trusted, Preparing
  <2>3. Trusted
    BY <1>1, <2>1, <2>2 DEF Trusted
  <2>4. q \in InStatus("queued") /\ ~ Locked(q)
    BY <1>1, <2>1, <2>2 DEF InStatus, Locked
  <2>5. PICK w \in Worker : Keen(w)
    BY <1>3, <2>1, <2>2, <2>3, <2>4 DEF Attended
  <2>6. QED
    BY <1>1, <2>5 DEF Keen
<1>10. LocksApart'
  BY <1>1, <1>2, <1>3 DEF LocksApart, Locker
<1>9. QED
  BY <1>5, <1>6, <1>7, <1>8, <1>10

\* A row that is reset was in scanning: the locked ones stay as they are.
LEMMA ResetLocks ==
  ASSUME VoyageInv, ResetHalted, vyGen' = vyGen,
         \A w \in Worker : vyWork'[w].st = "lock" => vyWork'[w] = vyWork[w]
  PROVE  LocksApart' /\ StuckScans' /\ HeldRows'
<1>1. \A r \in Name : vyRow[r] = "queued" => vyRow'[r] = "queued"
  BY DEF ResetHalted
<1>2. LocksApart
  BY DEF VoyageInv
<1>3. vyStuck' = {} /\ InStatus("scanning")' = {}
  BY DEF ResetHalted, InStatus
<1>4. LocksApart'
  <2>1. SUFFICES ASSUME NEW u \in Worker, vyWork'[u].st = "lock"
        PROVE  /\ vyWork'[u].row \in Name /\ vyRow'[vyWork'[u].row] = "queued" /\ vyWork'[u].gen = vyGen'
               /\ \A v \in Worker : v # u => ~ (vyWork'[v].st = "lock" /\ vyWork'[v].row = vyWork'[u].row)
    BY DEF LocksApart, Locker
  <2>2. vyWork'[u] = vyWork[u] /\ vyWork[u].st = "lock"
    BY <2>1
  <2>3. /\ vyWork[u].row \in Name /\ vyRow[vyWork[u].row] = "queued" /\ vyWork[u].gen = vyGen
        /\ \A v \in Worker : v # u => ~ (vyWork[v].st = "lock" /\ vyWork[v].row = vyWork[u].row)
    BY <1>2, <2>2 DEF LocksApart, Locker
  <2>4. QED
    BY <1>1, <2>2, <2>3
<1>5. StuckScans' /\ HeldRows'
  BY <1>3 DEF StuckScans, HeldRows
<1>6. QED
  BY <1>4, <1>5

LEMMA StartWorkersInv ==
  ASSUME VoyageInv, NEW e \in Enum, StartWorkers(e) \/ StartShort(e)
  PROVE  LocksApart' /\ StuckScans' /\ AtWork' /\ UndoneFault' /\ HeldRows' /\ Attended'
<1>1. /\ vyPhase \in [Enum -> {"idle", "create", "clear", "passive", "words", "reset", "running", "done", "failed"}]
      /\ AtWork /\ UndoneFault /\ vyFaults \in Nat
  BY DEF VoyageInv, VoyageTypeOK
<1>11. PICK B : StartPool(e, B) /\ (StartWorkers(e) => B = {})
  BY DEF StartWorkers, StartShort
<1>2. /\ vyPhase' = [vyPhase EXCEPT ![e] = "running"] /\ vyReq' = vyReq /\ vyGen' = vyGen /\ ResetHalted
      /\ vyWork' = [w \in Worker |->
                      IF w[1] # e THEN vyWork[w]
                      ELSE [st |-> IF w \in B \/ vyReq[e].pool = "none" THEN "gone" ELSE "poll", row |-> NoName, gen |-> 0]]
  BY <1>11 DEF StartPool, Goto, WorkerState
<1>3. vyFaults' \in Nat /\ vyFaults <= vyFaults'
  BY <1>1 DEF StartWorkers, StartShort, OneFault, vyBounds
<1>4. \A w \in Worker : w[1] \in Enum
  BY VoyageAssumption
<1>5. \A w \in Worker : \/ w[1] # e /\ vyWork'[w] = vyWork[w]
                        \/ w[1] = e /\ vyWork'[w].st \in {"gone", "poll"}
  <2>1. TAKE w \in Worker
  <2>2. CASE w[1] # e
    <3>1. vyWork'[w] = vyWork[w]
      BY <1>2, <2>2
    <3>2. QED
      BY <2>2, <3>1
  <2>3. CASE w[1] = e
    <3>1. vyWork'[w] = [st |-> IF w \in B \/ vyReq[e].pool = "none" THEN "gone" ELSE "poll", row |-> NoName, gen |-> 0]
      BY <1>2, <2>3
    <3>2. QED
      BY <2>3, <3>1
  <2>4. QED
    BY <2>2, <2>3
<1>6. AtWork'
  BY <1>1, <1>2, <1>4, <1>5 DEF AtWork, Running
<1>7. UndoneFault'
  BY <1>1, <1>3, <1>5 DEF UndoneFault
<1>8. LocksApart' /\ StuckScans' /\ HeldRows'
  <2>1. \A w \in Worker : vyWork'[w].st = "lock" => vyWork'[w] = vyWork[w]
    BY <1>5
  <2>2. QED
    BY <1>2, <2>1, ResetLocks
<1>9. Attended'
  <2>1. SUFFICES ASSUME Trusted' PROVE \E w \in Worker : Keen(w)'
    BY DEF Attended
  <2>7. B = {}
    <3>1. ~ StartShort(e)
      BY <2>1 DEF Trusted, StartShort
    <3>2. QED
      BY <1>11, <3>1
  <2>2. PICK w \in Worker : w = <<e, 0>>
    BY VoyageAssumption
  <2>3. w[1] = e /\ w[2] = 0
    BY <2>2
  <2>4. vyReq[e].pool # "none"
    BY <1>2, <2>1 DEF Trusted
  <2>5. vyWork'[w].st = "poll"
    BY <1>2, <2>3, <2>4, <2>7
  <2>6. QED
    BY <2>3, <2>5 DEF Keen
<1>10. QED
  BY <1>6, <1>7, <1>8, <1>9

LEMMA StartFailsInv ==
  ASSUME VoyageInv, NEW e \in Enum, StartFails(e)
  PROVE  LocksApart' /\ StuckScans' /\ AtWork' /\ UndoneFault' /\ HeldRows' /\ Attended'
<1>1. /\ vyPhase \in [Enum -> {"idle", "create", "clear", "passive", "words", "reset", "running", "done", "failed"}]
      /\ AtWork /\ UndoneFault /\ vyFaults \in Nat
  BY DEF VoyageInv, VoyageTypeOK
<1>2. /\ vyPhase[e] = "reset" /\ \A f \in Enum : f # e => vyPhase'[f] = vyPhase[f]
      /\ vyWork' = vyWork /\ vyGen' = vyGen /\ ResetHalted /\ vyFaults' = vyFaults + 1
      /\ vyUnserved' # {}
  BY <1>1 DEF StartFails, Goto, OneFault, vyPool
<1>3. LocksApart' /\ StuckScans' /\ HeldRows'
  BY <1>2, ResetLocks
<1>4. \A w \in Worker : w[1] \in Enum
  BY VoyageAssumption
<1>5. AtWork' /\ UndoneFault'
  BY <1>1, <1>2, <1>4 DEF AtWork, UndoneFault, Running
<1>6. Attended'
  BY <1>2 DEF Attended, Trusted
<1>7. QED
  BY <1>3, <1>5, <1>6

LEMMA VoyageStepInv == VoyageInv /\ [VoyageNext]_vyVars => VoyageInv'
<1> SUFFICES ASSUME VoyageInv, [VoyageNext]_vyVars PROVE VoyageInv'
  OBVIOUS
<1>1. VoyageTypeOK' /\ HoldsRow'
  BY VoyageStepRow, VoyageStepType DEF VoyageInv
<1>2. CASE UNCHANGED vyVars
  <2>1. /\ vyRow' = vyRow /\ vyGen' = vyGen /\ vyReq' = vyReq /\ vyPhase' = vyPhase /\ vyWork' = vyWork
        /\ vyStuck' = vyStuck /\ vyFaults' = vyFaults /\ vyUnserved' = vyUnserved
    BY <1>2 DEF vyVars, vyPool, vyBounds
  <2>2. LocksApart' /\ StuckScans' /\ AtWork' /\ UndoneFault' /\ HeldRows'
    BY <2>1 DEF VoyageInv, LocksApart, Locker, StuckScans, AtWork, UndoneFault, HeldRows, InStatus, Running, Holder
  <2>4. Attended'
    BY <2>1 DEF VoyageInv, Attended, InStatus, Locked, Preparing, Keen, Trusted
  <2>3. QED
    BY <1>1, <2>2, <2>4 DEF VoyageInv
<1>3. CASE Crash
  <2>1. LocksApart' /\ StuckScans' /\ AtWork' /\ UndoneFault'
    BY <1>3 DEF Crash, LocksApart, Locker, StuckScans, AtWork, UndoneFault, Idle
  <2>2. HeldRows' /\ Attended'
    BY <1>3 DEF Crash, HeldRows, Attended
  <2>3. QED
    BY <1>1, <2>1, <2>2 DEF VoyageInv
<1>4. ASSUME NEW w \in Worker, WorkerStep(w) \/ FetchFails(w) \/ CheckActiveFails(w) \/ RecordFails(w) \/ UndoFails(w)
      PROVE  VoyageInv'
  BY <1>1, <1>4, WorkerHeld, WorkerLocks, WorkerAttends DEF VoyageInv
<1>5. ASSUME NEW e \in Enum, StartWorkers(e) \/ StartShort(e) PROVE VoyageInv'
  BY <1>1, <1>5, StartWorkersInv DEF VoyageInv
<1>6. ASSUME NEW e \in Enum,
             \/ Begin(e) \/ CreateScan(e) \/ ClearScan(e) \/ PassiveRows(e) \/ WordRows(e) \/ PrepareFails(e)
             \/ EnumDone(e) \/ ControllerTick(e)
      PROVE  VoyageInv'
  BY <1>1, <1>6, PrepareInv DEF VoyageInv
<1>8. ASSUME NEW e \in Enum, StartFails(e) PROVE VoyageInv'
  BY <1>1, <1>8, StartFailsInv DEF VoyageInv
<1>7. QED
  BY <1>2, <1>3, <1>4, <1>5, <1>6, <1>8 DEF VoyageNext, PrepareStep
=============================================================================
