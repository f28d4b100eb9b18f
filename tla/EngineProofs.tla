---------------------------- MODULE EngineProofs ----------------------------
(***************************************************************************)
(* Proofs about a vulnerability scan beside the interaction store, about   *)
(* the promise of the subdomain engine, and about all engines together.    *)
(***************************************************************************)
EXTENDS MCEngines, LoopProofs, CheckProofs

-----------------------------------------------------------------------------
(* The interaction store under a vulnerability scan *)

\* The target called back for correlation d.
Called(d) == \E i \in Item : oaBorn[i].corr = d

\* What is captured or stored for a correlation was sent to that correlation.
BornFor ==
    /\ \A d \in Corr, i \in Item : <<d, i>> \in oaCapt => oaBorn[i].corr = d
    /\ \A d \in Corr : \A k \in 1..Len(oaStore[d]) : oaBorn[oaStore[d][k]].corr = d

\* The steps of the store that a scan and its target cause, and its own.
StoreMoves ==
    \/ \E d \in Corr : \/ Register(d) \/ Expire(d) \/ PollCheck(d) \/ PollDrain(d)
                       \/ DeregCheck(d) \/ DeregRemove(d) \/ DeregClear(d)
    \/ \E d \in Corr, i \in Item : CaptureCheck(d, i) \/ CaptureStore(d, i)
    \/ GcCollect \/ GcClear

\* Emptying queues of the store keeps it well formed.
LEMMA EmptiedStore ==
  ASSUME OastTypeOK, BornFor, UNCHANGED oaBorn, oaCapt' = oaCapt,
         oaStore' \in [Corr -> Seq(Item)],
         \A d \in Corr : oaStore'[d] = oaStore[d] \/ oaStore'[d] = <<>>
  PROVE  /\ \A d \in Corr : Len(oaStore'[d]) <= CapPerCorr
         /\ BornFor'
<1>1. Len(<<>>) = 0 /\ CapPerCorr \in Nat
  BY OastAssumption
<1>2. \A d \in Corr : Len(oaStore'[d]) <= CapPerCorr
  BY <1>1 DEF OastTypeOK
<1>3. \A d \in Corr : \A k \in 1..Len(oaStore'[d]) : oaStore'[d] = oaStore[d]
  BY <1>1
<1>4. BornFor'
  BY <1>3 DEF BornFor
<1>5. QED
  BY <1>2, <1>4

LEMMA PollKeeps ==
  ASSUME OastTypeOK, BornFor, NEW d \in Corr, PollDrain(d)
  PROVE  OastTypeOK' /\ BornFor' /\ UNCHANGED oaBorn
<1>1. /\ oaStore' = [oaStore EXCEPT ![d] = <<>>] /\ oaPoll' = oaPoll \ {d} /\ HandOut(d)
      /\ UNCHANGED <<oaReg, oaCapt, oaDereg, oaGc, oaEpoch, oaBorn, oaEvicted, oaSwept>>
  BY DEF PollDrain, oaHist
<1>2. <<>> \in Seq(Item)
  OBVIOUS
<1>3. /\ oaStore' \in [Corr -> Seq(Item)]
      /\ \A e \in Corr : oaStore'[e] = oaStore[e] \/ oaStore'[e] = <<>>
  BY <1>1, <1>2 DEF OastTypeOK
<1>4. oaGot' \in [Item -> Nat]
  <2>1. oaStore[d] \in Seq(Item) /\ DOMAIN oaStore[d] = 1..Len(oaStore[d]) /\ Len(oaStore[d]) \in Nat
    BY DEF OastTypeOK
  <2>2. IsFiniteSet(1..Len(oaStore[d]))
    BY <2>1, FS_Interval
  <2>3. ASSUME NEW i \in Item
        PROVE  Cardinality({k \in DOMAIN oaStore[d] : oaStore[d][k] = i}) \in Nat
    <3>1. {k \in DOMAIN oaStore[d] : oaStore[d][k] = i} \in SUBSET (1..Len(oaStore[d]))
      BY <2>1
    <3>2. QED
      BY <2>2, <3>1, FS_Subset, FS_CardinalityType
  <2>4. \A i \in Item : oaGot[i] \in Nat
    BY DEF OastTypeOK
  <2>5. QED
    BY <1>1, <2>3, <2>4 DEF HandOut
<1>5. (\A e \in Corr : Len(oaStore'[e]) <= CapPerCorr) /\ BornFor'
  BY <1>1, <1>3, EmptiedStore
<1>6. OastTypeOK'
  BY <1>1, <1>3, <1>4, <1>5 DEF OastTypeOK
<1>7. QED
  BY <1>1, <1>5, <1>6

LEMMA CaptureKeeps ==
  ASSUME OastTypeOK, BornFor, NEW d \in Corr, NEW i \in Item, CaptureCheck(d, i)
  PROVE  OastTypeOK' /\ BornFor' /\ \A e \in Corr : Called(e) => Called(e)'
<1>1. /\ oaBorn[i] = Unborn /\ oaCapt' = oaCapt \cup {<<d, i>>}
      /\ oaBorn' = [oaBorn EXCEPT ![i] = [corr |-> d, epoch |-> oaEpoch[d]]]
      /\ UNCHANGED <<oaReg, oaStore, oaPoll, oaDereg, oaGc, oaGot, oaEpoch, oaEvicted, oaSwept>>
  BY DEF CaptureCheck
<1>2. /\ oaBorn \in [Item -> [corr : Corr \cup {"none"}, epoch : Nat]] /\ oaEpoch[d] \in Nat
      /\ "none" \notin Corr
  BY OastAssumption DEF OastTypeOK
<1>3. oaBorn' \in [Item -> [corr : Corr \cup {"none"}, epoch : Nat]]
  BY <1>1, <1>2
<1>4. OastTypeOK'
  BY <1>1, <1>3 DEF OastTypeOK
<1>5. /\ oaBorn'[i].corr = d /\ oaBorn[i].corr = "none"
      /\ \A j \in Item : j # i => oaBorn'[j] = oaBorn[j]
  BY <1>1, <1>2 DEF Unborn
<1>6. \A j \in Item, e \in Corr : oaBorn[j].corr = e => oaBorn'[j].corr = e
  BY <1>2, <1>5
<1>7. \A e \in Corr : Called(e) => Called(e)'
  BY <1>6 DEF Called
<1>8. \A e \in Corr : \A k \in 1..Len(oaStore[e]) : oaStore[e][k] \in Item
  BY DEF OastTypeOK
<1>9. BornFor'
  <2>1. \A e \in Corr, j \in Item : <<e, j>> \in oaCapt' => oaBorn'[j].corr = e
    BY <1>1, <1>5, <1>6 DEF BornFor
  <2>2. \A e \in Corr : \A k \in 1..Len(oaStore'[e]) : oaBorn'[oaStore'[e][k]].corr = e
    BY <1>1, <1>6, <1>8 DEF BornFor
  <2>3. QED
    BY <2>1, <2>2 DEF BornFor
<1>10. QED
  BY <1>4, <1>7, <1>9

LEMMA StoreKeeps ==
  ASSUME OastTypeOK, BornFor, NEW d \in Corr, NEW i \in Item, CaptureStore(d, i)
  PROVE  OastTypeOK' /\ BornFor' /\ UNCHANGED oaBorn
<1>1. PICK all :
        /\ all = Append(oaStore[d], i)
        /\ <<d, i>> \in oaCapt /\ oaCapt' = oaCapt \ {<<d, i>>}
        /\ oaStore' = [oaStore EXCEPT ![d] = IF Len(all) > CapPerCorr THEN Tail(all) ELSE all]
        /\ oaEvicted' = IF Len(all) > CapPerCorr THEN oaEvicted \cup {Head(all)} ELSE oaEvicted
        /\ UNCHANGED <<oaReg, oaPoll, oaDereg, oaGc, oaGot, oaEpoch, oaBorn, oaSwept>>
  BY DEF CaptureStore
<1>2. /\ oaStore[d] \in Seq(Item) /\ Len(oaStore[d]) \in Nat /\ Len(oaStore[d]) <= CapPerCorr
      /\ CapPerCorr \in Nat \ {0}
  BY OastAssumption DEF OastTypeOK
<1>3. /\ all \in Seq(Item) /\ Len(all) = Len(oaStore[d]) + 1
      /\ all[Len(oaStore[d]) + 1] = i /\ \A k \in 1..Len(oaStore[d]) : all[k] = oaStore[d][k]
  BY <1>1, <1>2
<1>4. \A k \in 1..Len(all) : oaBorn[all[k]].corr = d
  <2>1. \A k \in 1..Len(all) : k \in 1..Len(oaStore[d]) \/ k = Len(oaStore[d]) + 1
    BY <1>2, <1>3
  <2>2. oaBorn[i].corr = d
    BY <1>1 DEF BornFor
  <2>3. QED
    BY <1>3, <2>1, <2>2 DEF BornFor
<1>5. /\ Tail(all) \in Seq(Item) /\ Len(Tail(all)) = Len(all) - 1
      /\ \A k \in 1..Len(Tail(all)) : k + 1 \in 1..Len(all) /\ Tail(all)[k] = all[k + 1]
      /\ Head(all) \in Item
  BY <1>2, <1>3
<1>6. PICK new : new = IF Len(all) > CapPerCorr THEN Tail(all) ELSE all
  OBVIOUS
<1>7. /\ new \in Seq(Item) /\ Len(new) <= CapPerCorr
      /\ \A k \in 1..Len(new) : oaBorn[new[k]].corr = d
  <2>1. CASE Len(all) > CapPerCorr
    BY <1>2, <1>3, <1>4, <1>5, <1>6, <2>1
  <2>2. CASE ~ (Len(all) > CapPerCorr)
    BY <1>1, <1>2, <1>3, <1>4, <1>6, <2>2
  <2>3. QED
    BY <2>1, <2>2
<1>8. /\ oaStore' \in [Corr -> Seq(Item)] /\ oaStore'[d] = new
      /\ \A e \in Corr : e # d => oaStore'[e] = oaStore[e]
  BY <1>1, <1>6, <1>7 DEF OastTypeOK
<1>9. oaEvicted' \subseteq Item
  BY <1>1, <1>5 DEF OastTypeOK
<1>10. OastTypeOK'
  BY <1>1, <1>7, <1>8, <1>9 DEF OastTypeOK
<1>11. BornFor'
  BY <1>1, <1>7, <1>8 DEF BornFor
<1>12. QED
  BY <1>1, <1>10, <1>11

LEMMA ClearKeeps ==
  ASSUME OastTypeOK, BornFor, GcClear \/ \E d \in Corr : DeregClear(d)
  PROVE  OastTypeOK' /\ BornFor' /\ UNCHANGED oaBorn
<1>1. <<>> \in Seq(Item)
  OBVIOUS
<1>2. CASE \E d \in Corr : DeregClear(d)
  <2>1. PICK d \in Corr : DeregClear(d)
    BY <1>2
  <2>2. /\ oaStore' = [oaStore EXCEPT ![d] = <<>>] /\ oaDereg' = [oaDereg EXCEPT ![d] = "none"]
        /\ UNCHANGED <<oaReg, oaCapt, oaPoll, oaGc, oaGot, oaEpoch, oaBorn, oaEvicted, oaSwept>>
    BY <2>1 DEF DeregClear, oaHist
  <2>3. /\ oaStore' \in [Corr -> Seq(Item)]
        /\ \A e \in Corr : oaStore'[e] = oaStore[e] \/ oaStore'[e] = <<>>
    BY <1>1, <2>2 DEF OastTypeOK
  <2>4. (\A e \in Corr : Len(oaStore'[e]) <= CapPerCorr) /\ BornFor'
    BY <2>2, <2>3, EmptiedStore
  <2>5. OastTypeOK'
    BY <2>2, <2>3, <2>4 DEF OastTypeOK
  <2>6. QED
    BY <2>2, <2>4, <2>5
<1>3. CASE GcClear
  <2>1. /\ oaStore' = [e \in Corr |-> IF e \in oaGc THEN <<>> ELSE oaStore[e]]
        /\ oaGc' = {}
        /\ oaSwept' = oaSwept \cup
             UNION {{oaStore[e][k] : k \in DOMAIN oaStore[e]} : e \in oaGc \cap Registered}
        /\ UNCHANGED <<oaReg, oaCapt, oaPoll, oaDereg, oaGot, oaEpoch, oaBorn, oaEvicted>>
    BY <1>3 DEF GcClear
  <2>2. /\ oaStore' \in [Corr -> Seq(Item)]
        /\ \A e \in Corr : oaStore'[e] = oaStore[e] \/ oaStore'[e] = <<>>
    BY <1>1, <2>1 DEF OastTypeOK
  <2>3. (\A e \in Corr : Len(oaStore'[e]) <= CapPerCorr) /\ BornFor'
    BY <2>1, <2>2, EmptiedStore
  <2>4. oaSwept' \subseteq Item
    <3>1. \A e \in Corr : {oaStore[e][k] : k \in DOMAIN oaStore[e]} \subseteq Item
      <4>1. \A e \in Corr : oaStore[e] \in Seq(Item)
        BY DEF OastTypeOK
      <4>2. \A e \in Corr : DOMAIN oaStore[e] = 1..Len(oaStore[e])
                            /\ \A k \in 1..Len(oaStore[e]) : oaStore[e][k] \in Item
        BY <4>1
      <4>3. QED
        BY <4>2
    <3>2. oaGc \subseteq Corr /\ oaSwept \subseteq Item
      BY DEF OastTypeOK
    <3>3. QED
      BY <2>1, <3>1, <3>2
  <2>5. OastTypeOK'
    BY <2>1, <2>2, <2>3, <2>4 DEF OastTypeOK
  <2>6. QED
    BY <2>1, <2>3, <2>5
<1>4. QED
  BY <1>2, <1>3

\* Every step of the store keeps it, and no call back is forgotten.
LEMMA StoreMovesKeep ==
  ASSUME OastTypeOK, BornFor, StoreMoves \/ UNCHANGED oaVars
  PROVE  OastTypeOK' /\ BornFor' /\ \A d \in Corr : Called(d) => Called(d)'
<1>1. ASSUME UNCHANGED oaBorn PROVE \A d \in Corr : Called(d) => Called(d)'
  BY <1>1 DEF Called
<1>2. CASE \E d \in Corr : \/ Register(d) \/ Expire(d) \/ PollCheck(d)
                           \/ DeregCheck(d) \/ DeregRemove(d)
  <2>1. PICK d \in Corr : \/ Register(d) \/ Expire(d) \/ PollCheck(d)
                          \/ DeregCheck(d) \/ DeregRemove(d)
    BY <1>2
  <2>2. UNCHANGED <<oaStore, oaCapt, oaGc, oaGot, oaBorn, oaEvicted, oaSwept>>
    BY <2>1 DEF Register, Expire, PollCheck, DeregCheck, DeregRemove, oaHist
  <2>3. oaReg' \in [Corr -> {"none", "live", "expired"}]
    BY <2>1 DEF Register, Expire, PollCheck, DeregCheck, DeregRemove, OastTypeOK
  <2>4. oaEpoch' \in [Corr -> Nat]
    BY <2>1 DEF Register, Expire, PollCheck, DeregCheck, DeregRemove, oaHist, OastTypeOK
  <2>5. oaPoll' \subseteq Corr
    BY <2>1 DEF Register, Expire, PollCheck, DeregCheck, DeregRemove, OastTypeOK
  <2>6. oaDereg' \in [Corr -> {"none", "checked", "removed"}]
    <3>1. \/ oaDereg' = oaDereg \/ oaDereg' = [oaDereg EXCEPT ![d] = "checked"]
          \/ oaDereg' = [oaDereg EXCEPT ![d] = "removed"]
      BY <2>1 DEF Register, Expire, PollCheck, DeregCheck, DeregRemove
    <3>2. QED
      BY <3>1 DEF OastTypeOK
  <2>7. OastTypeOK'
    BY <2>2, <2>3, <2>4, <2>5, <2>6 DEF OastTypeOK
  <2>8. BornFor'
    BY <2>2 DEF BornFor
  <2>9. QED
    BY <1>1, <2>2, <2>7, <2>8
<1>3. CASE GcCollect
  <2>1. /\ UNCHANGED <<oaStore, oaCapt, oaPoll, oaDereg, oaGot, oaEpoch, oaBorn, oaEvicted, oaSwept>>
        /\ oaGc' \subseteq Corr
        /\ oaReg' \in [Corr -> {"none", "live", "expired"}]
    BY <1>3 DEF GcCollect, oaHist, OastTypeOK
  <2>2. OastTypeOK'
    BY <2>1 DEF OastTypeOK
  <2>3. BornFor'
    BY <2>1 DEF BornFor
  <2>4. QED
    BY <1>1, <2>1, <2>2, <2>3
<1>4. CASE UNCHANGED oaVars
  <2>1. UNCHANGED <<oaReg, oaStore, oaCapt, oaPoll, oaDereg, oaGc, oaGot, oaEpoch, oaBorn,
                    oaEvicted, oaSwept>>
    BY <1>4 DEF oaVars, oaHist
  <2>2. OastTypeOK'
    BY <2>1 DEF OastTypeOK
  <2>3. BornFor'
    BY <2>1 DEF BornFor
  <2>4. QED
    BY <1>1, <2>1, <2>2, <2>3
<1>5. QED
  BY <1>1, <1>2, <1>3, <1>4, PollKeeps, CaptureKeeps, StoreKeeps, ClearKeeps DEF StoreMoves
-----------------------------------------------------------------------------
(* A vulnerability scan: findings are backed *)

CxEvents == [type : {"finding", "progress", "done", "error"}, finding : Finding,
             done : 0..Len(Tmpl)]
OutOfBand == {"register", "fire", "wait", "asked", "dereg"}

\* What a finding of template t must rest on.
Backed(t) == IF Tmpl[t].oob THEN Called(CxCorr[t]) ELSE cxSeen[t] = 2

\* An event reports nothing that is not backed.
Honest(e) == \A t \in TmplAt : e.type = "finding" /\ e.finding = <<"template", t>> => Backed(t)
HonestEvents == {e \in CxEvents : Honest(e)}

\* Where the engine is, and what it has seen of its template so far.
EngineAt ==
    /\ cxPc \in Fetching => cxAt \in TmplAt /\ ~ Tmpl[cxAt].oob
    /\ cxPc \in OutOfBand => cxAt \in TmplAt /\ Tmpl[cxAt].oob
    /\ cxPc \in OutOfBand \ {"dereg"} => cxPolls < Polls /\ ~ cxHit
    /\ cxPc = "confirm" => cxSeen[cxAt] >= 1
    /\ cxPc = "dereg" /\ cxHit => Called(CxCorr[cxAt])
    /\ cxDone < cxAt
    /\ ~ cxCleared => cxAttempt <= RlTries + BlockTries

\* The events on their way and the findings relayed are backed.
Relayed ==
    /\ \A t \in TmplAt : <<"template", t>> \in cxGot => Backed(t)
    /\ cxChan \in Seq(HonestEvents)

CortexInv == CortexTypeOK /\ BornFor /\ EngineAt /\ Relayed

LEMMA MemberOf ==
  ASSUME NEW S, NEW s \in Seq(S), NEW k \in 1..Len(s)
  PROVE  s[k] \in S
OBVIOUS

LEMMA TmplFacts ==
  ASSUME CortexTypeOK
  PROVE  /\ Len(Tmpl) \in Nat /\ TmplAt = 1..Len(Tmpl)
         /\ \A t \in TmplAt : /\ CxCorr[t] \in Corr
                              /\ Tmpl[t] \in [oob : BOOLEAN, fires : BOOLEAN, byId : BOOLEAN,
                                              bySev : BOOLEAN]
         /\ RlTries \in Nat /\ BlockTries \in Nat /\ Polls \in Nat \ {0}
<1>1. Tmpl \in Loads
  BY DEF CortexTypeOK
<1>2. /\ Tmpl \in Seq([oob : BOOLEAN, fires : BOOLEAN, byId : BOOLEAN, bySev : BOOLEAN])
      /\ DOMAIN Tmpl \subseteq DOMAIN CxCorr
      /\ \A t \in DOMAIN CxCorr : CxCorr[t] \in Corr
  BY <1>1, CortexAssumption
<1>3. Len(Tmpl) \in Nat /\ DOMAIN Tmpl = 1..Len(Tmpl)
  BY <1>2
<1>4. \A t \in 1..Len(Tmpl) : Tmpl[t] \in [oob : BOOLEAN, fires : BOOLEAN, byId : BOOLEAN,
                                           bySev : BOOLEAN]
  BY <1>2, MemberOf
<1>5. RlTries \in Nat /\ BlockTries \in Nat /\ Polls \in Nat \ {0}
  BY CortexAssumption
<1>6. QED
  BY <1>2, <1>3, <1>4, <1>5 DEF TmplAt

\* The total of the progress events.
LEMMA TotalInRange ==
  ASSUME CortexTypeOK
  PROVE  TotalTemplates \in 0..Len(Tmpl)
<1>1. Len(Tmpl) \in Nat /\ TmplAt = 1..Len(Tmpl)
  BY TmplFacts
<1>2. IsFiniteSet(1..Len(Tmpl)) /\ Cardinality(1..Len(Tmpl)) = Len(Tmpl)
  <2>1. PICK n \in Nat : n = Len(Tmpl)
    BY <1>1
  <2>2. IsFiniteSet(1..n) /\ Cardinality(1..n) = n
    BY FS_Interval
  <2>3. QED
    BY <2>1, <2>2
<1>3. {t \in TmplAt : Tmpl[t].byId} \in SUBSET (1..Len(Tmpl))
  BY <1>1
<1>4. QED
  BY <1>1, <1>2, <1>3, FS_Subset, FS_CardinalityType DEF TotalTemplates

LEMMA CortexInitInv == CortexInit => CortexInv
<1> SUFFICES ASSUME CortexInit PROVE CortexInv
  OBVIOUS
<1>1. \A d \in Corr : oaStore[d] = <<>> /\ oaStore[d] \in Seq(Item) /\ Len(oaStore[d]) = 0
  BY DEF CortexInit, OastInit
<1>2. OastTypeOK
  <2>1. Unborn \in [corr : Corr \cup {"none"}, epoch : Nat]
    BY DEF Unborn
  <2>2. oaStore \in [Corr -> Seq(Item)] /\ \A d \in Corr : Len(oaStore[d]) <= CapPerCorr
    BY <1>1, OastAssumption DEF CortexInit, OastInit
  <2>3. QED
    BY <2>1, <2>2 DEF CortexInit, OastInit, OastTypeOK
<1>3. BornFor
  BY <1>1 DEF CortexInit, OastInit, BornFor
<1>4. /\ Tmpl \in Loads /\ cxPc = "idle" /\ cxAttempt = 0 /\ cxAt = 1 /\ cxPolls = 0
      /\ cxDone = 0 /\ cxNode = "idle" /\ cxGot = {} /\ cxProg = [done |-> 0, total |-> 0]
      /\ cxFired = {} /\ cxSeen = [t \in TmplAt |-> 0] /\ cxChan = <<>>
  BY DEF CortexInit
<1>5. cxCleared \in BOOLEAN /\ cxHit \in BOOLEAN
  BY DEF CortexInit
<1>6. /\ Tmpl \in Seq([oob : BOOLEAN, fires : BOOLEAN, byId : BOOLEAN, bySev : BOOLEAN])
      /\ RlTries \in Nat /\ BlockTries \in Nat /\ Polls \in Nat \ {0}
  BY <1>4, CortexAssumption
<1>7. Len(Tmpl) \in Nat
  BY <1>6
<1>8. CortexTypeOK
  BY <1>2, <1>4, <1>5, <1>6, <1>7 DEF CortexTypeOK, Finding
<1>9. EngineAt
  BY <1>4, <1>6 DEF EngineAt, Fetching, OutOfBand
<1>10. <<>> \in Seq(HonestEvents)
  OBVIOUS
<1>11. Relayed
  BY <1>4, <1>10 DEF Relayed
<1>12. QED
  BY <1>3, <1>8, <1>9, <1>11 DEF CortexInv

\* What is backed stays so.
Firm ==
    /\ Tmpl' = Tmpl /\ cxSeen' \in [TmplAt -> 0..2]
    /\ \A t \in TmplAt : cxSeen'[t] >= cxSeen[t]
    /\ \A d \in Corr : Called(d) => Called(d)'

LEMMA StaysBacked ==
  ASSUME CortexTypeOK, Firm
  PROVE  /\ \A t \in TmplAt : Backed(t) => Backed(t)'
         /\ HonestEvents \subseteq HonestEvents'
         /\ TmplAt' = TmplAt /\ CxEvents' = CxEvents
<1>1. TmplAt' = TmplAt
  BY DEF TmplAt, Firm
<1>2. CxEvents' = CxEvents
  BY <1>1 DEF CxEvents, Finding, Firm
<1>3. ASSUME NEW t \in TmplAt, Backed(t) PROVE Backed(t)'
  <2>1. CxCorr[t] \in Corr
    BY TmplFacts
  <2>2. cxSeen[t] \in 0..2 /\ cxSeen'[t] \in 0..2 /\ cxSeen'[t] >= cxSeen[t]
    BY DEF CortexTypeOK, Firm
  <2>3. CASE Tmpl[t].oob
    BY <1>3, <2>1, <2>3 DEF Backed, Firm
  <2>4. CASE ~ Tmpl[t].oob
    BY <1>3, <2>2, <2>4 DEF Backed, Firm
  <2>5. QED
    BY <2>3, <2>4
<1>4. ASSUME NEW e \in HonestEvents PROVE e \in HonestEvents'
  BY <1>1, <1>2, <1>3, <1>4 DEF HonestEvents, Honest
<1>5. QED
  BY <1>1, <1>2, <1>3, <1>4

LEMMA SeqInLarger ==
  ASSUME NEW S, NEW T, S \subseteq T, NEW s \in Seq(S)
  PROVE  s \in Seq(T)
OBVIOUS

\* Honest events keep the channel honest.
LEMMA EmitKeeps ==
  ASSUME CortexInv, Firm, NEW events, events \in Seq(HonestEvents'), Emit(events)
  PROVE  cxChan' \in Seq(HonestEvents')
<1>1. cxChan \in Seq(HonestEvents')
  <2>1. cxChan \in Seq(HonestEvents) /\ HonestEvents \subseteq HonestEvents'
    BY StaysBacked DEF CortexInv, Relayed
  <2>2. QED
    BY <2>1, SeqInLarger
<1>2. QED
  BY <1>1 DEF Emit

\* The events of the engine are honest; a finding is if it is backed.
LEMMA EventFacts ==
  ASSUME CortexTypeOK, Firm
  PROVE  /\ \A n \in 0..Len(Tmpl) : Progress(n) \in HonestEvents'
         /\ Done \in HonestEvents' /\ Failure \in HonestEvents'
         /\ Found(<<"waf", 0>>) \in HonestEvents' /\ Found(<<"header", 0>>) \in HonestEvents'
         /\ \A t \in TmplAt : Backed(t)' => Found(<<"template", t>>) \in HonestEvents'
<1>1. Len(Tmpl) \in Nat /\ TmplAt' = TmplAt /\ CxEvents' = CxEvents
  BY TmplFacts, StaysBacked
<1>2. <<"waf", 0>> \in Finding /\ <<"header", 0>> \in Finding
  BY DEF Finding
<1>3. \A t \in TmplAt : <<"template", t>> \in Finding
  BY DEF Finding
<1>4. \A f \in Finding : Found(f) \in CxEvents
  BY <1>1 DEF Found, Event, CxEvents
<1>5. \A n \in 0..Len(Tmpl) : Progress(n) \in HonestEvents'
  BY <1>1, <1>2 DEF Progress, Event, CxEvents, Honest, HonestEvents
<1>6. Done \in HonestEvents' /\ Failure \in HonestEvents'
  <2>1. Done \in CxEvents /\ Failure \in CxEvents
    BY <1>1, <1>2 DEF Done, Failure, Event, CxEvents
  <2>2. Done.type # "finding" /\ Failure.type # "finding"
    BY DEF Done, Failure, Event
  <2>3. Honest(Done)' /\ Honest(Failure)'
    BY <2>2 DEF Honest, Done, Failure, Event
  <2>4. QED
    BY <1>1, <2>1, <2>3 DEF HonestEvents
<1>7. Found(<<"waf", 0>>) \in HonestEvents' /\ Found(<<"header", 0>>) \in HonestEvents'
  BY <1>1, <1>2, <1>4 DEF Found, Event, Honest, HonestEvents
<1>8. ASSUME NEW t \in TmplAt, Backed(t)' PROVE Found(<<"template", t>>) \in HonestEvents'
  <2>1. \A s \in TmplAt : <<"template", t>> = <<"template", s>> => s = t
    OBVIOUS
  <2>2. Honest(Found(<<"template", t>>))'
    BY <1>1, <1>8, <2>1 DEF Found, Event, Honest
  <2>3. QED
    BY <1>1, <1>3, <1>4, <2>2 DEF HonestEvents
<1>9. QED
  BY <1>5, <1>6, <1>7, <1>8
CxPlaces == Fetching \cup OutOfBand \cup {"idle", "base", "next", "ended", "dead"}

\* The parts of the invariant that the engine and the handler change.
EngineOK ==
    /\ cxPc \in CxPlaces
    /\ cxAttempt \in 0..(RlTries + BlockTries + 1) /\ cxCleared \in BOOLEAN
    /\ cxAt \in 1..(Len(Tmpl) + 1) /\ cxPolls \in 0..Polls /\ cxHit \in BOOLEAN
    /\ cxDone \in 0..Len(Tmpl) /\ cxFired \subseteq TmplAt
    /\ EngineAt /\ cxChan \in Seq(HonestEvents)

HandlerOK ==
    /\ cxNode \in {"idle", "reading", "failed", "halted", "completed"}
    /\ cxGot \subseteq Finding
    /\ cxProg \in [done : 0..Len(Tmpl), total : 0..Len(Tmpl)]
    /\ \A t \in TmplAt : <<"template", t>> \in cxGot => Backed(t)

LEMMA CortexParts ==
  CortexInv <=> /\ OastTypeOK /\ BornFor /\ Tmpl \in Loads /\ cxSeen \in [TmplAt -> 0..2]
                /\ EngineOK /\ HandlerOK
<1>1. CxPlaces = Fetching \cup {"idle", "base", "next", "register", "fire", "wait",
                                 "asked", "dereg", "ended", "dead"}
  BY DEF CxPlaces, OutOfBand
<1>2. QED
  BY <1>1 DEF CortexInv, CortexTypeOK, EngineOK, HandlerOK, Relayed

\* A template ends.
LEMMA FinishKeeps ==
  ASSUME CortexInv, Firm, NEW t \in TmplAt, t = cxAt, NEW found \in BOOLEAN,
         FinishTemplate(found), found => Backed(t)'
  PROVE  /\ cxChan' \in Seq(HonestEvents') /\ cxPc' = "next"
         /\ cxAt' \in 1..(Len(Tmpl) + 1) /\ cxDone' \in 0..Len(Tmpl) /\ cxDone' < cxAt'
<1>1. /\ CortexTypeOK /\ Len(Tmpl) \in Nat /\ cxAt \in 1..Len(Tmpl)
      /\ cxDone \in Nat /\ cxDone < cxAt
  <2>1. CortexTypeOK /\ cxDone < cxAt
    BY DEF CortexInv, EngineAt
  <2>2. Len(Tmpl) \in Nat /\ cxAt \in 1..Len(Tmpl)
    BY <2>1, TmplFacts
  <2>3. cxDone \in Nat
    BY <2>1, <2>2 DEF CortexTypeOK
  <2>4. QED
    BY <2>1, <2>2, <2>3
<1>2. /\ cxPc' = "next" /\ cxAt' = cxAt + 1 /\ cxDone' = cxDone + 1
      /\ Emit((IF found THEN <<Found(<<"template", cxAt>>)>> ELSE <<>>) \o <<Progress(cxDone + 1)>>)
  BY DEF FinishTemplate
<1>3. cxAt' \in 1..(Len(Tmpl) + 1) /\ cxDone + 1 \in 0..Len(Tmpl) /\ cxDone' < cxAt'
  BY <1>1, <1>2
<1>4. PICK H : H = HonestEvents'
  OBVIOUS
<1>5. Progress(cxDone + 1) \in H /\ (found => Found(<<"template", cxAt>>) \in H)
  BY <1>1, <1>3, <1>4, EventFacts
<1>6. PICK p, f : p = Progress(cxDone + 1) /\ f = Found(<<"template", cxAt>>)
  OBVIOUS
<1>7. (IF found THEN <<f>> ELSE <<>>) \o <<p>> \in Seq(H)
  <2>1. CASE found
    <3>1. <<f>> \in Seq(H) /\ <<p>> \in Seq(H)
      BY <1>5, <1>6, <2>1
    <3>2. QED
      BY <2>1, <3>1
  <2>2. CASE ~ found
    <3>1. <<>> \in Seq(H) /\ <<p>> \in Seq(H)
      BY <1>5, <1>6
    <3>2. QED
      BY <2>2, <3>1
  <2>3. QED
    BY <2>1, <2>2
<1>8. cxChan' \in Seq(HonestEvents')
  BY <1>2, <1>4, <1>6, <1>7, EmitKeeps
<1>9. QED
  BY <1>2, <1>3, <1>8

\* A step that keeps the channel keeps it honest.
LEMMA ChanKept ==
  ASSUME CortexInv, Firm, UNCHANGED cxChan
  PROVE  cxChan' \in Seq(HonestEvents')
<1>1. cxChan \in Seq(HonestEvents) /\ HonestEvents \subseteq HonestEvents'
  BY StaysBacked DEF CortexInv, Relayed
<1>2. QED
  BY <1>1, SeqInLarger

\* One event is sent.
LEMMA EmitOne ==
  ASSUME CortexInv, Firm, NEW e, e \in HonestEvents', Emit(<<e>>)
  PROVE  cxChan' \in Seq(HonestEvents')
<1>1. <<e>> \in Seq(HonestEvents')
  OBVIOUS
<1>2. QED
  BY <1>1, EmitKeeps

LEMMA BaseStep ==
  ASSUME CortexInv, Firm, FetchBase
  PROVE  EngineOK'
<1>1. /\ cxPc = "base" /\ UNCHANGED <<cxAt, cxPolls, cxHit, cxDone, cxFired, cxSeen, Tmpl>>
  BY DEF FetchBase, cxHandler
<1>2. /\ CortexTypeOK /\ Len(Tmpl) \in Nat /\ TmplAt' = TmplAt
      /\ RlTries \in Nat /\ BlockTries \in Nat /\ cxAttempt \in Nat
      /\ cxAttempt \in 0..(RlTries + BlockTries + 1)
      /\ cxCleared \in BOOLEAN /\ cxDone < cxAt
      /\ (~ cxCleared => cxAttempt <= RlTries + BlockTries)
  <2>1. CortexTypeOK /\ EngineAt
    BY DEF CortexInv
  <2>2. Len(Tmpl) \in Nat /\ RlTries \in Nat /\ BlockTries \in Nat
    BY <2>1, TmplFacts
  <2>3. TmplAt' = TmplAt
    BY <2>1, StaysBacked
  <2>4. cxAttempt \in 0..(RlTries + BlockTries + 1) /\ cxCleared \in BOOLEAN
    BY <2>1 DEF CortexTypeOK
  <2>5. cxDone < cxAt /\ (~ cxCleared => cxAttempt <= RlTries + BlockTries)
    BY <1>1, <2>1 DEF EngineAt
  <2>6. QED
    BY <2>1, <2>2, <2>3, <2>4, <2>5
<1>3. /\ Found(<<"waf", 0>>) \in HonestEvents' /\ Found(<<"header", 0>>) \in HonestEvents'
      /\ Done \in HonestEvents'
  BY <1>2, EventFacts
<1> DEFINE Goal ==
      /\ cxPc' \in {"base", "next", "ended"}
      /\ cxAttempt' \in 0..(RlTries + BlockTries + 1) /\ cxCleared' \in BOOLEAN
      /\ (~ cxCleared' => cxAttempt' <= RlTries + BlockTries)
      /\ cxChan' \in Seq(HonestEvents')
<1>4. ASSUME cxPc' = "ended", Emit(<<Done>>), UNCHANGED <<cxAttempt, cxCleared>> PROVE Goal
  <2>1. cxChan' \in Seq(HonestEvents')
    BY <1>3, <1>4, EmitOne
  <2>2. QED
    BY <1>2, <1>4, <2>1
<1>5. ASSUME Blocked PROVE Goal
  <2>1. <<Found(<<"waf", 0>>), Done>> \in Seq(HonestEvents')
    BY <1>3
  <2>2. cxChan' \in Seq(HonestEvents')
    BY <1>5, <2>1, EmitKeeps DEF Blocked
  <2>3. QED
    BY <1>2, <1>5, <2>2 DEF Blocked
<1>6. ASSUME cxPc' = "next", cxAttempt' = 0, cxCleared' = FALSE,
             Emit(<<>>) \/ Emit(<<Found(<<"header", 0>>)>>)
      PROVE  Goal
  <2>1. cxChan' \in Seq(HonestEvents')
    <3>1. <<>> \in Seq(HonestEvents')
      OBVIOUS
    <3>2. QED
      BY <1>3, <1>6, <3>1, EmitKeeps, EmitOne
  <2>2. cxCleared' \in BOOLEAN
    BY <1>6
  <2>3. 0 <= RlTries + BlockTries /\ 0 \in 0..(RlTries + BlockTries + 1)
    BY <1>2
  <2>4. QED
    BY <1>6, <2>1, <2>2, <2>3
<1>7. ASSUME NEW cleared \in BOOLEAN, Again(cleared), cxAttempt <= RlTries + BlockTries,
             cleared \/ cxAttempt + 1 <= RlTries + BlockTries
      PROVE  Goal
  <2>1. cxChan' \in Seq(HonestEvents')
    BY <1>7, ChanKept DEF Again
  <2>2. cxAttempt' = cxAttempt + 1 /\ cxCleared' = cleared /\ cxPc' = "base"
    BY <1>1, <1>7 DEF Again
  <2>3. cxCleared' \in BOOLEAN /\ (~ cxCleared' => cxAttempt + 1 <= RlTries + BlockTries)
    BY <1>7, <2>2
  <2>4. cxAttempt + 1 \in 0..(RlTries + BlockTries + 1)
    BY <1>2, <1>7
  <2>5. QED
    BY <2>1, <2>2, <2>3, <2>4
<1>8. Goal
  <2>1. PICK answer \in {"none", "clear", "rate", "block"} :
        \/ /\ answer = "none" /\ cxPc' = "ended" /\ Emit(<<Done>>)
           /\ UNCHANGED <<cxAttempt, cxCleared>>
        \/ /\ answer = "clear" /\ cxPc' = "next" /\ cxAttempt' = 0 /\ cxCleared' = FALSE
           /\ Emit(<<>>) \/ Emit(<<Found(<<"header", 0>>)>>)
        \/ /\ answer \in {"rate", "block"}
           /\ \E reaction \in React(answer, cxAttempt) :
              \/ reaction = "backoff" /\ Again(cxCleared)
              \/ reaction = "broker" /\ ~cxCleared /\ (Again(TRUE) \/ Blocked)
              \/ reaction = "broker" /\ cxCleared /\ Blocked
              \/ reaction = "abort" /\ Blocked
    BY DEF FetchBase
  <2>2. ASSUME "backoff" \in React(answer, cxAttempt)
        PROVE  cxAttempt + 1 <= RlTries + BlockTries /\ cxAttempt <= RlTries + BlockTries
    BY <1>2, <2>2 DEF React
  <2>3. ASSUME "backoff" \in React(answer, cxAttempt), Again(cxCleared) PROVE Goal
    BY <1>2, <1>7, <2>2, <2>3
  <2>4. ASSUME ~ cxCleared, Again(TRUE) PROVE Goal
    BY <1>2, <1>7, <2>4
  <2>5. QED
    BY <1>4, <1>5, <1>6, <2>1, <2>3, <2>4
<1>9. EngineAt'
  BY <1>1, <1>2, <1>8 DEF EngineAt, Fetching, OutOfBand
<1>10. QED
  BY <1>1, <1>2, <1>8, <1>9 DEF EngineOK, CxPlaces, CortexInv, CortexTypeOK
\* A step that ends a template.
LEMMA Finished ==
  ASSUME CortexInv, Firm, NEW t \in TmplAt, t = cxAt, NEW found \in BOOLEAN,
         FinishTemplate(found), found => Backed(t)', UNCHANGED <<cxAttempt, cxCleared>>,
         cxPolls' \in 0..Polls, cxHit' \in BOOLEAN, cxFired' \subseteq TmplAt
  PROVE  EngineOK'
<1>1. /\ cxChan' \in Seq(HonestEvents') /\ cxPc' = "next"
      /\ cxAt' \in 1..(Len(Tmpl) + 1) /\ cxDone' \in 0..Len(Tmpl) /\ cxDone' < cxAt'
  BY FinishKeeps
<1>2. /\ TmplAt' = TmplAt /\ Tmpl' = Tmpl
      /\ cxAttempt' \in 0..(RlTries + BlockTries + 1) /\ cxCleared' \in BOOLEAN
      /\ (~ cxCleared' => cxAttempt' <= RlTries + BlockTries)
  BY StaysBacked DEF CortexInv, CortexTypeOK, EngineAt, Firm
<1>3. EngineAt'
  BY <1>1, <1>2 DEF EngineAt, Fetching, OutOfBand
<1>4. QED
  BY <1>1, <1>2, <1>3 DEF EngineOK, CxPlaces

\* A step that stays with its template and sends nothing.
LEMMA MovedOn ==
  ASSUME CortexInv, Firm, Stays, UNCHANGED <<cxAttempt, cxCleared>>,
         cxPc' \in CxPlaces, cxPolls' \in 0..Polls, cxHit' \in BOOLEAN, cxFired' \subseteq TmplAt,
         cxPc' \in Fetching => cxAt \in TmplAt /\ ~ Tmpl[cxAt].oob,
         cxPc' \in OutOfBand => cxAt \in TmplAt /\ Tmpl[cxAt].oob,
         cxPc' \in OutOfBand \ {"dereg"} => cxPolls' < Polls /\ ~ cxHit',
         cxPc' = "confirm" => cxSeen'[cxAt] >= 1,
         cxPc' = "dereg" /\ cxHit' => Called(CxCorr[cxAt])'
  PROVE  EngineOK'
<1>1. cxChan' \in Seq(HonestEvents') /\ UNCHANGED <<cxAt, cxDone>>
  BY ChanKept DEF Stays
<1>2. /\ TmplAt' = TmplAt /\ Tmpl' = Tmpl
      /\ cxAttempt' \in 0..(RlTries + BlockTries + 1) /\ cxCleared' \in BOOLEAN
      /\ (~ cxCleared' => cxAttempt' <= RlTries + BlockTries)
      /\ cxAt' \in 1..(Len(Tmpl) + 1) /\ cxDone' \in 0..Len(Tmpl) /\ cxDone' < cxAt'
  BY <1>1, StaysBacked DEF CortexInv, CortexTypeOK, EngineAt, Firm
<1>3. EngineAt'
  BY <1>1, <1>2 DEF EngineAt
<1>4. QED
  BY <1>1, <1>2, <1>3 DEF EngineOK

\* Facts about a template that is being worked on.
LEMMA AtTemplate ==
  ASSUME CortexInv, cxAt \in TmplAt
  PROVE  /\ CortexTypeOK /\ CxCorr[cxAt] \in Corr
         /\ cxPolls \in 0..Polls /\ cxHit \in BOOLEAN /\ cxFired \subseteq TmplAt
         /\ cxSeen[cxAt] \in 0..2 /\ Polls \in Nat \ {0}
         /\ Tmpl[cxAt] \in [oob : BOOLEAN, fires : BOOLEAN, byId : BOOLEAN, bySev : BOOLEAN]
BY TmplFacts DEF CortexInv, CortexTypeOK

LEMMA NextStep ==
  ASSUME CortexInv, Firm, NextTemplate
  PROVE  EngineOK'
<1>1. /\ cxPc = "next" /\ cxPolls' = 0
      /\ UNCHANGED <<cxAttempt, cxCleared, cxFired, Tmpl>>
  BY DEF NextTemplate
<1>2. cxHit' \in BOOLEAN /\ ~ cxHit'
  BY DEF NextTemplate
<1>3. /\ CortexTypeOK /\ Polls \in Nat \ {0} /\ Len(Tmpl) \in Nat /\ TmplAt = 1..Len(Tmpl)
      /\ cxPolls' \in 0..Polls /\ cxPolls' < Polls /\ cxFired' \subseteq TmplAt /\ TmplAt' = TmplAt
  <2>1. CortexTypeOK
    BY DEF CortexInv
  <2>2. Polls \in Nat \ {0} /\ Len(Tmpl) \in Nat /\ TmplAt = 1..Len(Tmpl)
    BY <2>1, TmplFacts
  <2>3. TmplAt' = TmplAt
    BY <2>1, StaysBacked
  <2>4. cxFired' \subseteq TmplAt
    BY <1>1, <2>1 DEF CortexTypeOK
  <2>5. QED
    BY <1>1, <2>1, <2>2, <2>3, <2>4
<1>4. CASE cxAt > Len(Tmpl) /\ cxPc' = "ended" /\ Emit(<<Done>>) /\ UNCHANGED <<cxAt, cxDone>>
  <2>1. cxChan' \in Seq(HonestEvents')
    BY <1>3, <1>4, EventFacts, EmitOne
  <2>2. EngineAt'
    BY <1>1, <1>3, <1>4 DEF CortexInv, EngineAt, Fetching, OutOfBand
  <2>3. QED
    BY <1>1, <1>2, <1>3, <1>4, <2>1, <2>2 DEF EngineOK, CxPlaces, CortexInv, CortexTypeOK
<1>5. CASE /\ cxAt \in TmplAt /\ ~Tmpl[cxAt].byId
           /\ cxAt' = cxAt + 1 /\ UNCHANGED <<cxPc, cxDone, cxChan>>
  <2>1. cxChan' \in Seq(HonestEvents')
    BY <1>5, ChanKept
  <2>2. cxAt' \in 1..(Len(Tmpl) + 1) /\ cxDone \in Nat /\ cxDone < cxAt'
    BY <1>3, <1>5 DEF CortexInv, CortexTypeOK, EngineAt
  <2>3. EngineAt'
    BY <1>1, <1>3, <1>5, <2>2 DEF CortexInv, EngineAt, Fetching, OutOfBand
  <2>4. QED
    BY <1>1, <1>2, <1>3, <1>5, <2>1, <2>2, <2>3
       DEF EngineOK, CxPlaces, CortexInv, CortexTypeOK
<1>6. CASE cxAt \in TmplAt /\ FinishTemplate(FALSE)
  BY <1>1, <1>2, <1>3, <1>6, Finished
<1>7. CASE /\ cxAt \in TmplAt /\ cxPc' = IF Tmpl[cxAt].oob THEN "register" ELSE "detect"
           /\ UNCHANGED <<cxAt, cxDone, cxChan>>
  BY <1>1, <1>2, <1>3, <1>7, MovedOn DEF Stays, CxPlaces, Fetching, OutOfBand
<1>8. QED
  BY <1>4, <1>5, <1>6, <1>7 DEF NextTemplate

\* The template asks the target itself.
LEMMA FetchStep ==
  ASSUME CortexInv, Firm, Detect \/ Evade \/ Confirm
  PROVE  EngineOK'
<1>1. cxPc \in Fetching /\ UNCHANGED <<cxAttempt, cxCleared, cxPolls, cxHit, cxFired>>
  BY DEF Detect, Evade, Confirm, Fetching
<1>2. PICK t \in TmplAt : t = cxAt
  BY <1>1 DEF CortexInv, EngineAt
<1>3. /\ cxPolls' \in 0..Polls /\ cxHit' \in BOOLEAN /\ cxFired' \subseteq TmplAt
      /\ cxSeen[t] \in 0..2 /\ ~ Tmpl[t].oob /\ CortexTypeOK
      /\ cxSeen \in [TmplAt -> 0..2]
  BY <1>1, <1>2, AtTemplate DEF CortexInv, CortexTypeOK, EngineAt
<1>4. ASSUME FinishTemplate(FALSE) PROVE EngineOK'
  BY <1>1, <1>2, <1>3, <1>4, Finished
<1>5. ASSUME Match(TRUE)
      PROVE  cxSeen'[t] = IF cxSeen[t] < 2 THEN cxSeen[t] + 1 ELSE cxSeen[t]
  BY <1>2, <1>3, <1>5 DEF Match
<1>6. ASSUME cxPc' = "confirm", Match(TRUE), Stays PROVE EngineOK'
  <2>1. cxSeen'[t] >= 1
    BY <1>3, <1>5, <1>6
  <2>2. QED
    BY <1>1, <1>2, <1>3, <1>6, <2>1, MovedOn DEF CxPlaces, Fetching, OutOfBand
<1>7. ASSUME cxPc' = "evade", Stays PROVE EngineOK'
  BY <1>1, <1>2, <1>3, <1>7, MovedOn DEF CxPlaces, Fetching, OutOfBand
<1>8. ASSUME cxPc = "confirm", FinishTemplate(TRUE), Match(TRUE) PROVE EngineOK'
  <2>1. cxSeen[t] >= 1
    BY <1>2, <1>8 DEF CortexInv, EngineAt
  <2>2. cxSeen'[t] = 2
    BY <1>3, <1>5, <1>8, <2>1
  <2>3. Backed(t)'
    BY <1>3, <2>2 DEF Backed, Firm
  <2>4. QED
    BY <1>1, <1>2, <1>3, <1>8, <2>3, Finished
<1>9. CASE Detect
  BY <1>4, <1>6, <1>7, <1>9 DEF Detect
<1>10. CASE Evade
  BY <1>4, <1>6, <1>10 DEF Evade
<1>11. CASE Confirm
  <2>1. PICK yes \in BOOLEAN : FinishTemplate(yes) /\ Match(yes)
    BY <1>11 DEF Confirm
  <2>2. cxPc = "confirm"
    BY <1>11 DEF Confirm
  <2>3. CASE yes = TRUE
    BY <1>8, <2>1, <2>2, <2>3
  <2>4. CASE yes = FALSE
    BY <1>4, <2>1, <2>4
  <2>5. QED
    BY <2>1, <2>3, <2>4
<1>12. QED
  BY <1>9, <1>10, <1>11
\* The template waits for a call back.
LEMMA OobStep ==
  ASSUME CortexInv, Firm, RegisterOob \/ FireOob \/ PollAsk \/ PollTimeout \/ DeregisterOob
  PROVE  EngineOK'
<1>1. cxPc \in OutOfBand /\ UNCHANGED <<cxAttempt, cxCleared>>
  BY DEF RegisterOob, FireOob, PollAsk, PollTimeout, DeregisterOob, Quiet, OutOfBand
<1>2. PICK t \in TmplAt : t = cxAt
  BY <1>1 DEF CortexInv, EngineAt
<1>3. /\ cxPolls \in 0..Polls /\ cxHit \in BOOLEAN /\ cxFired \subseteq TmplAt
      /\ Tmpl[t].oob /\ CortexTypeOK /\ CxCorr[t] \in Corr /\ Polls \in Nat \ {0}
      /\ (cxPc # "dereg" => cxPolls < Polls /\ ~ cxHit)
  BY <1>1, <1>2, AtTemplate DEF CortexInv, EngineAt, OutOfBand
<1>4. ASSUME FinishTemplate(FALSE), UNCHANGED <<cxPolls, cxHit, cxFired>> PROVE EngineOK'
  BY <1>1, <1>2, <1>3, <1>4, Finished
<1>5. ASSUME PollOver(FALSE), Stays, UNCHANGED cxFired, cxPc # "dereg" PROVE EngineOK'
  <2>1. cxPolls' = cxPolls + 1 /\ cxPc' = IF cxPolls + 1 = Polls THEN "dereg" ELSE "wait"
    BY <1>5 DEF PollOver
  <2>2. cxHit' \in BOOLEAN /\ ~ cxHit'
    BY <1>5 DEF PollOver
  <2>3. cxPolls' \in 0..Polls /\ (cxPc' # "dereg" => cxPolls' < Polls)
    BY <1>3, <1>5, <2>1
  <2>4. QED
    BY <1>1, <1>2, <1>3, <1>5, <2>1, <2>2, <2>3, MovedOn DEF CxPlaces, Fetching, OutOfBand
<1>6. CASE RegisterOob
  <2>1. ASSUME cxPc' = "fire", Stays PROVE EngineOK'
    BY <1>1, <1>2, <1>3, <1>6, <2>1, MovedOn DEF RegisterOob, CxPlaces, Fetching, OutOfBand
  <2>2. QED
    BY <1>4, <1>6, <2>1 DEF RegisterOob
<1>7. CASE FireOob
  <2>1. /\ Stays /\ UNCHANGED <<cxPolls, cxHit>> /\ cxPc = "fire"
        /\ \/ cxPc' = "wait" /\ cxFired' = cxFired \cup {cxAt}
           \/ cxPc' = "dereg" /\ cxFired' = cxFired
    BY <1>7 DEF FireOob
  <2>2. cxFired' \subseteq TmplAt
    BY <1>2, <1>3, <2>1
  <2>3. ~ cxHit
    BY <1>3, <2>1
  <2>4. QED
    BY <1>1, <1>2, <1>3, <2>1, <2>2, <2>3, MovedOn DEF CxPlaces, Fetching, OutOfBand
<1>8. CASE PollAsk
  <2>1. cxPc = "wait" /\ Stays /\ UNCHANGED cxFired
    BY <1>8 DEF PollAsk
  <2>2. ASSUME cxPc' = "asked", UNCHANGED <<cxPolls, cxHit>> PROVE EngineOK'
    BY <1>1, <1>2, <1>3, <2>1, <2>2, MovedOn DEF CxPlaces, Fetching, OutOfBand
  <2>3. QED
    BY <1>5, <1>8, <2>1, <2>2 DEF PollAsk
<1>9. CASE PollTimeout
  BY <1>5, <1>9 DEF PollTimeout
<1>10. CASE DeregisterOob
  <2>1. cxPc = "dereg" /\ FinishTemplate(cxHit) /\ UNCHANGED <<cxPolls, cxHit, cxFired>>
    BY <1>10 DEF DeregisterOob
  <2>2. cxHit => Backed(t)'
    BY <1>2, <1>3, <2>1 DEF CortexInv, EngineAt, Backed, Firm
  <2>3. QED
    BY <1>1, <1>2, <1>3, <2>1, <2>2, Finished
<1>11. QED
  BY <1>6, <1>7, <1>8, <1>9, <1>10

\* An answer with interactions is a call back for this template.
LEMMA AnswerStep ==
  ASSUME CortexInv, Firm, PollAnswer
  PROVE  EngineOK'
<1>1. /\ cxPc = "asked" /\ UNCHANGED <<cxAttempt, cxCleared, cxFired>> /\ Stays
      /\ PollOver(oaStore[CxCorr[cxAt]] # <<>>)
  BY DEF PollAnswer, Quiet
<1>2. PICK t \in TmplAt : t = cxAt
  BY <1>1 DEF CortexInv, EngineAt, OutOfBand
<1>3. /\ cxPolls \in 0..Polls /\ cxFired \subseteq TmplAt
      /\ Tmpl[t].oob /\ CxCorr[t] \in Corr /\ Polls \in Nat \ {0} /\ cxPolls < Polls
  BY <1>1, <1>2, AtTemplate DEF CortexInv, EngineAt, OutOfBand
<1>4. PICK d \in Corr : d = CxCorr[t]
  BY <1>3
<1>5. /\ cxPolls' = cxPolls + 1 /\ cxHit' = (oaStore[d] # <<>>)
      /\ cxPc' = IF oaStore[d] # <<>> \/ cxPolls + 1 = Polls THEN "dereg" ELSE "wait"
  BY <1>1, <1>2, <1>4 DEF PollOver
<1>6. cxHit' \in BOOLEAN /\ (cxHit' => oaStore[d] # <<>>)
  BY <1>5
<1>7. cxPolls' \in 0..Polls /\ (cxPc' # "dereg" => cxPolls' < Polls /\ ~ cxHit')
  <2>1. cxPolls' \in 0..Polls
    BY <1>3, <1>5
  <2>2. CASE oaStore[d] # <<>>
    BY <1>5, <2>1, <2>2
  <2>3. CASE oaStore[d] = <<>>
    BY <1>3, <1>5, <1>6, <2>1, <2>3
  <2>4. QED
    BY <2>2, <2>3
<1>8. ASSUME oaStore[d] # <<>> PROVE Called(d)'
  <2>1. oaStore[d] \in Seq(Item)
    BY DEF CortexInv, CortexTypeOK, OastTypeOK
  <2>2. oaStore[d][1] \in Item /\ 1 \in 1..Len(oaStore[d])
    BY <1>8, <2>1
  <2>3. Called(d)
    BY <2>2 DEF CortexInv, BornFor, Called
  <2>4. QED
    BY <2>3 DEF Firm
<1>9. cxPc' \in {"dereg", "wait"}
  BY <1>5
<1>10. cxHit' => Called(CxCorr[cxAt])'
  <2>1. CxCorr[cxAt'] = d
    BY <1>1, <1>2, <1>4 DEF Stays
  <2>2. QED
    BY <1>6, <1>8, <2>1
<1>11. QED
  BY <1>1, <1>2, <1>3, <1>6, <1>7, <1>9, <1>10, MovedOn
     DEF CxPlaces, Fetching, OutOfBand

\* The handler relays what it reads; the daemon may die.
LEMMA HandlerKeeps ==
  ASSUME CortexInv, Firm, HandlerStep \/ DaemonDies \/ UNCHANGED cxVars
  PROVE  EngineOK' /\ HandlerOK'
<1>1. UNCHANGED <<cxAttempt, cxCleared, cxAt, cxPolls, cxHit, cxDone, cxFired, Tmpl>>
  BY DEF HandlerStep, AskCortex, ReadEvent, StreamEnds, DaemonDies, cxVars, cxEngine
<1>2. /\ CortexTypeOK /\ EngineOK /\ HandlerOK /\ TmplAt' = TmplAt /\ Finding' = Finding
      /\ Len(Tmpl') = Len(Tmpl)
      /\ \A t \in TmplAt : Backed(t) => Backed(t)'
      /\ HonestEvents \subseteq HonestEvents'
  BY <1>1, StaysBacked, CortexParts DEF CortexInv, Finding
<1>3. ASSUME cxPc' \in {"idle", "base", "ended", "dead"} \/ cxPc' = cxPc,
             cxChan' \in Seq(HonestEvents')
      PROVE  EngineOK'
  <2>1. cxPc' \in CxPlaces
    BY <1>2, <1>3 DEF EngineOK, CxPlaces
  <2>2. EngineAt'
    <3>1. CASE cxPc' = cxPc
      <4>1. cxPc = "confirm" => cxSeen'[cxAt] >= 1
        <5>1. cxPc = "confirm" => cxAt \in TmplAt /\ cxSeen[cxAt] >= 1
          BY <1>2 DEF EngineOK, EngineAt, Fetching
        <5>2. cxAt \in TmplAt => /\ cxSeen[cxAt] \in 0..2 /\ cxSeen'[cxAt] \in 0..2
                                 /\ cxSeen'[cxAt] >= cxSeen[cxAt]
          BY <1>2 DEF CortexTypeOK, Firm
        <5>3. QED
          BY <5>1, <5>2
      <4>2. cxPc = "dereg" /\ cxHit => Called(CxCorr[cxAt])'
        <5>1. cxPc = "dereg" => cxAt \in TmplAt
          BY <1>2 DEF EngineOK, EngineAt, OutOfBand
        <5>2. cxAt \in TmplAt => CxCorr[cxAt] \in Corr
          BY <1>2, TmplFacts
        <5>3. cxPc = "dereg" /\ cxHit => Called(CxCorr[cxAt])
          BY <1>2 DEF EngineOK, EngineAt
        <5>4. PICK d : d = CxCorr[cxAt]
          OBVIOUS
        <5>5. CxCorr[cxAt'] = d
          BY <1>1, <5>4
        <5>6. QED
          BY <5>1, <5>2, <5>3, <5>4, <5>5 DEF Firm
      <4>3. QED
        BY <1>1, <1>2, <3>1, <4>1, <4>2 DEF EngineOK, EngineAt
    <3>2. CASE cxPc' \in {"idle", "base", "ended", "dead"}
      BY <1>1, <1>2, <3>2 DEF EngineOK, EngineAt, Fetching, OutOfBand
    <3>3. QED
      BY <1>3, <3>1, <3>2
  <2>3. QED
    BY <1>1, <1>2, <1>3, <2>1, <2>2 DEF EngineOK
<1>4. ASSUME cxNode' \in {"idle", "reading", "failed", "halted", "completed"},
             UNCHANGED <<cxGot, cxProg>>
      PROVE  HandlerOK'
  BY <1>1, <1>2, <1>4 DEF HandlerOK
<1>5. <<>> \in Seq(HonestEvents') /\ (UNCHANGED cxChan => cxChan' \in Seq(HonestEvents'))
  BY ChanKept
<1>6. CASE AskCortex
  <2>1. <<Failure>> \in Seq(HonestEvents')
    BY <1>2, EventFacts
  <2>2. cxChan' \in Seq(HonestEvents')
    BY <1>5, <1>6, <2>1 DEF AskCortex
  <2>3. cxPc' \in {"idle", "base", "ended", "dead"} \/ cxPc' = cxPc
    BY <1>6 DEF AskCortex
  <2>4. /\ cxNode' \in {"idle", "reading", "failed", "halted", "completed"}
        /\ UNCHANGED <<cxGot, cxProg>>
    BY <1>6 DEF AskCortex
  <2>5. QED
    BY <1>3, <1>4, <2>2, <2>3, <2>4
<1>7. CASE StreamEnds \/ DaemonDies \/ UNCHANGED cxVars
  <2>1. /\ cxPc' \in {"idle", "base", "ended", "dead"} \/ cxPc' = cxPc
        /\ UNCHANGED <<cxChan, cxGot, cxProg>>
        /\ cxNode' \in {"idle", "reading", "failed", "halted", "completed"}
    BY <1>2, <1>7 DEF StreamEnds, DaemonDies, cxVars, cxEngine, cxHandler, HandlerOK
  <2>2. QED
    BY <1>3, <1>4, <1>5, <2>1
<1>8. CASE ReadEvent
  <2>1. /\ cxNode = "reading" /\ cxChan # <<>> /\ UNCHANGED cxPc
        /\ \/ cxNode' \in {"halted", "completed"} /\ cxChan' = <<>> /\ UNCHANGED <<cxGot, cxProg>>
           \/ /\ Head(cxChan).type = "finding"
              /\ cxGot' = cxGot \cup {Head(cxChan).finding} /\ cxChan' = Tail(cxChan)
              /\ UNCHANGED <<cxNode, cxProg>>
           \/ /\ Head(cxChan).type = "progress"
              /\ cxProg' = [done |-> Head(cxChan).done, total |-> TotalTemplates]
              /\ cxChan' = Tail(cxChan) /\ UNCHANGED <<cxNode, cxGot>>
    BY <1>8 DEF ReadEvent, cxEngine
  <2>2. cxChan \in Seq(HonestEvents)
    BY <1>2 DEF EngineOK
  <2>3. Head(cxChan) \in HonestEvents /\ Tail(cxChan) \in Seq(HonestEvents)
    BY <2>1, <2>2
  <2>4. cxChan' \in Seq(HonestEvents')
    BY <1>2, <1>5, <2>1, <2>3, SeqInLarger
  <2>5. EngineOK'
    BY <1>3, <2>1, <2>4
  <2>6. PICK e \in HonestEvents : e = Head(cxChan)
    BY <2>3
  <2>7. e \in CxEvents /\ Honest(e)
    BY <2>6 DEF HonestEvents
  <2>8. e.finding \in Finding /\ e.done \in 0..Len(Tmpl)
    BY <2>7 DEF CxEvents
  <2>9. CASE cxNode' \in {"halted", "completed"} /\ UNCHANGED <<cxGot, cxProg>>
    BY <1>4, <2>5, <2>9
  <2>10. CASE e.type = "finding" /\ cxGot' = cxGot \cup {e.finding} /\ UNCHANGED <<cxNode, cxProg>>
    <3>1. cxGot' \subseteq Finding
      BY <1>2, <2>8, <2>10 DEF HandlerOK
    <3>2. ASSUME NEW t \in TmplAt, <<"template", t>> \in cxGot' PROVE Backed(t)'
      <4>1. Backed(t)
        BY <1>2, <2>7, <2>10, <3>2 DEF HandlerOK, Honest
      <4>2. QED
        BY <1>2, <4>1
    <3>3. QED
      BY <1>1, <1>2, <2>5, <2>10, <3>1, <3>2 DEF HandlerOK
  <2>11. CASE /\ cxProg' = [done |-> e.done, total |-> TotalTemplates]
              /\ UNCHANGED <<cxNode, cxGot>>
    <3>1. cxProg' \in [done : 0..Len(Tmpl), total : 0..Len(Tmpl)]
      BY <1>2, <2>8, <2>11, TotalInRange
    <3>2. QED
      BY <1>1, <1>2, <2>5, <2>11, <3>1 DEF HandlerOK
  <2>12. QED
    BY <2>1, <2>6, <2>9, <2>10, <2>11
<1>9. QED
  BY <1>6, <1>7, <1>8 DEF HandlerStep
\* The history of answers only grows.
LEMMA SeenGrows ==
  ASSUME CortexInv, CortexNext \/ UNCHANGED cortexVars
  PROVE  /\ Tmpl' = Tmpl /\ cxSeen' \in [TmplAt -> 0..2]
         /\ \A t \in TmplAt : cxSeen'[t] >= cxSeen[t]
<1>1. /\ Tmpl' = Tmpl
      /\ UNCHANGED cxSeen \/ (cxPc \in Fetching /\ \E yes \in BOOLEAN : Match(yes))
  <2>1. CASE StoreStep \/ (\E d \in Corr : PollLate(d)) \/ (\E i \in Item : CallBack(i))
             \/ UNCHANGED cortexVars
    BY <2>1 DEF StoreStep, PollLate, CallBack, cxVars, cortexVars
  <2>2. CASE HandlerStep \/ DaemonDies
    BY <2>2 DEF HandlerStep, AskCortex, ReadEvent, StreamEnds, DaemonDies
  <2>3. CASE FetchBase \/ NextTemplate \/ RegisterOob \/ FireOob \/ PollAsk \/ PollAnswer
             \/ PollTimeout \/ DeregisterOob
    BY <2>3 DEF FetchBase, NextTemplate, RegisterOob, FireOob, PollAsk, PollAnswer,
                PollTimeout, DeregisterOob, Quiet
  <2>4. CASE Detect \/ Evade \/ Confirm
    BY <2>4 DEF Detect, Evade, Confirm, Fetching
  <2>5. QED
    BY <2>1, <2>2, <2>3, <2>4 DEF CortexNext, EngineStep
<1>2. cxSeen \in [TmplAt -> 0..2] /\ (cxPc \in Fetching => cxAt \in TmplAt)
  BY DEF CortexInv, CortexTypeOK, EngineAt
<1>3. CASE UNCHANGED cxSeen
  BY <1>1, <1>2, <1>3
<1>4. CASE cxPc \in Fetching /\ \E yes \in BOOLEAN : Match(yes)
  <2>1. \/ UNCHANGED cxSeen
        \/ cxSeen' = [cxSeen EXCEPT ![cxAt] = IF @ < 2 THEN @ + 1 ELSE @]
    BY <1>4 DEF Match
  <2>2. PICK t \in TmplAt : t = cxAt
    BY <1>2, <1>4
  <2>3. cxSeen[t] \in 0..2
    BY <1>2
  <2>4. CASE cxSeen' = [cxSeen EXCEPT ![t] = IF cxSeen[t] < 2 THEN cxSeen[t] + 1 ELSE cxSeen[t]]
    <3>1. (IF cxSeen[t] < 2 THEN cxSeen[t] + 1 ELSE cxSeen[t]) \in 0..2
      BY <2>3
    <3>2. QED
      BY <1>1, <1>2, <2>3, <2>4, <3>1
  <2>5. QED
    BY <1>3, <2>1, <2>2, <2>4
<1>5. QED
  BY <1>1, <1>3, <1>4

\* A scan moves the store as the store may be moved.
LEMMA ScanMovesStore ==
  ASSUME CortexInv, CortexNext \/ UNCHANGED cortexVars
  PROVE  StoreMoves \/ UNCHANGED oaVars
<1>1. ASSUME cxPc \in OutOfBand PROVE CxCorr[cxAt] \in Corr
  BY <1>1, TmplFacts DEF CortexInv, EngineAt
<1>2. CASE StoreStep \/ (\E d \in Corr : PollLate(d)) \/ UNCHANGED cortexVars
  BY <1>2 DEF StoreStep, PollLate, StoreMoves, cortexVars
<1>3. CASE \E i \in Item : CallBack(i)
  <2>1. PICK i \in Item : CallBack(i)
    BY <1>3
  <2>2. PICK t \in cxFired : CaptureCheck(CxCorr[t], i)
    BY <2>1 DEF CallBack
  <2>3. CxCorr[t] \in Corr
    BY <2>2, TmplFacts DEF CortexInv, CortexTypeOK
  <2>4. QED
    BY <2>2, <2>3 DEF StoreMoves
<1>4. CASE HandlerStep \/ DaemonDies \/ FetchBase \/ NextTemplate \/ Detect \/ Evade \/ Confirm
           \/ FireOob \/ PollTimeout
  BY <1>4 DEF HandlerStep, AskCortex, ReadEvent, StreamEnds, DaemonDies, FetchBase,
     NextTemplate, Detect, Evade, Confirm, FireOob, PollTimeout
<1>5. CASE RegisterOob \/ PollAsk \/ PollAnswer \/ DeregisterOob
  <2>1. cxPc \in OutOfBand
    BY <1>5 DEF RegisterOob, PollAsk, PollAnswer, DeregisterOob, OutOfBand
  <2>2. \/ Register(CxCorr[cxAt]) \/ PollCheck(CxCorr[cxAt]) \/ PollDrain(CxCorr[cxAt])
        \/ DeregCheck(CxCorr[cxAt]) \/ UNCHANGED oaVars
    BY <1>5 DEF RegisterOob, PollAsk, PollAnswer, DeregisterOob
  <2>3. QED
    BY <1>1, <2>1, <2>2 DEF StoreMoves
<1>6. QED
  BY <1>2, <1>3, <1>4, <1>5 DEF CortexNext, EngineStep

\* Every step keeps the invariant.
LEMMA CortexStepInv == CortexInv /\ [CortexNext]_cortexVars => CortexInv'
<1> SUFFICES ASSUME CortexInv, CortexNext \/ UNCHANGED cortexVars PROVE CortexInv'
  OBVIOUS
<1>1. OastTypeOK' /\ BornFor' /\ \A d \in Corr : Called(d) => Called(d)'
  BY ScanMovesStore, StoreMovesKeep DEF CortexInv, CortexTypeOK
<1>2. Firm
  BY <1>1, SeenGrows DEF Firm
<1>3. Tmpl' \in Loads /\ cxSeen' \in [TmplAt' -> 0..2] /\ CortexTypeOK
  BY <1>2, StaysBacked DEF Firm, CortexInv, CortexTypeOK
<1>4. ASSUME EngineOK', HandlerOK' PROVE CortexInv'
  BY <1>1, <1>3, <1>4
     DEF CortexInv, CortexTypeOK, EngineOK, HandlerOK, Relayed, CxPlaces, OutOfBand, Fetching
<1>5. ASSUME UNCHANGED cxHandler PROVE HandlerOK'
  <2>1. /\ TmplAt' = TmplAt /\ Tmpl' = Tmpl /\ Finding' = Finding
        /\ \A t \in TmplAt : Backed(t) => Backed(t)'
    BY <1>2, <1>3, StaysBacked DEF Finding, Firm
  <2>2. HandlerOK
    BY CortexParts
  <2>3. QED
    BY <1>5, <2>1, <2>2 DEF HandlerOK, cxHandler
<1>6. CASE EngineStep
  <2>1. UNCHANGED cxHandler
    BY <1>6 DEF EngineStep, FetchBase, NextTemplate, Detect, Evade, Confirm, RegisterOob,
       FireOob, PollAsk, PollAnswer, PollTimeout, DeregisterOob, Quiet
  <2>2. EngineOK'
    BY <1>2, <1>6, BaseStep, NextStep, FetchStep, OobStep, AnswerStep DEF EngineStep
  <2>3. QED
    BY <1>4, <1>5, <2>1, <2>2
<1>7. CASE HandlerStep \/ DaemonDies \/ UNCHANGED cxVars
  BY <1>2, <1>4, <1>7, HandlerKeeps
<1>8. CASE StoreStep \/ (\E d \in Corr : PollLate(d)) \/ (\E i \in Item : CallBack(i))
           \/ UNCHANGED cortexVars
  BY <1>7, <1>8 DEF StoreStep, PollLate, CallBack, cortexVars
<1>9. QED
  BY <1>6, <1>7, <1>8 DEF CortexNext

LEMMA CortexInvSafe == CortexInv => FindingsBacked
BY DEF CortexInv, Relayed, FindingsBacked, Backed, Called

\* In every run of a vulnerability scan, with any templates and whatever the
\* target, the store and the daemon do, a finding was confirmed by a second
\* matching answer or by a call back for its own correlation.
THEOREM CortexSafe == CortexSpec => [](CortexTypeOK /\ FindingsBacked)
<1>1. CortexInv => CortexTypeOK
  BY DEF CortexInv
<1>2. QED
  BY <1>1, CortexInitInv, CortexStepInv, CortexInvSafe, PTL DEF CortexSpec
-----------------------------------------------------------------------------
(* The subdomain engine keeps its promise *)

Undone == Waiting \ vyStuck
Resolved == InStatus("found") \cup InStatus("not_found")
LeftOver == vyStuck \cap Waiting
Over == Settled /\ Dependable

\* While an enumeration is under way the scan is not over.
LEMMA NotOver ==
  ASSUME NEW e \in Enum, Preparing(e) \/ Running(e)
  PROVE  ~ Over
BY DEF Over, Settled, Preparing, Running

LEMMA NotOverNext ==
  ASSUME NEW e \in Enum, Preparing(e)' \/ Running(e)' \/ vyPhase'[e] = "failed"
  PROVE  ~ Over'
BY DEF Over, Settled, Dependable, Preparing, Running

\* A step that leaves the rows alone.
LEMMA RowsStay ==
  ASSUME vyRow' = vyRow, vyStuck' = vyStuck
  PROVE  Undone' = Undone /\ Resolved' = Resolved /\ LeftOver' = LeftOver
BY DEF Undone, Resolved, LeftOver, Waiting, InStatus

\* The steps of the promise, in the words of the engine.
Kept ==
    \/ /\ ~ Over'
       /\ \E T \in SUBSET (Name \ Resolved) :
            Undone' = Undone \cup T /\ LeftOver' = LeftOver \ T /\ Resolved' = Resolved
    \/ ~ Over' /\ Undone' \in SUBSET Name /\ Resolved' = {} /\ LeftOver' = {}
    \/ /\ ~ Over /\ ~ Over'
       /\ \E S \in SUBSET (Name \ Resolved) :
            Undone' = Undone \ S /\ LeftOver' = LeftOver \ S /\ Resolved' = Resolved \cup S
    \/ /\ ~ Over /\ ~ Over'
       /\ \E r \in Resolved : Resolved' = Resolved \ {r} /\ Undone' = Undone \cup {r} /\ LeftOver' = LeftOver
    \/ /\ ~ Over /\ ~ Over'
       /\ \E S \in SUBSET Undone : Undone' = Undone \ S /\ LeftOver' = LeftOver \cup S /\ Resolved' = Resolved
    \/ Undone = {} /\ Over' /\ Undone' = Undone /\ Resolved' = Resolved /\ LeftOver' = LeftOver
    \/ (Over' <=> Over) /\ Undone' = Undone /\ Resolved' = Resolved /\ LeftOver' = LeftOver

LEMMA KeptIsPromised == Kept => [VoyageJob!SjNext]_(VoyageJob!sjVars)
<1> SUFFICES ASSUME Kept PROVE VoyageJob!SjNext \/ UNCHANGED VoyageJob!sjVars
  OBVIOUS
<1>1. CASE /\ ~ Over'
           /\ \E T \in SUBSET (Name \ Resolved) :
                Undone' = Undone \cup T /\ LeftOver' = LeftOver \ T /\ Resolved' = Resolved
  <2>1. VoyageJob!Admit
    BY <1>1 DEF VoyageJob!Admit, Undone, Resolved, LeftOver, Over
  <2>2. QED
    BY <2>1 DEF VoyageJob!SjNext
<1>2. CASE ~ Over' /\ Undone' \in SUBSET Name /\ Resolved' = {} /\ LeftOver' = {}
  <2>1. VoyageJob!Restart
    BY <1>2 DEF VoyageJob!Restart, Undone, Resolved, LeftOver, Over
  <2>2. QED
    BY <2>1 DEF VoyageJob!SjNext
<1>3. CASE /\ ~ Over /\ ~ Over'
           /\ \E S \in SUBSET (Name \ Resolved) :
                Undone' = Undone \ S /\ LeftOver' = LeftOver \ S /\ Resolved' = Resolved \cup S
  <2>1. VoyageJob!Settle
    BY <1>3 DEF VoyageJob!Settle, Undone, Resolved, LeftOver, Over
  <2>2. QED
    BY <2>1 DEF VoyageJob!SjNext
<1>4. CASE /\ ~ Over /\ ~ Over'
           /\ \E r \in Resolved : Resolved' = Resolved \ {r} /\ Undone' = Undone \cup {r} /\ LeftOver' = LeftOver
  <2>1. VoyageJob!Reopen
    BY <1>4 DEF VoyageJob!Reopen, Undone, Resolved, LeftOver, Over
  <2>2. QED
    BY <2>1 DEF VoyageJob!SjNext
<1>5. CASE /\ ~ Over /\ ~ Over'
           /\ \E S \in SUBSET Undone : Undone' = Undone \ S /\ LeftOver' = LeftOver \cup S /\ Resolved' = Resolved
  <2>1. VoyageJob!Lose
    BY <1>5 DEF VoyageJob!Lose, Undone, Resolved, LeftOver, Over
  <2>2. QED
    BY <2>1 DEF VoyageJob!SjNext
<1>6. CASE Undone = {} /\ Over' /\ Undone' = Undone /\ Resolved' = Resolved /\ LeftOver' = LeftOver
  <2>1. VoyageJob!End
    BY <1>6 DEF VoyageJob!End, Undone, Resolved, LeftOver, Over
  <2>2. QED
    BY <2>1 DEF VoyageJob!SjNext
<1>7. CASE (Over' <=> Over) /\ Undone' = Undone /\ Resolved' = Resolved /\ LeftOver' = LeftOver
  BY <1>7 DEF VoyageJob!sjVars, Undone, Resolved, LeftOver, Over
<1>8. QED
  BY <1>1, <1>2, <1>3, <1>4, <1>5, <1>6, <1>7 DEF Kept
\* A step of a worker: a row gets its result, is taken back, is left behind, or
\* goes from waiting to being worked on.
LEMMA WorkerKeeps ==
  ASSUME VoyageInv, NEW w \in Worker,
         WorkerStep(w) \/ FetchFails(w) \/ CheckActiveFails(w) \/ RecordFails(w) \/ UndoFails(w)
  PROVE  Kept
<1>1. /\ vyWork[w].st \in {"poll", "empty", "lock", "work", "undo"} /\ w[1] \in Enum /\ vyPhase' = vyPhase
      /\ vyRow \in [Name -> {"absent", "queued", "scanning", "found", "not_found"}]
  BY WorkerRows
<1>2. Running(w[1]) /\ Running(w[1])'
  BY <1>1 DEF VoyageInv, AtWork, Running
<1>3. ~ Over /\ ~ Over'
  BY <1>1, <1>2, NotOver, NotOverNext
<1>4. vyStuck \subseteq InStatus("scanning")
  BY DEF VoyageInv, StuckScans
<1>5. PICK r : r = vyWork[w].row
  OBVIOUS
<1>6. vyWork[w].st \in {"lock", "work", "undo"} => r \in Name
  BY <1>5 DEF VoyageInv, HoldsRow
<1>18. vyWork[w].st = "lock" => r \in InStatus("queued")
  BY <1>5 DEF VoyageInv, LocksApart, InStatus
<1>7. CASE vyRow' = vyRow /\ vyStuck' = vyStuck
  BY <1>3, <1>7, RowsStay DEF Kept
<1>8. ASSUME NEW q \in InStatus("queued"), vyRow' = [vyRow EXCEPT ![q] = "scanning"], vyStuck' = vyStuck
      PROVE  Kept
  <2>1. q \in Name /\ vyRow[q] = "queued"
    BY <1>8 DEF InStatus
  <2>2. \A n \in Name : vyRow'[n] = IF n = q THEN "scanning" ELSE vyRow[n]
    BY <1>1, <1>8, <2>1
  <2>3. Waiting' = Waiting /\ Resolved' = Resolved
    BY <2>1, <2>2 DEF Waiting, Resolved, InStatus
  <2>4. QED
    BY <1>3, <1>8, <2>3 DEF Kept, Undone, LeftOver
<1>9. ASSUME NEW s \in {"found", "not_found"}, r \in Name,
             vyRow' = [vyRow EXCEPT ![r] = s], vyStuck' = vyStuck \ {r}
      PROVE  Kept
  <2>1. \A n \in Name : vyRow'[n] = IF n = r THEN s ELSE vyRow[n]
    BY <1>1, <1>9
  <2>2. Waiting' = Waiting \ {r} /\ Resolved' = Resolved \cup {r}
    BY <1>9, <2>1 DEF Waiting, Resolved, InStatus
  <2>3. Waiting \cap Resolved = {} /\ vyStuck \subseteq Waiting
    BY <1>4 DEF Waiting, Resolved, InStatus
  <2>4. PICK S : S = {r} \ Resolved
    OBVIOUS
  <2>5. S \in SUBSET (Name \ Resolved)
    BY <1>9, <2>4
  <2>6. Undone' = Undone \ S /\ LeftOver' = LeftOver \ S /\ Resolved' = Resolved \cup S
    BY <1>9, <2>2, <2>3, <2>4 DEF Undone, LeftOver
  <2>7. QED
    BY <1>3, <2>5, <2>6 DEF Kept
<1>10. ASSUME r \in Name, vyRow' = [vyRow EXCEPT ![r] = "queued"], vyStuck' = vyStuck \ {r}
       PROVE  Kept
  <2>1. \A n \in Name : vyRow'[n] = IF n = r THEN "queued" ELSE vyRow[n]
    BY <1>1, <1>10
  <2>2. Waiting' = Waiting \cup {r} /\ Resolved' = Resolved \ {r}
    BY <1>10, <2>1 DEF Waiting, Resolved, InStatus
  <2>3. Waiting \cap Resolved = {} /\ vyStuck \subseteq Waiting
    BY <1>4 DEF Waiting, Resolved, InStatus
  <2>4. Undone' = Undone \cup {r} /\ LeftOver' = LeftOver \ {r}
    BY <1>10, <2>2, <2>3 DEF Undone, LeftOver
  <2>5. CASE r \in Resolved
    <3>1. LeftOver' = LeftOver
      BY <2>3, <2>4, <2>5 DEF LeftOver
    <3>2. QED
      BY <1>3, <2>2, <2>4, <2>5, <3>1 DEF Kept
  <2>6. CASE r \notin Resolved
    <3>1. {r} \in SUBSET (Name \ Resolved) /\ Resolved' = Resolved
      BY <1>10, <2>2, <2>6
    <3>2. QED
      BY <1>3, <2>4, <3>1 DEF Kept
  <2>7. QED
    BY <2>5, <2>6
<1>11. ASSUME r \in Name, vyRow[r] = "scanning", vyRow' = vyRow, vyStuck' = vyStuck \cup {r}
       PROVE  Kept
  <2>1. Waiting' = Waiting /\ Resolved' = Resolved /\ r \in Waiting
    BY <1>11 DEF Waiting, Resolved, InStatus
  <2>2. PICK S : S = {r} \ vyStuck
    OBVIOUS
  <2>3. S \in SUBSET Undone /\ Undone' = Undone \ S /\ LeftOver' = LeftOver \cup S
    BY <1>11, <2>1, <2>2 DEF Undone, LeftOver
  <2>4. QED
    BY <1>3, <2>1, <2>3 DEF Kept
<1>19. ASSUME r \in InStatus("queued"), vyRow' = [vyRow EXCEPT ![r] = "scanning"],
              vyStuck' = vyStuck \cup {r}
       PROVE  Kept
  <2>1. r \in Name /\ vyRow[r] = "queued"
    BY <1>19 DEF InStatus
  <2>2. \A n \in Name : vyRow'[n] = IF n = r THEN "scanning" ELSE vyRow[n]
    BY <1>1, <1>19, <2>1
  <2>3. Waiting' = Waiting /\ Resolved' = Resolved /\ r \in Waiting
    BY <2>1, <2>2 DEF Waiting, Resolved, InStatus
  <2>4. PICK S : S = {r} \ vyStuck
    OBVIOUS
  <2>5. S \in SUBSET Undone /\ Undone' = Undone \ S /\ LeftOver' = LeftOver \cup S
    BY <1>19, <2>3, <2>4 DEF Undone, LeftOver
  <2>6. QED
    BY <1>3, <2>3, <2>5 DEF Kept
<1>12. CASE Mark(w) \/ FetchFails(w)
  <2>1. r \in InStatus("queued")
    BY <1>12, <1>18 DEF Mark, FetchFails
  <2>2. QED
    BY <1>5, <1>7, <1>8, <1>12, <1>19, <2>1 DEF Mark, FetchFails
<1>13. CASE Fetch(w) \/ CheckActive(w) \/ CheckActiveFails(w) \/ ParkedLeaves(w)
  BY <1>7, <1>13 DEF Fetch, CheckActive, CheckActiveFails, ParkedLeaves
<1>14. CASE Record(w) \/ RecordFails(w)
  BY <1>5, <1>6, <1>7, <1>9, <1>14 DEF Record, RecordFails, SetRow
<1>15. CASE Undo(w)
  BY <1>5, <1>6, <1>7, <1>10, <1>15 DEF Undo, SetRow
<1>16. CASE UndoFails(w)
  BY <1>5, <1>6, <1>7, <1>11, <1>16 DEF UndoFails
<1>17. QED
  BY <1>12, <1>13, <1>14, <1>15, <1>16 DEF WorkerStep

\* The preparation admits rows, settles those the passive sources name, or starts
\* afresh.
LEMMA PrepareKeeps ==
  ASSUME VoyageInv, NEW e \in Enum,
         \/ Begin(e) \/ CreateScan(e) \/ ClearScan(e) \/ PassiveRows(e) \/ WordRows(e) \/ StartWorkers(e)
         \/ StartShort(e) \/ StartFails(e) \/ PrepareFails(e) \/ ControllerTick(e)
  PROVE  Kept
<1>0. vyPhase \in [Enum -> {"idle", "create", "clear", "passive", "words", "reset", "running", "done", "failed"}]
  BY DEF VoyageInv, VoyageTypeOK
<1>1. vyRow \in [Name -> {"absent", "queued", "scanning", "found", "not_found"}]
      /\ vyStuck \subseteq InStatus("scanning")
  BY DEF VoyageInv, VoyageTypeOK, StuckScans
<1>2. Undone = Undone \cup {} /\ LeftOver = LeftOver \ {} /\ {} \in SUBSET (Name \ Resolved)
  OBVIOUS
<1>3. CASE Begin(e)
  <2>1. Preparing(e)'
    BY <1>0, <1>3 DEF Begin, Goto, Preparing
  <2>2. vyRow' = vyRow /\ vyStuck' = vyStuck
    BY <1>3 DEF Begin
  <2>3. Undone' = Undone \cup {} /\ Resolved' = Resolved /\ LeftOver' = LeftOver \ {}
    BY <1>2, <2>2, RowsStay
  <2>4. ~ Over'
    BY <2>1, NotOverNext
  <2>5. QED
    BY <1>2, <2>3, <2>4 DEF Kept
<1>4. CASE CreateScan(e) \/ PrepareFails(e)
  <2>1. Preparing(e) /\ (Preparing(e)' \/ vyPhase'[e] = "failed")
    BY <1>0, <1>4 DEF CreateScan, PrepareFails, Failed, Goto, Preparing
  <2>2. vyRow' = vyRow /\ vyStuck' = vyStuck
    BY <1>4 DEF CreateScan, PrepareFails
  <2>3. ~ Over /\ ~ Over'
    BY <2>1, NotOver, NotOverNext
  <2>4. QED
    BY <2>2, <2>3, RowsStay DEF Kept
<1>5. CASE ControllerTick(e)
  <2>1. Running(e) /\ Running(e)'
    BY <1>5 DEF ControllerTick, Running
  <2>2. vyRow' = vyRow /\ vyStuck' = vyStuck
    BY <1>5 DEF ControllerTick
  <2>3. ~ Over /\ ~ Over'
    BY <2>1, NotOver, NotOverNext
  <2>4. QED
    BY <2>2, <2>3, RowsStay DEF Kept
<1>6. CASE ClearScan(e)
  <2>1. Preparing(e) /\ Preparing(e)'
    BY <1>0, <1>6 DEF ClearScan, Goto, Preparing
  <2>2. ~ Over /\ ~ Over'
    BY <2>1, NotOver, NotOverNext
  <2>3. CASE vyRow' = vyRow /\ vyStuck' = vyStuck
    BY <2>2, <2>3, RowsStay DEF Kept
  <2>4. CASE vyRow' = [r \in Name |-> "absent"] /\ vyStuck' = {}
    <3>1. Undone' = {} /\ Resolved' = {} /\ LeftOver' = {}
      BY <2>4 DEF Undone, Resolved, LeftOver, Waiting, InStatus
    <3>2. QED
      BY <2>2, <3>1 DEF Kept
  <2>5. QED
    BY <1>6, <2>3, <2>4 DEF ClearScan
<1>7. CASE PassiveRows(e)
  <2>1. Preparing(e) /\ Preparing(e)'
    BY <1>0, <1>7 DEF PassiveRows, Goto, Preparing
  <2>2. ~ Over /\ ~ Over'
    BY <2>1, NotOver, NotOverNext
  <2>3. PICK R \in SUBSET Name :
          vyRow' = [r \in Name |-> IF r \in R /\ vyRow[r] = "absent" THEN "found" ELSE vyRow[r]]
    BY <1>7 DEF PassiveRows, InsertEntries
  <2>4. PICK S : S = {r \in R : vyRow[r] = "absent"}
    OBVIOUS
  <2>5. \A r \in Name : vyRow'[r] = IF r \in S THEN "found" ELSE vyRow[r]
    BY <2>3, <2>4
  <2>6. S \in SUBSET (Name \ Resolved) /\ S \cap Waiting = {} /\ vyStuck' = vyStuck
    BY <1>7, <2>3, <2>4 DEF PassiveRows, Resolved, Waiting, InStatus
  <2>7. Waiting' = Waiting
    BY <2>4, <2>5, <2>6 DEF Waiting, InStatus
  <2>8. Resolved' = Resolved \cup S
    BY <2>3, <2>4, <2>5 DEF Resolved, InStatus
  <2>9. Undone' = Undone \ S /\ LeftOver' = LeftOver \ S
    BY <2>6, <2>7 DEF Undone, LeftOver
  <2>10. QED
    BY <2>2, <2>6, <2>8, <2>9 DEF Kept
<1>8. CASE WordRows(e)
  <2>1. Preparing(e)'
    BY <1>0, <1>8 DEF WordRows, Goto, Preparing
  <2>2. ~ Over'
    BY <2>1, NotOverNext
  <2>3. PICK T : T = InStatus("absent")
    OBVIOUS
  <2>4. \A r \in Name : vyRow'[r] = IF r \in T THEN "queued" ELSE vyRow[r]
    BY <1>8, <2>3 DEF WordRows, InsertEntries, InStatus
  <2>5. T \in SUBSET (Name \ Resolved) /\ T \cap vyStuck = {} /\ vyStuck' = vyStuck
    BY <1>1, <1>8, <2>3 DEF WordRows, Resolved, InStatus
  <2>6. Waiting' = Waiting \cup T
    BY <2>3, <2>4 DEF Waiting, InStatus
  <2>7. Resolved' = Resolved
    BY <2>3, <2>4 DEF Resolved, InStatus
  <2>8. Undone' = Undone \cup T /\ LeftOver' = LeftOver \ T
    BY <2>5, <2>6, <2>3 DEF Undone, LeftOver, Waiting, InStatus
  <2>9. QED
    BY <2>2, <2>5, <2>7, <2>8 DEF Kept
<1>9. CASE StartWorkers(e) \/ StartShort(e) \/ StartFails(e)
  <2>1. StartFails(e) \/ Running(e)'
    BY <1>0, <1>9 DEF StartWorkers, StartShort, StartPool, Goto, Running
  <2>2. ~ Over'
    <3>1. CASE StartFails(e)
      BY <3>1 DEF StartFails, Over, Dependable
    <3>2. QED
      BY <2>1, <3>1, NotOverNext
  <2>8. ResetHalted
    BY <1>9 DEF StartWorkers, StartShort, StartPool, StartFails
  <2>3. \A r \in Name : vyRow'[r] = IF vyRow[r] = "scanning" THEN "queued" ELSE vyRow[r]
    BY <2>8 DEF ResetHalted
  <2>4. Waiting' = Waiting /\ Resolved' = Resolved /\ vyStuck' = {}
    BY <2>3, <2>8 DEF ResetHalted, Waiting, Resolved, InStatus
  <2>5. PICK T : T = LeftOver
    OBVIOUS
  <2>6. T \in SUBSET (Name \ Resolved) /\ Undone' = Undone \cup T /\ LeftOver' = LeftOver \ T
    BY <1>1, <2>4, <2>5 DEF Undone, LeftOver, Waiting, Resolved, InStatus
  <2>7. QED
    BY <2>2, <2>4, <2>6 DEF Kept
<1>10. QED
  BY <1>3, <1>4, <1>5, <1>6, <1>7, <1>8, <1>9

\* When the last enumeration ends and nothing failed, no row is left.
LEMMA DoneKeeps ==
  ASSUME VoyageInv, NEW e \in Enum, EnumDone(e)
  PROVE  Kept
<1>1. /\ vyPhase[e] = "running" /\ vyRow' = vyRow /\ vyStuck' = vyStuck /\ vyReq' = vyReq /\ vyFaults' = vyFaults
      /\ vyUnserved' = vyUnserved /\ \A w \in Of(e) : vyWork[w].st = "gone"
      /\ vyPhase' = [vyPhase EXCEPT ![e] = "done"]
  BY DEF EnumDone, Running, Goto, vyBounds
<1>2. vyPhase \in [Enum -> {"idle", "create", "clear", "passive", "words", "reset", "running", "done", "failed"}]
  BY DEF VoyageInv, VoyageTypeOK
<1>3. \A f \in Enum : f # e => vyPhase'[f] = vyPhase[f]
  BY <1>1, <1>2
<1>4. ~ Over
  BY <1>1, NotOver DEF Running
<1>5. Undone' = Undone /\ Resolved' = Resolved /\ LeftOver' = LeftOver
  BY <1>1, RowsStay
<1>6. ASSUME Over' PROVE Undone = {}
  <2>1. \A f \in Enum : vyPhase'[f] \in {"idle", "done"} /\ vyReq[f].pool # "none"
    BY <1>1, <1>6 DEF Over, Dependable
  <2>2. Trusted
    BY <1>1, <1>3, <1>6, <2>1 DEF Over, Dependable, Trusted
  <2>3. vyStuck = {}
    BY <1>1, <1>6 DEF Over, Dependable
  <2>4. ASSUME NEW w \in Worker PROVE vyWork[w].st \in {"off", "gone"}
    <3>1. w[1] \in Enum
      BY VoyageAssumption
    <3>2. CASE w[1] = e
      BY <1>1, <3>2 DEF Of
    <3>3. CASE w[1] # e
      <4>1. vyPhase[w[1]] # "running"
        BY <1>3, <2>1, <3>1, <3>3
      <4>2. QED
        BY <4>1 DEF VoyageInv, AtWork, Running
    <3>4. QED
      BY <3>2, <3>3
  <2>5. InStatus("scanning") = {}
    <3>1. \A r \in InStatus("scanning") : r \in vyStuck \/ \E w \in Worker : Holder(w, r)
      BY <1>1 DEF VoyageInv, HeldRows
    <3>2. QED
      BY <2>3, <2>4, <3>1 DEF Holder
  <2>6. InStatus("queued") = {}
    <3>1. ~ \E w \in Worker : Keen(w)
      BY <2>4 DEF Keen
    <3>2. ~ \E f \in Enum : Preparing(f)
      BY <1>1, <1>3, <2>1 DEF Preparing
    <3>4. \A r \in Name : ~ Locked(r)
      BY <2>4 DEF Locked
    <3>3. QED
      BY <1>1, <2>2, <3>1, <3>2, <3>4 DEF VoyageInv, Attended, InStatus
  <2>7. QED
    BY <2>5, <2>6 DEF Undone, Waiting
<1>7. QED
  BY <1>4, <1>5, <1>6 DEF Kept

LEMMA VoyageStepKeeps == VoyageInv /\ [VoyageNext]_vyVars => Kept
<1> SUFFICES ASSUME VoyageInv, [VoyageNext]_vyVars PROVE Kept
  OBVIOUS
<1>1. CASE UNCHANGED vyVars
  <2>1. vyRow' = vyRow /\ vyStuck' = vyStuck /\ vyPhase' = vyPhase /\ vyReq' = vyReq /\ vyFaults' = vyFaults
        /\ vyUnserved' = vyUnserved
    BY <1>1 DEF vyVars, vyBounds
  <2>2. Over' <=> Over
    BY <2>1 DEF Over, Settled, Dependable
  <2>3. QED
    BY <2>1, <2>2, RowsStay DEF Kept
<1>2. CASE Crash
  <2>1. ~ Over'
    BY <1>2 DEF Crash, Over, Settled
  <2>2. Waiting' = Waiting /\ Resolved' = Resolved /\ vyStuck' = {}
    BY <1>2 DEF Crash, Waiting, Resolved, InStatus
  <2>3. PICK T : T = LeftOver
    OBVIOUS
  <2>4. T \in SUBSET (Name \ Resolved) /\ Undone' = Undone \cup T /\ LeftOver' = LeftOver \ T
    BY <2>2, <2>3 DEF Undone, LeftOver, Waiting, Resolved, InStatus
  <2>5. QED
    BY <2>1, <2>2, <2>4 DEF Kept
<1>3. QED
  BY <1>1, <1>2, WorkerKeeps, PrepareKeeps, DoneKeeps DEF VoyageNext, PrepareStep

LEMMA VoyageInitKeeps == VoyageInit => VoyageJob!SjInit
<1> SUFFICES ASSUME VoyageInit PROVE VoyageJob!SjInit
  OBVIOUS
<1>1. Undone = {} /\ Resolved = {} /\ LeftOver = {}
  BY DEF VoyageInit, Undone, Resolved, LeftOver, Waiting, InStatus
<1>2. ~ Over
  BY DEF VoyageInit, Over, Settled
<1>3. QED
  BY <1>1, <1>2 DEF VoyageJob!SjInit, Undone, Resolved, LeftOver, Over

-----------------------------------------------------------------------------
(* The engines together *)

\* The store alone does not disturb a scan that stands still.
LEMMA StoreStepInv ==
  ASSUME CortexInv, OastNext, UNCHANGED cxVars
  PROVE  CortexInv'
<1>1. StoreMoves
  BY DEF OastNext, ClientStep, StoreMoves
<1>2. OastTypeOK' /\ BornFor' /\ \A d \in Corr : Called(d) => Called(d)'
  BY <1>1, StoreMovesKeep DEF CortexInv, CortexTypeOK
<1>3. Tmpl' = Tmpl /\ cxSeen' = cxSeen
  BY DEF cxVars
<1>4. cxSeen \in [TmplAt -> 0..2] /\ CortexTypeOK
  BY DEF CortexInv, CortexTypeOK
<1>5. Firm
  BY <1>2, <1>3, <1>4 DEF Firm
<1>6. Tmpl' \in Loads /\ cxSeen' \in [TmplAt' -> 0..2]
  BY <1>3, <1>4, <1>5, StaysBacked DEF CortexTypeOK
<1>7. EngineOK' /\ HandlerOK'
  BY <1>5, HandlerKeeps
<1>8. QED
  BY <1>2, <1>4, <1>6, <1>7
     DEF CortexInv, CortexTypeOK, EngineOK, HandlerOK, Relayed, CxPlaces, OutOfBand, Fetching

\* What every engine keeps, whichever runs.
EnginesInv ==
    /\ focus \in Focus
    /\ LimiterInv /\ VoyageInv /\ CrawlInv /\ CoverInv
    /\ CortexInv /\ ConfirmInv /\ TakeoverInv /\ PaceInv

\* A step of the engines is a step of one of them, and the others stand still.
LEMMA EnginesStep ==
  ASSUME [EnginesNext]_engineVars
  PROVE  /\ focus' = focus
         /\ [PulseNext]_puVars /\ [VoyageNext]_vyVars /\ [CrawlNext]_crVars /\ [RecursionNext]_rcVars
         /\ [ConfirmNext]_cfVars /\ [TakeoverNext]_tkVars /\ [PaceNext]_pcVars
         /\ [CortexNext]_cortexVars \/ (OastNext /\ UNCHANGED cxVars)
<1>1. CASE UNCHANGED engineVars
  BY <1>1 DEF engineVars, loopVars, checkVars
<1>2. CASE EnginesNext
  BY <1>2 DEF EnginesNext, loopVars, checkVars
<1>3. QED
  BY <1>1, <1>2

LEMMA EnginesStepInv == EnginesInv /\ [EnginesNext]_engineVars => EnginesInv'
<1> SUFFICES ASSUME EnginesInv, [EnginesNext]_engineVars PROVE EnginesInv'
  OBVIOUS
<1>1. /\ focus' = focus
      /\ [PulseNext]_puVars /\ [VoyageNext]_vyVars /\ [CrawlNext]_crVars /\ [RecursionNext]_rcVars
      /\ [ConfirmNext]_cfVars /\ [TakeoverNext]_tkVars /\ [PaceNext]_pcVars
      /\ [CortexNext]_cortexVars \/ (OastNext /\ UNCHANGED cxVars)
  BY EnginesStep
<1>2. LimiterInv' /\ VoyageInv' /\ CrawlInv' /\ CoverInv'
  BY <1>1, LimiterNext, VoyageStepInv, CrawlStepInv, NextCover DEF EnginesInv
<1>3. ConfirmInv' /\ TakeoverInv' /\ PaceInv'
  BY <1>1, ConfirmStepInv, TakeoverStepInv, PaceStepInv DEF EnginesInv
<1>4. CortexInv'
  BY <1>1, CortexStepInv, StoreStepInv DEF EnginesInv
<1>5. focus' \in Focus
  BY <1>1 DEF EnginesInv
<1>6. QED
  BY <1>2, <1>3, <1>4, <1>5 DEF EnginesInv

LEMMA EnginesInitInv == EnginesInit => EnginesInv
<1> SUFFICES ASSUME EnginesInit PROVE EnginesInv
  OBVIOUS
<1>1. /\ focus \in Focus
      /\ PulseInit /\ VoyageInit /\ CrawlInit /\ RecursionInit /\ CortexInit
      /\ ConfirmInit /\ TakeoverInit /\ PaceInit
  BY DEF EnginesInit
<1>2. QED
  BY <1>1, LimiterInit, VoyageInitInv, CrawlInitInv, InitCover, CortexInitInv, ConfirmInitInv, TakeoverInitInv,
     PaceInitInv DEF EnginesInv

\* Whatever engine runs keeps its variables in their types: the limits of a port
\* scan and of a pace, the rows and workers of an enumeration, the places of a crawl
\* and of the checks (scanner.rs, rate.rs, crawler.rs, inject.rs and the others).
THEOREM EnginesTypeCorrect == EnginesSpec => []EnginesTypeOK
<1>1. ASSUME EnginesInv PROVE EnginesTypeOK
  <2>1. PulseTypeOK /\ VoyageTypeOK /\ RecursionTypeOK /\ PaceTypeOK
    BY <1>1, PaceInvType DEF EnginesInv, LimiterInv, VoyageInv, CoverInv
  <2>2. CrawlTypeOK /\ CortexTypeOK /\ ConfirmTypeOK /\ TakeoverTypeOK
    BY <1>1, CrawlInvSafe, ConfirmInvSafe, TakeoverInvSafe DEF EnginesInv, CrawlInv, CortexInv, ConfirmInv, TakeoverInv
  <2>3. focus \in Focus
    BY <1>1 DEF EnginesInv
  <2>4. QED
    BY <2>1, <2>2, <2>3 DEF EnginesTypeOK, Focus
<1>2. QED
  BY <1>1, EnginesInitInv, EnginesStepInv, PTL DEF EnginesSpec

\* The subdomain engine keeps what ScanJob promises, whatever its enumerations, its
\* workers, its database and the daemon do: no row disappears but with a fresh
\* start, each gets a result of its own or is left behind by a fault, and the scan
\* is called over only when no other row waits (voyage scanner.rs, daemon.rs).
THEOREM VoyageImplementsScanJob == EnginesSpec => VoyageKeepsItems
<1>1. EnginesInit => VoyageJob!SjInit
  BY VoyageInitKeeps DEF EnginesInit
<1>2. EnginesInv /\ [EnginesNext]_engineVars => [VoyageJob!SjNext]_(VoyageJob!sjVars)
  BY EnginesStep, VoyageStepKeeps, KeptIsPromised DEF EnginesInv
<1>3. QED
  BY <1>1, <1>2, EnginesInitInv, EnginesStepInv, PTL DEF EnginesSpec, VoyageKeepsItems, VoyageJob!SjSpec

\* Whatever engine runs, what it reports is backed by its target: a finding of a
\* vulnerability scan, of the active checks although an answer may be wrong, of
\* the takeover check although a lookup may fail (engine.rs, inject.rs,
\* takeover.rs).
THEOREM EnginesReportsBacked == EnginesSpec => []ReportsBacked
<1>1. EnginesInv => ReportsBacked
  BY CortexInvSafe, ConfirmInvSafe, TakeoverInvSafe DEF EnginesInv, ReportsBacked
<1>2. QED
  BY <1>1, EnginesInitInv, EnginesStepInv, PTL DEF EnginesSpec

\* Whatever engine runs, it reaches what is there: a crawl the pages that those it
\* read link to, the active checks the places that are open to them, a takeover
\* check its hosts (crawler.rs, inject.rs, takeover.rs).
THEOREM EnginesScanCovers == EnginesSpec => []ScanCovers
<1>1. EnginesInv => ScanCovers
  BY CrawlInvSafe, ConfirmInvSafe, TakeoverInvSafe DEF EnginesInv, ScanCovers
<1>2. QED
  BY <1>1, EnginesInitInv, EnginesStepInv, PTL DEF EnginesSpec
=============================================================================
