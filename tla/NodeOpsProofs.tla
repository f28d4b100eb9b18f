--------------------------- MODULE NodeOpsProofs ---------------------------
(***************************************************************************)
(* Proofs that the operation pipeline keeps its safety invariants for      *)
(* every set of nodes, workflows, operations and messages.                 *)
(***************************************************************************)
EXTENDS NodeOps, FiniteSetTheorems, TLAPS

\* Types of the derived attributes of a task.
LEMMA TaskTypes ==
    ASSUME NEW t \in Task
    PROVE  /\ t[1] \in Msg /\ t[2] \in 1..MaxDeliver
           /\ OpOf(t) \in Op /\ NodeOf(t) \in Node /\ WfOf(t) \in Wf
  BY NodeOpsAssumption DEF Task, OpOf, NodeOf, WfOf

\* A semaphore is created with at least one permit.
LEMMA PermitCountPositive ==
    ASSUME NEW o \in Op
    PROVE  PermitCount(o) \in Nat \ {0}
  BY NodeOpsAssumption DEF PermitCount

\* The initial state is well typed.
LEMMA InitType == Init => TypeOK
  <1> SUFFICES ASSUME Init PROVE TypeOK
    OBVIOUS
  <1>1. <<>> \in Seq(Task)
    OBVIOUS
  <1>2. QED
    BY <1>1, NodeOpsAssumption DEF Init, TypeOK, PC

\* run_operation's return path keeps the types of what it assigns.
LEMMA ReturnType ==
    ASSUME TypeOK, NEW t \in Task, Return(t)
    PROVE  pc' \in [Task -> PC] /\ free' \in [Node -> [Wf -> Nat]]
  <1>1. pc' \in [Task -> PC]
    BY DEF TypeOK, Return, PC
  <1>2. NodeOf(t) \in Node /\ WfOf(t) \in Wf /\ free \in [Node -> [Wf -> Nat]]
    BY TaskTypes DEF TypeOK
  <1>3. free[NodeOf(t)][WfOf(t)] + 1 \in Nat
    BY <1>2
  <1>4. free' \in [Node -> [Wf -> Nat]]
    BY <1>2, <1>3 DEF Return
  <1>5. QED
    BY <1>1, <1>4

\* Every step keeps the types.
LEMMA NextType == TypeOK /\ [Next]_vars => TypeOK'
  <1> SUFFICES ASSUME TypeOK, [Next]_vars PROVE TypeOK'
    OBVIOUS
  <1> USE DEF vars, semVars, cpVars, histVars
  <1>1. ASSUME NEW m \in Msg, Dispatch(m) PROVE TypeOK'
    BY <1>1 DEF TypeOK, Dispatch
  <1>2. ASSUME NEW m \in Msg, PushDeliver(m) PROVE TypeOK'
    <2>1. <<m, 1>> \in Task
      BY NodeOpsAssumption DEF Task
    <2>2. QED
      BY <1>2, <2>1 DEF TypeOK, PushDeliver, PC
  <1>3. ASSUME NEW m \in Msg, NEW d \in 1..MaxDeliver, PullDeliver(m, d)
        PROVE  TypeOK'
    <2>1. <<m, d>> \in Task
      BY DEF Task
    <2>2. QED
      BY <1>3, <2>1 DEF TypeOK, PullDeliver, PC
  <1>4. ASSUME NEW t \in Task, RunOperation(t) PROVE TypeOK'
    <2> DEFINE n == NodeOf(t)
               w == WfOf(t)
    <2>0. n \in Node /\ w \in Wf /\ OpOf(t) \in Op /\ t[1] \in Msg
      BY TaskTypes
    <2>1. CASE Enter(t)
      <3>1. pc' \in [Task -> PC]
        BY <2>1 DEF TypeOK, Enter, PC
      <3>2. CASE OpOf(t) \notin Gated
        BY <2>1, <3>1, <3>2 DEF TypeOK, Enter
      <3>3. CASE OpOf(t) \in Gated
        <4>1. waitq[n][w] \in Seq(Task) /\ PermitCount(OpOf(t)) \in Nat
          BY <2>0, PermitCountPositive DEF TypeOK
        <4>2. Append(waitq[n][w], t) \in Seq(Task)
          BY <4>1
        <4>3. waitq' = [waitq EXCEPT ![n][w] = Append(waitq[n][w], t)]
          BY <2>1, <3>3 DEF Enter
        <4>4. waitq' \in [Node -> [Wf -> Seq(Task)]]
          BY <2>0, <4>2, <4>3 DEF TypeOK
        <4>5. \/ UNCHANGED <<size, free>>
              \/ /\ size' = [size EXCEPT ![n][w] = PermitCount(OpOf(t))]
                 /\ free' = [free EXCEPT ![n][w] = PermitCount(OpOf(t))]
          BY <2>1, <3>3 DEF Enter
        <4>6. /\ size' \in [Node -> [Wf -> Nat]]
              /\ free' \in [Node -> [Wf -> Nat]]
          <5>1. CASE UNCHANGED <<size, free>>
            BY <5>1 DEF TypeOK
          <5>2. CASE /\ size' = [size EXCEPT ![n][w] = PermitCount(OpOf(t))]
                     /\ free' = [free EXCEPT ![n][w] = PermitCount(OpOf(t))]
            BY <2>0, <4>1, <5>2 DEF TypeOK
          <5>3. QED
            BY <4>5, <5>1, <5>2
        <4>7. QED
          BY <2>1, <3>1, <4>4, <4>6 DEF TypeOK, Enter
      <3>4. QED
        BY <3>2, <3>3
    <2>2. CASE AcquirePermit(t)
      <3>1. Tail(waitq[n][w]) \in Seq(Task)
        BY <2>0, <2>2 DEF TypeOK, AcquirePermit
      <3>2. waitq' \in [Node -> [Wf -> Seq(Task)]]
        BY <2>0, <2>2, <3>1 DEF TypeOK, AcquirePermit
      <3>3. free' \in [Node -> [Wf -> Nat]]
        BY <2>0, <2>2 DEF TypeOK, AcquirePermit
      <3>4. pc' \in [Task -> PC]
        BY <2>2 DEF TypeOK, AcquirePermit, PC
      <3>5. QED
        BY <2>2, <3>2, <3>3, <3>4 DEF TypeOK, AcquirePermit
    <2>3. CASE CheckCancelled(t)
      BY <2>0, <2>3, ReturnType DEF TypeOK, CheckCancelled, PC
    <2>4. CASE CheckDone(t)
      BY <2>0, <2>4, ReturnType DEF TypeOK, CheckDone, PC
    <2>5. CASE ClaimWon(t)
      BY <2>0, <2>5 DEF TypeOK, ClaimWon, PC
    <2>6. CASE ClaimLost(t)
      BY <2>0, <2>6, ReturnType, ZenonT(30) DEF TypeOK, ClaimLost
    <2>6a. CASE ClaimUnread(t)
      <3>1. claimedBy' \in [Op -> Node \cup {NoNode}]
        BY <2>0, <2>6a DEF TypeOK, ClaimUnread
      <3>2. misread' \subseteq Op \X Node
        BY <2>0, <2>6a DEF TypeOK, ClaimUnread
      <3>3. QED
        BY <2>6a, <3>1, <3>2, ReturnType, ZenonT(30) DEF TypeOK, ClaimUnread
    <2>7. CASE ClaimFailed(t)
      BY <2>0, <2>7, ReturnType, ZenonT(30) DEF TypeOK, ClaimFailed
    <2>8. CASE EngineUnreachable(t)
      BY <2>0, <2>8, ReturnType, ZenonT(30) DEF TypeOK, EngineUnreachable, PC
    <2>9. CASE EngineHalted(t)
      BY <2>0, <2>9, ReturnType DEF TypeOK, EngineHalted
    <2>10. CASE EngineEnds(t)
      BY <2>0, <2>10 DEF TypeOK, EngineEnds, PC
    <2>11. CASE UnknownType(t)
      BY <2>0, <2>11, ReturnType DEF TypeOK, UnknownType
    <2>12. CASE MarkDone(t)
      BY <2>0, <2>12 DEF TypeOK, MarkDone, PC
    <2>13. CASE Report(t)
      BY <2>0, <2>13, ReturnType DEF TypeOK, Report
    <2>14. CASE Ack(t)
      BY <2>0, <2>14 DEF TypeOK, Ack, PC
    <2>15. QED
      BY <1>4, <2>1, <2>2, <2>3, <2>4, <2>5, <2>6, <2>6a, <2>7, <2>8, <2>9, <2>10,
         <2>11, <2>12, <2>13, <2>14 DEF RunOperation, ClaimStep, EngineStep
  <1>5. ASSUME NEW n \in Node, NEW w \in Wf, CancelWorkflow(n, w) PROVE TypeOK'
    BY <1>5, NodeOpsAssumption DEF TypeOK, CancelWorkflow
  <1>6. ASSUME NEW n \in Node, NEW w \in Wf, ResumeWorkflow(n, w) PROVE TypeOK'
    BY <1>6 DEF TypeOK, ResumeWorkflow
  <1>7. ASSUME NEW n \in Node, Crash(n) PROVE TypeOK'
    <2>1. pc' \in [Task -> PC]
      BY <1>7 DEF TypeOK, Crash, PC
    <2>2. [w \in Wf |-> <<>>] \in [Wf -> Seq(Task)]
      OBVIOUS
    <2>3. waitq' \in [Node -> [Wf -> Seq(Task)]]
      BY <1>7, <2>2 DEF TypeOK, Crash
    <2>4. crashes' \in 0..MaxCrash
      BY <1>7, NodeOpsAssumption DEF TypeOK, Crash
    <2>5. QED
      BY <1>7, <2>1, <2>3, <2>4 DEF TypeOK, Crash
  <1>8. ASSUME NEW n \in Node, Restart(n) PROVE TypeOK'
    BY <1>8 DEF TypeOK, Restart
  <1>9. CASE UNCHANGED vars
    BY <1>9 DEF TypeOK
  <1>10. QED
    BY <1>1, <1>2, <1>3, <1>4, <1>5, <1>6, <1>7, <1>8, <1>9 DEF Next

\* The pipeline is well typed in every reachable state.
THEOREM TypeCorrect == Spec => []TypeOK
  BY InitType, NextType, PTL DEF Spec

-----------------------------------------------------------------------------
(* Permits *)

\* The set of permit holders is finite, so it has a cardinality.
LEMMA HoldersFinite ==
    ASSUME NEW n, NEW w
    PROVE  IsFiniteSet(Holders(n, w)) /\ Cardinality(Holders(n, w)) \in Nat
  <1>1. IsFiniteSet(1..MaxDeliver)
    BY NodeOpsAssumption, FS_Interval
  <1>2. IsFiniteSet(Task)
    BY <1>1, NodeOpsAssumption, FS_Product DEF Task
  <1>3. Holders(n, w) \subseteq Task
    BY DEF Holders
  <1>4. QED
    BY <1>2, <1>3, FS_Subset, FS_CardinalityType

\* A step of a task that neither takes nor drops a permit changes no holder.
LEMMA HoldersSame ==
    ASSUME TypeOK, NEW t \in Task, NEW v, pc' = [pc EXCEPT ![t] = v],
           OpOf(t) \in Gated => (pc[t] \in Holding <=> v \in Holding),
           NEW n, NEW w
    PROVE  Holders(n, w)' = Holders(n, w)
  <1>1. \A u \in Task : pc'[u] = IF u = t THEN v ELSE pc[u]
    BY DEF TypeOK
  <1>2. QED
    BY <1>1 DEF Holders

\* Dropping the permit on return gives it back to the semaphore.
LEMMA ReturnPermits ==
    ASSUME TypeOK, PermitsConserved, NEW t \in Task, pc[t] \in Holding,
           Return(t), UNCHANGED size
    PROVE  PermitsConserved'
  <1>0. NodeOf(t) \in Node /\ WfOf(t) \in Wf
    BY TaskTypes
  <1>1. \A u \in Task : pc'[u] = IF u = t THEN "returned" ELSE pc[u]
    BY DEF TypeOK, Return
  <1>2. CASE OpOf(t) \notin Gated
    <2>1. \A n, w : Holders(n, w)' = Holders(n, w)
      BY <1>1, <1>2 DEF Holders
    <2>2. QED
      BY <1>2, <2>1 DEF PermitsConserved, Return
  <1>3. CASE OpOf(t) \in Gated
    <2> SUFFICES ASSUME NEW n \in Node, NEW w \in Wf
                 PROVE  free'[n][w] + Cardinality(Holders(n, w)') = size[n][w]
      BY DEF PermitsConserved
    <2>0. /\ free[n][w] \in Nat /\ size[n][w] \in Nat
          /\ free[n][w] + Cardinality(Holders(n, w)) = size[n][w]
          /\ Cardinality(Holders(n, w)) \in Nat
      BY HoldersFinite DEF TypeOK, PermitsConserved
    <2>1. CASE n = NodeOf(t) /\ w = WfOf(t)
      <3>1. t \in Holders(n, w)
        BY <1>3, <2>1 DEF Holders
      <3>2. Holders(n, w)' = Holders(n, w) \ {t}
        BY <1>1, SMTT(30) DEF Holders, Holding
      <3>3. Cardinality(Holders(n, w)') = Cardinality(Holders(n, w)) - 1
        BY <3>1, <3>2, HoldersFinite, FS_RemoveElement
      <3>4. free'[n][w] = free[n][w] + 1
        BY <1>0, <1>3, <2>1 DEF TypeOK, Return
      <3>5. QED
        BY <2>0, <3>3, <3>4
    <2>2. CASE ~ (n = NodeOf(t) /\ w = WfOf(t))
      <3>1. Holders(n, w)' = Holders(n, w)
        BY <1>1, <2>2 DEF Holders
      <3>2. free'[n][w] = free[n][w]
        BY <1>0, <1>3, <2>2 DEF TypeOK, Return
      <3>3. QED
        BY <2>0, <3>1, <3>2
    <2>3. QED
      BY <2>1, <2>2
  <1>4. QED
    BY <1>2, <1>3

\* The first gated operation of a workflow creates its semaphore, at a time
\* when nothing holds a permit of it.
LEMMA EnterPermits ==
    ASSUME TypeOK, PermitsConserved, NEW t \in Task, Enter(t)
    PROVE  PermitsConserved'
  <1>0. NodeOf(t) \in Node /\ WfOf(t) \in Wf /\ OpOf(t) \in Op
    BY TaskTypes
  <1>1. PICK v \in {"parked", "woken"} :
            /\ pc' = [pc EXCEPT ![t] = v]
            /\ OpOf(t) \in Gated => v = "parked"
    BY DEF Enter
  <1>2. \A n, w : Holders(n, w)' = Holders(n, w)
    BY <1>1, HoldersSame DEF Enter, Holding
  <1>3. CASE UNCHANGED <<size, free>>
    BY <1>2, <1>3 DEF PermitsConserved
  <1>4. CASE ~ UNCHANGED <<size, free>>
    <2> DEFINE k == PermitCount(OpOf(t))
    <2>1. /\ size[NodeOf(t)][WfOf(t)] = 0
          /\ size' = [size EXCEPT ![NodeOf(t)][WfOf(t)] = k]
          /\ free' = [free EXCEPT ![NodeOf(t)][WfOf(t)] = k]
      BY <1>4 DEF Enter, semVars
    <2>2. k \in Nat
      BY <1>0, PermitCountPositive
    <2> HIDE DEF k
    <2> SUFFICES ASSUME NEW n \in Node, NEW w \in Wf
                 PROVE  free'[n][w] + Cardinality(Holders(n, w)) = size'[n][w]
      BY <1>2 DEF PermitsConserved
    <2>0. /\ free[n][w] \in Nat /\ size[n][w] \in Nat
          /\ free[n][w] + Cardinality(Holders(n, w)) = size[n][w]
          /\ Cardinality(Holders(n, w)) \in Nat
      BY HoldersFinite DEF TypeOK, PermitsConserved
    <2>3. CASE n = NodeOf(t) /\ w = WfOf(t)
      <3>1. free'[n][w] = k /\ size'[n][w] = k
        BY <1>0, <2>1, <2>3 DEF TypeOK
      <3>2. Cardinality(Holders(n, w)) = 0
        BY <2>0, <2>1, <2>3
      <3>3. QED
        BY <2>2, <3>1, <3>2
    <2>4. CASE ~ (n = NodeOf(t) /\ w = WfOf(t))
      <3>1. free'[n][w] = free[n][w] /\ size'[n][w] = size[n][w]
        BY <1>0, <2>1, <2>4 DEF TypeOK
      <3>2. QED
        BY <2>0, <3>1
    <2>5. QED
      BY <2>3, <2>4
  <1>5. QED
    BY <1>3, <1>4

\* A permit that is taken leaves the semaphore.
LEMMA AcquirePermits ==
    ASSUME TypeOK, PermitsConserved, NEW t \in Task, AcquirePermit(t),
           OpOf(t) \in Gated
    PROVE  PermitsConserved'
  <1>0. NodeOf(t) \in Node /\ WfOf(t) \in Wf
    BY TaskTypes
  <1>1. \A u \in Task : pc'[u] = IF u = t THEN "woken" ELSE pc[u]
    BY DEF TypeOK, AcquirePermit
  <1>2. pc[t] = "parked" /\ free[NodeOf(t)][WfOf(t)] > 0
    BY DEF AcquirePermit
  <1>3. free' = [free EXCEPT ![NodeOf(t)][WfOf(t)] =
                              free[NodeOf(t)][WfOf(t)] - 1]
    BY DEF AcquirePermit
  <1> SUFFICES ASSUME NEW n \in Node, NEW w \in Wf
               PROVE  free'[n][w] + Cardinality(Holders(n, w)') = size[n][w]
    BY DEF PermitsConserved, AcquirePermit
  <1>4. /\ free[n][w] \in Nat /\ size[n][w] \in Nat
        /\ free[n][w] + Cardinality(Holders(n, w)) = size[n][w]
        /\ Cardinality(Holders(n, w)) \in Nat
    BY HoldersFinite DEF TypeOK, PermitsConserved
  <1>5. CASE n = NodeOf(t) /\ w = WfOf(t)
    <2>1. t \notin Holders(n, w)
      BY <1>2 DEF Holders, Holding
    <2>2. Holders(n, w)' = Holders(n, w) \cup {t}
      BY <1>1, <1>5 DEF Holders, Holding
    <2>3. Cardinality(Holders(n, w)') = Cardinality(Holders(n, w)) + 1
      BY <2>1, <2>2, HoldersFinite, FS_AddElement
    <2>4. free'[n][w] = free[n][w] - 1
      BY <1>0, <1>3, <1>5 DEF TypeOK
    <2>5. QED
      BY <1>4, <2>3, <2>4
  <1>6. CASE ~ (n = NodeOf(t) /\ w = WfOf(t))
    <2>1. Holders(n, w)' = Holders(n, w)
      BY <1>1, <1>6 DEF Holders
    <2>2. free'[n][w] = free[n][w]
      BY <1>0, <1>3, <1>6 DEF TypeOK
    <2>3. QED
      BY <1>4, <2>1, <2>2
  <1>7. QED
    BY <1>5, <1>6

-----------------------------------------------------------------------------
(* The inductive invariant *)

\* Only gated operations queue on a semaphore.
ParkedGated == \A t \in Task : pc[t] = "parked" => OpOf(t) \in Gated

\* A task that a halt found in the queue has not got past the halt check, and
\* while it has not reached that check its workflow is still halted.
HaltStillSeen ==
    \A t \in parkedAtHalt :
        /\ pc[t] \in {"parked", "woken", "returned", "over", "dead"}
        /\ pc[t] \in {"parked", "woken"} => WfOf(t) \in cancelled[NodeOf(t)]

\* A workflow in CANCELLED_WORKFLOWS was halted.
CancelledWasHalted == \A n \in Node : cancelled[n] \subseteq everHalted[n]

\* When run_operation has returned, its message is already accounted for.
ReturnedAccounted == \A t \in Task : pc[t] = "returned" => Accounted(t[1])

Inv ==
    /\ TypeOK
    /\ ParkedGated
    /\ PermitsConserved
    /\ SerialOpsRunOnce
    /\ HaltStillSeen
    /\ ClaimExclusive
    /\ CancelledWasHalted
    /\ ReturnedAccounted
    /\ NoSilentLoss

\* A step of run_operation moves one task and touches neither the halt set nor
\* the history.
LEMMA RunFrame ==
    ASSUME TypeOK, NEW t \in Task, RunOperation(t)
    PROVE  /\ \A u \in Task : u # t => pc'[u] = pc[u]
           /\ UNCHANGED <<up, cancelled, histVars>>
  BY DEF TypeOK, RunOperation, ClaimStep, EngineStep, Enter, AcquirePermit,
         CheckCancelled, CheckDone, ClaimWon, ClaimLost, ClaimUnread, ClaimFailed,
         EngineUnreachable, EngineHalted, EngineEnds, UnknownType, MarkDone,
         Report, Ack, Return

\* A task is queued on a semaphore only if its operation is gated.
LEMMA ParkedGatedNext == TypeOK /\ ParkedGated /\ [Next]_vars => ParkedGated'
  <1> SUFFICES ASSUME TypeOK, ParkedGated, [Next]_vars PROVE ParkedGated'
    OBVIOUS
  <1>1. ASSUME NEW t \in Task, RunOperation(t) PROVE ParkedGated'
    <2>1. pc'[t] = "parked" => OpOf(t) \in Gated
      BY <1>1 DEF TypeOK, ParkedGated, RunOperation, ClaimStep, EngineStep,
         Enter, AcquirePermit, CheckCancelled, CheckDone, ClaimWon, ClaimLost, ClaimUnread,
         ClaimFailed, EngineUnreachable, EngineHalted, EngineEnds, UnknownType,
         MarkDone, Report, Ack, Return
    <2>2. QED
      BY <1>1, <2>1, RunFrame DEF ParkedGated
  <1>2. ASSUME NEW m \in Msg, PushDeliver(m) PROVE ParkedGated'
    BY <1>2 DEF TypeOK, ParkedGated, PushDeliver
  <1>3. ASSUME NEW m \in Msg, NEW d \in 1..MaxDeliver, PullDeliver(m, d)
        PROVE  ParkedGated'
    BY <1>3 DEF TypeOK, ParkedGated, PullDeliver
  <1>4. ASSUME NEW n \in Node, Crash(n) PROVE ParkedGated'
    BY <1>4 DEF ParkedGated, Crash
  <1>5. CASE UNCHANGED pc
    BY <1>5 DEF ParkedGated
  <1>6. QED
    BY <1>1, <1>2, <1>3, <1>4, <1>5
       DEF Next, vars, Dispatch, CancelWorkflow, ResumeWorkflow, Restart

\* Permits are conserved by every step.
LEMMA PermitsNext ==
    TypeOK /\ ParkedGated /\ PermitsConserved /\ [Next]_vars
        => PermitsConserved'
  <1> SUFFICES ASSUME TypeOK, ParkedGated, PermitsConserved, [Next]_vars
               PROVE  PermitsConserved'
    OBVIOUS
  <1>0. ASSUME UNCHANGED <<size, free>>,
               \A n \in Node, w \in Wf : Holders(n, w)' = Holders(n, w)
        PROVE  PermitsConserved'
    BY <1>0 DEF PermitsConserved
  <1>1. ASSUME NEW t \in Task, RunOperation(t) PROVE PermitsConserved'
    <2>1. CASE Enter(t)
      BY <2>1, EnterPermits
    <2>2. CASE AcquirePermit(t)
      BY <2>2, AcquirePermits DEF ParkedGated, AcquirePermit
    <2>3. CASE /\ pc[t] \in Holding
               /\ Return(t)
               /\ UNCHANGED size
      BY <2>3, ReturnPermits
    <2>4. CASE /\ UNCHANGED <<size, free>>
               /\ \E v : /\ pc' = [pc EXCEPT ![t] = v]
                         /\ pc[t] \in Holding <=> v \in Holding
      BY <1>0, <2>4, HoldersSame
    <2>5. QED
      BY <1>1, <2>1, <2>2, <2>3, <2>4
         DEF RunOperation, ClaimStep, EngineStep, CheckCancelled, CheckDone,
             ClaimWon, ClaimLost, ClaimUnread, ClaimFailed, EngineUnreachable, EngineHalted,
             EngineEnds, UnknownType, MarkDone, Report, Ack, Holding, semVars
  <1>2. ASSUME NEW m \in Msg, PushDeliver(m) PROVE PermitsConserved'
    <2>1. \A u \in Task : pc'[u] = pc[u]
                          \/ (pc'[u] \notin Holding /\ pc[u] \notin Holding)
      BY <1>2 DEF TypeOK, PushDeliver, Holding
    <2>2. QED
      BY <1>0, <1>2, <2>1 DEF Holders, PushDeliver, semVars
  <1>3. ASSUME NEW m \in Msg, NEW d \in 1..MaxDeliver, PullDeliver(m, d)
        PROVE  PermitsConserved'
    <2>1. <<m, d>> \in Task /\ pc[<<m, d>>] = "none"
      BY <1>3 DEF PullDeliver, NextDelivery, Task
    <2>2. pc' = [pc EXCEPT ![<<m, d>>] = "ready"] /\ UNCHANGED <<size, free>>
      BY <1>3 DEF PullDeliver, semVars
    <2>3. \A n \in Node, w \in Wf : Holders(n, w)' = Holders(n, w)
      BY <2>1, <2>2, HoldersSame DEF Holding
    <2>4. QED
      BY <1>0, <2>2, <2>3
  <1>4. ASSUME NEW k \in Node, Crash(k) PROVE PermitsConserved'
    <2> SUFFICES ASSUME NEW n \in Node, NEW w \in Wf
                 PROVE  free'[n][w] + Cardinality(Holders(n, w)') = size'[n][w]
      BY DEF PermitsConserved
    <2>1. CASE n = k
      <3>1. Holders(n, w)' = {}
        BY <1>4, <2>1 DEF Crash, Holders, Holding, Live
      <3>2. free'[n][w] = 0 /\ size'[n][w] = 0
        BY <1>4, <2>1 DEF Crash, TypeOK
      <3>3. QED
        BY <3>1, <3>2, FS_EmptySet
    <2>2. CASE n # k
      <3>1. Holders(n, w)' = Holders(n, w)
        BY <1>4, <2>2 DEF Crash, Holders
      <3>2. free'[n][w] = free[n][w] /\ size'[n][w] = size[n][w]
        BY <1>4, <2>2 DEF Crash, TypeOK
      <3>3. QED
        BY <3>1, <3>2 DEF PermitsConserved
    <2>3. QED
      BY <2>1, <2>2
  <1>5. CASE UNCHANGED <<pc, size, free>>
    BY <1>0, <1>5 DEF Holders
  <1>6. QED
    BY <1>1, <1>2, <1>3, <1>4, <1>5
       DEF Next, vars, semVars, Dispatch, CancelWorkflow, ResumeWorkflow, Restart

-----------------------------------------------------------------------------
(* One permit serializes an operation *)

\* Two holders need two permits.
LEMMA TwoHolders ==
    ASSUME TypeOK, PermitsConserved, NEW n \in Node, NEW w \in Wf,
           NEW t \in Holders(n, w), NEW u \in Holders(n, w), t # u
    PROVE  size[n][w] >= 2
  <1>1. IsFiniteSet({t}) /\ Cardinality({t}) = 1
    BY FS_Singleton
  <1>2. Cardinality({t} \cup {u}) = 2
    <2>1. Cardinality({t} \cup {u})
              = IF u \in {t} THEN Cardinality({t}) ELSE Cardinality({t}) + 1
      BY <1>1, FS_AddElement, Zenon
    <2>2. QED
      BY <1>1, <2>1
  <1>3. {t} \cup {u} \in SUBSET Holders(n, w)
    OBVIOUS
  <1>4. 2 <= Cardinality(Holders(n, w))
    BY <1>2, <1>3, HoldersFinite, FS_Subset
  <1>5. QED
    BY <1>4, HoldersFinite DEF TypeOK, PermitsConserved

\* A semaphore with a holder exists.
LEMMA HolderMeansSemaphore ==
    ASSUME TypeOK, PermitsConserved, NEW n \in Node, NEW w \in Wf,
           NEW t \in Holders(n, w)
    PROVE  size[n][w] # 0
  <1>1. Cardinality(Holders(n, w)) # 0
    BY HoldersFinite, FS_EmptySet
  <1>2. QED
    BY <1>1, HoldersFinite DEF TypeOK, PermitsConserved

\* Every step keeps SerialOpsRunOnce: with one permit, the task that marks an
\* operation done is the only one past the semaphore.
LEMMA SerialNext ==
    TypeOK /\ PermitsConserved /\ SerialOpsRunOnce /\ [Next]_vars
        => SerialOpsRunOnce'
  <1> SUFFICES ASSUME TypeOK, PermitsConserved, SerialOpsRunOnce, [Next]_vars,
                      NEW t \in Task, OpOf(t) \in Gated,
                      size'[NodeOf(t)][WfOf(t)] = 1,
                      pc'[t] \in {"claim", "engine", "finish"}
               PROVE  OpOf(t) \notin done'[NodeOf(t)]
    BY DEF SerialOpsRunOnce
  <1> DEFINE n == NodeOf(t)
             w == WfOf(t)
             Past == {"claim", "engine", "finish"}
  <1>0. n \in Node /\ w \in Wf
    BY TaskTypes
  <1>1. ASSUME pc[t] \in Past, done'[n] = done[n], size'[n][w] = size[n][w]
        PROVE  OpOf(t) \notin done'[n]
    BY <1>1 DEF SerialOpsRunOnce
  <1>2. ASSUME NEW u \in Task, RunOperation(u) PROVE OpOf(t) \notin done'[n]
    <2>1. CASE Enter(u)
      <3>1. t # u /\ pc[t] = pc'[t] /\ done' = done
        BY <2>1 DEF Enter, TypeOK
      <3>2. t \in Holders(n, w)
        BY <3>1 DEF Holders, Holding
      <3>3. size[n][w] # 0
        BY <1>0, <3>2, HolderMeansSemaphore
      <3>4. size'[n][w] = size[n][w]
        <4>1. CASE size' = size
          BY <4>1
        <4>2. CASE size' # size
          <5>1. /\ size[NodeOf(u)][WfOf(u)] = 0
                /\ size' = [size EXCEPT ![NodeOf(u)][WfOf(u)]
                                            = PermitCount(OpOf(u))]
            BY <2>1, <4>2 DEF Enter, semVars
          <5>2. ~ (NodeOf(u) = n /\ WfOf(u) = w)
            BY <3>3, <5>1
          <5>3. QED
            BY <1>0, <5>1, <5>2, TaskTypes DEF TypeOK
        <4>3. QED
          BY <4>1, <4>2
      <3>5. QED
        BY <1>1, <3>1, <3>4
    <2>2. CASE MarkDone(u)
      <3>1. t # u /\ pc[t] = pc'[t] /\ size' = size
        BY <2>2 DEF MarkDone, TypeOK, semVars
      <3>2. t \in Holders(n, w) /\ pc[u] \in Holding
        BY <2>2, <3>1 DEF Holders, Holding, MarkDone
      <3>3. ~ (NodeOf(u) = n /\ OpOf(u) = OpOf(t))
        <4> SUFFICES ASSUME NodeOf(u) = n, OpOf(u) = OpOf(t) PROVE FALSE
          OBVIOUS
        <4>1. u \in Holders(n, w)
          BY <3>2 DEF Holders, WfOf
        <4>2. size[n][w] >= 2
          BY <1>0, <3>1, <3>2, <4>1, TwoHolders
        <4>3. QED
          BY <3>1, <4>2
      <3>4. OpOf(t) \notin done[n]
        BY <3>1 DEF SerialOpsRunOnce
      <3>5. QED
        BY <1>0, <2>2, <3>3, <3>4 DEF MarkDone, TypeOK
    <2>3. CASE CheckDone(u)
      BY <1>0, <1>1, <2>3 DEF CheckDone, TypeOK, Return
    <2>4. CASE /\ ~ Enter(u)
               /\ ~ MarkDone(u)
               /\ ~ CheckDone(u)
      <3>1. done' = done /\ size' = size /\ pc[t] \in Past
        BY <1>2, <2>4
           DEF RunOperation, ClaimStep, EngineStep, AcquirePermit,
               CheckCancelled, ClaimWon, ClaimLost, ClaimUnread, ClaimFailed,
               EngineUnreachable, EngineHalted, EngineEnds, UnknownType,
               Report, Ack, Return, TypeOK, semVars
      <3>2. QED
        BY <1>1, <3>1
    <2>5. QED
      BY <2>1, <2>2, <2>3, <2>4
  <1>3. ASSUME NEW m \in Msg, PushDeliver(m) PROVE OpOf(t) \notin done'[n]
    BY <1>1, <1>3 DEF PushDeliver, TypeOK, semVars
  <1>4. ASSUME NEW m \in Msg, NEW d \in 1..MaxDeliver, PullDeliver(m, d)
        PROVE  OpOf(t) \notin done'[n]
    BY <1>1, <1>4 DEF PullDeliver, TypeOK, semVars
  <1>5. ASSUME NEW k \in Node, Crash(k) PROVE OpOf(t) \notin done'[n]
    BY <1>0, <1>1, <1>5 DEF Crash, TypeOK, Live, Holding
  <1>6. CASE UNCHANGED <<pc, done, size>>
    BY <1>1, <1>6
  <1>7. QED
    BY <1>2, <1>3, <1>4, <1>5, <1>6
       DEF Next, vars, semVars, Dispatch, CancelWorkflow, ResumeWorkflow, Restart

-----------------------------------------------------------------------------
(* Halt *)

\* A task queued when its workflow was halted still finds the halt when it
\* looks, until a resume forgets it.
LEMMA HaltNext == TypeOK /\ HaltStillSeen /\ [Next]_vars => HaltStillSeen'
  <1> SUFFICES ASSUME TypeOK, HaltStillSeen, [Next]_vars PROVE HaltStillSeen'
    OBVIOUS
  <1>1. ASSUME NEW t \in Task, RunOperation(t) PROVE HaltStillSeen'
    <2>1. UNCHANGED <<cancelled, parkedAtHalt>>
      BY <1>1, RunFrame DEF histVars
    <2>2. ASSUME t \in parkedAtHalt
          PROVE  /\ pc'[t] \in {"woken", "returned", "over"}
                 /\ pc'[t] = "woken" => WfOf(t) \in cancelled[NodeOf(t)]
      BY <1>1, <2>2
         DEF TypeOK, HaltStillSeen, RunOperation, ClaimStep, EngineStep, Enter,
             AcquirePermit, CheckCancelled, CheckDone, ClaimWon, ClaimLost, ClaimUnread,
             ClaimFailed, EngineUnreachable, EngineHalted, EngineEnds,
             UnknownType, MarkDone, Report, Ack, Return
    <2>3. QED
      BY <1>1, <2>1, <2>2, RunFrame, ZenonT(30) DEF HaltStillSeen, TypeOK
  <1>2. ASSUME NEW m \in Msg, PushDeliver(m) PROVE HaltStillSeen'
    BY <1>2 DEF TypeOK, HaltStillSeen, PushDeliver, histVars
  <1>3. ASSUME NEW m \in Msg, NEW d \in 1..MaxDeliver, PullDeliver(m, d)
        PROVE  HaltStillSeen'
    BY <1>3 DEF TypeOK, HaltStillSeen, PullDeliver, NextDelivery, histVars
  <1>4. ASSUME NEW n \in Node, NEW w \in Wf, CancelWorkflow(n, w)
        PROVE  HaltStillSeen'
    BY <1>4 DEF TypeOK, HaltStillSeen, CancelWorkflow
  <1>5. ASSUME NEW n \in Node, NEW w \in Wf, ResumeWorkflow(n, w)
        PROVE  HaltStillSeen'
    BY <1>5, TaskTypes DEF TypeOK, HaltStillSeen, ResumeWorkflow
  <1>6. ASSUME NEW n \in Node, Crash(n) PROVE HaltStillSeen'
    BY <1>6, TaskTypes DEF TypeOK, HaltStillSeen, Crash, Live, Holding
  <1>7. CASE UNCHANGED <<pc, cancelled, parkedAtHalt>>
    BY <1>7 DEF HaltStillSeen
  <1>8. QED
    BY <1>1, <1>2, <1>3, <1>4, <1>5, <1>6, <1>7
       DEF Next, vars, histVars, Dispatch, Restart

\* A workflow that is halted now was halted at some time.
LEMMA CancelledNext ==
    TypeOK /\ CancelledWasHalted /\ [Next]_vars => CancelledWasHalted'
  <1> SUFFICES ASSUME TypeOK, CancelledWasHalted, [Next]_vars
               PROVE  CancelledWasHalted'
    OBVIOUS
  <1>1. ASSUME NEW t \in Task, RunOperation(t) PROVE CancelledWasHalted'
    BY <1>1, RunFrame DEF CancelledWasHalted, histVars
  <1>2. ASSUME NEW n \in Node, NEW w \in Wf, CancelWorkflow(n, w)
        PROVE  CancelledWasHalted'
    BY <1>2 DEF TypeOK, CancelledWasHalted, CancelWorkflow
  <1>3. ASSUME NEW n \in Node, NEW w \in Wf, ResumeWorkflow(n, w)
        PROVE  CancelledWasHalted'
    BY <1>3 DEF TypeOK, CancelledWasHalted, ResumeWorkflow
  <1>4. ASSUME NEW n \in Node, Crash(n) PROVE CancelledWasHalted'
    BY <1>4 DEF TypeOK, CancelledWasHalted, Crash
  <1>5. CASE UNCHANGED <<cancelled, everHalted>>
    BY <1>5 DEF CancelledWasHalted
  <1>6. QED
    BY <1>1, <1>2, <1>3, <1>4, <1>5
       DEF Next, vars, histVars, Dispatch, PushDeliver, PullDeliver, Restart

-----------------------------------------------------------------------------
(* Claims *)

\* Every step keeps ClaimExclusive: a claim never changes hands.
LEMMA ClaimNext == TypeOK /\ ClaimExclusive /\ [Next]_vars => ClaimExclusive'
  <1> SUFFICES ASSUME TypeOK, ClaimExclusive, [Next]_vars,
                      NEW t \in Task, OpOf(t) \in MustClaim,
                      pc'[t] \in {"engine", "finish", "marked"}
               PROVE  claimedBy'[OpOf(t)] = NodeOf(t)
    BY DEF ClaimExclusive
  <1> DEFINE Running == {"engine", "finish", "marked"}
  <1>0. OpOf(t) \in Op /\ NodeOf(t) \in Node
    BY TaskTypes
  <1>1. ASSUME pc[t] \in Running, claimedBy' = claimedBy
        PROVE  claimedBy'[OpOf(t)] = NodeOf(t)
    BY <1>1 DEF ClaimExclusive
  <1>2. ASSUME NEW u \in Task, RunOperation(u)
        PROVE  claimedBy'[OpOf(t)] = NodeOf(t)
    <2>1. CASE ClaimWon(u)
      <3>1. CASE t = u
        BY <1>0, <2>1, <3>1 DEF ClaimWon, TypeOK
      <3>2. CASE t # u
        <4>1. claimedBy[OpOf(t)] = NodeOf(t)
          BY <2>1, <3>2 DEF ClaimWon, TypeOK, ClaimExclusive
        <4>2. OpOf(u) = OpOf(t) => NodeOf(u) = NodeOf(t)
          BY <1>0, <2>1, <4>1, NodeOpsAssumption DEF ClaimWon, Granted
        <4>3. QED
          BY <1>0, <2>1, <4>1, <4>2 DEF ClaimWon, TypeOK
      <3>3. QED
        BY <3>1, <3>2
    <2>2. CASE ClaimFailed(u)
      <3>1. claimedBy[OpOf(t)] = NodeOf(t)
        BY <2>2 DEF ClaimFailed, Return, TypeOK, ClaimExclusive
      <3>2. QED
        BY <1>0, <2>2, <3>1, NodeOpsAssumption DEF ClaimFailed, TypeOK
    <2>2a. CASE ClaimUnread(u)
      <3>1. claimedBy[OpOf(t)] = NodeOf(t)
        BY <2>2a DEF ClaimUnread, Return, TypeOK, ClaimExclusive
      <3>2. QED
        BY <1>0, <2>2a, <3>1, NodeOpsAssumption DEF ClaimUnread, Granted, TypeOK
    <2>3. CASE ~ ClaimWon(u) /\ ~ ClaimFailed(u) /\ ~ ClaimUnread(u)
      <3>1. claimedBy' = claimedBy /\ pc[t] \in Running
        BY <1>2, <2>3
           DEF TypeOK, RunOperation, ClaimStep, EngineStep, Enter,
               AcquirePermit, CheckCancelled, CheckDone, ClaimLost,
               EngineUnreachable, EngineHalted, EngineEnds, UnknownType,
               MarkDone, Report, Ack, Return, cpVars
      <3>2. QED
        BY <1>1, <3>1
    <2>4. QED
      BY <2>1, <2>2, <2>2a, <2>3
  <1>3. ASSUME NEW m \in Msg, PushDeliver(m)
        PROVE  claimedBy'[OpOf(t)] = NodeOf(t)
    BY <1>1, <1>3 DEF PushDeliver, TypeOK, cpVars
  <1>4. ASSUME NEW m \in Msg, NEW d \in 1..MaxDeliver, PullDeliver(m, d)
        PROVE  claimedBy'[OpOf(t)] = NodeOf(t)
    BY <1>1, <1>4 DEF PullDeliver, TypeOK, cpVars
  <1>5. ASSUME NEW n \in Node, Crash(n)
        PROVE  claimedBy'[OpOf(t)] = NodeOf(t)
    BY <1>1, <1>5 DEF Crash, TypeOK, cpVars
  <1>6. CASE UNCHANGED <<pc, claimedBy>>
    BY <1>1, <1>6
  <1>7. QED
    BY <1>2, <1>3, <1>4, <1>5, <1>6
       DEF Next, vars, cpVars, Dispatch, CancelWorkflow, ResumeWorkflow, Restart

-----------------------------------------------------------------------------
(* Nothing vanishes *)

\* What has been accounted for stays accounted for.
LEMMA AccountedStable ==
    ASSUME TypeOK, [Next]_vars, NEW m \in Msg, Accounted(m)
    PROVE  Accounted(m)'
  <1> USE DEF Accounted
  <1>0. MsgOp[m] \in Op /\ MsgNode[m] \in Node /\ OpWf[MsgOp[m]] \in Wf
    BY NodeOpsAssumption
  <1>1. ASSUME NEW t \in Task, RunOperation(t) PROVE Accounted(m)'
    <2>0. OpOf(t) \in Op /\ NodeOf(t) \in Node
      BY TaskTypes
    <2>1. everHalted' = everHalted
      BY <1>1, RunFrame DEF histVars
    <2>2. /\ reported \subseteq reported' /\ failedOps \subseteq failedOps'
          /\ misread \subseteq misread'
      BY <1>1
         DEF RunOperation, ClaimStep, EngineStep, Enter, AcquirePermit,
             CheckCancelled, CheckDone, ClaimWon, ClaimLost, ClaimUnread, ClaimFailed,
             EngineUnreachable, EngineHalted, EngineEnds, UnknownType,
             MarkDone, Report, Ack, cpVars
    <2>3. \/ claimedBy' = claimedBy
          \/ /\ claimedBy[OpOf(t)] \in {NoNode, NodeOf(t)}
             /\ claimedBy' = [claimedBy EXCEPT ![OpOf(t)] = NodeOf(t)]
      BY <1>1
         DEF RunOperation, ClaimStep, EngineStep, Enter, AcquirePermit,
             CheckCancelled, CheckDone, ClaimWon, ClaimLost, ClaimUnread, ClaimFailed,
             EngineUnreachable, EngineHalted, EngineEnds, UnknownType,
             MarkDone, Report, Ack, cpVars, Granted
    <2>4. claimedBy[MsgOp[m]] \notin {NoNode, MsgNode[m]}
             => claimedBy'[MsgOp[m]] \notin {NoNode, MsgNode[m]}
      BY <1>0, <2>0, <2>3, NodeOpsAssumption DEF TypeOK
    <2>5. QED
      BY <2>1, <2>2, <2>4
  <1>2. ASSUME NEW n \in Node, NEW w \in Wf, CancelWorkflow(n, w)
        PROVE  Accounted(m)'
    BY <1>0, <1>2 DEF CancelWorkflow, TypeOK, cpVars
  <1>3. CASE UNCHANGED <<reported, failedOps, misread, claimedBy, everHalted>>
    BY <1>3
  <1>4. QED
    BY <1>1, <1>2, <1>3
       DEF Next, vars, cpVars, histVars, Dispatch, PushDeliver, PullDeliver,
           ResumeWorkflow, Crash, Restart

\* A task that has returned from run_operation left its operation accounted
\* for.
LEMMA ReturnedNext ==
    TypeOK /\ CancelledWasHalted /\ ReturnedAccounted /\ [Next]_vars
        => ReturnedAccounted'
  <1> SUFFICES ASSUME TypeOK, CancelledWasHalted, ReturnedAccounted,
                      [Next]_vars, NEW t \in Task, pc'[t] = "returned"
               PROVE  Accounted(t[1])'
    BY DEF ReturnedAccounted
  <1>0. t[1] \in Msg /\ NodeOf(t) \in Node
    BY TaskTypes
  <1>1. CASE pc[t] = "returned"
    BY <1>0, <1>1, AccountedStable DEF ReturnedAccounted
  <1>2. ASSUME pc[t] # "returned", NEW u \in Task, RunOperation(u)
        PROVE  Accounted(t[1])'
    <2>1. t = u
      BY <1>2, RunFrame
    <2>2. \/ CheckCancelled(t) \/ CheckDone(t) \/ ClaimLost(t) \/ ClaimUnread(t)
          \/ ClaimFailed(t) \/ EngineUnreachable(t) \/ EngineHalted(t) \/ UnknownType(t)
          \/ Report(t)
      BY <1>2, <2>1
         DEF TypeOK, RunOperation, ClaimStep, EngineStep, Enter, AcquirePermit,
             ClaimWon, EngineEnds, MarkDone, Ack
    <2>3. CASE CheckCancelled(t) \/ EngineHalted(t)
      BY <1>0, <2>3
         DEF CheckCancelled, EngineHalted, Accounted, CancelledWasHalted,
             TypeOK, histVars, OpOf, NodeOf, WfOf
    <2>4. CASE CheckDone(t) \/ ClaimFailed(t) \/ Report(t)
      BY <1>0, <2>4
         DEF CheckDone, ClaimFailed, Report, Accounted, TypeOK, OpOf, NodeOf
    <2>5. CASE ClaimLost(t)
      BY <1>0, <2>5 DEF ClaimLost, Granted, Accounted, cpVars, OpOf, NodeOf
    <2>5a. CASE ClaimUnread(t)
      BY <1>0, <2>5a DEF ClaimUnread, Accounted, OpOf, NodeOf
    <2>6. CASE EngineUnreachable(t)
      BY <1>0, <2>6 DEF EngineUnreachable, Accounted, TypeOK, OpOf
    <2>7. CASE UnknownType(t)
      BY <1>0, <2>7 DEF UnknownType, Accounted, OpOf
    <2>8. QED
      BY <2>2, <2>3, <2>4, <2>5, <2>5a, <2>6, <2>7
  <1>3. CASE /\ pc[t] # "returned"
             /\ \A u \in Task : ~ RunOperation(u)
    <2>1. ASSUME NEW m \in Msg, PushDeliver(m) PROVE pc'[t] # "returned"
      BY <1>3, <2>1 DEF TypeOK, PushDeliver
    <2>2. ASSUME NEW m \in Msg, NEW d \in 1..MaxDeliver, PullDeliver(m, d)
          PROVE  pc'[t] # "returned"
      BY <1>3, <2>2 DEF TypeOK, PullDeliver
    <2>3. ASSUME NEW n \in Node, Crash(n) PROVE pc'[t] # "returned"
      BY <1>3, <2>3 DEF Crash
    <2>4. QED
      BY <1>3, <2>1, <2>2, <2>3
         DEF Next, vars, Dispatch, CancelWorkflow, ResumeWorkflow, Restart
  <1>4. QED
    BY <1>1, <1>2, <1>3

\* Every step keeps NoSilentLoss: only a task that has returned acknowledges.
LEMMA NoLossNext ==
    TypeOK /\ ReturnedAccounted /\ NoSilentLoss /\ [Next]_vars => NoSilentLoss'
  <1> SUFFICES ASSUME TypeOK, ReturnedAccounted, NoSilentLoss, [Next]_vars,
                      NEW m \in Pulled, msg'[m] = "acked"
               PROVE  Accounted(m)'
    BY DEF NoSilentLoss
  <1>0. m \in Msg
    BY NodeOpsAssumption
  <1>1. CASE msg[m] = "acked"
    BY <1>0, <1>1, AccountedStable DEF NoSilentLoss
  <1>2. CASE msg[m] # "acked"
    <2>1. PICK t \in Task : Ack(t) /\ t[1] = m
      BY <1>0, <1>2, TaskTypes, ZenonT(30)
         DEF TypeOK, Next, vars, Dispatch, PushDeliver, PullDeliver,
             CancelWorkflow, ResumeWorkflow, Crash, Restart,
             RunOperation, ClaimStep, EngineStep, Enter, AcquirePermit,
             CheckCancelled, CheckDone, ClaimWon, ClaimLost, ClaimUnread, ClaimFailed,
             EngineUnreachable, EngineHalted, EngineEnds, UnknownType,
             MarkDone, Report, Ack
    <2>2. Accounted(m)
      BY <2>1 DEF Ack, ReturnedAccounted
    <2>3. QED
      BY <1>0, <2>2, AccountedStable
  <1>3. QED
    BY <1>1, <1>2

-----------------------------------------------------------------------------
(* The theorems *)

\* The invariant holds initially.
LEMMA InitInv == Init => Inv
  <1> SUFFICES ASSUME Init PROVE Inv
    OBVIOUS
  <1>1. TypeOK
    BY InitType
  <1>2. PermitsConserved
    <2> SUFFICES ASSUME NEW n \in Node, NEW w \in Wf
                 PROVE  free[n][w] + Cardinality(Holders(n, w)) = size[n][w]
      BY DEF PermitsConserved
    <2>1. Holders(n, w) = {}
      BY DEF Init, Holders, Holding
    <2>2. free[n][w] = 0 /\ size[n][w] = 0
      BY DEF Init
    <2>3. QED
      BY <2>1, <2>2, FS_EmptySet
  <1>3. ParkedGated /\ SerialOpsRunOnce /\ HaltStillSeen /\ ClaimExclusive
    BY DEF Init, ParkedGated, SerialOpsRunOnce, HaltStillSeen, ClaimExclusive
  <1>4. CancelledWasHalted /\ ReturnedAccounted /\ NoSilentLoss
    BY NodeOpsAssumption
       DEF Init, CancelledWasHalted, ReturnedAccounted, NoSilentLoss
  <1>5. QED
    BY <1>1, <1>2, <1>3, <1>4 DEF Inv

\* Inv is an invariant of the pipeline: it holds initially and every step of
\* the node, the broker and the control plane preserves it.
THEOREM Invariance == Spec => []Inv
  <1>1. Inv /\ [Next]_vars => Inv'
    BY NextType, ParkedGatedNext, PermitsNext, SerialNext, HaltNext, ClaimNext,
       CancelledNext, ReturnedNext, NoLossNext DEF Inv
  <1>2. QED
    BY InitInv, <1>1, PTL DEF Spec

\* The semaphore never leaks and never invents a permit, whichever of the
\* return paths of run_operation a task takes.
THEOREM PermitsTheorem == Spec => []PermitsConserved
  <1>1. Inv => PermitsConserved
    BY DEF Inv
  <1>2. QED
    BY Invariance, <1>1, PTL

\* With one permit per workflow an operation completes at most once in the
\* life of a node process, however often it is dispatched or redelivered.
THEOREM SerialTheorem == Spec => []SerialOpsRunOnce
  <1>1. Inv => SerialOpsRunOnce
    BY DEF Inv
  <1>2. QED
    BY Invariance, <1>1, PTL

\* A probe queued on the semaphore at the time of a halt does not fire.
THEOREM HaltTheorem == Spec => []HaltDropsParked
  <1>1. Inv => HaltDropsParked
    BY DEF Inv, HaltStillSeen, HaltDropsParked
  <1>2. QED
    BY Invariance, <1>1, PTL

\* Only the owner of the claim runs an operation that must be claimed.
THEOREM ClaimTheorem == Spec => []ClaimExclusive
  <1>1. Inv => ClaimExclusive
    BY DEF Inv
  <1>2. QED
    BY Invariance, <1>1, PTL

\* A message leaves the work queue only when its operation is accounted for.
THEOREM NoSilentLossTheorem == Spec => []NoSilentLoss
  <1>1. Inv => NoSilentLoss
    BY DEF Inv
  <1>2. QED
    BY Invariance, <1>1, PTL
=============================================================================
