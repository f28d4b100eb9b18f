------------------------------ MODULE NodeOps ------------------------------
(***************************************************************************)
(* The node agent's operation pipeline: run_operation and the two ways an  *)
(* operation message reaches it (the durable pull consumer and the push    *)
(* subscription), the per-workflow semaphore, halt and resume, the claim   *)
(* race between nodes, DONE_OPS, and a crash of the node process.          *)
(*                                                                         *)
(* A Task is one tokio task, that is one delivery of one message: the      *)
(* d-th delivery of message m is <<m, d>>.  JetStream redelivers a message *)
(* that is not acknowledged within ack_wait, so several tasks of the same  *)
(* message can be alive at once; a re-dispatch by the control plane is a   *)
(* second message for the same operation.                                  *)
(***************************************************************************)
EXTENDS Integers, Sequences, FiniteSets

CONSTANTS
    Node, Wf, Op, Msg,
    NoNode,          \* "claimed by nobody"
    OpWf,            \* the workflow of an operation
    OpTasks,         \* its `tasks`/`threads` field, as sent
    Gated,           \* op_type is network-scan-ds or content-discovery-ds
    MustClaim,       \* consumption = "single" and not pre_claimed
    Handler,         \* the handler op_type selects, one of the records below
    MsgOp, MsgNode,  \* the operation in a message, the node it is sent to
    Pulled,          \* messages on the CFX_WORK queue; the others are pushed
    PermitCeiling,   \* 200 in workflow_semaphore
    MaxAckPending,   \* the consumer's max_ack_pending
    MaxDeliver,      \* bound: deliveries of one message
    MaxCrash,        \* bound: crashes
    MaxHalt          \* bound: cancel_workflow commands

\* What the pipeline sees of a handler: whether op_type selects one at all,
\* whether it completes the operation when its engine daemon is unreachable
\* (the others publish completed{code:1} and return), and whether it looks at
\* the halt on every engine event.
Trait == [known: BOOLEAN, completes: BOOLEAN, halts: BOOLEAN]

Shape(completes, halts) == [known |-> TRUE, completes |-> completes, halts |-> halts]

ContentDiscoveryProbe == Shape(TRUE, FALSE)
ContentDiscoveryBatch == Shape(FALSE, TRUE)
WebCrawl              == Shape(FALSE, TRUE)
SubdomainEnum         == Shape(FALSE, TRUE)
Takeover              == Shape(FALSE, TRUE)
OriginDiscovery       == Shape(FALSE, FALSE)
NetworkScanHost       == Shape(FALSE, FALSE)
NetworkScanBatch      == Shape(FALSE, FALSE)
VulnScan              == Shape(FALSE, TRUE)
ServiceEnum           == Shape(FALSE, TRUE)
NoHandler             == [known |-> FALSE, completes |-> FALSE, halts |-> FALSE]

ASSUME NodeOpsAssumption ==
    /\ IsFiniteSet(Msg)
    /\ NoNode \notin Node
    /\ OpWf \in [Op -> Wf]
    /\ OpTasks \in [Op -> Int]
    /\ Gated \subseteq Op
    /\ MustClaim \subseteq Op
    /\ Handler \in [Op -> Trait]
    /\ MsgOp \in [Msg -> Op]
    /\ MsgNode \in [Msg -> Node]
    /\ Pulled \subseteq Msg
    /\ PermitCeiling \in Nat \ {0}
    /\ MaxAckPending \in Nat \ {0}
    /\ MaxDeliver \in Nat \ {0}
    /\ MaxCrash \in Nat
    /\ MaxHalt \in Nat

Task == Msg \X (1..MaxDeliver)

OpOf(t)   == MsgOp[t[1]]
NodeOf(t) == MsgNode[t[1]]
WfOf(t)   == OpWf[OpOf(t)]

VARIABLES
    msg,        \* message: "unsent", "stored" or "acked"
    pc,         \* where the task is in run_operation
    up,         \* the node process is running
    done,       \* DONE_OPS of each node
    cancelled,  \* CANCELLED_WORKFLOWS of each node
    size,       \* WORKFLOW_SEMAPHORES: permits it was created with, 0 = absent
    free,       \* ... permits available now
    waitq,      \* ... tasks queued on it, first come first served
    claimedBy,  \* control plane: winner of the claim
    reported,   \* ops for which an operation_completed was published
    failedOps,  \* ops for which a completed{code:1} was published
    misread,    \* history: claims answered well with a body nobody could read
    crashes, halts,
    everHalted,    \* history: workflows ever halted on each node
    parkedAtHalt   \* history: tasks queued when their workflow was halted

semVars  == <<size, free, waitq>>
cpVars   == <<claimedBy, reported, failedOps, misread>>
histVars == <<crashes, halts, everHalted, parkedAtHalt>>
vars == <<msg, pc, up, done, cancelled, semVars, cpVars, histVars>>

PC == {"none", "ready", "parked", "woken", "checked", "claim", "engine",
       "finish", "marked", "returned", "over", "dead"}

\* Between the acquisition of the permit and the return of run_operation.
Holding == {"woken", "checked", "claim", "engine", "finish", "marked"}

\* The tokio task exists.
Live == Holding \cup {"ready", "parked", "returned"}

TypeOK ==
    /\ msg \in [Msg -> {"unsent", "stored", "acked"}]
    /\ pc \in [Task -> PC]
    /\ up \in [Node -> BOOLEAN]
    /\ done \in [Node -> SUBSET Op]
    /\ cancelled \in [Node -> SUBSET Wf]
    /\ size \in [Node -> [Wf -> Nat]]
    /\ free \in [Node -> [Wf -> Nat]]
    /\ waitq \in [Node -> [Wf -> Seq(Task)]]
    /\ claimedBy \in [Op -> Node \cup {NoNode}]
    /\ reported \subseteq Op
    /\ failedOps \subseteq Op
    /\ misread \subseteq Op \X Node
    /\ crashes \in 0..MaxCrash
    /\ halts \in 0..MaxHalt
    /\ everHalted \in [Node -> SUBSET Wf]
    /\ parkedAtHalt \subseteq Task

Init ==
    /\ msg = [m \in Msg |-> "unsent"]
    /\ pc = [t \in Task |-> "none"]
    /\ up = [n \in Node |-> TRUE]
    /\ done = [n \in Node |-> {}]
    /\ cancelled = [n \in Node |-> {}]
    /\ size = [n \in Node |-> [w \in Wf |-> 0]]
    /\ free = [n \in Node |-> [w \in Wf |-> 0]]
    /\ waitq = [n \in Node |-> [w \in Wf |-> <<>>]]
    /\ claimedBy = [o \in Op |-> NoNode]
    /\ reported = {} /\ failedOps = {} /\ misread = {}
    /\ crashes = 0 /\ halts = 0
    /\ everHalted = [n \in Node |-> {}]
    /\ parkedAtHalt = {}

-----------------------------------------------------------------------------
(* Messages *)

\* The control plane publishes a message (a first dispatch, a re-spray after a
\* resume, or the answer to resume-pending).
Dispatch(m) ==
    /\ msg[m] = "unsent"
    /\ msg' = [msg EXCEPT ![m] = "stored"]
    /\ UNCHANGED <<pc, up, done, cancelled, semVars, cpVars, histVars>>

\* Pulled messages delivered to the node and not yet acknowledged.
AckPending(n) == {m \in Pulled : /\ MsgNode[m] = n
                                 /\ msg[m] = "stored"
                                 /\ pc[<<m, 1>>] # "none"}

NextDelivery(m, d) == /\ d \in 1..MaxDeliver
                      /\ pc[<<m, d>>] = "none"
                      /\ \A e \in 1..(d - 1) : pc[<<m, e>>] # "none"

\* The pull consumer receives a stored message, for the first time if
\* max_ack_pending allows it, or again because ack_wait ran out, and spawns a
\* task for it.
PullDeliver(m, d) ==
    /\ m \in Pulled
    /\ up[MsgNode[m]]
    /\ msg[m] = "stored"
    /\ NextDelivery(m, d)
    /\ d = 1 => Cardinality(AckPending(MsgNode[m])) < MaxAckPending
    /\ pc' = [pc EXCEPT ![<<m, d>>] = "ready"]
    /\ UNCHANGED <<msg, up, done, cancelled, semVars, cpVars, histVars>>

\* The job subscription receives an `operation` command: delivered at most
\* once, and lost when the node is down.
PushDeliver(m) ==
    /\ m \in Msg \ Pulled
    /\ msg[m] = "stored" /\ pc[<<m, 1>>] = "none"
    /\ msg' = [msg EXCEPT ![m] = "acked"]
    /\ pc' = IF up[MsgNode[m]] THEN [pc EXCEPT ![<<m, 1>>] = "ready"] ELSE pc
    /\ UNCHANGED <<up, done, cancelled, semVars, cpVars, histVars>>

-----------------------------------------------------------------------------
(* run_operation *)

\* tasks.max(1) in run_operation, then clamp(1, 200) in workflow_semaphore.
PermitCount(o) ==
    IF OpTasks[o] < 1 THEN 1
    ELSE IF OpTasks[o] > PermitCeiling THEN PermitCeiling
    ELSE OpTasks[o]

\* Gated operations fetch the workflow's semaphore, creating it with their own
\* permit count if it is not there, and queue on it.
Enter(t) ==
    LET n == NodeOf(t)  w == WfOf(t) IN
    /\ pc[t] = "ready"
    /\ IF OpOf(t) \in Gated
       THEN /\ pc' = [pc EXCEPT ![t] = "parked"]
            /\ waitq' = [waitq EXCEPT ![n][w] = Append(@, t)]
            /\ IF size[n][w] = 0
               THEN /\ size' = [size EXCEPT ![n][w] = PermitCount(OpOf(t))]
                    /\ free' = [free EXCEPT ![n][w] = PermitCount(OpOf(t))]
               ELSE UNCHANGED <<size, free>>
       ELSE /\ pc' = [pc EXCEPT ![t] = "woken"]
            /\ UNCHANGED semVars
    /\ UNCHANGED <<msg, up, done, cancelled, cpVars, histVars>>

\* Mutant: a permit is taken without one being free.
AcquireUnguarded(t) ==
    LET n == NodeOf(t)  w == WfOf(t) IN
    /\ pc[t] = "parked"
    /\ waitq[n][w] # <<>> /\ Head(waitq[n][w]) = t
    /\ pc' = [pc EXCEPT ![t] = "woken"]
    /\ free' = [free EXCEPT ![n][w] = @ - 1]
    /\ waitq' = [waitq EXCEPT ![n][w] = Tail(@)]
    /\ UNCHANGED <<msg, up, done, cancelled, size, cpVars, histVars>>

\* The semaphore is fair: the head of the queue gets the next free permit.
AcquirePermit(t) ==
    LET n == NodeOf(t)  w == WfOf(t) IN
    /\ pc[t] = "parked"
    /\ waitq[n][w] # <<>> /\ Head(waitq[n][w]) = t
    /\ free[n][w] > 0
    /\ pc' = [pc EXCEPT ![t] = "woken"]
    /\ free' = [free EXCEPT ![n][w] = @ - 1]
    /\ waitq' = [waitq EXCEPT ![n][w] = Tail(@)]
    /\ UNCHANGED <<msg, up, done, cancelled, size, cpVars, histVars>>

\* Mutant: the permit is forgotten instead of dropped.
ReturnLeaking(t) ==
    /\ pc' = [pc EXCEPT ![t] = "returned"]
    /\ UNCHANGED free

\* run_operation returns: the permit is dropped, the acknowledgement is next.
Return(t) ==
    /\ pc' = [pc EXCEPT ![t] = "returned"]
    /\ free' = IF OpOf(t) \in Gated
               THEN [free EXCEPT ![NodeOf(t)][WfOf(t)] = @ + 1]
               ELSE free

\* Mutant: the halt is not looked at after the wake-up.
CheckCancelledSkipped(t) ==
    /\ pc[t] = "woken"
    /\ pc' = [pc EXCEPT ![t] = "checked"]
    /\ UNCHANGED <<msg, up, done, cancelled, semVars, cpVars, histVars>>

CheckCancelled(t) ==
    /\ pc[t] = "woken"
    /\ IF WfOf(t) \in cancelled[NodeOf(t)]
       THEN Return(t)
       ELSE pc' = [pc EXCEPT ![t] = "checked"] /\ UNCHANGED free
    /\ UNCHANGED <<msg, up, done, cancelled, size, waitq, cpVars, histVars>>

\* Mutant: DONE_OPS is not consulted.
CheckDoneSkipped(t) ==
    /\ pc[t] = "checked"
    /\ pc' = [pc EXCEPT ![t] = IF OpOf(t) \in MustClaim THEN "claim" ELSE "engine"]
    /\ UNCHANGED <<msg, up, done, cancelled, semVars, cpVars, histVars>>

\* An operation this process already completed is not run again, only
\* reported again.
CheckDone(t) ==
    /\ pc[t] = "checked"
    /\ IF OpOf(t) \in done[NodeOf(t)]
       THEN /\ reported' = reported \cup {OpOf(t)}
            /\ Return(t)
       ELSE /\ pc' = [pc EXCEPT ![t] = IF OpOf(t) \in MustClaim
                                       THEN "claim" ELSE "engine"]
            /\ UNCHANGED <<free, reported>>
    /\ UNCHANGED <<msg, up, done, cancelled, size, waitq,
                   claimedBy, failedOps, misread, histVars>>

\* The claim-operation route: the first node to ask owns the operation, and
\* its owner is told so again.
Granted(o, n) == claimedBy[o] \in {NoNode, n}

ClaimWon(t) ==
    /\ pc[t] = "claim"
    /\ Granted(OpOf(t), NodeOf(t))
    /\ claimedBy' = [claimedBy EXCEPT ![OpOf(t)] = NodeOf(t)]
    /\ pc' = [pc EXCEPT ![t] = "engine"]
    /\ UNCHANGED <<msg, up, done, cancelled, semVars,
                   reported, failedOps, misread, histVars>>

\* Mutant: the answer `claimed: false` is taken for a success.
ClaimLostRuns(t) ==
    /\ pc[t] = "claim"
    /\ ~ Granted(OpOf(t), NodeOf(t))
    /\ pc' = [pc EXCEPT ![t] = "engine"]
    /\ UNCHANGED <<msg, up, done, cancelled, semVars, cpVars, histVars>>

\* Another node runs it: return without a word.
ClaimLost(t) ==
    /\ pc[t] = "claim"
    /\ ~ Granted(OpOf(t), NodeOf(t))
    /\ Return(t)
    /\ UNCHANGED <<msg, up, done, cancelled, size, waitq, cpVars, histVars>>

\* A success status whose body cannot be parsed, or says nothing of
\* data.claimed, is taken for a lost race too, although the claim may be this
\* node's: return without a word.
ClaimUnread(t) ==
    /\ pc[t] = "claim"
    /\ \/ UNCHANGED claimedBy
       \/ /\ Granted(OpOf(t), NodeOf(t))
          /\ claimedBy' = [claimedBy EXCEPT ![OpOf(t)] = NodeOf(t)]
    /\ misread' = misread \cup {<<OpOf(t), NodeOf(t)>>}
    /\ Return(t)
    /\ UNCHANGED <<msg, up, done, cancelled, size, waitq, reported, failedOps,
                   histVars>>

\* Mutant: a claim that could not be made is dropped like a lost one.
ClaimFailedSilent(t) ==
    /\ pc[t] = "claim"
    /\ Return(t)
    /\ UNCHANGED <<msg, up, done, cancelled, size, waitq, cpVars, histVars>>

\* The request, or only its answer, was lost or refused: report a completion
\* with an error so that the workflow does not wait forever.
ClaimFailed(t) ==
    /\ pc[t] = "claim"
    /\ \/ UNCHANGED claimedBy
       \/ /\ claimedBy[OpOf(t)] = NoNode
          /\ claimedBy' = [claimedBy EXCEPT ![OpOf(t)] = NodeOf(t)]
    /\ reported' = reported \cup {OpOf(t)}
    /\ Return(t)
    /\ UNCHANGED <<msg, up, done, cancelled, size, waitq, failedOps, misread,
                   histVars>>

\* The handler could not reach its engine daemon.  A probe completes all the
\* same; the others publish completed{code:1} on the result subject, and only
\* that.
EngineUnreachable(t) ==
    /\ pc[t] = "engine"
    /\ Handler[OpOf(t)].known
    /\ IF Handler[OpOf(t)].completes
       THEN pc' = [pc EXCEPT ![t] = "finish"] /\ UNCHANGED <<free, failedOps>>
       ELSE failedOps' = failedOps \cup {OpOf(t)} /\ Return(t)
    /\ UNCHANGED <<msg, up, done, cancelled, size, waitq,
                   claimedBy, reported, misread, histVars>>

\* A streaming handler sees the halt on the next engine event and returns.
EngineHalted(t) ==
    /\ pc[t] = "engine"
    /\ Handler[OpOf(t)].halts
    /\ WfOf(t) \in cancelled[NodeOf(t)]
    /\ Return(t)
    /\ UNCHANGED <<msg, up, done, cancelled, size, waitq, cpVars, histVars>>

\* The engine's stream ends (a done or error event, a timeout or end of file).
EngineEnds(t) ==
    /\ pc[t] = "engine"
    /\ Handler[OpOf(t)].known
    /\ pc' = [pc EXCEPT ![t] = "finish"]
    /\ UNCHANGED <<msg, up, done, cancelled, semVars, cpVars, histVars>>

\* No handler for this op_type: only a line in the log.
UnknownType(t) ==
    /\ pc[t] = "engine"
    /\ ~ Handler[OpOf(t)].known
    /\ Return(t)
    /\ UNCHANGED <<msg, up, done, cancelled, size, waitq, cpVars, histVars>>

MarkDone(t) ==
    /\ pc[t] = "finish"
    /\ done' = [done EXCEPT ![NodeOf(t)] = @ \cup {OpOf(t)}]
    /\ pc' = [pc EXCEPT ![t] = "marked"]
    /\ UNCHANGED <<msg, up, cancelled, semVars, cpVars, histVars>>

Report(t) ==
    /\ pc[t] = "marked"
    /\ reported' = reported \cup {OpOf(t)}
    /\ Return(t)
    /\ UNCHANGED <<msg, up, done, cancelled, size, waitq,
                   claimedBy, failedOps, misread, histVars>>

\* The bound on deliveries must not be what stops a redelivery.
Redeliverable(t) == t[2] < MaxDeliver

\* A pulled message is acknowledged after run_operation returned; the
\* acknowledgement may be lost.  A pushed one has no acknowledgement.
Ack(t) ==
    /\ pc[t] = "returned"
    /\ pc' = [pc EXCEPT ![t] = "over"]
    /\ \/ msg' = [msg EXCEPT ![t[1]] = "acked"]
       \/ Redeliverable(t) /\ UNCHANGED msg
    /\ UNCHANGED <<up, done, cancelled, semVars, cpVars, histVars>>

-----------------------------------------------------------------------------
(* Control commands, crash and restart *)

CancelWorkflow(n, w) ==
    /\ up[n]
    /\ halts < MaxHalt
    /\ halts' = halts + 1
    /\ cancelled' = [cancelled EXCEPT ![n] = @ \cup {w}]
    /\ everHalted' = [everHalted EXCEPT ![n] = @ \cup {w}]
    /\ parkedAtHalt' = parkedAtHalt \cup
          {t \in Task : pc[t] = "parked" /\ NodeOf(t) = n /\ WfOf(t) = w}
    /\ UNCHANGED <<msg, pc, up, done, semVars, cpVars, crashes>>

ResumeWorkflow(n, w) ==
    /\ up[n]
    /\ w \in cancelled[n]
    /\ cancelled' = [cancelled EXCEPT ![n] = @ \ {w}]
    /\ parkedAtHalt' = {t \in parkedAtHalt : ~(NodeOf(t) = n /\ WfOf(t) = w)}
    /\ UNCHANGED <<msg, pc, up, done, semVars, cpVars, crashes, halts, everHalted>>

\* The process dies: its tasks and every in-memory registry go with it; the
\* queue keeps what was not acknowledged.
Crash(n) ==
    /\ up[n]
    /\ crashes < MaxCrash
    /\ \A t \in Task : NodeOf(t) = n /\ pc[t] \in Live => Redeliverable(t)
    /\ crashes' = crashes + 1
    /\ up' = [up EXCEPT ![n] = FALSE]
    /\ pc' = [t \in Task |-> IF NodeOf(t) = n /\ pc[t] \in Live
                             THEN "dead" ELSE pc[t]]
    /\ done' = [done EXCEPT ![n] = {}]
    /\ cancelled' = [cancelled EXCEPT ![n] = {}]
    /\ size' = [size EXCEPT ![n] = [w \in Wf |-> 0]]
    /\ free' = [free EXCEPT ![n] = [w \in Wf |-> 0]]
    /\ waitq' = [waitq EXCEPT ![n] = [w \in Wf |-> <<>>]]
    /\ UNCHANGED <<msg, cpVars, halts, everHalted, parkedAtHalt>>

Restart(n) ==
    /\ ~ up[n]
    /\ up' = [up EXCEPT ![n] = TRUE]
    /\ UNCHANGED <<msg, pc, done, cancelled, semVars, cpVars, histVars>>

-----------------------------------------------------------------------------
ClaimStep(t)  == ClaimWon(t) \/ ClaimLost(t) \/ ClaimUnread(t) \/ ClaimFailed(t)
EngineStep(t) == EngineUnreachable(t) \/ EngineHalted(t) \/ EngineEnds(t)
                 \/ UnknownType(t)

RunOperation(t) ==
    \/ Enter(t) \/ AcquirePermit(t) \/ CheckCancelled(t) \/ CheckDone(t)
    \/ ClaimStep(t) \/ EngineStep(t) \/ MarkDone(t) \/ Report(t) \/ Ack(t)

Next ==
    \/ \E m \in Msg : Dispatch(m) \/ PushDeliver(m)
    \/ \E m \in Msg, d \in 1..MaxDeliver : PullDeliver(m, d)
    \/ \E t \in Task : RunOperation(t)
    \/ \E n \in Node, w \in Wf : CancelWorkflow(n, w) \/ ResumeWorkflow(n, w)
    \/ \E n \in Node : Crash(n) \/ Restart(n)

\* Every tokio task that can move does (the engines end their streams, the
\* probe has a read timeout), the broker redelivers what is not acknowledged
\* and the service manager restarts a process that died.
Fairness ==
    /\ \A t \in Task : WF_vars(RunOperation(t))
    /\ \A m \in Msg, d \in 1..MaxDeliver : WF_vars(PullDeliver(m, d))
    /\ \A n \in Node : WF_vars(Restart(n))

Spec == Init /\ [][Next]_vars
LiveSpec == Spec /\ Fairness

-----------------------------------------------------------------------------
(* Properties *)

Holders(n, w) == {t \in Task : /\ pc[t] \in Holding
                               /\ NodeOf(t) = n
                               /\ WfOf(t) = w
                               /\ OpOf(t) \in Gated}

\* Permits are conserved over every return path of run_operation: what is free
\* and what is held add up to what the first operation of the workflow asked
\* for, so at most that many gated operations are past the semaphore.
PermitsConserved ==
    \A n \in Node, w \in Wf :
        free[n][w] + Cardinality(Holders(n, w)) = size[n][w]

\* Under a one-permit workflow, no task is past the DONE_OPS check for an
\* operation its process has already completed: the permit is held from before
\* the check until after mark_op_done, so the two cannot interleave.
SerialOpsRunOnce ==
    \A t \in Task :
        /\ OpOf(t) \in Gated
        /\ size[NodeOf(t)][WfOf(t)] = 1
        /\ pc[t] \in {"claim", "engine", "finish"}
        => OpOf(t) \notin done[NodeOf(t)]

\* A probe queued on the semaphore when its workflow is halted does not fire
\* until the workflow is resumed: the halt is checked after the wake-up.
HaltDropsParked ==
    \A t \in parkedAtHalt : pc[t] \notin {"checked", "claim", "engine",
                                          "finish", "marked"}

\* Only the node that owns the claim runs an operation that must be claimed,
\* whatever crashes, redeliveries and lost answers came before.
ClaimExclusive ==
    \A t \in Task :
        OpOf(t) \in MustClaim /\ pc[t] \in {"engine", "finish", "marked"}
        => claimedBy[OpOf(t)] = NodeOf(t)

\* What became of the operation of a message is known: it was reported
\* complete, or failed on the result subject, or its workflow was halted on
\* that node, or another node owns it, or nothing handles its type, or (the
\* one silent end) its node took an unreadable answer to its claim for a lost
\* race.
Accounted(m) ==
    \/ MsgOp[m] \in reported \cup failedOps
    \/ OpWf[MsgOp[m]] \in everHalted[MsgNode[m]]
    \/ claimedBy[MsgOp[m]] \notin {NoNode, MsgNode[m]}
    \/ ~ Handler[MsgOp[m]].known
    \/ <<MsgOp[m], MsgNode[m]>> \in misread

\* No operation vanishes: a pulled message that is gone from the queue is
\* accounted for, whatever failed on the way (run_operation answers a refused
\* claim and an unreachable engine) except for an unreadable claim.
NoSilentLoss == \A m \in Pulled : msg[m] = "acked" => Accounted(m)

\* Every message on the work queue is eventually acknowledged, across crashes,
\* redeliveries, lost acknowledgements and a full semaphore.
QueueDrains == \A m \in Pulled : msg[m] = "stored" ~> msg[m] = "acked"
=============================================================================
