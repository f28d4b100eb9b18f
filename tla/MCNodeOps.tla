----------------------------- MODULE MCNodeOps -----------------------------
(***************************************************************************)
(* Small instances of NodeOps, and what the comments of the code say of    *)
(* the pipeline.                                                           *)
(***************************************************************************)
EXTENDS NodeOps, TLC

CONSTANTS n1, n2, w1, o1, o2, m1, m2, m3

\* One workflow; o1 is sent twice, by m1 and m2, and o2 once, by m3.
AllOpWf  == (o1 :> w1) @@ (o2 :> w1)
AllMsgOp == [m \in Msg |-> IF m = m3 THEN o2 ELSE o1]

\* The scan: everything goes to one node.  The race: o1 to both nodes.
ScanMsgNode == [m \in Msg |-> n1]
RaceMsgNode == [m \in Msg |-> IF m = m1 THEN n1 ELSE n2]

\* Permit counts on both sides of the clamp; the workflow's semaphore has those
\* of the operation that comes first.
MixedTasks == (o1 :> 0) @@ (o2 :> 5)
OneTask  == (o1 :> 0) @@ (o2 :> 1)
TwoTasks == (o1 :> 5) @@ (o2 :> 2)

BatchAndUnknown == (o1 :> ContentDiscoveryBatch) @@ (o2 :> NoHandler)
ProbeAndCrawl   == (o1 :> ContentDiscoveryProbe) @@ (o2 :> WebCrawl)

-----------------------------------------------------------------------------
(* What the comments of the code say *)

\* core/src/lib.rs: a redelivery "is cheap, not duplicated work".  No two
\* tasks of a process run the engine for the same operation, and none runs it
\* for an operation the process completed.
RedeliveryNotDuplicated ==
    \A t1, t2 \in Task :
        /\ t1 # t2 /\ OpOf(t1) = OpOf(t2) /\ NodeOf(t1) = NodeOf(t2)
        /\ pc[t1] = "engine"
        => pc[t2] # "engine" /\ OpOf(t1) \notin done[NodeOf(t1)]
=============================================================================
