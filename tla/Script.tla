------------------------------- MODULE Script -------------------------------
(***************************************************************************)
(* The .cfx jobs of a node: each runs in a thread of its own, but finds    *)
(* its targets, its registry and its way back to the control plane in      *)
(* statics that all jobs of the process share.  A drain task per job       *)
(* publishes what the script sends; it waits for the channel in a blocking *)
(* call, on a thread of the async runtime.                                 *)
(*                                                                         *)
(* The interpreter lock is released between any two operations of a        *)
(* script.  Targets, registry and node list are set and cleared alike; the *)
(* targets stand for the three.                                            *)
(***************************************************************************)
EXTENDS Integers, FiniteSets, Sequences

CONSTANTS
    Job,
    NoJob,
    Threads,    \* worker threads of the runtime
    MaxResult,  \* bound: results one script sends
    MaxPanic    \* bound: script threads that panic

ASSUME ScriptAssumption ==
    Threads \in Nat \ {0} /\ MaxResult \in Nat /\ MaxPanic \in Nat /\ NoJob \notin Job

VARIABLES
    scPc,       \* the script thread of each job
    scTargets,  \* TARGETS: whose they are
    scContext,  \* CONTEXT: whose channel and id it holds
    scHandle,   \* the server handle a script got: whose context that was
    scRead,     \* the targets a script read: whose they were
    scSends,    \* results a script has sent
    scChan,     \* the channel of each job: <<kind, sender>>
    scDrain,    \* its drain task: "none", "spawned", "recv" or "ended"
    scGarbage,  \* jobs whose handle is unreachable and not yet collected
    scOut,      \* published: <<kind, sender, job it is attributed to>>
    scShared,   \* history: jobs that met another job, or the remains of one
    scPanics

scVars == <<scPc, scTargets, scContext, scHandle, scRead, scSends, scChan, scDrain,
            scGarbage, scOut, scShared, scPanics>>

AnyJob == Job \cup {NoJob}
InScript == {"inject", "python", "connected", "signalled", "clear", "last"}
Inside == {j \in Job : scPc[j] \in InScript}

ScriptTypeOK ==
    /\ scPc \in [Job -> {"idle", "started", "returned", "panicked", "over"} \cup InScript]
    /\ scTargets \in AnyJob /\ scContext \in AnyJob
    /\ scHandle \in [Job -> AnyJob] /\ scRead \in [Job -> AnyJob]
    /\ scSends \in [Job -> 0..MaxResult]
    /\ scChan \in [Job -> Seq({"result", "completed"} \X Job)]
    /\ scDrain \in [Job -> {"none", "spawned", "recv", "ended"}]
    /\ scGarbage \subseteq Job /\ scShared \subseteq Job
    /\ scOut \subseteq {"result", "completed"} \X Job \X Job
    /\ scPanics \in 0..MaxPanic

ScriptInit ==
    /\ scPc = [j \in Job |-> "idle"]
    /\ scTargets = NoJob /\ scContext = NoJob
    /\ scHandle = [j \in Job |-> NoJob] /\ scRead = [j \in Job |-> NoJob]
    /\ scSends = [j \in Job |-> 0]
    /\ scChan = [j \in Job |-> <<>>]
    /\ scDrain = [j \in Job |-> "none"]
    /\ scGarbage = {} /\ scOut = {} /\ scShared = {}
    /\ scPanics = 0

-----------------------------------------------------------------------------
Step(j, from, to) == scPc[j] = from /\ scPc' = [scPc EXCEPT ![j] = to]

\* The execute command, with remote_exec on: execute_job spawns the drain task
\* and the thread of the script.
Execute(j) ==
    /\ Step(j, "idle", "started")
    /\ scDrain' = [scDrain EXCEPT ![j] = "spawned"]
    /\ UNCHANGED <<scTargets, scContext, scHandle, scRead, scSends, scChan, scGarbage,
                   scOut, scShared, scPanics>>

\* targets::inject, while others may be inside.
InjectTargets(j) ==
    /\ Step(j, "started", "inject")
    /\ scTargets' = j
    /\ scShared' = scShared \cup IF Inside = {} THEN {} ELSE Inside \cup {j}
    /\ UNCHANGED <<scContext, scHandle, scRead, scSends, scChan, scDrain, scGarbage,
                   scOut, scPanics>>

\* Mutant: a context that is there is kept.
InjectContextKeeps(j) ==
    /\ Step(j, "inject", "python")
    /\ scContext' = IF scContext = NoJob THEN j ELSE scContext
    /\ UNCHANGED <<scTargets, scHandle, scRead, scSends, scChan, scDrain, scGarbage,
                   scOut, scShared, scPanics>>

\* cfxs::inject: the context of another job is replaced, and its sender dropped.
InjectContext(j) ==
    /\ Step(j, "inject", "python")
    /\ scContext' = j
    /\ UNCHANGED <<scTargets, scHandle, scRead, scSends, scChan, scDrain, scGarbage,
                   scOut, scShared, scPanics>>

\* The script reads its targets and calls cfxs.connect(), which fails without a
\* context; an uncaught error ends the script.
ConnectServer(j) ==
    /\ scPc[j] = "python"
    /\ scRead' = [scRead EXCEPT ![j] = scTargets]
    /\ scHandle' = [scHandle EXCEPT ![j] = scContext]
    /\ scPc' = [scPc EXCEPT ![j] = IF scContext = NoJob THEN "clear" ELSE "connected"]
    /\ UNCHANGED <<scTargets, scContext, scSends, scChan, scDrain, scGarbage, scOut,
                   scShared, scPanics>>

Post(j, kind) ==
    scChan' = [scChan EXCEPT ![scHandle[j]] = Append(@, <<kind, j>>)]
Listening(j) == scDrain[scHandle[j]] # "ended"

\* server.send_result: an error if the drain task is gone, which ends the script.
SendResult(j) ==
    /\ scPc[j] = "connected" /\ scSends[j] < MaxResult
    /\ IF Listening(j)
       THEN /\ scSends' = [scSends EXCEPT ![j] = @ + 1]
            /\ Post(j, "result")
            /\ UNCHANGED scPc
       ELSE /\ scPc' = [scPc EXCEPT ![j] = "clear"]
            /\ UNCHANGED <<scSends, scChan>>
    /\ UNCHANGED <<scTargets, scContext, scHandle, scRead, scDrain, scGarbage, scOut,
                   scShared, scPanics>>

\* server.signal.completed.
Signal(j) ==
    /\ scPc[j] = "connected"
    /\ IF Listening(j)
       THEN Post(j, "completed") /\ scPc' = [scPc EXCEPT ![j] = "signalled"]
       ELSE scPc' = [scPc EXCEPT ![j] = "clear"] /\ UNCHANGED scChan
    /\ UNCHANGED <<scTargets, scContext, scHandle, scRead, scSends, scDrain, scGarbage,
                   scOut, scShared, scPanics>>

\* The script ends, by itself or with an error.  Its globals go, and the handle
\* with them; globals that a function of the script refers to wait for the
\* collector.
ScriptEnds(j) ==
    /\ scPc[j] \in {"python", "connected", "signalled"}
    /\ scPc' = [scPc EXCEPT ![j] = "clear"]
    /\ \E kept \in BOOLEAN :
        /\ kept => scHandle[j] # NoJob
        /\ scGarbage' = IF kept THEN scGarbage \cup {j} ELSE scGarbage
    /\ UNCHANGED <<scTargets, scContext, scHandle, scRead, scSends, scChan, scDrain, scOut,
                   scShared, scPanics>>

\* targets::clear: whoever set them.
ClearTargets(j) ==
    /\ Step(j, "clear", "last")
    /\ scTargets' = NoJob
    /\ UNCHANGED <<scContext, scHandle, scRead, scSends, scChan, scDrain, scGarbage, scOut,
                   scShared, scPanics>>

\* Mutant: the context is left.
ClearContextNot(j) ==
    /\ Step(j, "last", "returned")
    /\ UNCHANGED <<scTargets, scContext, scHandle, scRead, scSends, scChan, scDrain,
                   scGarbage, scOut, scShared, scPanics>>

\* cfxs::clear drops the sender of whichever job's context is there.
ClearContext(j) ==
    /\ Step(j, "last", "returned")
    /\ scContext' = NoJob
    /\ UNCHANGED <<scTargets, scHandle, scRead, scSends, scChan, scDrain, scGarbage, scOut,
                   scShared, scPanics>>

\* The thread panics: nothing is cleared.
ScriptPanics(j) ==
    /\ scPc[j] \in {"python", "connected", "signalled"}
    /\ scPanics < MaxPanic
    /\ scPanics' = scPanics + 1
    /\ scPc' = [scPc EXCEPT ![j] = "panicked"]
    /\ UNCHANGED <<scTargets, scContext, scHandle, scRead, scSends, scChan, scDrain,
                   scGarbage, scOut, scShared>>

\* Python collects the cycles.
CollectGarbage ==
    /\ scGarbage # {}
    /\ scGarbage' = {}
    /\ UNCHANGED <<scPc, scTargets, scContext, scHandle, scRead, scSends, scChan, scDrain,
                   scOut, scShared, scPanics>>

-----------------------------------------------------------------------------
(* The drain tasks *)

Blocked == {j \in Job : scDrain[j] = "recv"}

\* The runtime gives the task a thread, which it keeps until it ends.
DrainRuns(j) ==
    /\ scDrain[j] = "spawned"
    /\ Cardinality(Blocked) < Threads
    /\ scDrain' = [scDrain EXCEPT ![j] = "recv"]
    /\ UNCHANGED <<scPc, scTargets, scContext, scHandle, scRead, scSends, scChan,
                   scGarbage, scOut, scShared, scPanics>>

\* A message is published under the id of the context it was sent with; the
\* completed message ends the task.
DrainPublishes(j) ==
    /\ scDrain[j] = "recv" /\ scChan[j] # <<>>
    /\ scChan' = [scChan EXCEPT ![j] = Tail(@)]
    /\ scOut' = scOut \cup {<<Head(scChan[j])[1], Head(scChan[j])[2], j>>}
    /\ scDrain' = [scDrain EXCEPT ![j] = IF Head(scChan[j])[1] = "completed" THEN "ended"
                                         ELSE @]
    /\ UNCHANGED <<scPc, scTargets, scContext, scHandle, scRead, scSends, scGarbage,
                   scShared, scPanics>>

\* Who can still send to job j: its thread before it injects, the context, the
\* scripts that hold a handle to it, and what is left of one.
HasSender(j) ==
    \/ scPc[j] \in {"started", "inject"}
    \/ scContext = j
    \/ \E k \in Job : scHandle[k] = j /\ (scPc[k] \in {"connected", "signalled"} \/ k \in scGarbage)

\* The channel is closed.
DrainEnds(j) ==
    /\ scDrain[j] = "recv" /\ scChan[j] = <<>>
    /\ ~ HasSender(j)
    /\ scDrain' = [scDrain EXCEPT ![j] = "ended"]
    /\ UNCHANGED <<scPc, scTargets, scContext, scHandle, scRead, scSends, scChan,
                   scGarbage, scOut, scShared, scPanics>>

\* execute_job has joined both.
JobOver(j) ==
    /\ scPc[j] \in {"returned", "panicked"} /\ scDrain[j] = "ended"
    /\ scPc' = [scPc EXCEPT ![j] = "over"]
    /\ UNCHANGED <<scTargets, scContext, scHandle, scRead, scSends, scChan, scDrain,
                   scGarbage, scOut, scShared, scPanics>>

-----------------------------------------------------------------------------
ThreadStep(j) ==
    \/ InjectTargets(j) \/ InjectContext(j) \/ ConnectServer(j) \/ SendResult(j)
    \/ Signal(j) \/ ScriptEnds(j) \/ ClearTargets(j) \/ ClearContext(j)
DrainStep(j) == DrainRuns(j) \/ DrainPublishes(j) \/ DrainEnds(j) \/ JobOver(j)

ScriptNext ==
    \/ CollectGarbage
    \/ \E j \in Job : Execute(j) \/ ThreadStep(j) \/ ScriptPanics(j) \/ DrainStep(j)

ScriptSpec == ScriptInit /\ [][ScriptNext]_scVars

-----------------------------------------------------------------------------
(* Properties *)

\* A job that no other job was inside with keeps to itself: it read its own
\* targets, what it sent is published under its own id, and nothing else is, even
\* after a job whose thread panicked and cleared nothing.
JobsKeepApart ==
    \A j \in Job \ scShared :
        /\ scRead[j] \in {j, NoJob} /\ scHandle[j] \in {j, NoJob}
        /\ \A m \in scOut : m[2] = j \/ m[3] = j => m[2] = m[3]

\* The drain tasks give their threads back: a job whose script has returned is
\* over in the end.  Two things keep a thread for good: a handle that Python has
\* not collected, and the context of a job whose thread panicked.
JobFinishes(j) ==
    \/ scPc[j] = "over"
    \/ scGarbage # {}
    \/ \E k \in Job : scPc[k] = "panicked" /\ scContext = k
=============================================================================
