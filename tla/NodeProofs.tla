---------------------------- MODULE NodeProofs -----------------------------
(***************************************************************************)
(* The safety of the node around its operations, for every value of the    *)
(* constants: the session with the control plane, the script jobs, the     *)
(* installer, the database container and the trace proxy.  Each part has   *)
(* an inductive invariant of its own; the parts share no variable, so the  *)
(* last section puts them together for NodeSpec.                           *)
(***************************************************************************)
EXTENDS MCNode, FiniteSetTheorems, TLAPS

-----------------------------------------------------------------------------
(* The session: Agent *)

\* A daemon that is up has not ended and is below the threshold; the counter is
\* never ahead of the refusals it counts.
AgentInv ==
    /\ AgentTypeOK
    /\ agPhase # "down" => agExit = "none" /\ ag401 < EvictAfter
    /\ ag401 <= agSince
    /\ agPull = "trying" => agTries < BindTries
    /\ EvictedOnlySustained

\* The queue of a process that ended or has not begun (Ends).
LEMMA EmptyQueue == <<>> \in Seq(Command)
OBVIOUS

\* At the start the daemon is down and nothing was refused (AgentInit).
LEMMA AgentInitInv == AgentInit => AgentInv
<1> SUFFICES ASSUME AgentInit PROVE AgentInv
  OBVIOUS
<1>1. 0 \in Ports
  BY AgentAssumption DEF Ports
<1>2. agQueue \in Seq(Command)
  BY EmptyQueue DEF AgentInit
<1>3. /\ agPhase = "down" /\ agExit = "none" /\ agKey = "valid"
      /\ ag401 = 0 /\ agSince = 0 /\ agJwt = 0 /\ agTimer = 0
      /\ agPull = "trying" /\ agTries = 0
      /\ agWant = 0 /\ agConf = 0 /\ agRun = 0 /\ agSent = 0 /\ agSessions = 0
      /\ agLink \in BOOLEAN /\ agHung \in BOOLEAN
  BY DEF AgentInit
<1>4. /\ 0 \in 0..EvictAfter /\ 0 \in 0..JwtDays /\ 0 \in 0..RefreshDays
      /\ 0 \in 0..BindTries /\ 0 \in 0..MaxCommand /\ 0 \in 0..MaxSession
      /\ 0 < EvictAfter /\ 0 < BindTries
  BY AgentAssumption
<1> QED
  BY <1>1, <1>2, <1>3, <1>4 DEF AgentInv, AgentTypeOK, EvictedOnlySustained

\* What Reconcile leaves in the config and in the services are ports
\* (reconcile_ports).
LEMMA ReconcileType ==
    ASSUME NEW ports \in Ports, agConf \in Ports, agRun \in Ports, Reconcile(ports)
    PROVE  agConf' \in Ports /\ agRun' \in Ports
BY DEF Reconcile

\* The head of the queue is a command, and what is left of it is a queue
\* (the select loop of start_daemon).
LEMMA QueueType ==
    ASSUME agQueue \in Seq(Command), agQueue # <<>>
    PROVE  Head(agQueue) \in Command /\ Tail(agQueue) \in Seq(Command)
OBVIOUS

\* A command published reaches the queue or is lost (Publish).
LEMMA PublishType ==
    ASSUME NEW c \in Command, agQueue \in Seq(Command), Publish(c)
    PROVE  agQueue' \in Seq(Command)
BY DEF Publish

\* No step of the session breaks AgentInv: the 401 counter and the evictions of
\* start_daemon, whatever else happens.
LEMMA AgentStepInv == AgentInv /\ [AgentNext]_agVars => AgentInv'
<1> SUFFICES ASSUME AgentInv, [AgentNext]_agVars PROVE AgentInv'
  OBVIOUS
<1> USE AgentAssumption, EmptyQueue DEF AgentInv, AgentTypeOK, EvictedOnlySustained, agVars,
        agPortVars, agPullVars, agCountVars
<1>1. CASE UNCHANGED agVars
  BY <1>1
<1>2. CASE StartDaemon
  BY <1>2 DEF StartDaemon
<1>3. CASE Authorize
  <2>1. agConf' \in Ports /\ agRun' \in Ports
    BY <1>3, ReconcileType DEF Authorize
  <2> QED
    BY <1>3, <2>1 DEF Authorize
<1>4. CASE AuthorizeFails
  BY <1>4 DEF AuthorizeFails, Ends
<1>5. CASE ConnectBroker
  BY <1>5 DEF ConnectBroker
<1>6. CASE ConnectBrokerFails
  BY <1>6 DEF ConnectBrokerFails, Ends
<1>7. CASE Validate
  BY <1>7 DEF Validate, Ends
<1>8. CASE BindWork
  BY <1>8 DEF BindWork
<1>9. CASE BindWorkFails
  BY <1>9 DEF BindWorkFails
<1>10. CASE HeartbeatOk
  BY <1>10 DEF HeartbeatOk
<1>11. CASE HeartbeatRefused
  <2>1. agSince' = AtMost(agSince + 1) /\ ag401' = ag401 + 1 /\ agPhase = "serve"
    BY <1>11 DEF HeartbeatRefused
  <2>2. agSince' \in 0..EvictAfter /\ ag401' \in 0..EvictAfter /\ ag401' <= agSince'
    BY <2>1 DEF AtMost
  <2>3. CASE ag401' >= EvictAfter
    <3>1. Ends("evicted") /\ agSince' >= EvictAfter
      BY <1>11, <2>2, <2>3 DEF HeartbeatRefused
    <3>2. agQueue' \in Seq(Command) /\ agPhase' = "down" /\ agExit' = "evicted"
          /\ agLink' = FALSE /\ agHung' = FALSE
      BY <3>1 DEF Ends
    <3> QED
      BY <1>11, <2>2, <3>1, <3>2 DEF HeartbeatRefused
  <2>4. CASE ~ (ag401' >= EvictAfter)
    BY <1>11, <2>1, <2>2, <2>4 DEF HeartbeatRefused
  <2> QED
    BY <2>3, <2>4
<1>12. CASE HeartbeatFails
  BY <1>12 DEF HeartbeatFails
<1>13. CASE RefreshOk
  <2>1. agConf' \in Ports /\ agRun' \in Ports
    BY <1>13, ReconcileType DEF RefreshOk
  <2> QED
    BY <1>13, <2>1 DEF RefreshOk, RefreshDue
<1>14. CASE RefreshFails
  BY <1>14 DEF RefreshFails, RefreshDue
<1>15. CASE SignalStops
  BY <1>15 DEF SignalStops, Ends
<1>16. CASE TakeCommand
  <2>1. /\ agPhase = "serve" /\ agQueue # <<>>
        /\ UNCHANGED <<agKey, agCountVars, agJwt, agTimer, agPullVars, agWant, agSent,
                       agSessions>>
    BY <1>16 DEF TakeCommand
  <2>2. Head(agQueue) \in Command /\ Tail(agQueue) \in Seq(Command)
    BY <2>1, QueueType
  <2>3. \/ /\ Reconcile(Head(agQueue).ports)
           /\ agQueue' = Tail(agQueue)
           /\ UNCHANGED <<agPhase, agExit, agLink, agHung>>
        \/ /\ agPhase' = "busy" /\ agHung' \in BOOLEAN
           /\ agQueue' = Tail(agQueue)
           /\ UNCHANGED <<agExit, agLink, agConf, agRun>>
        \/ Ends("stopped") /\ UNCHANGED <<agConf, agRun>>
        \/ Ends("updated") /\ UNCHANGED <<agConf, agRun>>
        \/ /\ agQueue' = Tail(agQueue)
           /\ UNCHANGED <<agPhase, agExit, agLink, agHung, agConf, agRun>>
    BY <1>16 DEF TakeCommand
  <2>4. CASE /\ Reconcile(Head(agQueue).ports)
             /\ agQueue' = Tail(agQueue)
             /\ UNCHANGED <<agPhase, agExit, agLink, agHung>>
    <3>1. Head(agQueue).ports \in Ports
      BY <2>2 DEF Command
    <3>2. agConf' \in Ports /\ agRun' \in Ports
      BY <2>4, <3>1, ReconcileType
    <3> QED
      BY <2>1, <2>2, <2>4, <3>2
  <2>5. CASE /\ agPhase' = "busy" /\ agHung' \in BOOLEAN
             /\ agQueue' = Tail(agQueue)
             /\ UNCHANGED <<agExit, agLink, agConf, agRun>>
    BY <2>1, <2>2, <2>5
  <2>6. CASE \/ Ends("stopped") /\ UNCHANGED <<agConf, agRun>>
             \/ Ends("updated") /\ UNCHANGED <<agConf, agRun>>
    BY <2>1, <2>6 DEF Ends
  <2>7. CASE /\ agQueue' = Tail(agQueue)
             /\ UNCHANGED <<agPhase, agExit, agLink, agHung, agConf, agRun>>
    BY <2>1, <2>2, <2>7
  <2> QED
    BY <2>3, <2>4, <2>5, <2>6, <2>7
<1>17. CASE ShellReturns
  BY <1>17 DEF ShellReturns
<1>18. ASSUME NEW kind \in {"terminate", "shell", "update", "unknown"}, SendCommand(kind)
       PROVE  AgentInv'
  <2>1. [kind |-> kind, ports |-> 0] \in Command
    BY DEF Command, Ports
  <2>2. agQueue' \in Seq(Command)
    BY <1>18, <2>1, PublishType DEF SendCommand
  <2> QED
    BY <1>18, <2>2 DEF SendCommand
<1>19. CASE EditPorts
  <2>1. agWant + 1 \in Ports
    BY <1>19 DEF EditPorts, Ports
  <2>2. SetPorts(agWant + 1) \in Command
    BY <2>1 DEF SetPorts, Command
  <2>3. agQueue' \in Seq(Command)
    BY <1>19, <2>2, PublishType DEF EditPorts
  <2> QED
    BY <1>19, <2>1, <2>3 DEF EditPorts
<1>20. CASE DeleteKey
  BY <1>20 DEF DeleteKey
<1>21. CASE LinkChanges
  BY <1>21 DEF LinkChanges
<1>22. CASE Day
  <2>1. agTimer' \in 0..RefreshDays /\ agJwt' \in 0..JwtDays /\ agLink' \in BOOLEAN
    BY <1>22 DEF Day
  <2> QED
    BY <1>22, <2>1 DEF Day
<1>23. CASE RequestHangs
  <2>1. agHung' \in BOOLEAN /\ agPhase' \in {agPhase, "busy"} /\ agPhase # "down"
    BY <1>23 DEF RequestHangs
  <2> QED
    BY <1>23, <2>1 DEF RequestHangs
<1> QED
  BY <1>1, <1>2, <1>3, <1>4, <1>5, <1>6, <1>7, <1>8, <1>9, <1>10, <1>11, <1>12, <1>13,
     <1>14, <1>15, <1>16, <1>17, <1>18, <1>19, <1>20, <1>21, <1>22, <1>23
     DEF AgentNext, AgentStep

-----------------------------------------------------------------------------
(* The script jobs: Script *)

\* What belongs to job j is of job k only if both met another job.
Apart(j, k) == j = k \/ {j, k} \subseteq scShared

\* Two jobs that are inside at once know it.
MeetingIsNoted == \A j, k \in Inside : j # k => j \in scShared

\* The statics are those of the script that is about to read them, or it shares.
StaticsAreOwn ==
    \A j \in Job :
        /\ scPc[j] \in {"inject", "python"} => scTargets = j \/ j \in scShared
        /\ scPc[j] = "python" =>
             scContext = j \/ (j \in scShared /\ scContext \in scShared \cup {NoJob})

\* What a script read, and the context it connected with, are its own, or both
\* jobs share; a script that is connected has a context.
HandlesAreOwn ==
    \A j \in Job :
        /\ scRead[j] \in {j, NoJob} \/ j \in scShared
        /\ scHandle[j] = NoJob \/ Apart(j, scHandle[j])
        /\ scPc[j] = "connected" => scHandle[j] # NoJob

\* The messages on the way, and those published.
MessagesAreOwn ==
    /\ \A k \in Job : \A i \in 1..Len(scChan[k]) : Apart(scChan[k][i][2], k)
    /\ \A m \in scOut : Apart(m[2], m[3])

ScriptInv ==
    ScriptTypeOK /\ MeetingIsNoted /\ StaticsAreOwn /\ HandlesAreOwn /\ MessagesAreOwn

\* At the start nothing was shared or sent (ScriptInit).
LEMMA ScriptInitInv == ScriptInit => ScriptInv
<1> SUFFICES ASSUME ScriptInit PROVE ScriptInv
  OBVIOUS
<1>1. \A j \in Job : <<>> \in Seq({"result", "completed"} \X Job)
  OBVIOUS
<1>2. ScriptTypeOK
  BY <1>1, ScriptAssumption DEF ScriptInit, ScriptTypeOK, AnyJob, InScript
<1>3. MeetingIsNoted /\ StaticsAreOwn
  BY DEF ScriptInit, MeetingIsNoted, StaticsAreOwn, Inside, InScript
<1>4. HandlesAreOwn
  BY DEF ScriptInit, HandlesAreOwn, Apart
<1>5. MessagesAreOwn
  BY DEF ScriptInit, MessagesAreOwn, Apart
<1> QED
  BY <1>2, <1>3, <1>4, <1>5 DEF ScriptInv

\* A script's message joins the channel it has a handle to, and is still that
\* job's or shared (send_result and signal.completed in cfxs).
LEMMA PostKeeps ==
    ASSUME ScriptInv, NEW j \in Job, NEW kind \in {"result", "completed"},
           scHandle[j] # NoJob, Post(j, kind), UNCHANGED <<scShared, scOut>>
    PROVE  /\ scChan' \in [Job -> Seq({"result", "completed"} \X Job)]
           /\ MessagesAreOwn'
<1> DEFINE Msgs == {"result", "completed"} \X Job
<1> PICK h : h = scHandle[j]
  OBVIOUS
<1>1. h \in Job /\ Apart(j, h)
  BY DEF ScriptInv, ScriptTypeOK, HandlesAreOwn, AnyJob
<1>2. scChan \in [Job -> Seq(Msgs)]
  BY DEF ScriptInv, ScriptTypeOK
<1>3. scChan' = [scChan EXCEPT ![h] = Append(scChan[h], <<kind, j>>)]
  BY DEF Post
<1> PICK msg : msg = <<kind, j>>
  OBVIOUS
<1>4. msg \in Msgs /\ msg[2] = j
  OBVIOUS
<1> HIDE DEF Msgs
<1>5. Append(scChan[h], msg) \in Seq(Msgs)
  BY <1>1, <1>2, <1>4
<1>6. scChan' \in [Job -> Seq(Msgs)]
  BY <1>1, <1>2, <1>3, <1>5
<1>7. ASSUME NEW k \in Job, NEW i \in 1..Len(scChan'[k])
      PROVE  Apart(scChan'[k][i][2], k)
  <2>1. CASE k # h
    <3>1. scChan'[k] = scChan[k]
      BY <1>1, <1>2, <1>3, <2>1
    <3> QED
      BY <3>1, <1>7 DEF ScriptInv, MessagesAreOwn
  <2>2. CASE k = h
    <3>1. scChan'[k] = Append(scChan[k], msg) /\ scChan[k] \in Seq(Msgs)
      BY <1>1, <1>2, <1>3, <2>2
    <3>2. CASE i \in 1..Len(scChan[k])
      <4>1. scChan'[k][i] = scChan[k][i]
        BY <3>1, <3>2
      <4> QED
        BY <4>1, <3>2 DEF ScriptInv, MessagesAreOwn
    <3>3. CASE i \notin 1..Len(scChan[k])
      <4>1. i = Len(scChan[k]) + 1
        BY <1>7, <3>1, <3>3
      <4>2. scChan'[k][i] = msg
        BY <3>1, <4>1
      <4> QED
        BY <4>2, <1>4, <1>1, <2>2
    <3> QED
      BY <3>2, <3>3
  <2> QED
    BY <2>1, <2>2
<1>8. \A m \in scOut' : m[2] = m[3] \/ {m[2], m[3]} \subseteq scShared'
  BY DEF ScriptInv, MessagesAreOwn, Apart
<1>9. MessagesAreOwn'
  BY <1>7, <1>8 DEF MessagesAreOwn, Apart
<1> QED
  BY <1>6, <1>9 DEF Msgs

\* While a job shares no more than before, the messages stay apart.
LEMMA MessagesStay ==
    ASSUME MessagesAreOwn, UNCHANGED <<scChan, scOut>>, scShared \subseteq scShared'
    PROVE  MessagesAreOwn'
BY DEF MessagesAreOwn, Apart

\* No step of a job, of its drain task or of the collector breaks ScriptInv:
\* the statics of targets.rs and cfxs.rs under every interleaving.
LEMMA ScriptStepInv == ScriptInv /\ [ScriptNext]_scVars => ScriptInv'
<1> SUFFICES ASSUME ScriptInv, [ScriptNext]_scVars PROVE ScriptInv'
  OBVIOUS
<1> USE ScriptAssumption
<1>a. ScriptTypeOK /\ MeetingIsNoted /\ StaticsAreOwn /\ HandlesAreOwn /\ MessagesAreOwn
  BY DEF ScriptInv
<1>1. CASE UNCHANGED scVars
  <2>1. MessagesAreOwn'
    BY <1>1, <1>a, MessagesStay DEF scVars
  <2> QED
    BY <1>1, <1>a, <2>1 DEF scVars, ScriptInv, ScriptTypeOK, MeetingIsNoted, StaticsAreOwn,
       HandlesAreOwn, Inside, Apart
<1>2. CASE CollectGarbage
  <2>1. MessagesAreOwn'
    BY <1>2, <1>a, MessagesStay DEF CollectGarbage
  <2> QED
    BY <1>2, <1>a, <2>1 DEF CollectGarbage, ScriptInv, ScriptTypeOK, MeetingIsNoted,
       StaticsAreOwn, HandlesAreOwn, Inside, Apart
<1>3. ASSUME NEW j \in Job, Execute(j) PROVE ScriptInv'
  <2>1. MessagesAreOwn'
    BY <1>3, <1>a, MessagesStay DEF Execute
  <2>2. ScriptTypeOK'
    BY <1>3, <1>a DEF Execute, Step, ScriptTypeOK
  <2>3. MeetingIsNoted' /\ StaticsAreOwn' /\ HandlesAreOwn'
    BY <1>3, <1>a DEF Execute, Step, ScriptTypeOK, MeetingIsNoted, StaticsAreOwn,
       HandlesAreOwn, Inside, InScript, Apart
  <2> QED
    BY <2>1, <2>2, <2>3 DEF ScriptInv
<1>4. ASSUME NEW j \in Job, InjectTargets(j) PROVE ScriptInv'
  <2>0. scShared \subseteq scShared' /\ scShared' \subseteq Job
    BY <1>4, <1>a DEF InjectTargets, ScriptTypeOK, Inside
  <2>1. MessagesAreOwn'
    BY <1>4, <1>a, <2>0, MessagesStay DEF InjectTargets
  <2>2. ScriptTypeOK'
    BY <1>4, <1>a, <2>0 DEF InjectTargets, Step, ScriptTypeOK, AnyJob, InScript
  <2>3. \A k \in Inside : k # j => {j, k} \subseteq scShared'
    BY <1>4 DEF InjectTargets
  <2>4. scPc[j] = "started" /\ scPc' = [scPc EXCEPT ![j] = "inject"]
    BY <1>4 DEF InjectTargets, Step
  <2>5. \A k \in Job : k # j => scPc'[k] = scPc[k]
    BY <2>4, <1>a DEF ScriptTypeOK
  <2>6. scPc'[j] = "inject" /\ \A k \in Job : k # j /\ scPc'[k] \in InScript => k \in Inside
    BY <2>4, <2>5, <1>a DEF ScriptTypeOK, Inside
  <2>7. MeetingIsNoted'
    <3> SUFFICES ASSUME NEW k \in Job, NEW l \in Job, k # l, scPc'[k] \in InScript,
                        scPc'[l] \in InScript
                 PROVE  k \in scShared'
      BY DEF MeetingIsNoted, Inside
    <3>1. CASE k = j \/ l = j
      BY <3>1, <2>3, <2>6
    <3>2. CASE k # j /\ l # j
      BY <3>2, <2>6, <2>0, <1>a DEF MeetingIsNoted
    <3> QED
      BY <3>1, <3>2
  <2>8. StaticsAreOwn'
    <3> SUFFICES ASSUME NEW k \in Job
                 PROVE  /\ scPc'[k] \in {"inject", "python"} => scTargets' = k \/ k \in scShared'
                        /\ scPc'[k] = "python" =>
                             \/ scContext' = k
                             \/ k \in scShared' /\ scContext' \in scShared' \cup {NoJob}
      BY DEF StaticsAreOwn
    <3>1. CASE k = j
      BY <3>1, <2>6, <1>4 DEF InjectTargets
    <3>2. CASE k # j
      BY <3>2, <2>0, <2>3, <2>5, <2>6, <1>4, <1>a DEF InjectTargets, StaticsAreOwn, InScript
    <3> QED
      BY <3>1, <3>2
  <2>9. HandlesAreOwn'
    BY <1>4, <1>a, <2>0, <2>5, <2>6 DEF InjectTargets, HandlesAreOwn, Apart
  <2> QED
    BY <2>1, <2>2, <2>7, <2>8, <2>9 DEF ScriptInv
<1>5. ASSUME NEW j \in Job, InjectContext(j) PROVE ScriptInv'
  <2>1. MessagesAreOwn'
    BY <1>5, <1>a, MessagesStay DEF InjectContext
  <2>2. ScriptTypeOK'
    BY <1>5, <1>a DEF InjectContext, Step, ScriptTypeOK, AnyJob, InScript
  <2>3. MeetingIsNoted' /\ HandlesAreOwn'
    BY <1>5, <1>a DEF InjectContext, Step, ScriptTypeOK, MeetingIsNoted, HandlesAreOwn,
       Inside, InScript, Apart
  <2>4. \A k \in Job : scPc[k] = "python" /\ k # j => {j, k} \subseteq scShared
    BY <1>5, <1>a DEF InjectContext, Step, MeetingIsNoted, Inside, InScript
  <2>5. StaticsAreOwn'
    BY <1>5, <1>a, <2>4 DEF InjectContext, Step, ScriptTypeOK, StaticsAreOwn
  <2> QED
    BY <2>1, <2>2, <2>3, <2>5 DEF ScriptInv
<1>6. ASSUME NEW j \in Job, ConnectServer(j) PROVE ScriptInv'
  <2>1. MessagesAreOwn'
    BY <1>6, <1>a, MessagesStay DEF ConnectServer
  <2>2. ScriptTypeOK'
    BY <1>6, <1>a DEF ConnectServer, ScriptTypeOK, AnyJob, InScript
  <2>3. MeetingIsNoted' /\ StaticsAreOwn'
    BY <1>6, <1>a DEF ConnectServer, ScriptTypeOK, MeetingIsNoted, StaticsAreOwn,
       Inside, InScript
  <2>4. HandlesAreOwn'
    BY <1>6, <1>a DEF ConnectServer, ScriptTypeOK, StaticsAreOwn, HandlesAreOwn, Apart
  <2> QED
    BY <2>1, <2>2, <2>3, <2>4 DEF ScriptInv
<1>7. ASSUME NEW j \in Job, SendResult(j) PROVE ScriptInv'
  <2>1. scHandle[j] # NoJob
    BY <1>7, <1>a DEF SendResult, HandlesAreOwn
  <2>2. MessagesAreOwn' /\ scChan' \in [Job -> Seq({"result", "completed"} \X Job)]
    <3>1. CASE Listening(j)
      BY <1>7, <2>1, <3>1, PostKeeps DEF SendResult
    <3>2. CASE ~ Listening(j)
      BY <1>7, <1>a, <3>2, MessagesStay DEF SendResult, ScriptTypeOK
    <3> QED
      BY <3>1, <3>2
  <2>3. /\ scPc' = scPc \/ scPc' = [scPc EXCEPT ![j] = "clear"]
        /\ scSends' = scSends \/ scSends' = [scSends EXCEPT ![j] = scSends[j] + 1]
        /\ scSends[j] < MaxResult /\ scPc[j] = "connected"
        /\ UNCHANGED <<scTargets, scContext, scHandle, scRead, scDrain, scGarbage, scOut,
                       scShared, scPanics>>
    BY <1>7 DEF SendResult
  <2>4. scSends' \in [Job -> 0..MaxResult]
    <3>1. scSends \in [Job -> 0..MaxResult]
      BY <1>a DEF ScriptTypeOK
    <3>2. scSends[j] + 1 \in 0..MaxResult
      BY <2>3, <3>1
    <3> QED
      BY <2>3, <3>1, <3>2
  <2>5. ScriptTypeOK'
    BY <1>a, <2>2, <2>3, <2>4 DEF ScriptTypeOK, InScript
  <2>6. MeetingIsNoted' /\ StaticsAreOwn' /\ HandlesAreOwn'
    BY <1>a, <2>3 DEF ScriptTypeOK, MeetingIsNoted, StaticsAreOwn, HandlesAreOwn, Inside,
       InScript, Apart
  <2> QED
    BY <2>2, <2>5, <2>6 DEF ScriptInv
<1>8. ASSUME NEW j \in Job, Signal(j) PROVE ScriptInv'
  <2>1. scHandle[j] # NoJob
    BY <1>8, <1>a DEF Signal, HandlesAreOwn
  <2>2. MessagesAreOwn' /\ scChan' \in [Job -> Seq({"result", "completed"} \X Job)]
    <3>1. CASE Listening(j)
      BY <1>8, <2>1, <3>1, PostKeeps DEF Signal
    <3>2. CASE ~ Listening(j)
      BY <1>8, <1>a, <3>2, MessagesStay DEF Signal, ScriptTypeOK
    <3> QED
      BY <3>1, <3>2
  <2>3. /\ scPc' = [scPc EXCEPT ![j] = "signalled"] \/ scPc' = [scPc EXCEPT ![j] = "clear"]
        /\ scPc[j] = "connected"
        /\ UNCHANGED <<scTargets, scContext, scHandle, scRead, scSends, scDrain, scGarbage,
                       scOut, scShared, scPanics>>
    BY <1>8 DEF Signal
  <2>4. ScriptTypeOK'
    BY <1>a, <2>2, <2>3 DEF ScriptTypeOK, InScript
  <2>5. \A k \in Job :
          /\ scPc'[k] \in InScript => scPc[k] \in InScript
          /\ scPc'[k] \in {"inject", "python", "connected"} => scPc'[k] = scPc[k]
    BY <1>a, <2>3 DEF ScriptTypeOK, InScript
  <2>6. MeetingIsNoted' /\ StaticsAreOwn' /\ HandlesAreOwn'
    BY <1>a, <2>3, <2>5 DEF MeetingIsNoted, StaticsAreOwn, HandlesAreOwn, Inside, Apart
  <2> QED
    BY <2>2, <2>4, <2>6 DEF ScriptInv
<1>9. ASSUME NEW j \in Job, ScriptEnds(j) PROVE ScriptInv'
  <2>1. MessagesAreOwn'
    BY <1>9, <1>a, MessagesStay DEF ScriptEnds
  <2>2. ScriptTypeOK'
    BY <1>9, <1>a DEF ScriptEnds, ScriptTypeOK, InScript
  <2>3. MeetingIsNoted' /\ StaticsAreOwn' /\ HandlesAreOwn'
    BY <1>9, <1>a DEF ScriptEnds, ScriptTypeOK, MeetingIsNoted, StaticsAreOwn,
       HandlesAreOwn, Inside, InScript, Apart
  <2> QED
    BY <2>1, <2>2, <2>3 DEF ScriptInv
<1>10. ASSUME NEW j \in Job, ClearTargets(j) PROVE ScriptInv'
  <2>1. MessagesAreOwn'
    BY <1>10, <1>a, MessagesStay DEF ClearTargets
  <2>2. ScriptTypeOK'
    BY <1>10, <1>a DEF ClearTargets, Step, ScriptTypeOK, AnyJob, InScript
  <2>3. \A k \in Job : scPc[k] \in {"inject", "python"} => k \in scShared
    BY <1>10, <1>a DEF ClearTargets, Step, MeetingIsNoted, Inside, InScript
  <2>4. MeetingIsNoted' /\ StaticsAreOwn' /\ HandlesAreOwn'
    BY <1>10, <1>a, <2>3 DEF ClearTargets, Step, ScriptTypeOK, MeetingIsNoted,
       StaticsAreOwn, HandlesAreOwn, Inside, InScript, Apart
  <2> QED
    BY <2>1, <2>2, <2>4 DEF ScriptInv
<1>11. ASSUME NEW j \in Job, ClearContext(j) PROVE ScriptInv'
  <2>1. MessagesAreOwn'
    BY <1>11, <1>a, MessagesStay DEF ClearContext
  <2>2. ScriptTypeOK'
    BY <1>11, <1>a DEF ClearContext, Step, ScriptTypeOK, AnyJob
  <2>3. \A k \in Job : scPc[k] = "python" => k \in scShared
    BY <1>11, <1>a DEF ClearContext, Step, MeetingIsNoted, Inside, InScript
  <2>4. MeetingIsNoted' /\ StaticsAreOwn' /\ HandlesAreOwn'
    BY <1>11, <1>a, <2>3 DEF ClearContext, Step, ScriptTypeOK, MeetingIsNoted,
       StaticsAreOwn, HandlesAreOwn, Inside, InScript, Apart
  <2> QED
    BY <2>1, <2>2, <2>4 DEF ScriptInv
<1>12. ASSUME NEW j \in Job, ScriptPanics(j) PROVE ScriptInv'
  <2>1. MessagesAreOwn'
    BY <1>12, <1>a, MessagesStay DEF ScriptPanics
  <2>2. ScriptTypeOK'
    BY <1>12, <1>a DEF ScriptPanics, ScriptTypeOK
  <2>3. MeetingIsNoted' /\ StaticsAreOwn' /\ HandlesAreOwn'
    BY <1>12, <1>a DEF ScriptPanics, ScriptTypeOK, MeetingIsNoted, StaticsAreOwn,
       HandlesAreOwn, Inside, InScript, Apart
  <2> QED
    BY <2>1, <2>2, <2>3 DEF ScriptInv
<1>13. ASSUME NEW j \in Job, DrainRuns(j) PROVE ScriptInv'
  <2>1. MessagesAreOwn'
    BY <1>13, <1>a, MessagesStay DEF DrainRuns
  <2>2. ScriptTypeOK'
    BY <1>13, <1>a DEF DrainRuns, ScriptTypeOK
  <2>3. MeetingIsNoted' /\ StaticsAreOwn' /\ HandlesAreOwn'
    BY <1>13, <1>a DEF DrainRuns, MeetingIsNoted, StaticsAreOwn, HandlesAreOwn, Inside, Apart
  <2> QED
    BY <2>1, <2>2, <2>3 DEF ScriptInv
<1>14. ASSUME NEW j \in Job, DrainPublishes(j) PROVE ScriptInv'
  <2> DEFINE Msgs == {"result", "completed"} \X Job
  <2>1. /\ scChan \in [Job -> Seq(Msgs)] /\ scChan[j] # <<>>
        /\ scChan' = [scChan EXCEPT ![j] = Tail(scChan[j])]
        /\ UNCHANGED <<scPc, scTargets, scContext, scHandle, scRead, scSends, scGarbage,
                       scShared, scPanics>>
    BY <1>14, <1>a DEF DrainPublishes, ScriptTypeOK
  <2>2. PICK s, m : s = scChan[j] /\ m = Head(scChan[j])
    OBVIOUS
  <2>3. scOut' = scOut \cup {<<m[1], m[2], j>>}
    BY <1>14, <2>2 DEF DrainPublishes
  <2>4. \A x \in Msgs : x[1] \in {"result", "completed"} /\ x[2] \in Job
    OBVIOUS
  <2>5. scDrain' \in [Job -> {"none", "spawned", "recv", "ended"}]
    BY <1>14, <1>a DEF DrainPublishes, ScriptTypeOK
  <2> HIDE DEF Msgs
  <2>6. s \in Seq(Msgs) /\ s # <<>> /\ m = Head(s)
    BY <2>1, <2>2
  <2>7. /\ Len(s) \in Nat \ {0} /\ m = s[1] /\ m \in Msgs
        /\ Tail(s) \in Seq(Msgs) /\ Len(Tail(s)) = Len(s) - 1
        /\ \A i \in 1..Len(Tail(s)) : i + 1 \in 1..Len(s) /\ Tail(s)[i] = s[i + 1]
    BY <2>6
  <2>8. scChan' \in [Job -> Seq(Msgs)] /\ scChan'[j] = Tail(s)
        /\ \A k \in Job : k # j => scChan'[k] = scChan[k]
    BY <2>1, <2>2, <2>7
  <2>9. Apart(m[2], j)
    <3>1. 1 \in 1..Len(s)
      BY <2>7
    <3> QED
      BY <2>2, <2>7, <3>1, <1>a DEF MessagesAreOwn
  <2>10. ASSUME NEW k \in Job, NEW i \in 1..Len(scChan'[k])
         PROVE  Apart(scChan'[k][i][2], k)
    <3>1. CASE k # j
      BY <2>8, <3>1, <2>10, <1>a DEF MessagesAreOwn
    <3>2. CASE k = j
      <4>1. i + 1 \in 1..Len(scChan[j]) /\ scChan'[k][i] = scChan[j][i + 1]
        BY <2>2, <2>7, <2>8, <2>10, <3>2
      <4> QED
        BY <4>1, <3>2, <1>a DEF MessagesAreOwn
    <3> QED
      BY <3>1, <3>2
  <2>11. \A x \in scOut' : Apart(x[2], x[3])
    <3>1. <<m[1], m[2], j>>[2] = m[2] /\ <<m[1], m[2], j>>[3] = j
      OBVIOUS
    <3>2. PICK t : t = <<m[1], m[2], j>>
      OBVIOUS
    <3> QED
      BY <2>3, <2>9, <3>1, <3>2, <1>a DEF MessagesAreOwn
  <2>12. MessagesAreOwn'
    <3>1. UNCHANGED scShared
      BY <2>1
    <3>2. \A k \in Job : \A i \in 1..Len(scChan'[k]) : Apart(scChan'[k][i][2], k)
      BY <2>10
    <3> QED
      BY <2>11, <3>1, <3>2 DEF MessagesAreOwn, Apart
  <2>13. scOut' \subseteq {"result", "completed"} \X Job \X Job
    BY <2>3, <2>4, <2>7, <1>a DEF ScriptTypeOK
  <2>14. ScriptTypeOK'
    BY <2>1, <2>5, <2>8, <2>13, <1>a DEF ScriptTypeOK, Msgs
  <2>15. MeetingIsNoted' /\ StaticsAreOwn' /\ HandlesAreOwn'
    BY <2>1, <1>a DEF MeetingIsNoted, StaticsAreOwn, HandlesAreOwn, Inside, Apart
  <2> QED
    BY <2>12, <2>14, <2>15 DEF ScriptInv
<1>15. ASSUME NEW j \in Job, DrainEnds(j) PROVE ScriptInv'
  <2>1. MessagesAreOwn'
    BY <1>15, <1>a, MessagesStay DEF DrainEnds
  <2>2. ScriptTypeOK'
    BY <1>15, <1>a DEF DrainEnds, ScriptTypeOK
  <2>3. MeetingIsNoted' /\ StaticsAreOwn' /\ HandlesAreOwn'
    BY <1>15, <1>a DEF DrainEnds, MeetingIsNoted, StaticsAreOwn, HandlesAreOwn, Inside, Apart
  <2> QED
    BY <2>1, <2>2, <2>3 DEF ScriptInv
<1>16. ASSUME NEW j \in Job, JobOver(j) PROVE ScriptInv'
  <2>1. MessagesAreOwn'
    BY <1>16, <1>a, MessagesStay DEF JobOver
  <2>2. ScriptTypeOK'
    BY <1>16, <1>a DEF JobOver, ScriptTypeOK
  <2>3. MeetingIsNoted' /\ StaticsAreOwn' /\ HandlesAreOwn'
    BY <1>16, <1>a DEF JobOver, ScriptTypeOK, MeetingIsNoted, StaticsAreOwn,
       HandlesAreOwn, Inside, InScript, Apart
  <2> QED
    BY <2>1, <2>2, <2>3 DEF ScriptInv
<1> QED
  BY <1>1, <1>2, <1>3, <1>4, <1>5, <1>6, <1>7, <1>8, <1>9, <1>10, <1>11, <1>12, <1>13,
     <1>14, <1>15, <1>16 DEF ScriptNext, ThreadStep, DrainStep

\* The inductive invariant has what JobsKeepApart says of each job.
LEMMA ScriptInvSafe == ScriptInv => JobsKeepApart
BY DEF ScriptInv, JobsKeepApart, HandlesAreOwn, MessagesAreOwn, Apart

-----------------------------------------------------------------------------
(* The installer: Toolchain *)

Fetched == {"check", "download", "stop", "open", "write", "rename", "note", "unit",
            "enable", "start"}

\* An operation past its manifest has a version.
ToolchainInv == ToolchainTypeOK /\ \A a \in Actor : tcPc[a] \in Fetched => tcGot[a] # 0

\* Until operations cross, one at a time is under way.
OneAtATime == \A a, b \in Actor : tcPc[a] # "idle" /\ tcPc[b] # "idle" => a = b

\* The copy of the process that writes it, and the binary, which is complete.
FilesInHand ==
    /\ tcBin.writers = {} /\ tcBin.spoilt = FALSE
    /\ (\A a \in Actor : tcPc[a] # "write") => tcTmp.writers = {}
    /\ \A a \in Actor :
        /\ tcPc[a] = "write" => tcTmp = [ver |-> tcGot[a], writers |-> {a}, spoilt |-> FALSE]
        /\ tcPc[a] = "rename" => tcTmp = [ver |-> tcGot[a], writers |-> {}, spoilt |-> FALSE]

\* What an operation has behind it at each step; its answer stands while nothing runs.
StepsBehind ==
    \A a \in Actor :
        /\ tcPc[a] = "note" => tcBin # NoFile /\ tcBin.ver = tcGot[a]
        /\ tcPc[a] \in {"unit", "enable"} => tcBin # NoFile
        /\ tcPc[a] = "start" /\ tcOp[a] = "install" => tcBin # NoFile /\ tcUnit /\ tcEnabled
        /\ tcPc[a] \in {"remove", "halt", "disable", "deregister", "delete"} =>
             tcOp[a] = "remove"
        /\ tcSaid[a] = "ok" => \A b \in Actor : tcPc[b] = "idle"
        /\ tcOp[a] = "install" /\ tcSaid[a] = "ok" => tcBin # NoFile /\ tcUnit /\ tcEnabled

\* A note that was written is that of the binary.
NoteKept ==
    /\ tcBin # NoFile => tcNote = tcBin.ver \/ tcUnnoted
    /\ \A a \in Actor : tcPc[a] = "note" => tcUnnoted

\* Until the manifest goes back, the note is never ahead of the binary, and neither
\* is ahead of the manifest an operation works with.
VersionsOrdered ==
    tcWentBack \/
        /\ tcNote <= tcRelease
        /\ tcBin # NoFile => tcNote <= tcBin.ver /\ tcBin.ver <= tcRelease
        /\ \A a \in Actor : tcPc[a] \in Fetched =>
              /\ tcNote <= tcGot[a] /\ tcGot[a] <= tcRelease
              /\ tcBin # NoFile => tcBin.ver <= tcGot[a]

InOrder == OneAtATime /\ FilesInHand /\ StepsBehind
InstallerInv == ToolchainInv /\ (tcCrossed \/ (InOrder /\ NoteKept /\ VersionsOrdered))

\* A writer that closes a file, or dies with it open, leaves a file (place_binary).
LEMMA ClosedType ==
    ASSUME NEW f \in File \cup {NoFile}, NEW a
    PROVE  /\ Closed(f, a) \in File \cup {NoFile}
           /\ a \in f.writers => [Closed(f, a) EXCEPT !.spoilt = TRUE] \in File \cup {NoFile}
           /\ (IF a \in f.writers THEN [Closed(f, a) EXCEPT !.spoilt = TRUE] ELSE f)
                \in File \cup {NoFile}
<1>1. CASE f = NoFile
  <2>1. Closed(f, a) = NoFile /\ a \notin f.writers
    BY <1>1 DEF Closed, NoFile
  <2> QED
    BY <1>1, <2>1
<1>2. CASE f \in File
  <2>1. Closed(f, a) \in File
    BY <1>2 DEF Closed, File
  <2>2. [Closed(f, a) EXCEPT !.spoilt = TRUE] \in File
    BY <2>1 DEF File
  <2> QED
    BY <1>2, <2>1, <2>2
<1> QED
  BY <1>1, <1>2

\* At the start nothing is installed (ToolchainInit).
LEMMA ToolchainInitInv == ToolchainInit => InstallerInv
<1> SUFFICES ASSUME ToolchainInit PROVE InstallerInv
  OBVIOUS
<1>a. /\ tcUnit \in BOOLEAN /\ tcEnabled \in BOOLEAN
      /\ tcCrossed \in BOOLEAN /\ tcWentBack \in BOOLEAN /\ tcUnnoted \in BOOLEAN
  BY DEF ToolchainInit
<1>b. tcRelease \in Release /\ 0 \in 0..MaxRelease /\ 0 \in 0..MaxOps
      /\ 0 \in 0..MaxFault /\ 0 \in 0..MaxCrash
  BY ToolchainAssumption DEF ToolchainInit, Release
<1>c. /\ tcBin = NoFile /\ tcTmp = NoFile /\ tcNote = 0 /\ tcRun = 0
      /\ tcOps = 0 /\ tcFaults = 0 /\ tcCrashes = 0
      /\ tcOp \in [Actor -> ToolOp] /\ tcPc \in [Actor -> ToolPc]
      /\ tcGot \in [Actor -> 0..MaxRelease] /\ tcSaid \in [Actor -> {"none", "ok", "error"}]
      /\ \A a \in Actor : tcPc[a] = "idle"
  BY <1>b DEF ToolchainInit, ToolOp, ToolPc
<1>1. ToolchainInv
  BY <1>a, <1>b, <1>c DEF ToolchainInv, ToolchainTypeOK, Fetched
<1>2. OneAtATime /\ FilesInHand /\ StepsBehind
  BY DEF ToolchainInit, OneAtATime, FilesInHand, StepsBehind, NoFile
<1>3. NoteKept /\ VersionsOrdered
  <2>1. tcRelease = 1 /\ tcNote = 0 /\ tcBin = NoFile
    BY DEF ToolchainInit
  <2>2. \A a \in Actor : tcPc[a] \notin Fetched /\ tcPc[a] # "note"
    BY <1>c DEF Fetched
  <2> QED
    BY <2>1, <2>2 DEF NoteKept, VersionsOrdered
<1> QED
  BY <1>1, <1>2, <1>3 DEF InstallerInv, InOrder

\* The history notes crossings, rollbacks and notes that were not written (BeginOp,
\* PublishRelease, RenameBinary, WriteNote).
LEMMA PastType ==
    ASSUME ToolchainTypeOK, [ToolchainNext]_tcVars
    PROVE  tcCrossed' \in BOOLEAN /\ tcWentBack' \in BOOLEAN /\ tcUnnoted' \in BOOLEAN
<1>1. tcCrossed \in BOOLEAN /\ tcWentBack \in BOOLEAN /\ tcUnnoted \in BOOLEAN
  BY DEF ToolchainTypeOK
<1>2. CASE UNCHANGED tcPast
  BY <1>1, <1>2 DEF tcPast
<1>3. CASE PublishRelease
  BY <1>1, <1>3 DEF PublishRelease
<1>4. ASSUME NEW a \in Actor, NEW op \in ToolOp, BeginOp(a, op)
      PROVE  tcCrossed' \in BOOLEAN /\ UNCHANGED <<tcWentBack, tcUnnoted>>
  BY <1>1, <1>4 DEF BeginOp
<1>5. ASSUME NEW a \in Actor, RenameBinary(a) \/ WriteNote(a)
      PROVE  UNCHANGED <<tcCrossed, tcWentBack>> /\ tcUnnoted' \in {tcUnnoted, TRUE, FALSE}
  BY <1>5 DEF RenameBinary, WriteNote
<1>6. ASSUME NEW a \in Actor, ToolStep(a), ~ RenameBinary(a), ~ WriteNote(a)
      PROVE  UNCHANGED tcPast
  BY <1>6 DEF ToolStep, FetchManifest, CheckInstalled, Download, TryStop, OpenCopy,
     FinishCopy, CreateUnit, EnableService, StartService, StepFails, CheckRemove,
     HaltService, DisableService, DeleteUnit, DeleteBinary
<1>7. ASSUME NEW a \in Actor, KillOp(a) PROVE UNCHANGED tcPast
  BY <1>7 DEF KillOp
<1>8. CASE StopByHand \/ RestartByHand \/ UNCHANGED tcVars
  <2>1. UNCHANGED tcPast
    BY <1>8 DEF StopByHand, RestartByHand, tcVars
  <2> QED
    BY <1>2, <2>1
<1> QED
  BY <1>1, <1>2, <1>3, <1>4, <1>5, <1>6, <1>7, <1>8 DEF ToolchainNext

\* Every step of any number of processes keeps the types, and the version an
\* operation works with (install, reinstall, update and remove_one).
LEMMA ToolchainStepInv == ToolchainInv /\ [ToolchainNext]_tcVars => ToolchainInv'
<1> SUFFICES ASSUME ToolchainInv, [ToolchainNext]_tcVars PROVE ToolchainInv'
  OBVIOUS
<1> USE ToolchainAssumption DEF ToolchainInv, ToolchainTypeOK, tcFileVars, tcServiceVars,
        tcActorVars, tcBoundVars, tcPast
<1>h. tcCrossed' \in BOOLEAN /\ tcWentBack' \in BOOLEAN /\ tcUnnoted' \in BOOLEAN
  BY PastType
<1> USE <1>h
<1>1. CASE UNCHANGED tcVars
  BY <1>1 DEF tcVars
<1>2. CASE PublishRelease
  BY <1>2 DEF PublishRelease, Release
<1>3. CASE StopByHand
  BY <1>3 DEF StopByHand
<1>4. CASE RestartByHand
  BY <1>4 DEF RestartByHand, File, Release
<1>5. ASSUME NEW a \in Actor, NEW op \in ToolOp, BeginOp(a, op) PROVE ToolchainInv'
  BY <1>5 DEF BeginOp, ToolPc, Fetched
<1>6. ASSUME NEW a \in Actor, KillOp(a) PROVE ToolchainInv'
  BY <1>6, ClosedType DEF KillOp, Goto, ToolPc, Fetched
<1>7. ASSUME NEW a \in Actor, FetchManifest(a) PROVE ToolchainInv'
  BY <1>7 DEF FetchManifest, ToolPc, Fetched, Release
<1>8. ASSUME NEW a \in Actor, CheckInstalled(a) PROVE ToolchainInv'
  BY <1>8 DEF CheckInstalled, Goto, Says, ToolPc, Fetched
<1>9. ASSUME NEW a \in Actor, Download(a) PROVE ToolchainInv'
  BY <1>9 DEF Download, Goto, ToolPc, Fetched
<1>10. ASSUME NEW a \in Actor, TryStop(a) PROVE ToolchainInv'
  BY <1>10 DEF TryStop, MayFail, Goto, ToolPc, Fetched
<1>11. ASSUME NEW a \in Actor, OpenCopy(a) PROVE ToolchainInv'
  <2>1. tcGot[a] \in Release
    BY <1>11 DEF OpenCopy, Fetched, Release
  <2>2. tcTmp.writers \cup {a} \in SUBSET Actor
    BY <1>11 DEF File, NoFile
  <2>3. tcTmp' \in File
    BY <1>11, <2>1, <2>2 DEF OpenCopy, File
  <2> QED
    BY <1>11, <2>3 DEF OpenCopy, Goto, ToolPc, Fetched
<1>12. ASSUME NEW a \in Actor, FinishCopy(a) PROVE ToolchainInv'
  <2>1. tcTmp' \in File \cup {NoFile} /\ tcBin' \in File \cup {NoFile}
    BY <1>12, ClosedType DEF FinishCopy
  <2> QED
    BY <1>12, <2>1 DEF FinishCopy, Goto, ToolPc, Fetched
<1>13. ASSUME NEW a \in Actor, RenameBinary(a) PROVE ToolchainInv'
  <2>1. tcTmp' \in {tcTmp, NoFile} /\ tcBin' \in {tcBin, tcTmp}
        /\ UNCHANGED <<tcRelease, tcNote, tcServiceVars>>
    BY <1>13 DEF RenameBinary
  <2>2. tcFaults' \in 0..MaxFault /\ UNCHANGED <<tcOps, tcCrashes>>
    BY <1>13 DEF RenameBinary, MayFail
  <2>3. tcPc[a] = "rename" /\ (Goto(a, "note") \/ Says(a, "ok") \/ Says(a, "error"))
    BY <1>13 DEF RenameBinary, Gone
  <2> QED
    BY <2>1, <2>2, <2>3 DEF Goto, Says, ToolPc, Fetched
<1>14. ASSUME NEW a \in Actor, WriteNote(a) PROVE ToolchainInv'
  BY <1>14 DEF WriteNote, MayFail, Goto, ToolPc, Fetched
<1>15. ASSUME NEW a \in Actor, CreateUnit(a) PROVE ToolchainInv'
  <2>1. tcUnit' \in BOOLEAN /\ tcEnabled' \in BOOLEAN
    BY <1>15 DEF CreateUnit
  <2>2. /\ tcFaults' \in 0..MaxFault /\ UNCHANGED <<tcOps, tcCrashes, tcRun>>
        /\ UNCHANGED <<tcPast, tcFileVars>>
    BY <1>15 DEF CreateUnit, MayFail
  <2>3. /\ tcPc[a] = "unit"
        /\ Goto(a, "enable") \/ Goto(a, "start")
    BY <1>15 DEF CreateUnit, Goto
  <2> QED
    BY <2>1, <2>2, <2>3 DEF Goto, Says, ToolPc, Fetched
<1>16. ASSUME NEW a \in Actor, EnableService(a) PROVE ToolchainInv'
  <2>1. tcUnit' \in BOOLEAN /\ tcEnabled' \in BOOLEAN
    BY <1>16 DEF EnableService
  <2>2. /\ tcFaults' \in 0..MaxFault /\ UNCHANGED <<tcOps, tcCrashes, tcRun>>
        /\ UNCHANGED <<tcPast, tcFileVars>>
    BY <1>16 DEF EnableService, MayFail
  <2>3. /\ tcPc[a] = "enable"
        /\ Goto(a, "start") \/ Says(a, "error")
    BY <1>16 DEF EnableService
  <2> QED
    BY <2>1, <2>2, <2>3 DEF Goto, Says, ToolPc, Fetched
<1>17. ASSUME NEW a \in Actor, StartService(a) PROVE ToolchainInv'
  <2>1. tcRun' \in 0..MaxRelease
    BY <1>17 DEF StartService, File, NoFile, Release
  <2> QED
    BY <1>17, <2>1 DEF StartService, MayFail, Says, ToolPc, Fetched
<1>18. ASSUME NEW a \in Actor, StepFails(a) PROVE ToolchainInv'
  <2>1. tcTmp' \in File \cup {NoFile} /\ tcBin' \in File \cup {NoFile}
    BY <1>18, ClosedType DEF StepFails
  <2>2. /\ tcFaults' \in 0..MaxFault /\ UNCHANGED <<tcOps, tcCrashes>>
        /\ UNCHANGED <<tcRelease, tcNote, tcServiceVars>>
    BY <1>18 DEF StepFails, MayFail
  <2>3. Says(a, "ok") \/ Says(a, "error")
    BY <1>18 DEF StepFails, Gone
  <2> QED
    BY <2>1, <2>2, <2>3 DEF Says, ToolPc, Fetched
<1>19. ASSUME NEW a \in Actor, CheckRemove(a) PROVE ToolchainInv'
  BY <1>19 DEF CheckRemove, Goto, Says, ToolPc, Fetched
<1>20. ASSUME NEW a \in Actor, HaltService(a) PROVE ToolchainInv'
  BY <1>20 DEF HaltService, MayFail, Goto, ToolPc, Fetched
<1>21. ASSUME NEW a \in Actor, DisableService(a) PROVE ToolchainInv'
  <2>1. tcUnit' \in BOOLEAN /\ tcEnabled' \in BOOLEAN
    BY <1>21 DEF DisableService
  <2>2. /\ tcFaults' \in 0..MaxFault /\ UNCHANGED <<tcOps, tcCrashes, tcRun>>
        /\ UNCHANGED <<tcPast, tcFileVars>>
    BY <1>21 DEF DisableService, MayFail
  <2>3. Goto(a, "deregister")
    BY <1>21 DEF DisableService
  <2> QED
    BY <2>1, <2>2, <2>3 DEF Goto, Says, ToolPc, Fetched
<1>22. ASSUME NEW a \in Actor, DeleteUnit(a) PROVE ToolchainInv'
  <2>1. tcUnit' \in BOOLEAN /\ tcEnabled' \in BOOLEAN
    BY <1>22 DEF DeleteUnit
  <2>2. /\ tcFaults' \in 0..MaxFault /\ UNCHANGED <<tcOps, tcCrashes, tcRun>>
        /\ UNCHANGED <<tcPast, tcFileVars>>
    BY <1>22 DEF DeleteUnit, MayFail
  <2>3. Goto(a, "delete") \/ Says(a, "error")
    BY <1>22 DEF DeleteUnit
  <2> QED
    BY <2>1, <2>2, <2>3 DEF Goto, Says, ToolPc, Fetched
<1>23. ASSUME NEW a \in Actor, DeleteBinary(a) PROVE ToolchainInv'
  BY <1>23 DEF DeleteBinary, MayFail, Says, ToolPc, Fetched
<1> QED
  BY <1>1, <1>2, <1>3, <1>4, <1>5, <1>6, <1>7, <1>8, <1>9, <1>10, <1>11, <1>12, <1>13,
     <1>14, <1>15, <1>16, <1>17, <1>18, <1>19, <1>20, <1>21, <1>22, <1>23
  DEF ToolchainNext, ToolStep

\* What touches neither the files, nor the service, nor an operation breaks no
\* order (PublishRelease, StopByHand, RestartByHand).
LEMMA InOrderQuiet ==
    ASSUME OneAtATime, FilesInHand, StepsBehind,
           UNCHANGED <<tcBin, tcTmp, tcUnit, tcEnabled, tcActorVars>>
    PROVE  OneAtATime' /\ FilesInHand' /\ StepsBehind'
<1>1. OneAtATime'
  BY DEF OneAtATime, tcActorVars
<1>2. FilesInHand'
  BY DEF FilesInHand, tcActorVars
<1>3. StepsBehind'
  BY DEF StepsBehind, tcActorVars
<1> QED
  BY <1>1, <1>2, <1>3

\* One operation at a time: no step, failure or kill breaks what the next one relies
\* on (place_binary, enable and start of a service).
LEMMA InOrderStep ==
    ASSUME ToolchainInv, ToolchainInv', InOrder, [ToolchainNext]_tcVars, ~ tcCrossed'
    PROVE  InOrder'
<1>a. /\ ToolchainTypeOK /\ ToolchainTypeOK' /\ OneAtATime /\ FilesInHand /\ StepsBehind
  BY DEF InOrder, ToolchainInv
<1>b. \A a \in Actor : tcPc[a] \in Fetched => tcGot[a] # 0
  BY DEF ToolchainInv
<1> USE DEF tcFileVars, tcServiceVars, tcActorVars, tcBoundVars, tcPast
<1> DEFINE Goal == OneAtATime' /\ FilesInHand' /\ StepsBehind'
<1>1. CASE UNCHANGED tcVars
  BY <1>1, <1>a, InOrderQuiet DEF tcVars, InOrder
<1>2. CASE PublishRelease
  BY <1>2, <1>a, InOrderQuiet DEF PublishRelease, InOrder
<1>3. CASE StopByHand \/ RestartByHand
  BY <1>3, <1>a, InOrderQuiet DEF StopByHand, RestartByHand, InOrder
<1>4. ASSUME NEW a \in Actor, NEW op \in ToolOp, BeginOp(a, op)
      PROVE  Goal
  <2>1. \A b \in Actor : tcPc[b] = "idle"
    BY <1>4 DEF BeginOp
  <2>2. /\ tcOp \in [Actor -> ToolOp] /\ tcPc \in [Actor -> ToolPc]
    BY <1>a DEF ToolchainTypeOK
  <2>3. /\ tcPc'[a] \in {"remove", "fetch"} /\ tcOp'[a] = op
        /\ tcPc'[a] = "remove" => op = "remove"
        /\ \A b \in Actor : b # a => tcPc'[b] = "idle"
        /\ \A b \in Actor : tcSaid'[b] = "none"
        /\ UNCHANGED <<tcFileVars, tcServiceVars>>
    BY <1>4, <2>1, <2>2 DEF BeginOp
  <2>4. OneAtATime'
    BY <2>3 DEF OneAtATime
  <2>5. FilesInHand'
    BY <2>1, <2>3, <1>a DEF FilesInHand
  <2>6. StepsBehind'
    BY <2>1, <2>3, <1>a DEF StepsBehind
  <2> QED
    BY <2>4, <2>5, <2>6
<1>5. ASSUME NEW a \in Actor, ToolStep(a) \/ KillOp(a)
      PROVE  Goal
  <2>a. /\ tcPc[a] # "idle"
        /\ \A b \in Actor : tcPc[b] # "idle" => b = a
    BY <1>5, <1>a DEF OneAtATime, ToolStep, KillOp, FetchManifest, CheckInstalled, Download,
       TryStop, OpenCopy, FinishCopy, RenameBinary, WriteNote, CreateUnit, EnableService,
       StartService, StepFails, CheckRemove, HaltService, DisableService, DeleteUnit,
       DeleteBinary
  <2>b. /\ tcOp \in [Actor -> ToolOp] /\ tcPc \in [Actor -> ToolPc]
        /\ tcGot \in [Actor -> 0..MaxRelease] /\ tcSaid \in [Actor -> {"none", "ok", "error"}]
    BY <1>a DEF ToolchainTypeOK
  <2>c. /\ tcPc[a] = "write" => tcTmp = [ver |-> tcGot[a], writers |-> {a}, spoilt |-> FALSE]
        /\ tcPc[a] = "rename" => tcTmp = [ver |-> tcGot[a], writers |-> {}, spoilt |-> FALSE]
        /\ tcPc[a] # "write" => tcTmp.writers = {}
        /\ tcBin.writers = {} /\ tcBin.spoilt = FALSE
    BY <1>a, <2>a DEF FilesInHand
  <2>e. /\ tcPc[a] = "note" => tcBin # NoFile /\ tcBin.ver = tcGot[a]
        /\ tcPc[a] \in {"unit", "enable"} => tcBin # NoFile
        /\ tcPc[a] = "start" /\ tcOp[a] = "install" => tcBin # NoFile /\ tcUnit /\ tcEnabled
        /\ tcPc[a] \in {"remove", "halt", "disable", "deregister", "delete"} =>
             tcOp[a] = "remove"
        /\ \A b \in Actor : tcSaid[b] # "ok"
    BY <1>a, <2>a DEF StepsBehind
  <2>f. \A b \in Actor : b # a => tcPc'[b] = "idle" /\ tcSaid'[b] # "ok"
    <3> SUFFICES ASSUME NEW b \in Actor, b # a PROVE tcPc'[b] = "idle" /\ tcSaid'[b] # "ok"
      OBVIOUS
    <3>1. tcPc[b] = "idle" /\ tcSaid[b] # "ok"
      BY <2>a, <2>e
    <3>2. tcPc'[b] = tcPc[b] /\ tcSaid'[b] = tcSaid[b]
      BY <1>5, <2>b DEF ToolStep, KillOp, FetchManifest, CheckInstalled, Download,
         TryStop, OpenCopy, FinishCopy, RenameBinary, WriteNote, CreateUnit, EnableService,
         StartService, StepFails, CheckRemove, HaltService, DisableService, DeleteUnit,
         DeleteBinary, Goto, Says, Gone
    <3> QED
      BY <3>1, <3>2
  <2>g. SUFFICES
        /\ tcPc'[a] = "write" => tcTmp' = [ver |-> tcGot'[a], writers |-> {a}, spoilt |-> FALSE]
        /\ tcPc'[a] = "rename" => tcTmp' = [ver |-> tcGot'[a], writers |-> {}, spoilt |-> FALSE]
        /\ tcPc'[a] # "write" => tcTmp'.writers = {}
        /\ tcBin'.writers = {} /\ tcBin'.spoilt = FALSE
        /\ tcPc'[a] = "note" => tcBin' # NoFile /\ tcBin'.ver = tcGot'[a]
        /\ tcPc'[a] \in {"unit", "enable"} => tcBin' # NoFile
        /\ tcPc'[a] = "start" /\ tcOp'[a] = "install" => tcBin' # NoFile /\ tcUnit' /\ tcEnabled'
        /\ tcPc'[a] \in {"remove", "halt", "disable", "deregister", "delete"} =>
             tcOp'[a] = "remove"
        /\ tcSaid'[a] = "ok" => tcPc'[a] = "idle"
        /\ tcOp'[a] = "install" /\ tcSaid'[a] = "ok" => tcBin' # NoFile /\ tcUnit' /\ tcEnabled'
    <3>1. OneAtATime'
      BY <2>f DEF OneAtATime
    <3>2. FilesInHand'
      BY <2>f, <2>g DEF FilesInHand
    <3>3. StepsBehind'
      BY <2>f, <2>g DEF StepsBehind
    <3> QED
      BY <3>1, <3>2, <3>3
  <2>2. CASE KillOp(a)
    <3>1. tcBin' = tcBin
      BY <2>2, <2>c DEF KillOp
    <3>2. tcTmp'.writers = {}
      <4>1. CASE tcPc[a] = "write"
        BY <2>2, <2>c, <4>1 DEF KillOp, Closed
      <4>2. CASE tcPc[a] # "write"
        BY <2>2, <2>c, <4>2 DEF KillOp
      <4> QED
        BY <4>1, <4>2
    <3> QED
      BY <2>2, <2>b, <2>c, <2>e, <3>1, <3>2 DEF KillOp, Goto
  <2>3. CASE FetchManifest(a)
    <3>2. tcPc'[a] = "check" /\ tcPc[a] = "fetch"
          /\ UNCHANGED <<tcFileVars, tcServiceVars, tcOp, tcSaid>>
      BY <2>3, <2>b DEF FetchManifest
    <3> QED
      BY <2>b, <2>c, <2>e, <3>2
  <2>4. CASE CheckInstalled(a)
    BY <2>4, <2>b, <2>c, <2>e DEF CheckInstalled, Goto, Says
  <2>5. CASE Download(a)
    BY <2>5, <2>b, <2>c, <2>e DEF Download, Goto
  <2>6. CASE TryStop(a)
    BY <2>6, <2>b, <2>c, <2>e DEF TryStop, MayFail, Goto
  <2>7. CASE OpenCopy(a)
    <3>1. tcTmp.writers = {}
      BY <2>7, <2>c DEF OpenCopy
    <3>2. tcTmp' = [ver |-> tcGot[a], writers |-> {a}, spoilt |-> FALSE]
      BY <2>7, <3>1 DEF OpenCopy
    <3> QED
      BY <2>7, <2>b, <2>c, <2>e, <3>2 DEF OpenCopy, Goto
  <2>8. CASE FinishCopy(a)
    <3>1. tcTmp = [ver |-> tcGot[a], writers |-> {a}, spoilt |-> FALSE]
      BY <2>8, <2>c DEF FinishCopy
    <3>2. tcTmp' = [ver |-> tcGot[a], writers |-> {}, spoilt |-> FALSE]
      BY <2>8, <3>1 DEF FinishCopy, Closed
    <3>3. tcBin' = tcBin
      <4>1. tcBin \in File \cup {NoFile} /\ tcBin.writers = {}
        BY <1>a, <2>c DEF ToolchainTypeOK
      <4> QED
        BY <2>8, <4>1 DEF FinishCopy, Closed, File, NoFile
    <3> QED
      BY <2>8, <2>b, <2>c, <2>e, <3>2, <3>3 DEF FinishCopy, Goto
  <2>9. CASE RenameBinary(a)
    <3>1. tcTmp = [ver |-> tcGot[a], writers |-> {}, spoilt |-> FALSE]
      BY <2>9, <2>c DEF RenameBinary
    <3>2. tcGot[a] # 0
      BY <2>9, <1>b DEF RenameBinary, Fetched
    <3>3. tcTmp # NoFile
      BY <3>1, <3>2 DEF NoFile
    <3>4. tcBin' = tcTmp /\ tcTmp' = NoFile /\ (Goto(a, "note") \/ Gone(a))
          /\ UNCHANGED <<tcRelease, tcNote, tcUnit, tcEnabled>>
      BY <2>9, <3>3 DEF RenameBinary
    <3>5. tcTmp'.writers = {} /\ tcBin'.writers = {} /\ tcBin'.spoilt = FALSE
          /\ tcBin'.ver = tcGot[a] /\ tcBin' # NoFile
      BY <3>1, <3>3, <3>4 DEF NoFile
    <3>6. /\ tcPc'[a] \in {"note", "idle"} /\ tcPc[a] = "rename" /\ UNCHANGED <<tcOp, tcGot>>
          /\ tcSaid'[a] = "ok" => tcPc'[a] = "idle" /\ tcOp[a] = "update"
      BY <2>9, <3>4, <2>b, <2>e DEF Goto, Gone, Says, RenameBinary
    <3> QED
      BY <2>b, <2>e, <3>4, <3>5, <3>6
  <2>10. CASE WriteNote(a)
    BY <2>10, <2>b, <2>c, <2>e DEF WriteNote, MayFail, Goto
  <2>11. CASE CreateUnit(a)
    BY <2>11, <2>b, <2>c, <2>e DEF CreateUnit, MayFail, Goto
  <2>12. CASE EnableService(a)
    BY <2>12, <2>b, <2>c, <2>e DEF EnableService, MayFail, Goto, Says
  <2>13. CASE StartService(a)
    BY <2>13, <2>b, <2>c, <2>e DEF StartService, MayFail, Says
  <2>14. CASE StepFails(a)
    <3>1. tcBin' = tcBin
      BY <2>14, <2>c DEF StepFails
    <3>2. tcTmp'.writers = {}
      <4>1. CASE tcPc[a] = "write"
        BY <2>14, <2>c, <4>1 DEF StepFails, Closed
      <4>2. CASE tcPc[a] # "write"
        BY <2>14, <2>c, <4>2 DEF StepFails
      <4> QED
        BY <4>1, <4>2
    <3>3. /\ tcPc'[a] = "idle" /\ UNCHANGED tcOp
          /\ tcSaid'[a] = "ok" => tcOp[a] = "update"
      BY <2>14, <2>b DEF StepFails, Says, Gone
    <3> QED
      BY <2>b, <2>c, <3>1, <3>2, <3>3
  <2>15. CASE CheckRemove(a)
    BY <2>15, <2>b, <2>c, <2>e DEF CheckRemove, Goto, Says
  <2>16. CASE HaltService(a)
    BY <2>16, <2>b, <2>c, <2>e DEF HaltService, MayFail, Goto
  <2>17. CASE DisableService(a)
    BY <2>17, <2>b, <2>c, <2>e DEF DisableService, MayFail, Goto
  <2>18. CASE DeleteUnit(a)
    BY <2>18, <2>b, <2>c, <2>e DEF DeleteUnit, MayFail, Goto, Says
  <2>19. CASE DeleteBinary(a)
    <3>1. tcBin' = tcBin \/ tcBin' = NoFile
      BY <2>19 DEF DeleteBinary
    <3>2. tcBin'.writers = {} /\ tcBin'.spoilt = FALSE
      BY <2>c, <3>1 DEF NoFile
    <3>3. tcOp[a] = "remove" /\ tcPc'[a] = "idle" /\ tcSaid'[a] \in {"ok", "error"}
          /\ UNCHANGED <<tcOp, tcGot, tcTmp, tcUnit, tcEnabled>>
      BY <2>19, <2>b, <2>e DEF DeleteBinary, Says
    <3> QED
      BY <2>19, <2>b, <2>c, <3>1, <3>2, <3>3 DEF DeleteBinary
  <2> QED
    BY <1>5, <2>2, <2>3, <2>4, <2>5, <2>6, <2>7, <2>8, <2>9, <2>10, <2>11, <2>12,
       <2>13, <2>14, <2>15, <2>16, <2>17, <2>18, <2>19 DEF ToolStep
<1> QED
  BY <1>1, <1>2, <1>3, <1>4, <1>5 DEF ToolchainNext, InOrder

\* What a step does to the versions if it touches none of them.
LEMMA VersionsQuiet ==
    ASSUME NoteKept, VersionsOrdered,
           UNCHANGED <<tcNote, tcBin, tcGot, tcRelease, tcWentBack, tcUnnoted>>,
           \A a \in Actor : /\ tcPc'[a] \in Fetched => tcPc[a] \in Fetched
                            /\ tcPc'[a] = "note" => tcPc[a] = "note"
    PROVE  NoteKept' /\ VersionsOrdered'
BY DEF NoteKept, VersionsOrdered

\* One operation at a time: the note, the binary and the manifests fetched stay in
\* order, although the note is written last and may not be (install_one, update).
LEMMA VersionsStep ==
    ASSUME ToolchainInv, ToolchainInv', InOrder, NoteKept, VersionsOrdered,
           [ToolchainNext]_tcVars, ~ tcCrossed'
    PROVE  NoteKept' /\ VersionsOrdered'
<1>a. /\ ToolchainTypeOK /\ ToolchainTypeOK' /\ OneAtATime /\ FilesInHand /\ StepsBehind
  BY DEF InOrder, ToolchainInv
<1>b. /\ tcOp \in [Actor -> ToolOp] /\ tcPc \in [Actor -> ToolPc]
      /\ tcGot \in [Actor -> 0..MaxRelease] /\ tcGot' \in [Actor -> 0..MaxRelease]
      /\ MaxRelease \in Nat /\ tcNote \in 0..MaxRelease
      /\ tcRelease \in 1..MaxRelease /\ tcRelease' \in 1..MaxRelease
      /\ tcBin # NoFile => tcBin.ver \in 1..MaxRelease
  BY <1>a, ToolchainAssumption DEF ToolchainTypeOK, Release, File
<1> USE DEF tcFileVars, tcServiceVars, tcActorVars, tcBoundVars, tcPast
<1>1. CASE UNCHANGED tcVars
  BY <1>1, VersionsQuiet DEF tcVars
<1>2. CASE PublishRelease
  <2>1. NoteKept'
    BY <1>2 DEF PublishRelease, NoteKept
  <2>2. CASE tcRelease' < tcRelease \/ tcWentBack
    <3>1. tcWentBack'
      BY <1>2, <2>2 DEF PublishRelease
    <3> QED
      BY <2>1, <3>1 DEF VersionsOrdered
  <2>3. CASE tcRelease <= tcRelease' /\ ~ tcWentBack
    <3>1. UNCHANGED <<tcNote, tcBin, tcPc, tcGot>>
      BY <1>2 DEF PublishRelease
    <3>2. /\ tcNote <= tcRelease
          /\ tcBin # NoFile => tcNote <= tcBin.ver /\ tcBin.ver <= tcRelease
          /\ \A a \in Actor : tcPc[a] \in Fetched =>
                /\ tcNote <= tcGot[a] /\ tcGot[a] <= tcRelease
                /\ tcBin # NoFile => tcBin.ver <= tcGot[a]
      BY <2>3 DEF VersionsOrdered
    <3>3. /\ tcNote <= tcRelease'
          /\ tcBin # NoFile => tcNote <= tcBin.ver /\ tcBin.ver <= tcRelease'
          /\ \A a \in Actor : tcPc[a] \in Fetched =>
                /\ tcNote <= tcGot[a] /\ tcGot[a] <= tcRelease'
                /\ tcBin # NoFile => tcBin.ver <= tcGot[a]
      BY <2>3, <3>2, <1>b
    <3> QED
      BY <2>1, <3>1, <3>3 DEF VersionsOrdered
  <2> QED
    BY <2>1, <2>2, <2>3, <1>b
<1>3. CASE StopByHand \/ RestartByHand
  BY <1>3, VersionsQuiet DEF StopByHand, RestartByHand
<1>4. ASSUME NEW a \in Actor, NEW op \in ToolOp, BeginOp(a, op)
      PROVE  NoteKept' /\ VersionsOrdered'
  <2>1. \A b \in Actor : /\ tcPc'[b] \in Fetched => tcPc[b] \in Fetched
                         /\ tcPc'[b] = "note" => tcPc[b] = "note"
    BY <1>4, <1>b DEF BeginOp, Fetched
  <2> QED
    BY <1>4, <2>1, VersionsQuiet DEF BeginOp
<1>5. ASSUME NEW a \in Actor, ToolStep(a) \/ KillOp(a)
      PROVE  NoteKept' /\ VersionsOrdered'
  <2>a. \A b \in Actor : b # a => tcPc[b] = "idle" /\ tcPc'[b] = "idle"
    <3>1. tcPc[a] # "idle"
      BY <1>5 DEF ToolStep, KillOp, FetchManifest, CheckInstalled, Download,
         TryStop, OpenCopy, FinishCopy, RenameBinary, WriteNote, CreateUnit, EnableService,
         StartService, StepFails, CheckRemove, HaltService, DisableService, DeleteUnit,
         DeleteBinary
    <3>2. \A b \in Actor : b # a => tcPc'[b] = tcPc[b]
      BY <1>5, <1>b DEF ToolStep, KillOp, FetchManifest, CheckInstalled, Download,
         TryStop, OpenCopy, FinishCopy, RenameBinary, WriteNote, CreateUnit, EnableService,
         StartService, StepFails, CheckRemove, HaltService, DisableService, DeleteUnit,
         DeleteBinary, Goto, Says, Gone
    <3> QED
      BY <3>1, <3>2, <1>a DEF OneAtATime
  <2>b. "idle" \notin Fetched /\ "fetch" \notin Fetched
    BY DEF Fetched
  <2>1. CASE KillOp(a)
    <3>1. tcBin' = tcBin
      BY <2>1, <1>a DEF KillOp, FilesInHand
    <3>2. tcNote' \in {tcNote, 0} /\ tcPc'[a] = "idle"
          /\ UNCHANGED <<tcGot, tcRelease, tcWentBack, tcUnnoted>>
      BY <2>1, <1>b DEF KillOp, Goto
    <3>3. \A b \in Actor : tcPc'[b] \notin Fetched /\ tcPc'[b] # "note"
      BY <2>a, <2>b, <3>2
    <3>4. CASE tcNote' = tcNote
      BY <3>1, <3>2, <3>3, <3>4, VersionsQuiet
    <3>5. CASE tcPc[a] = "note" /\ tcNote' = 0
      <4>1. tcUnnoted
        BY <3>5 DEF NoteKept
      <4> QED
        BY <3>1, <3>2, <3>3, <3>5, <4>1, <1>b DEF NoteKept, VersionsOrdered
    <3> QED
      BY <2>1, <3>4, <3>5 DEF KillOp
  <2>2. CASE FetchManifest(a)
    <3>1. tcGot'[a] = tcRelease /\ UNCHANGED <<tcRelease, tcWentBack, tcUnnoted, tcNote, tcBin>>
      BY <2>2, <1>b DEF FetchManifest
    <3>2. NoteKept'
      <4>1. \A b \in Actor : tcPc'[b] # "note"
        BY <2>2, <2>a, <1>b DEF FetchManifest
      <4> QED
        BY <3>1, <4>1 DEF NoteKept
    <3>3. \A b \in Actor : tcPc'[b] \in Fetched => b = a
      BY <2>a, <2>b
    <3> QED
      BY <3>1, <3>2, <3>3, <1>b DEF VersionsOrdered
  <2>3. CASE RenameBinary(a)
    <3>1. tcTmp = [ver |-> tcGot[a], writers |-> {}, spoilt |-> FALSE] /\ tcPc[a] \in Fetched
      BY <2>3, <1>a DEF RenameBinary, FilesInHand, Fetched
    <3>2. CASE tcTmp = NoFile
      <4>1. tcPc'[a] = "idle"
        BY <2>3, <3>2, <1>b DEF RenameBinary, Gone, Says
      <4>2. \A b \in Actor : tcPc'[b] = "idle"
        BY <2>a, <4>1
      <4> QED
        BY <2>3, <2>b, <3>2, <4>2, VersionsQuiet DEF RenameBinary, Gone, Says
    <3>3. CASE tcTmp # NoFile
      <4>1. /\ tcBin' = tcTmp /\ UNCHANGED <<tcRelease, tcNote, tcWentBack>>
            /\ tcGot' = tcGot
        BY <2>3, <3>3 DEF RenameBinary, Goto, Gone, Says
      <4>2. NoteKept'
        BY <2>3, <3>3 DEF RenameBinary, NoteKept
      <4>3. tcBin'.ver = tcGot[a]
        BY <3>1, <4>1
      <4>4. \A b \in Actor : tcPc'[b] \in Fetched => b = a
        BY <2>a, <2>b
      <4> QED
        BY <3>1, <4>1, <4>2, <4>3, <4>4, <1>b DEF VersionsOrdered
    <3> QED
      BY <3>2, <3>3
  <2>4. CASE WriteNote(a)
    <3>1. /\ tcPc[a] = "note" /\ tcPc[a] \in Fetched /\ tcBin # NoFile /\ tcBin.ver = tcGot[a]
          /\ UNCHANGED <<tcRelease, tcWentBack, tcBin, tcGot>>
          /\ tcNote' \in {tcNote, 0, tcGot[a]}
      BY <2>4, <1>a DEF WriteNote, StepsBehind, Fetched, Goto
    <3>2. NoteKept'
      <4>0. \A b \in Actor : tcPc'[b] # "note"
        BY <2>4, <2>a, <1>b DEF WriteNote, Goto
      <4>1. CASE tcNote' = tcGot[a]
        BY <3>1, <4>0, <4>1 DEF NoteKept
      <4>2. CASE UNCHANGED tcUnnoted
        BY <3>1, <4>0, <4>2 DEF NoteKept
      <4> QED
        BY <2>4, <4>1, <4>2 DEF WriteNote
    <3>3. \A b \in Actor : tcPc'[b] \in Fetched => b = a
      BY <2>a, <2>b
    <3> QED
      BY <3>1, <3>2, <3>3, <1>b DEF VersionsOrdered
  <2>5. CASE DeleteBinary(a)
    <3>1. /\ UNCHANGED <<tcRelease, tcWentBack, tcUnnoted, tcNote, tcGot>>
          /\ tcBin' = tcBin \/ tcBin' = NoFile
          /\ tcPc'[a] = "idle"
      BY <2>5, <1>b DEF DeleteBinary, Says
    <3>2. \A b \in Actor : tcPc'[b] \notin Fetched /\ tcPc'[b] # "note"
      BY <2>a, <2>b, <3>1
    <3> QED
      BY <3>1, <3>2 DEF NoteKept, VersionsOrdered
  <2>6. CASE FinishCopy(a) \/ StepFails(a)
    <3>1. tcBin' = tcBin
      <4>1. tcBin \in File \cup {NoFile} /\ tcBin.writers = {}
        BY <1>a DEF ToolchainTypeOK, FilesInHand
      <4>2. Closed(tcBin, a) = tcBin
        BY <4>1 DEF Closed, File, NoFile
      <4> QED
        BY <2>6, <4>1, <4>2 DEF FinishCopy, StepFails
    <3>2. \A b \in Actor : /\ tcPc'[b] \in Fetched => tcPc[b] \in Fetched
                           /\ tcPc'[b] = "note" => tcPc[b] = "note"
      BY <2>6, <1>b DEF FinishCopy, StepFails, Goto, Says, Gone, Fetched
    <3> QED
      BY <2>6, <3>1, <3>2, VersionsQuiet DEF FinishCopy, StepFails, Goto, Says, Gone
  <2>7. CASE \/ CheckInstalled(a) \/ Download(a) \/ TryStop(a) \/ OpenCopy(a)
             \/ CreateUnit(a) \/ EnableService(a) \/ StartService(a)
             \/ CheckRemove(a) \/ HaltService(a) \/ DisableService(a) \/ DeleteUnit(a)
    <3>1. \A b \in Actor : /\ tcPc'[b] \in Fetched => tcPc[b] \in Fetched
                           /\ tcPc'[b] = "note" => tcPc[b] = "note"
      BY <2>7, <1>b DEF CheckInstalled, Download, TryStop, OpenCopy, CreateUnit,
         EnableService, StartService, CheckRemove, HaltService, DisableService, DeleteUnit,
         Goto, Says, Fetched
    <3>2. UNCHANGED <<tcNote, tcBin, tcGot, tcRelease, tcWentBack, tcUnnoted>>
      BY <2>7 DEF CheckInstalled, Download, TryStop, OpenCopy, CreateUnit,
         EnableService, StartService, CheckRemove, HaltService, DisableService, DeleteUnit,
         Goto, Says
    <3> QED
      BY <3>1, <3>2, VersionsQuiet
  <2> QED
    BY <1>5, <2>1, <2>2, <2>3, <2>4, <2>5, <2>6, <2>7 DEF ToolStep
<1> QED
  BY <1>1, <1>2, <1>3, <1>4, <1>5 DEF ToolchainNext

\* Once operations have crossed they have.
LEMMA CrossedStays == [ToolchainNext]_tcVars => (tcCrossed => tcCrossed')
BY DEF ToolchainNext, ToolStep, tcVars, tcPast, BeginOp, KillOp, PublishRelease, StopByHand,
   RestartByHand, FetchManifest, CheckInstalled, Download, TryStop, OpenCopy, FinishCopy,
   RenameBinary, WriteNote, CreateUnit, EnableService, StartService, StepFails, CheckRemove,
   HaltService, DisableService, DeleteUnit, DeleteBinary

\* Any number of processes: what operations in turn rely on holds until two cross.
LEMMA InstallerStepInv == InstallerInv /\ [ToolchainNext]_tcVars => InstallerInv'
<1> SUFFICES ASSUME InstallerInv, [ToolchainNext]_tcVars PROVE InstallerInv'
  OBVIOUS
<1>1. ToolchainInv /\ ToolchainInv'
  BY ToolchainStepInv DEF InstallerInv
<1>2. CASE tcCrossed'
  BY <1>1, <1>2 DEF InstallerInv
<1>3. CASE ~ tcCrossed'
  <2>1. InOrder /\ NoteKept /\ VersionsOrdered
    BY <1>3, CrossedStays DEF InstallerInv
  <2>2. InOrder' /\ NoteKept' /\ VersionsOrdered'
    BY <1>1, <1>3, <2>1, InOrderStep, VersionsStep
  <2> QED
    BY <1>1, <2>2 DEF InstallerInv
<1> QED
  BY <1>2, <1>3

\* A note that has the manifest's version is that of the binary, since it was written
\* for it or neither is ahead of the other, and the binary is complete (the skip of
\* an update); an answer stands behind the install that gave it.
LEMMA InstallerInvSafe == InstallerInv => SkipIsRight /\ InstalledSurvivesReboot
<1> SUFFICES ASSUME InstallerInv, ~ tcCrossed PROVE SkipIsRight /\ InstalledSurvivesReboot
  BY DEF SkipIsRight, InstalledSurvivesReboot
<1>1. ToolchainTypeOK /\ OneAtATime /\ FilesInHand /\ StepsBehind /\ NoteKept /\ VersionsOrdered
  BY DEF InstallerInv, InOrder, ToolchainInv
<1>2. ASSUME NEW a \in Actor, tcPc[a] = "check", tcBin # NoFile, tcNote = tcGot[a]
      PROVE  Whole(tcBin) /\ (tcBin.ver = tcGot[a] \/ (tcUnnoted /\ tcWentBack))
  <2>1. tcBin \in File /\ tcGot[a] \in 0..MaxRelease
    BY <1>1, <1>2 DEF ToolchainTypeOK
  <2>2. tcBin.ver \in Nat /\ tcGot[a] \in Nat
    BY <2>1, ToolchainAssumption DEF File, Release
  <2>3. Whole(tcBin)
    BY <1>1 DEF FilesInHand, Whole
  <2>4. CASE ~ tcUnnoted
    BY <1>1, <1>2, <2>3, <2>4 DEF NoteKept
  <2>5. CASE tcUnnoted /\ ~ tcWentBack
    <3>1. tcNote <= tcBin.ver /\ tcBin.ver <= tcGot[a]
      BY <1>1, <1>2, <2>5 DEF VersionsOrdered, Fetched
    <3> QED
      BY <1>2, <2>2, <2>3, <3>1
  <2> QED
    BY <2>3, <2>4, <2>5
<1>3. SkipIsRight
  BY <1>2 DEF SkipIsRight
<1>4. InstalledSurvivesReboot
  BY <1>1 DEF StepsBehind, InstalledSurvivesReboot
<1> QED
  BY <1>3, <1>4

-----------------------------------------------------------------------------
(* The database container: Database *)

\* Commands that may still make a container.
EarlyPc == {"save", "look", "restart", "again", "clear", "run"}
BeforeRun == {a \in DbActor : dbPc[a] \in EarlyPc}

\* Docker's ids stay within the commands begun.
DatabaseInv == DatabaseTypeOK /\ Cardinality(BeforeRun) + dbNext <= dbOps + 1

\* Until commands cross, one at a time is under way, and an answer stands while none is.
OneCommand ==
    /\ \A a, b \in DbActor : dbPc[a] # "idle" /\ dbPc[b] # "idle" => a = b
    /\ \A a, b \in DbActor : dbSaid[a] = "ready" => dbPc[b] = "idle"

\* The id in the config is that of the container, unless there is none or a command is
\* about to write it; and a command about to make a container has removed the old one.
IdKept ==
    /\ (\A a \in DbActor : dbPc[a] # "keep") => dbCont.id = 0 \/ dbConf.id \in {0, dbCont.id}
    /\ \A a \in DbActor :
         /\ dbPc[a] \notin {"idle", "keep"} => dbMine[a].id = dbConf.id
         /\ dbPc[a] = "run" => dbCont.id = 0
         /\ dbPc[a] = "keep" =>
              dbCont = [id |-> dbGot[a], port |-> dbMine[a].port, up |-> TRUE]
         /\ DbReady(a)

\* While docker does what it is asked, nothing is killed, and no two commands crossed.
ContainerKnown ==
    dbFaults # 0 \/ dbCrashes # 0 \/ dbCrossed \/ (OneCommand /\ IdKept)

\* How the number of members changes when one comes or goes.
LEMMA CardinalityMoves ==
    ASSUME NEW S, IsFiniteSet(S), NEW T, NEW x
    PROVE  /\ Cardinality(S) \in Nat
           /\ T \subseteq S => Cardinality(T) \in Nat /\ Cardinality(T) <= Cardinality(S)
           /\ T \subseteq S \cup {x} => Cardinality(T) \in Nat /\ Cardinality(T) <= Cardinality(S) + 1
           /\ x \in S => Cardinality(S) >= 1
           /\ x \in S /\ T \subseteq S \ {x} =>
                Cardinality(T) \in Nat /\ Cardinality(T) <= Cardinality(S) - 1
<1>1. Cardinality(S) \in Nat
  BY FS_CardinalityType
<1>2. T \subseteq S => Cardinality(T) \in Nat /\ Cardinality(T) <= Cardinality(S)
  BY FS_Subset, FS_CardinalityType
<1>3. /\ IsFiniteSet(S \cup {x}) /\ Cardinality(S \cup {x}) \in Nat
      /\ Cardinality(S \cup {x}) <= Cardinality(S) + 1
  BY <1>1, FS_AddElement, FS_CardinalityType
<1>4. T \subseteq S \cup {x} => Cardinality(T) \in Nat /\ Cardinality(T) <= Cardinality(S) + 1
  <2> SUFFICES ASSUME T \subseteq S \cup {x}
               PROVE  Cardinality(T) \in Nat /\ Cardinality(T) <= Cardinality(S) + 1
    OBVIOUS
  <2>1. IsFiniteSet(T) /\ Cardinality(T) <= Cardinality(S \cup {x})
    BY <1>3, FS_Subset
  <2>2. Cardinality(T) \in Nat
    BY <2>1, FS_CardinalityType
  <2> QED
    BY <1>1, <1>3, <2>1, <2>2
<1>5. x \in S => /\ IsFiniteSet(S \ {x}) /\ Cardinality(S \ {x}) \in Nat
                 /\ Cardinality(S \ {x}) = Cardinality(S) - 1
  BY <1>1, FS_RemoveElement, FS_CardinalityType
<1>6. x \in S /\ T \subseteq S \ {x} =>
        Cardinality(T) \in Nat /\ Cardinality(T) <= Cardinality(S) - 1
  <2> SUFFICES ASSUME x \in S, T \subseteq S \ {x}
               PROVE  Cardinality(T) \in Nat /\ Cardinality(T) <= Cardinality(S) - 1
    OBVIOUS
  <2>1. IsFiniteSet(T) /\ Cardinality(T) <= Cardinality(S \ {x})
    BY <1>5, FS_Subset
  <2>2. Cardinality(T) \in Nat
    BY <2>1, FS_CardinalityType
  <2> QED
    BY <1>1, <1>5, <2>1, <2>2
<1>7. x \in S => Cardinality(S) >= 1
  BY <1>1, <1>5
<1> QED
  BY <1>1, <1>2, <1>4, <1>6, <1>7

\* The commands that are early are finitely many.
LEMMA BeforeRunFinite == IsFiniteSet(BeforeRun) /\ Cardinality(BeforeRun) \in Nat
<1>1. BeforeRun \subseteq DbActor
  BY DEF BeforeRun
<1>2. IsFiniteSet(BeforeRun)
  BY <1>1, FS_Subset, DatabaseAssumption
<1> QED
  BY <1>2, FS_CardinalityType

\* A step of a command that is early, or that does not make it early, makes room.
LEMMA MadeStays ==
    ASSUME DatabaseInv, NEW a \in DbActor, NEW pc, dbPc' = [dbPc EXCEPT ![a] = pc],
           a \in BeforeRun \/ pc \notin EarlyPc, UNCHANGED <<dbOps, dbNext>>
    PROVE  Cardinality(BeforeRun') + dbNext' <= dbOps' + 1
<1>1. BeforeRun' \subseteq BeforeRun
  BY DEF BeforeRun, DatabaseInv, DatabaseTypeOK
<1>2. PICK S, T : S = BeforeRun /\ T = BeforeRun'
  OBVIOUS
<1>3. Cardinality(T) \in Nat /\ Cardinality(T) <= Cardinality(S) /\ Cardinality(S) \in Nat
  BY <1>1, <1>2, BeforeRunFinite, CardinalityMoves
<1>4. Cardinality(S) + dbNext <= dbOps + 1 /\ dbNext \in Nat /\ dbOps \in Nat
  BY <1>2, DatabaseAssumption DEF DatabaseInv, DatabaseTypeOK
<1> QED
  BY <1>2, <1>3, <1>4

\* A command that begins may make one container.
LEMMA MadeBegins ==
    ASSUME DatabaseInv, NEW a \in DbActor, NEW pc, dbPc' = [dbPc EXCEPT ![a] = pc],
           dbOps' = dbOps + 1, UNCHANGED dbNext
    PROVE  Cardinality(BeforeRun') + dbNext' <= dbOps' + 1
<1>1. BeforeRun' \subseteq BeforeRun \cup {a}
  BY DEF BeforeRun, DatabaseInv, DatabaseTypeOK
<1>2. PICK S, T : S = BeforeRun /\ T = BeforeRun'
  OBVIOUS
<1>3. Cardinality(T) \in Nat /\ Cardinality(T) <= Cardinality(S) + 1 /\ Cardinality(S) \in Nat
  BY <1>1, <1>2, BeforeRunFinite, CardinalityMoves
<1>4. Cardinality(S) + dbNext <= dbOps + 1 /\ dbNext \in Nat /\ dbOps \in Nat
  BY <1>2, DatabaseAssumption DEF DatabaseInv, DatabaseTypeOK
<1> QED
  BY <1>2, <1>3, <1>4

\* A command that makes its container had room for it.
LEMMA MadeRuns ==
    ASSUME DatabaseInv, NEW a \in DbActor, a \in BeforeRun,
           NEW pc, pc \notin EarlyPc,
           dbPc' = [dbPc EXCEPT ![a] = pc], dbNext' = dbNext + 1, UNCHANGED dbOps
    PROVE  /\ Cardinality(BeforeRun') + dbNext' <= dbOps' + 1
           /\ dbNext \in DbId /\ dbNext' \in 1..(MaxDbOps + 1)
<1>1. BeforeRun' \subseteq BeforeRun \ {a}
  BY DEF BeforeRun, DatabaseInv, DatabaseTypeOK
<1>2. PICK S, T : S = BeforeRun /\ T = BeforeRun'
  OBVIOUS
<1>3. Cardinality(T) \in Nat /\ Cardinality(T) <= Cardinality(S) - 1 /\ Cardinality(S) \in Nat
      /\ Cardinality(S) >= 1
  BY <1>1, <1>2, BeforeRunFinite, CardinalityMoves
<1>4. Cardinality(S) + dbNext <= dbOps + 1 /\ dbNext \in Nat \ {0} /\ dbOps \in 0..MaxDbOps
  BY <1>2, DatabaseAssumption DEF DatabaseInv, DatabaseTypeOK
<1>5. dbNext <= MaxDbOps
  BY <1>3, <1>4, DatabaseAssumption
<1> QED
  BY <1>2, <1>3, <1>4, <1>5, DatabaseAssumption DEF DbId

\* At the start there is a port and no container (DatabaseInit).
LEMMA DatabaseInitInv == DatabaseInit => DatabaseInv /\ ContainerKnown
<1> SUFFICES ASSUME DatabaseInit PROVE DatabaseInv /\ ContainerKnown
  OBVIOUS
<1>1. PICK port \in DbPort : dbConf = [port |-> port, id |-> 0] /\ dbCont = NoCont(port)
  BY DEF DatabaseInit
<1>2. 0 \in DbId
  BY DatabaseAssumption DEF DbId
<1>3. dbConf \in DbConf /\ dbCont \in [id : DbId, port : DbPort, up : BOOLEAN]
      /\ dbConf.id = 0 /\ dbCont.id = 0
  BY <1>1, <1>2 DEF DbConf, NoCont
<1>h. dbCrossed \in BOOLEAN
  BY DEF DatabaseInit
<1>4. DatabaseTypeOK
  BY <1>h, <1>2, <1>3, DatabaseAssumption DEF DatabaseInit, DatabaseTypeOK, DbOp
<1>5. BeforeRun = {}
  BY DEF DatabaseInit, BeforeRun, EarlyPc
<1>6. Cardinality(BeforeRun) = 0
  BY <1>5, FS_EmptySet
<1>7. DatabaseInv
  BY <1>4, <1>6 DEF DatabaseInv, DatabaseInit
<1>8. ContainerKnown
  BY <1>3 DEF DatabaseInit, ContainerKnown, OneCommand, IdKept, DbReady
<1> QED
  BY <1>7, <1>8

\* Every step of any number of commands keeps the types: docker gives no more ids
\* than commands have begun.
LEMMA DatabaseStepInv == DatabaseInv /\ [DatabaseNext]_dbVars => DatabaseInv'
<1> SUFFICES ASSUME DatabaseInv, [DatabaseNext]_dbVars PROVE DatabaseInv'
  OBVIOUS
<1>a. DatabaseTypeOK
  BY DEF DatabaseInv
<1>b. \A a \in DbActor : dbMine[a] \in DbConf /\ dbMine[a].port \in DbPort /\ dbMine[a].id \in DbId
  BY <1>a DEF DatabaseTypeOK, DbConf
<1>c. dbCont.id \in DbId /\ dbCont.port \in DbPort /\ dbCont.up \in BOOLEAN /\ 0 \in DbId
  BY <1>a, DatabaseAssumption DEF DatabaseTypeOK, DbId
<1>e. NoCont(dbCont.port) \in [id : DbId, port : DbPort, up : BOOLEAN]
  BY <1>c DEF NoCont
<1>d. ASSUME DockerFails PROVE dbFaults' \in 0..MaxDbFault /\ UNCHANGED <<dbOps, dbCrashes>>
  BY <1>a, <1>d, DatabaseAssumption DEF DockerFails, DatabaseTypeOK
<1> USE DEF dbBoundVars
<1>1. CASE UNCHANGED dbVars
  BY <1>1 DEF dbVars, DatabaseInv, DatabaseTypeOK, BeforeRun
<1>2. CASE ContainerStops
  <2>1. dbCont' \in [id : DbId, port : DbPort, up : BOOLEAN]
    BY <1>2, <1>a DEF ContainerStops, DatabaseTypeOK
  <2>2. DatabaseTypeOK'
    BY <1>2, <1>a, <2>1 DEF ContainerStops, DatabaseTypeOK
  <2> QED
    BY <1>2, <2>2 DEF ContainerStops, DatabaseInv, BeforeRun
<1>3. ASSUME NEW a \in DbActor, NEW op \in DbOp, BeginDb(a, op) PROVE DatabaseInv'
  <2>1. FirstStep(op) \in {"look", "clear", "down", "restart", "stop", "save"}
    BY DEF FirstStep, DbOp
  <2>2. DatabaseTypeOK'
    <3>1. dbCrossed' \in BOOLEAN
      BY <1>3 DEF BeginDb
    <3>2. /\ dbOps' \in 0..MaxDbOps
          /\ UNCHANGED <<dbConf, dbCont, dbNext, dbGot, dbFaults, dbCrashes>>
      BY <1>3, <1>a, DatabaseAssumption DEF BeginDb, DatabaseTypeOK
    <3>3. /\ dbOp' = [dbOp EXCEPT ![a] = op]
          /\ dbPc' = [dbPc EXCEPT ![a] = FirstStep(op)]
          /\ dbMine' = [dbMine EXCEPT ![a] = dbConf]
          /\ dbSaid' = [b \in DbActor |-> "none"]
      BY <1>3 DEF BeginDb
    <3>4. dbSaid' \in [DbActor -> {"none", "ready", "error"}]
      BY <3>3
    <3> QED
      BY <1>a, <2>1, <3>1, <3>2, <3>3, <3>4 DEF DatabaseTypeOK
  <2>3. Cardinality(BeforeRun') + dbNext' <= dbOps' + 1
    BY <1>3, MadeBegins DEF BeginDb
  <2> QED
    BY <2>2, <2>3 DEF DatabaseInv
<1>4. ASSUME NEW a \in DbActor, KillDb(a) PROVE DatabaseInv'
  <2>1. DatabaseTypeOK'
    BY <1>4, <1>a, DatabaseAssumption DEF KillDb, DbGoto, DatabaseTypeOK
  <2>2. Cardinality(BeforeRun') + dbNext' <= dbOps' + 1
    BY <1>4, MadeStays DEF KillDb, DbGoto, EarlyPc
  <2> QED
    BY <2>1, <2>2 DEF DatabaseInv
<1>5. ASSUME NEW a \in DbActor, SavePort(a) PROVE DatabaseInv'
  <2>1. PICK port \in DbPort :
          IF port = dbMine[a].port
          THEN DbEnds(a, "none") /\ UNCHANGED <<dbConf, dbMine>>
          ELSE /\ dbConf' = [dbMine[a] EXCEPT !.port = port]
               /\ dbMine' = [dbMine EXCEPT ![a] = dbConf']
               /\ DbGoto(a, "clear")
    BY <1>5 DEF SavePort
  <2>2. dbConf' \in DbConf /\ dbMine' \in [DbActor -> DbConf]
    <3>1. [dbMine[a] EXCEPT !.port = port] \in DbConf
      BY <1>b DEF DbConf
    <3> QED
      BY <2>1, <3>1, <1>a DEF DatabaseTypeOK
  <2>3. DatabaseTypeOK'
    BY <1>5, <2>1, <2>2, <1>a DEF SavePort, DbEnds, DbGoto, DatabaseTypeOK
  <2>4. Cardinality(BeforeRun') + dbNext' <= dbOps' + 1
    <3>1. a \in BeforeRun /\ UNCHANGED <<dbOps, dbNext>>
      BY <1>5 DEF SavePort, BeforeRun, EarlyPc
    <3>2. PICK pc : dbPc' = [dbPc EXCEPT ![a] = pc]
      BY <2>1 DEF DbEnds, DbGoto
    <3> QED
      BY <3>1, <3>2, MadeStays
  <2> QED
    BY <2>3, <2>4 DEF DatabaseInv
<1>6. ASSUME NEW a \in DbActor, LookRunning(a) \/ LookAgain(a) PROVE DatabaseInv'
  <2>1. DatabaseTypeOK'
    BY <1>6, <1>a DEF LookRunning, LookAgain, DbEnds, DbGoto, DatabaseTypeOK
  <2>2. a \in BeforeRun /\ UNCHANGED <<dbOps, dbNext>>
    BY <1>6 DEF LookRunning, LookAgain, BeforeRun, EarlyPc
  <2>3. PICK pc : dbPc' = [dbPc EXCEPT ![a] = pc]
    BY <1>6 DEF LookRunning, LookAgain, DbEnds, DbGoto
  <2>4. Cardinality(BeforeRun') + dbNext' <= dbOps' + 1
    BY <2>2, <2>3, MadeStays
  <2> QED
    BY <2>1, <2>4 DEF DatabaseInv
<1>7. ASSUME NEW a \in DbActor, StartContainer(a) PROVE DatabaseInv'
  <2>1. dbCont' \in [id : DbId, port : DbPort, up : BOOLEAN]
    <3>1. CASE dbCont' = [dbCont EXCEPT !.up = @ \/ Resolves(dbMine[a])]
      <4>1. (dbCont.up \/ Resolves(dbMine[a])) \in BOOLEAN
        OBVIOUS
      <4>2. PICK up \in BOOLEAN : dbCont' = [dbCont EXCEPT !.up = up]
        BY <3>1, <4>1
      <4> QED
        BY <4>2, <1>a DEF DatabaseTypeOK
    <3> QED
      BY <1>7, <3>1, <1>a DEF StartContainer, DatabaseTypeOK
  <2>2. dbFaults' \in 0..MaxDbFault /\ UNCHANGED <<dbOps, dbCrashes>>
    BY <1>7, <1>d, <1>a DEF StartContainer, DatabaseTypeOK
  <2>3. DbGoto(a, "again") \/ DbEnds(a, "none")
    BY <1>7 DEF StartContainer
  <2>4. dbPc[a] = "restart" /\ UNCHANGED <<dbConf, dbNext, dbOp, dbMine, dbGot, dbCrossed>>
    BY <1>7 DEF StartContainer
  <2>5. DatabaseTypeOK'
    BY <2>1, <2>2, <2>3, <2>4, <1>a DEF DbEnds, DbGoto, DatabaseTypeOK
  <2>6. PICK pc : dbPc' = [dbPc EXCEPT ![a] = pc]
    BY <2>3 DEF DbEnds, DbGoto
  <2>7. Cardinality(BeforeRun') + dbNext' <= dbOps' + 1
    BY <2>2, <2>4, <2>6, MadeStays DEF BeforeRun, EarlyPc
  <2> QED
    BY <2>5, <2>7 DEF DatabaseInv
<1>8. ASSUME NEW a \in DbActor, ClearContainer(a) PROVE DatabaseInv'
  <2>1. dbCont' \in [id : DbId, port : DbPort, up : BOOLEAN]
    BY <1>8, <1>a, <1>e DEF ClearContainer, DatabaseTypeOK
  <2>2. dbFaults' \in 0..MaxDbFault /\ UNCHANGED <<dbOps, dbCrashes>>
    BY <1>8, <1>d, <1>a DEF ClearContainer, DatabaseTypeOK
  <2>3. /\ dbPc[a] = "clear" /\ DbGoto(a, "run")
        /\ UNCHANGED <<dbConf, dbNext, dbOp, dbMine, dbGot, dbCrossed>>
    BY <1>8 DEF ClearContainer
  <2>4. DatabaseTypeOK'
    BY <2>1, <2>2, <2>3, <1>a DEF DbGoto, DatabaseTypeOK
  <2>5. Cardinality(BeforeRun') + dbNext' <= dbOps' + 1
    BY <2>2, <2>3, MadeStays DEF BeforeRun, EarlyPc, DbGoto
  <2> QED
    BY <2>4, <2>5 DEF DatabaseInv
<1>9. ASSUME NEW a \in DbActor, RunContainer(a) PROVE DatabaseInv'
  <2>1. a \in BeforeRun /\ UNCHANGED <<dbConf, dbOp, dbMine, dbCrossed>>
    BY <1>9 DEF RunContainer, BeforeRun, EarlyPc
  <2>2. CASE /\ dbCont' = [id |-> dbNext, port |-> dbMine[a].port, up |-> TRUE]
             /\ dbGot' = [dbGot EXCEPT ![a] = dbNext]
             /\ dbNext' = dbNext + 1
             /\ DbGoto(a, "keep")
             /\ UNCHANGED dbBoundVars
    <3>1. /\ Cardinality(BeforeRun') + dbNext' <= dbOps' + 1
          /\ dbNext \in DbId /\ dbNext' \in 1..(MaxDbOps + 1)
      BY <2>1, <2>2, MadeRuns DEF DbGoto, EarlyPc
    <3>2. dbCont' \in [id : DbId, port : DbPort, up : BOOLEAN]
      BY <2>2, <3>1, <1>b
    <3>3. DatabaseTypeOK'
      BY <2>1, <2>2, <3>1, <3>2, <1>a DEF DbGoto, DatabaseTypeOK
    <3> QED
      BY <3>1, <3>3 DEF DatabaseInv
  <2>3. CASE /\ \/ DockerFails
                \/ dbCont.id # 0 /\ UNCHANGED dbBoundVars
             /\ DbEnds(a, "ready")
             /\ UNCHANGED <<dbCont, dbGot, dbNext>>
    <3>1. dbFaults' \in 0..MaxDbFault /\ UNCHANGED <<dbOps, dbCrashes>>
      BY <2>3, <1>d, <1>a DEF DatabaseTypeOK
    <3>2. DatabaseTypeOK'
      BY <2>1, <2>3, <3>1, <1>a DEF DbEnds, DatabaseTypeOK
    <3>3. Cardinality(BeforeRun') + dbNext' <= dbOps' + 1
      BY <2>1, <2>3, <3>1, MadeStays DEF DbEnds
    <3> QED
      BY <3>2, <3>3 DEF DatabaseInv
  <2>4. CASE /\ dbCont.id = 0 /\ DockerFails
             /\ dbCont' = [id |-> dbNext, port |-> dbMine[a].port, up |-> FALSE]
             /\ dbNext' = dbNext + 1
             /\ DbEnds(a, "ready")
             /\ UNCHANGED dbGot
    <3>0. dbFaults' \in 0..MaxDbFault /\ UNCHANGED <<dbOps, dbCrashes>>
      BY <2>4, <1>d
    <3>1. /\ Cardinality(BeforeRun') + dbNext' <= dbOps' + 1
          /\ dbNext \in DbId /\ dbNext' \in 1..(MaxDbOps + 1)
      BY <2>1, <2>4, <3>0, MadeRuns DEF DbEnds, EarlyPc
    <3>2. dbCont' \in [id : DbId, port : DbPort, up : BOOLEAN]
      BY <2>4, <3>1, <1>b
    <3>3. UNCHANGED <<dbConf, dbOp, dbMine, dbCrossed>>
      BY <1>9 DEF RunContainer
    <3>4. DatabaseTypeOK'
      BY <2>4, <3>0, <3>1, <3>2, <3>3, <1>a DEF DbEnds, DatabaseTypeOK
    <3> QED
      BY <3>1, <3>4 DEF DatabaseInv
  <2> QED
    BY <1>9, <2>2, <2>3, <2>4 DEF RunContainer
<1>10. ASSUME NEW a \in DbActor, KeepId(a) \/ ForgetId(a) PROVE DatabaseInv'
  <2>1. dbConf' \in DbConf
    BY <1>10, <1>a, <1>c DEF KeepId, ForgetId, DatabaseTypeOK, DbConf
  <2>2. DatabaseTypeOK'
    BY <1>10, <2>1, <1>a DEF KeepId, ForgetId, DbEnds, DatabaseTypeOK
  <2>3. Cardinality(BeforeRun') + dbNext' <= dbOps' + 1
    BY <1>10, MadeStays DEF KeepId, ForgetId, DbEnds, EarlyPc
  <2> QED
    BY <2>2, <2>3 DEF DatabaseInv
<1>11. ASSUME NEW a \in DbActor, DownContainer(a) PROVE DatabaseInv'
  <2>1. dbCont' \in [id : DbId, port : DbPort, up : BOOLEAN]
    BY <1>11, <1>a, <1>e DEF DownContainer, DatabaseTypeOK
  <2>2. dbFaults' \in 0..MaxDbFault /\ UNCHANGED <<dbOps, dbCrashes>>
    BY <1>11, <1>d, <1>a DEF DownContainer, DatabaseTypeOK
  <2>3. /\ DbGoto(a, "forget") \/ DbEnds(a, "none")
        /\ UNCHANGED <<dbConf, dbNext, dbOp, dbMine, dbGot, dbCrossed>>
    BY <1>11 DEF DownContainer
  <2>4. DatabaseTypeOK'
    BY <2>1, <2>2, <2>3, <1>a DEF DbGoto, DbEnds, DatabaseTypeOK
  <2>5. PICK pc \in {"forget", "idle"} : dbPc' = [dbPc EXCEPT ![a] = pc]
    BY <2>3 DEF DbEnds, DbGoto
  <2>6. Cardinality(BeforeRun') + dbNext' <= dbOps' + 1
    BY <2>2, <2>3, <2>5, MadeStays DEF EarlyPc
  <2> QED
    BY <2>4, <2>6 DEF DatabaseInv
<1>12. ASSUME NEW a \in DbActor, StopContainer(a) PROVE DatabaseInv'
  <2>1. dbCont' \in [id : DbId, port : DbPort, up : BOOLEAN]
    <3>1. CASE dbCont' = [dbCont EXCEPT !.up = @ /\ ~ Resolves(dbMine[a])]
      <4>1. (dbCont.up /\ ~ Resolves(dbMine[a])) \in BOOLEAN
        OBVIOUS
      <4>2. PICK up \in BOOLEAN : dbCont' = [dbCont EXCEPT !.up = up]
        BY <3>1, <4>1
      <4> QED
        BY <4>2, <1>a DEF DatabaseTypeOK
    <3> QED
      BY <1>12, <3>1, <1>a DEF StopContainer, DatabaseTypeOK
  <2>2. dbFaults' \in 0..MaxDbFault /\ UNCHANGED <<dbOps, dbCrashes>>
    BY <1>12, <1>d, <1>a DEF StopContainer, DatabaseTypeOK
  <2>3. DbEnds(a, "none") /\ UNCHANGED <<dbConf, dbNext, dbOp, dbMine, dbGot, dbCrossed>>
    BY <1>12 DEF StopContainer
  <2>4. DatabaseTypeOK'
    BY <2>1, <2>2, <2>3, <1>a DEF DbEnds, DatabaseTypeOK
  <2>5. Cardinality(BeforeRun') + dbNext' <= dbOps' + 1
    BY <2>2, <2>3, MadeStays DEF DbEnds, EarlyPc
  <2> QED
    BY <2>4, <2>5 DEF DatabaseInv
<1> QED
  BY <1>1, <1>2, <1>3, <1>4, <1>5, <1>6, <1>7, <1>8, <1>9, <1>10, <1>11, <1>12
  DEF DatabaseNext, DbStep

\* One command at a time: the id in config.toml stays that of the container, so
\* the one that is in the way is always found and removed (ensure_up and up).
LEMMA ContainerStepKnown ==
    DatabaseInv /\ ContainerKnown /\ [DatabaseNext]_dbVars => ContainerKnown'
<1> SUFFICES ASSUME DatabaseInv, ContainerKnown, [DatabaseNext]_dbVars,
                    dbFaults' = 0, dbCrashes' = 0, ~ dbCrossed'
             PROVE  OneCommand' /\ IdKept'
  BY DEF ContainerKnown
<1> USE DEF dbBoundVars
<1>t. DatabaseTypeOK
  BY DEF DatabaseInv
<1>0. dbFaults = 0 /\ dbCrashes = 0 /\ ~ DockerFails /\ ~ dbCrossed
  <2>1. ~ DockerFails
    BY <1>t, DatabaseAssumption DEF DockerFails, DatabaseTypeOK
  <2>2. dbCrashes = 0
    BY <1>t, DatabaseAssumption DEF DatabaseTypeOK, dbVars, DatabaseNext, DbStep, BeginDb,
       KillDb, ContainerStops, SavePort, LookRunning, StartContainer, LookAgain,
       ClearContainer, RunContainer, KeepId, DownContainer, ForgetId, StopContainer,
       DockerFails
  <2>3. dbFaults = 0
    BY <2>1, <1>t, DatabaseAssumption DEF DatabaseTypeOK, dbVars, DatabaseNext, DbStep,
       BeginDb, KillDb, ContainerStops, SavePort, LookRunning, StartContainer, LookAgain,
       ClearContainer, RunContainer, KeepId, DownContainer, ForgetId, StopContainer
  <2>4. ~ dbCrossed
    BY DEF dbVars, DatabaseNext, DbStep, BeginDb, KillDb, ContainerStops, SavePort,
       LookRunning, StartContainer, LookAgain, ClearContainer, RunContainer, KeepId,
       DownContainer, ForgetId, StopContainer
  <2> QED
    BY <2>1, <2>2, <2>3, <2>4
<1>a. OneCommand /\ IdKept
  BY <1>0 DEF ContainerKnown
<1>c. /\ dbOp \in [DbActor -> DbOp] /\ dbMine \in [DbActor -> DbConf]
      /\ dbGot \in [DbActor -> DbId] /\ dbSaid \in [DbActor -> {"none", "ready", "error"}]
      /\ dbCont \in [id : DbId, port : DbPort, up : BOOLEAN] /\ dbConf \in DbConf
      /\ dbPc \in [DbActor -> {"idle", "save", "look", "restart", "again", "clear", "run",
                               "keep", "down", "forget", "stop"}]
  BY <1>t DEF DatabaseTypeOK
<1>1. CASE UNCHANGED dbVars
  BY <1>1, <1>a DEF dbVars, OneCommand, IdKept, DbReady, DbListening
<1>2. CASE ContainerStops
  <2>1. /\ dbCont'.id = dbCont.id /\ \A a \in DbActor : dbPc[a] = "idle" /\ dbSaid'[a] = "none"
        /\ UNCHANGED <<dbConf, dbPc, dbMine>>
    BY <1>2, <1>t DEF ContainerStops, DatabaseTypeOK
  <2> QED
    BY <2>1, <1>a DEF OneCommand, IdKept, DbReady
<1>3. ASSUME NEW a \in DbActor, NEW op \in DbOp, BeginDb(a, op)
      PROVE  OneCommand' /\ IdKept'
  <2>1. \A b \in DbActor : dbPc[b] = "idle"
    BY <1>3 DEF BeginDb
  <2>2. FirstStep(op) \in {"look", "clear", "down", "restart", "stop", "save"}
    BY DEF FirstStep, DbOp
  <2>3. /\ dbPc'[a] = FirstStep(op) /\ dbMine'[a] = dbConf
        /\ \A b \in DbActor : b # a => dbPc'[b] = "idle"
        /\ \A b \in DbActor : dbSaid'[b] = "none"
        /\ UNCHANGED <<dbConf, dbCont>>
    BY <1>3, <1>c, <2>1 DEF BeginDb
  <2>4. OneCommand'
    BY <2>3 DEF OneCommand
  <2>5. dbCont.id = 0 \/ dbConf.id \in {0, dbCont.id}
    BY <2>1, <1>a DEF IdKept
  <2>6. \A b \in DbActor :
          /\ dbPc'[b] \notin {"keep", "run"}
          /\ dbPc'[b] \notin {"idle", "keep"} => dbMine'[b].id = dbConf'.id
          /\ DbReady(b)'
    BY <2>2, <2>3 DEF DbReady
  <2>7. IdKept'
    BY <2>3, <2>5, <2>6 DEF IdKept
  <2> QED
    BY <2>4, <2>7
<1>4. ASSUME NEW a \in DbActor, DbStep(a) \/ KillDb(a)
      PROVE  OneCommand' /\ IdKept'
  <2>a. /\ dbPc[a] # "idle"
        /\ \A b \in DbActor : b # a => dbPc[b] = "idle"
        /\ \A b \in DbActor : dbSaid[b] # "ready"
    <3>1. dbPc[a] # "idle"
      BY <1>4 DEF DbStep, KillDb, SavePort, LookRunning, StartContainer, LookAgain,
         ClearContainer, RunContainer, KeepId, DownContainer, ForgetId, StopContainer
    <3> QED
      BY <3>1, <1>a DEF OneCommand
  <2>o. \A b \in DbActor : b # a =>
          dbPc'[b] = "idle" /\ dbSaid'[b] # "ready"
    <3> SUFFICES ASSUME NEW b \in DbActor, b # a
                 PROVE  dbPc'[b] = dbPc[b] /\ dbSaid'[b] = dbSaid[b]
      BY <2>a
    <3> QED
      BY <1>4, <1>c DEF DbStep, KillDb, SavePort, LookRunning, StartContainer, LookAgain,
         ClearContainer, RunContainer, KeepId, DownContainer, ForgetId, StopContainer,
         DbGoto, DbEnds
  <2>s. dbSaid'[a] = "ready" => dbPc'[a] = "idle"
    BY <1>4, <1>c, <2>a DEF DbStep, KillDb, SavePort, LookRunning, StartContainer, LookAgain,
       ClearContainer, RunContainer, KeepId, DownContainer, ForgetId, StopContainer,
       DbGoto, DbEnds
  <2>b. SUFFICES /\ dbPc'[a] # "keep" => dbCont'.id = 0 \/ dbConf'.id \in {0, dbCont'.id}
                 /\ dbPc'[a] \notin {"idle", "keep"} => dbMine'[a].id = dbConf'.id
                 /\ dbPc'[a] = "run" => dbCont'.id = 0
                 /\ dbPc'[a] = "keep" =>
                      dbCont' = [id |-> dbGot'[a], port |-> dbMine'[a].port, up |-> TRUE]
                 /\ dbPc'[a] = "idle" /\ dbOp'[a] = "ensure" /\ dbSaid'[a] = "ready" =>
                      dbCont'.up /\ dbCont'.port = dbMine'[a].port
    <3>1. OneCommand'
      BY <2>o, <2>s DEF OneCommand
    <3>2. \A b \in DbActor : DbReady(b)'
      BY <2>b, <2>o DEF DbReady, DbListening
    <3>3. (\A b \in DbActor : dbPc'[b] # "keep") => dbCont'.id = 0 \/ dbConf'.id \in {0, dbCont'.id}
      BY <2>b
    <3>4. \A b \in DbActor :
            /\ dbPc'[b] \notin {"idle", "keep"} => dbMine'[b].id = dbConf'.id
            /\ dbPc'[b] = "run" => dbCont'.id = 0
            /\ dbPc'[b] = "keep" =>
                 dbCont' = [id |-> dbGot'[b], port |-> dbMine'[b].port, up |-> TRUE]
      <4> TAKE b \in DbActor
      <4>1. CASE b = a
        BY <4>1, <2>b
      <4>2. CASE b # a
        BY <4>2, <2>o
      <4> QED
        BY <4>1, <4>2
    <3> QED
      BY <3>1, <3>2, <3>3, <3>4 DEF IdKept
  <2>c. /\ dbOp \in [DbActor -> DbOp] /\ dbMine \in [DbActor -> DbConf]
        /\ dbGot \in [DbActor -> DbId] /\ dbSaid \in [DbActor -> {"none", "ready", "error"}]
        /\ dbCont \in [id : DbId, port : DbPort, up : BOOLEAN] /\ dbConf \in DbConf
        /\ dbPc \in [DbActor -> {"idle", "save", "look", "restart", "again", "clear", "run",
                                 "keep", "down", "forget", "stop"}]
    BY <1>c
  <2>d. /\ dbPc[a] # "keep" => dbCont.id = 0 \/ dbConf.id \in {0, dbCont.id}
        /\ dbPc[a] \notin {"idle", "keep"} => dbMine[a].id = dbConf.id
        /\ dbPc[a] = "run" => dbCont.id = 0
        /\ dbPc[a] = "keep" => dbCont = [id |-> dbGot[a], port |-> dbMine[a].port, up |-> TRUE]
    BY <1>a, <2>a DEF IdKept
  <2>2. CASE KillDb(a)
    BY <2>2, <1>0 DEF KillDb
  <2>3. CASE SavePort(a)
    <3>1. /\ dbPc[a] = "save" /\ UNCHANGED <<dbCont, dbOp>>
          /\ \/ DbEnds(a, "none") /\ UNCHANGED <<dbConf, dbMine>>
             \/ \E port \in DbPort :
                  /\ dbConf' = [dbMine[a] EXCEPT !.port = port]
                  /\ dbMine' = [dbMine EXCEPT ![a] = dbConf']
                  /\ DbGoto(a, "clear")
      BY <2>3 DEF SavePort
    <3>2. CASE DbEnds(a, "none") /\ UNCHANGED <<dbConf, dbMine>>
      BY <3>1, <3>2, <2>c, <2>d DEF DbEnds
    <3>3. CASE \E port \in DbPort :
                  /\ dbConf' = [dbMine[a] EXCEPT !.port = port]
                  /\ dbMine' = [dbMine EXCEPT ![a] = dbConf']
                  /\ DbGoto(a, "clear")
      <4>1. dbConf'.id = dbMine[a].id /\ dbMine'[a] = dbConf' /\ dbPc'[a] = "clear"
        BY <3>3, <2>c DEF DbGoto, DbConf
      <4> QED
        BY <4>1, <3>1, <2>d
    <3> QED
      BY <3>1, <3>2, <3>3
  <2>4. CASE LookRunning(a) \/ LookAgain(a)
    <3>1. /\ dbPc[a] \in {"look", "again"} /\ UNCHANGED <<dbConf, dbCont, dbOp, dbMine>>
          /\ \/ dbCont.up /\ dbCont.port = dbMine[a].port /\ dbPc'[a] = "idle"
             \/ dbPc'[a] \in {"restart", "clear"}
      BY <2>4, <2>c DEF LookRunning, LookAgain, DbEnds, DbGoto, DbListening
    <3> QED
      BY <3>1, <2>d
  <2>5. CASE StartContainer(a)
    <3>1. /\ dbPc[a] = "restart" /\ dbCont' = [dbCont EXCEPT !.up = @ \/ Resolves(dbMine[a])]
          /\ UNCHANGED <<dbConf, dbOp, dbMine>>
          /\ IF dbOp[a] = "ensure" THEN DbGoto(a, "again") ELSE DbEnds(a, "none")
      BY <2>5, <1>0 DEF StartContainer
    <3>2. dbCont'.id = dbCont.id
      BY <3>1, <2>c
    <3>3. dbPc'[a] = "again" \/ (dbPc'[a] = "idle" /\ dbOp'[a] # "ensure")
      BY <3>1, <2>c DEF DbGoto, DbEnds
    <3> QED
      BY <3>1, <3>2, <3>3, <2>d
  <2>6. CASE ClearContainer(a)
    <3>1. /\ dbPc[a] = "clear" /\ dbPc'[a] = "run"
          /\ dbCont' = IF Resolves(dbMine[a]) THEN NoCont(dbCont.port) ELSE dbCont
          /\ UNCHANGED <<dbConf, dbMine>>
      BY <2>6, <1>0, <2>c DEF ClearContainer, DbGoto
    <3>2. dbCont'.id = 0
      <4>1. CASE Resolves(dbMine[a])
        BY <3>1, <4>1 DEF NoCont
      <4>2. CASE ~ Resolves(dbMine[a])
        BY <3>1, <4>2, <2>d DEF Resolves
      <4> QED
        BY <4>1, <4>2
    <3> QED
      BY <3>1, <3>2, <2>d
  <2>7. CASE RunContainer(a)
    <3>1. /\ dbCont' = [id |-> dbNext, port |-> dbMine[a].port, up |-> TRUE]
          /\ dbGot' = [dbGot EXCEPT ![a] = dbNext] /\ DbGoto(a, "keep") /\ UNCHANGED dbMine
      BY <2>7, <1>0, <2>d DEF RunContainer
    <3>2. dbGot'[a] = dbNext /\ dbPc'[a] = "keep"
      BY <3>1, <2>c DEF DbGoto
    <3> QED
      BY <3>1, <3>2
  <2>8. CASE KeepId(a)
    <3>1. /\ dbPc[a] = "keep" /\ dbPc'[a] = "idle" /\ dbConf' = [dbConf EXCEPT !.id = dbGot[a]]
          /\ UNCHANGED <<dbCont, dbMine>>
      BY <2>8, <2>c DEF KeepId, DbEnds
    <3>2. dbConf'.id = dbGot[a]
      BY <3>1, <2>c DEF DbConf
    <3>3. dbCont.id = dbGot[a] /\ dbCont.port = dbMine[a].port /\ dbCont.up
      BY <3>1, <2>d
    <3> QED
      BY <3>1, <3>2, <3>3
  <2>9. CASE DownContainer(a)
    <3>1. /\ dbPc[a] = "down" /\ UNCHANGED <<dbConf, dbOp, dbMine>>
          /\ \/ dbCont' = NoCont(dbCont.port) /\ DbGoto(a, "forget")
             \/ DbEnds(a, "none") /\ UNCHANGED dbCont
      BY <2>9, <1>0 DEF DownContainer
    <3>2. CASE dbCont' = NoCont(dbCont.port) /\ DbGoto(a, "forget")
      <4>1. dbCont'.id = 0 /\ dbPc'[a] = "forget"
        BY <3>2, <2>c DEF NoCont, DbGoto
      <4> QED
        BY <4>1, <3>1, <2>d
    <3>3. CASE DbEnds(a, "none") /\ UNCHANGED dbCont
      BY <3>3, <3>1, <2>c, <2>d DEF DbEnds
    <3> QED
      BY <3>1, <3>2, <3>3
  <2>10. CASE ForgetId(a)
    <3>1. /\ dbPc[a] = "forget" /\ dbPc'[a] = "idle" /\ dbConf' = [dbConf EXCEPT !.id = 0]
          /\ DbEnds(a, "none") /\ UNCHANGED <<dbCont, dbMine, dbOp>>
      BY <2>10, <2>c DEF ForgetId, DbEnds
    <3>2. dbConf'.id = 0
      BY <3>1, <2>c DEF DbConf
    <3>3. dbOp[a] = "ensure" => dbSaid'[a] = "none"
      BY <3>1, <2>c DEF DbEnds
    <3> QED
      BY <3>1, <3>2, <3>3
  <2>11. CASE StopContainer(a)
    <3>1. /\ dbPc[a] = "stop" /\ dbPc'[a] = "idle"
          /\ dbCont' = [dbCont EXCEPT !.up = @ /\ ~ Resolves(dbMine[a])]
          /\ DbEnds(a, "none") /\ UNCHANGED <<dbConf, dbMine, dbOp>>
      BY <2>11, <1>0, <2>c DEF StopContainer, DbEnds
    <3>2. dbCont'.id = dbCont.id
      BY <3>1, <2>c
    <3>3. dbOp[a] = "ensure" => dbSaid'[a] = "none"
      BY <3>1, <2>c DEF DbEnds
    <3> QED
      BY <3>1, <3>2, <3>3, <2>d
  <2> QED
    BY <1>4, <2>2, <2>3, <2>4, <2>5, <2>6, <2>7, <2>8, <2>9, <2>10, <2>11 DEF DbStep
<1> QED
  BY <1>1, <1>2, <1>3, <1>4 DEF DatabaseNext

-----------------------------------------------------------------------------
(* The trace proxy: Trace *)

Saving == {"cert", "certdone", "key", "keydone"}
CaPair(n) == [cert |-> Written(n), key |-> n]

\* A whole key on disk has its whole certificate beside it; while a pair is saved
\* no whole key is there, and the session has the new pair.  The files may be of
\* two authorities once the write of a certificate, or the read of a file, failed.
CaPaired ==
    /\ trPhase \in Saving => trCa = CaPair(trMade)
    /\ \/ trSpoilt
       \/ /\ trKey.whole => trCert.whole /\ trCert.of = trKey.of
          /\ trPhase \in Saving => ~ trKey.whole
          /\ trPhase \in {"key", "keydone"} => trCert = Written(trMade)
    /\ CaUsable

\* The exchanges that were read.
Begun == {e \in Exchange : trAt[e] # "new"}

\* One authority per start, and a credential per request that was read.
TraceBounds ==
    /\ trMade <= trCrashes + (IF trPhase = "load" THEN 0 ELSE 1)
    /\ trAuth <= Cardinality(Begun)

TraceInv == TraceTypeOK /\ TraceBounds /\ CaPaired

\* EventsAccounted, with the channel and the batcher apart.
EventsApart ==
    /\ IsInjective(trChan) /\ IsInjective(trBatch)
    /\ ToSet(trChan) \cap ToSet(trBatch) = {}
    /\ (ToSet(trChan) \cup ToSet(trBatch)) \cap (trStored \cup trLost) = {}
    /\ trStored \cap trLost = {}
    /\ {e \in Exchange : trAt[e] = "relayed"} =
         ToSet(trChan) \cup ToSet(trBatch) \cup trStored \cup trLost

\* At the start there is no authority and nothing was captured (TraceInit).
LEMMA TraceInitInv == TraceInit => TraceInv /\ EventsApart
<1> SUFFICES ASSUME TraceInit PROVE TraceInv /\ EventsApart
  OBVIOUS
<1>1. NoCaFile \in CaFile /\ 0 \in 0..MaxMade /\ NoCaFile.whole = FALSE
  BY TraceAssumption DEF NoCaFile, CaFile, MaxMade
<1>2. trCa \in [cert : CaFile, key : 0..MaxMade]
  BY <1>1 DEF TraceInit
<1>3. <<>> \in Seq(Exchange) /\ Len(<<>>) = 0
  OBVIOUS
<1>4. Cardinality(Exchange) \in Nat
  BY TraceAssumption, FS_CardinalityType
<1>5. TraceTypeOK
  <2>1. trEnded \in BOOLEAN
    BY DEF TraceInit
  <2>2. trAt \in [Exchange -> At]
    BY DEF TraceInit, At
  <2>4. trSpoilt \in BOOLEAN /\ trHung \in BOOLEAN
    BY DEF TraceInit
  <2>3. /\ trPhase = "load" /\ trCert = NoCaFile /\ trKey = NoCaFile /\ trMade = 0
        /\ trChan = <<>> /\ trBatch = <<>> /\ trStored = {} /\ trLost = {}
        /\ trBrowser = "none" /\ trAuth = 0 /\ trSig = 0 /\ trSeeded = 0
        /\ trFaults = 0 /\ trCrashes = 0
    BY DEF TraceInit
  <2> QED
    BY <1>1, <1>2, <1>3, <1>4, <2>1, <2>2, <2>3, <2>4, TraceAssumption DEF TraceTypeOK
<1>6. TraceBounds
  <2>1. Begun = {}
    BY DEF TraceInit, Begun
  <2>2. Cardinality(Begun) = 0
    BY <2>1, FS_EmptySet
  <2> QED
    BY <2>2 DEF TraceInit, TraceBounds
<1>7. CaPaired
  BY <1>1 DEF TraceInit, CaPaired, Saving, CaUsable
<1>8. EventsApart
  BY DEF TraceInit, EventsApart, IsInjective, ToSet
<1> QED
  BY <1>5, <1>6, <1>7, <1>8 DEF TraceInv

\* Only the setup touches the authority; the rest of a session goes from its loop
\* to its end (run_proxy).
LEMMA TraceQuiet ==
    ASSUME [TraceNext]_trVars, ~ LoadCa, ~ SaveCa, ~ SessionAgain
    PROVE  /\ UNCHANGED trCaVars
           /\ \/ UNCHANGED trPhase
              \/ trPhase \notin {"load"} \cup Saving /\ trPhase' \in {"seed", "flush", "over"}
BY DEF TraceNext, TraceSetup, TraceEnd, trVars, Forward, Intercept, GateDecides,
   OriginAnswers, SendTrace, Receive, TickFlush, TickSeed, CtrlC, LastSeed, FinalFlush,
   CloseBrowser, Saving

\* What was spoilt stays so (load_or_generate_ca).
LEMMA SpoiltStays ==
    ASSUME TraceTypeOK, [TraceNext]_trVars, trSpoilt
    PROVE  trSpoilt'
<1>1. CASE LoadCa
  BY <1>1 DEF LoadCa
<1>2. CASE SaveCa
  BY <1>2 DEF SaveCa, SaveCert, SaveKey
<1>3. CASE SessionAgain
  BY <1>3 DEF SessionAgain
<1>4. CASE ~ LoadCa /\ ~ SaveCa /\ ~ SessionAgain
  BY <1>4, TraceQuiet DEF trCaVars
<1> QED
  BY <1>1, <1>2, <1>3, <1>4

\* A session that saves an authority uses that one (load_or_generate_ca).
LEMMA SavedIsUsed ==
    ASSUME TraceTypeOK, [TraceNext]_trVars, trPhase \in Saving => trCa = CaPair(trMade)
    PROVE  trPhase' \in Saving => trCa' = CaPair(trMade')
<1>1. CASE LoadCa
  <2>1. \/ trPhase' = "run"
        \/ trCa' = CaPair(trMade')
    BY <1>1 DEF LoadCa, CaPair
  <2> QED
    BY <2>1 DEF Saving
<1>2. CASE SaveCa
  <2>1. trPhase \in Saving /\ UNCHANGED <<trCa, trMade>>
    BY <1>2 DEF SaveCa, SaveCert, SaveKey, Saving
  <2> QED
    BY <2>1
<1>3. CASE SessionAgain
  BY <1>3 DEF SessionAgain, Saving
<1>4. CASE ~ LoadCa /\ ~ SaveCa /\ ~ SessionAgain
  BY <1>4, TraceQuiet DEF trCaVars, Saving
<1> QED
  BY <1>1, <1>2, <1>3, <1>4

\* A setup that is killed anywhere, or that cannot write its key, leaves no whole
\* key without its certificate (load_or_generate_ca writes the key last).
LEMMA CaStep == TraceTypeOK /\ CaPaired /\ [TraceNext]_trVars => CaPaired'
<1> SUFFICES ASSUME TraceTypeOK, CaPaired, [TraceNext]_trVars PROVE CaPaired'
  OBVIOUS
<1>u. trPhase' \in Saving => trCa' = CaPair(trMade')
  BY SavedIsUsed DEF CaPaired
<1>0. CASE trSpoilt'
  BY <1>0, <1>u DEF CaPaired, CaUsable
<1>n. CASE ~ trSpoilt'
  <2>s. ~ trSpoilt
    BY <1>n, SpoiltStays
  <2>a. /\ trKey \in CaFile /\ trCert \in CaFile
        /\ trKey.whole \in BOOLEAN /\ trCert.whole \in BOOLEAN
    BY DEF TraceTypeOK, CaFile
  <2>b. /\ trKey.whole => trCert.whole /\ trCert.of = trKey.of
        /\ trPhase \in Saving => ~ trKey.whole /\ trCa = CaPair(trMade)
        /\ trPhase \in {"key", "keydone"} => trCert = Written(trMade)
        /\ trPhase = "run" => trCa.cert.whole /\ trCa.cert.of = trCa.key
    BY <2>s DEF CaPaired, CaUsable
  <2>1. CASE LoadCa
    <3>0. trPhase = "load" /\ UNCHANGED <<trCert, trKey>>
      BY <2>1 DEF LoadCa
    <3>1. CASE trPhase' = "run"
      <4>1. trCa' = [cert |-> trCert, key |-> trKey.of] /\ trKey.whole
        BY <2>1, <3>1 DEF LoadCa
      <4>2. trCa'.cert.whole /\ trCa'.cert.of = trCa'.key
        BY <4>1, <2>b
      <4> QED
        BY <2>b, <3>0, <3>1, <4>2, <1>u DEF CaPaired, CaUsable, Saving
    <3>2. CASE trPhase' # "run"
      <4>1. trPhase' = "cert" /\ ~ ((trCert # NoCaFile /\ trKey # NoCaFile) /\ trKey.whole)
        BY <1>n, <2>1, <3>2 DEF LoadCa
      <4>2. ~ trKey.whole
        <5> SUFFICES ASSUME trKey.whole PROVE FALSE
          OBVIOUS
        <5>1. trKey # NoCaFile /\ trCert # NoCaFile
          BY <2>b DEF NoCaFile
        <5> QED
          BY <4>1, <5>1
      <4> QED
        BY <3>0, <4>1, <4>2, <1>u DEF CaPaired, CaUsable
    <3> QED
      BY <3>1, <3>2
  <2>2. CASE SaveCa
    <3>0. UNCHANGED <<trCa, trMade>> /\ (SaveCert \/ SaveKey)
      BY <2>2 DEF SaveCa
    <3>1. CASE SaveCert /\ trPhase' = "certdone"
      <4>1. trPhase = "cert" /\ UNCHANGED trKey
        BY <3>1 DEF SaveCert
      <4>2. ~ trKey'.whole
        BY <2>b, <4>1 DEF Saving
      <4> QED
        BY <1>u, <3>1, <4>2 DEF CaPaired, CaUsable
    <3>2. CASE SaveCert /\ trPhase' # "certdone"
      <4>1. trPhase \in {"cert", "certdone"} /\ trPhase' = "key" /\ UNCHANGED trKey
        BY <3>2 DEF SaveCert
      <4>2. trCert' = Written(trMade)
        BY <1>n, <3>2 DEF SaveCert
      <4>3. ~ trKey'.whole
        BY <2>b, <4>1 DEF Saving
      <4>4. trCert' = Written(trMade')
        BY <3>0, <4>2 DEF Written
      <4> QED
        BY <1>u, <4>1, <4>3, <4>4 DEF CaPaired, CaUsable
    <3>3. CASE SaveKey
      <4>1. trPhase \in {"key", "keydone"} /\ UNCHANGED trCert
        BY <3>3 DEF SaveKey
      <4>2. trCert' = Written(trMade) /\ ~ trKey.whole /\ trCa = CaPair(trMade)
        BY <2>b, <4>1 DEF Saving
      <4>3. trCert'.whole /\ trCert'.of = trMade
        BY <4>2 DEF Written
      <4>4. CASE trPhase' = "keydone"
        <5>1. trKey' = Truncated(trMade)
          BY <3>3, <4>4 DEF SaveKey
        <5>2. ~ trKey'.whole
          BY <5>1 DEF Truncated
        <5>3. trCert' = Written(trMade')
          BY <3>0, <4>2 DEF Written
        <5> QED
          BY <1>u, <4>4, <5>2, <5>3 DEF CaPaired, CaUsable
      <4>5. CASE trPhase' # "keydone"
        <5>1. trPhase' = "run" /\ (trKey' = Written(trMade) \/ UNCHANGED trKey)
          BY <3>3, <4>5 DEF SaveKey
        <5>2. trKey'.whole => trKey'.of = trMade
          BY <4>2, <5>1 DEF Written
        <5>3. trCa'.cert.whole /\ trCa'.cert.of = trCa'.key
          BY <3>0, <4>2 DEF CaPair, Written
        <5> QED
          BY <4>3, <5>1, <5>2, <5>3 DEF CaPaired, CaUsable, Saving
      <4> QED
        BY <4>4, <4>5
    <3> QED
      BY <3>0, <3>1, <3>2, <3>3
  <2>3. CASE SessionAgain
    <3>1. trPhase' = "load" /\ UNCHANGED <<trCert, trKey>>
      BY <2>3 DEF SessionAgain
    <3> QED
      BY <2>b, <3>1 DEF CaPaired, CaUsable, Saving
  <2>4. CASE ~ LoadCa /\ ~ SaveCa /\ ~ SessionAgain
    BY <2>4, <2>b, TraceQuiet DEF trCaVars, CaPaired, CaUsable, Saving
  <2> QED
    BY <2>1, <2>2, <2>3, <2>4
<1> QED
  BY <1>0, <1>n

\* The exchanges that were read are finitely many, and no more than there are.
LEMMA BegunBound == /\ IsFiniteSet(Begun) /\ Cardinality(Begun) \in Nat
                    /\ Cardinality(Exchange) \in Nat /\ Cardinality(Begun) <= Cardinality(Exchange)
<1>1. Begun \subseteq Exchange
  BY DEF Begun
<1>2. IsFiniteSet(Begun) /\ Cardinality(Begun) <= Cardinality(Exchange)
  BY <1>1, FS_Subset, TraceAssumption
<1> QED
  BY <1>2, FS_CardinalityType, TraceAssumption

\* An exchange that moves on stays read; one that is read for the first time is
\* one more (handle).
LEMMA BegunMoves ==
    ASSUME TraceTypeOK, NEW e \in Exchange, NEW at \in At \ {"new"}, Move(e, at)
    PROVE  /\ trAt' \in [Exchange -> At]
           /\ Cardinality(Begun') \in Nat
           /\ Cardinality(Begun') >= Cardinality(Begun) + (IF trAt[e] = "new" THEN 1 ELSE 0)
           /\ Cardinality(Begun') <= Cardinality(Exchange)
<1>1. trAt \in [Exchange -> At]
  BY DEF TraceTypeOK
<1>2. trAt' \in [Exchange -> At] /\ Begun' = Begun \cup {e}
  BY <1>1 DEF Move, Begun
<1>3. PICK S, T : S = Begun /\ T = Begun'
  OBVIOUS
<1>4. IsFiniteSet(S) /\ Cardinality(S) \in Nat
  BY <1>3, BegunBound
<1>5. IsFiniteSet(T) /\ T \subseteq Exchange
  BY <1>2, <1>3, <1>4, FS_AddElement DEF Begun
<1>6. Cardinality(T) \in Nat /\ Cardinality(T) <= Cardinality(Exchange)
  BY <1>5, FS_Subset, FS_CardinalityType, TraceAssumption
<1>7. Cardinality(T) = IF e \in S THEN Cardinality(S) ELSE Cardinality(S) + 1
  BY <1>2, <1>3, <1>4, FS_AddElement
<1>8. e \in S <=> trAt[e] # "new"
  BY <1>3 DEF Begun
<1> QED
  BY <1>2, <1>3, <1>4, <1>6, <1>7, <1>8

\* What a post does to the counts and to the sets of events (post_batch).
LEMMA PostType ==
    ASSUME NEW events \in Seq(Exchange), NEW taken \in BOOLEAN,
           trStored \subseteq Exchange, trLost \subseteq Exchange,
           trFaults \in 0..MaxTraceFault, trHung \in BOOLEAN, PostBatch(events, taken)
    PROVE  /\ trStored' \subseteq Exchange /\ trLost' \subseteq Exchange
           /\ trFaults' \in 0..MaxTraceFault /\ trHung' \in BOOLEAN
<1>1. ToSet(events) \subseteq Exchange
  BY DEF ToSet
<1>2. trStored' \subseteq Exchange /\ trLost' \subseteq Exchange
  BY <1>1 DEF PostBatch
<1>3. PostFails \/ UNCHANGED trPostVars
  BY DEF PostBatch
<1>4. trFaults' \in 0..MaxTraceFault
  BY <1>3, TraceAssumption DEF PostFails, TraceFails, trPostVars
<1>5. trHung' \in BOOLEAN
  BY <1>3 DEF PostFails, TraceFails, trPostVars
<1> QED
  BY <1>2, <1>4, <1>5

\* Every step of a session keeps its types: the channel within its capacity, the
\* batcher below its size, a credential per request.
LEMMA TraceTypeStep == TraceInv /\ [TraceNext]_trVars => TraceTypeOK' /\ TraceBounds'
<1> SUFFICES ASSUME TraceInv, [TraceNext]_trVars PROVE TraceTypeOK' /\ TraceBounds'
  OBVIOUS
<1>a. TraceTypeOK /\ TraceBounds
  BY DEF TraceInv
<1>b. <<>> \in Seq(Exchange) /\ Len(<<>>) = 0 /\ BatchMax \in Nat /\ 0 < BatchMax
  BY TraceAssumption
<1> USE TraceAssumption DEF trCaVars, trSeedVars, trEventVars, trPostVars
<1>1. CASE UNCHANGED trVars
  BY <1>1, <1>a DEF trVars, TraceTypeOK, TraceBounds, Begun
<1>c. /\ trSpoilt \in BOOLEAN /\ trHung \in BOOLEAN /\ trEnded \in BOOLEAN
      /\ trFaults \in 0..MaxTraceFault
  BY <1>a DEF TraceTypeOK
<1>2. CASE LoadCa
  <2>1. trPhase = "load" /\ trMade \in 0..MaxMade /\ trMade <= trCrashes
        /\ trCrashes \in 0..MaxTraceCrash
    BY <1>2, <1>a DEF LoadCa, TraceTypeOK, TraceBounds
  <2>2. trMade + 1 \in 0..MaxMade
    BY <2>1 DEF MaxMade
  <2>3. /\ UNCHANGED <<trCert, trKey, trCrashes, trAt, trEventVars, trEnded, trSeedVars,
                       trHung>>
        /\ trPhase' \in {"run", "cert"} /\ trBrowser' \in {trBrowser, "none", "open"}
    BY <1>2 DEF LoadCa
  <2>4. trSpoilt' \in BOOLEAN
    BY <1>2, <1>c DEF LoadCa
  <2>5. trFaults' \in 0..MaxTraceFault
    <3>1. trFaults' = trFaults \/ TraceFails
      BY <1>2 DEF LoadCa
    <3> QED
      BY <3>1, <1>c DEF TraceFails
  <2>6. trMade' \in {trMade, trMade + 1}
    BY <1>2 DEF LoadCa
  <2>7. trCa' \in [cert : CaFile, key : 0..MaxMade]
    <3>1. CASE trCa' = [cert |-> trCert, key |-> trKey.of]
      <4>1. trKey.of \in 0..MaxMade /\ trCert \in CaFile
        BY <1>a DEF TraceTypeOK, CaFile
      <4> QED
        BY <3>1, <4>1
    <3>2. CASE trCa' = [cert |-> Written(trMade + 1), key |-> trMade + 1]
      <4>1. Written(trMade + 1) \in CaFile
        BY <2>2 DEF CaFile, Written
      <4> QED
        BY <2>2, <3>2, <4>1
    <3> QED
      BY <1>2, <3>1, <3>2 DEF LoadCa
  <2>8. trMade' \in 0..MaxMade /\ trMade' <= trCrashes + 1
    BY <2>1, <2>2, <2>6
  <2>9. TraceTypeOK'
    BY <1>a, <2>3, <2>4, <2>5, <2>7, <2>8 DEF TraceTypeOK
  <2>10. TraceBounds'
    BY <1>a, <2>3, <2>8 DEF TraceBounds, Begun
  <2> QED
    BY <2>9, <2>10
<1>3. CASE SaveCa
  <2>0. /\ SaveCert \/ SaveKey
        /\ UNCHANGED <<trCa, trMade, trCrashes, trAt, trEventVars, trEnded, trSeedVars,
                       trHung>>
    BY <1>3 DEF SaveCa
  <2>1. trPhase \in Saving /\ trPhase' \in {"certdone", "key", "keydone", "run"}
        /\ trBrowser' \in {trBrowser, "none", "open"}
    BY <2>0 DEF SaveCert, SaveKey, Saving
  <2>2. Written(trMade) \in CaFile /\ Truncated(trMade) \in CaFile
    BY <1>a DEF TraceTypeOK, CaFile, Written, Truncated
  <2>3. trCert' \in CaFile /\ trKey' \in CaFile
    <3>1. trCert' \in {trCert, Written(trMade), Truncated(trMade)}
      BY <2>0 DEF SaveCert, SaveKey
    <3>2. trKey' \in {trKey, Written(trMade), Truncated(trMade)}
      BY <2>0 DEF SaveCert, SaveKey
    <3> QED
      BY <1>a, <2>2, <3>1, <3>2 DEF TraceTypeOK
  <2>4. trSpoilt' \in BOOLEAN
    BY <1>c, <2>0 DEF SaveCert, SaveKey
  <2>5. trFaults' \in 0..MaxTraceFault
    <3>1. trFaults' = trFaults \/ TraceFails
      BY <2>0 DEF SaveCert, SaveKey
    <3> QED
      BY <3>1, <1>c DEF TraceFails
  <2>6. TraceTypeOK'
    BY <1>a, <2>0, <2>1, <2>3, <2>4, <2>5 DEF TraceTypeOK
  <2>7. TraceBounds'
    BY <1>a, <2>0, <2>1 DEF TraceBounds, Begun, Saving
  <2> QED
    BY <2>6, <2>7
<1>4. CASE SessionAgain
  <2>1. trMade \in 0..MaxMade /\ trCrashes' = trCrashes + 1 /\ trCrashes' \in 0..MaxTraceCrash
        /\ trCrashes \in Nat
    BY <1>4, <1>a DEF SessionAgain, TraceTypeOK
  <2>2. TraceBounds'
    BY <1>4, <1>a, <2>1 DEF SessionAgain, TraceBounds, Begun, MaxMade
  <2>3. trPhase' = "load" /\ trBrowser' = "none"
        /\ UNCHANGED <<trCert, trKey, trCa, trMade, trSpoilt, trAt, trEventVars, trEnded,
                       trSeedVars, trPostVars>>
    BY <1>4 DEF SessionAgain
  <2> QED
    BY <1>a, <2>1, <2>2, <2>3 DEF TraceTypeOK
<1>5. ASSUME NEW e \in Exchange, Forward(e) PROVE TraceTypeOK' /\ TraceBounds'
  <2>1. PICK at \in {"upstream", "untraced"} : Move(e, at) /\ trAt[e] = "new"
    BY <1>5 DEF Forward
  <2>2. /\ trAt' \in [Exchange -> At] /\ Cardinality(Begun') \in Nat
        /\ Cardinality(Begun') >= Cardinality(Begun) + 1
        /\ Cardinality(Begun') <= Cardinality(Exchange)
    BY <2>1, <1>a, BegunMoves DEF At
  <2>3. /\ trAuth \in Nat /\ trAuth' \in {trAuth, trAuth + 1}
        /\ trSig \in 0..trAuth /\ trSeeded \in 0..trAuth
        /\ trAuth <= Cardinality(Begun) /\ Cardinality(Begun) \in Nat
        /\ Cardinality(Exchange) \in Nat
    BY <1>5, <1>a, BegunBound DEF Forward, TraceTypeOK, TraceBounds
  <2>4. /\ trAuth' \in 0..Cardinality(Exchange) /\ trAuth' <= Cardinality(Begun')
        /\ trSig \in 0..trAuth' /\ trSeeded \in 0..trAuth'
    BY <2>2, <2>3
  <2>5. UNCHANGED <<trPhase, trCaVars, trEventVars, trEnded, trBrowser, trSig, trSeeded,
                    trPostVars>>
    BY <1>5 DEF Forward
  <2>6. TraceTypeOK'
    BY <1>a, <2>2, <2>4, <2>5 DEF TraceTypeOK
  <2> QED
    BY <1>a, <2>4, <2>5, <2>6 DEF TraceBounds
<1>6. ASSUME NEW e \in Exchange, Intercept(e) \/ GateDecides(e) \/ OriginAnswers(e)
      PROVE  TraceTypeOK' /\ TraceBounds'
  <2>1. PICK at \in {"held", "upstream", "sending", "untraced"} : Move(e, at)
    BY <1>6 DEF Intercept, GateDecides, OriginAnswers
  <2>2. /\ trAt' \in [Exchange -> At] /\ Cardinality(Begun') \in Nat
        /\ Cardinality(Begun') >= Cardinality(Begun)
    BY <2>1, <1>a, BegunMoves, BegunBound DEF At
  <2>3. UNCHANGED <<trPhase, trCaVars, trEventVars, trEnded, trBrowser, trSeedVars, trPostVars>>
    BY <1>6 DEF Intercept, GateDecides, OriginAnswers
  <2>4. TraceTypeOK'
    BY <1>a, <2>2, <2>3 DEF TraceTypeOK
  <2>5. trAuth' <= Cardinality(Begun')
    BY <1>a, <2>2, <2>3, BegunBound DEF TraceBounds, TraceTypeOK
  <2> QED
    BY <1>a, <2>3, <2>4, <2>5 DEF TraceBounds
<1>7. ASSUME NEW e \in Exchange, SendTrace(e) PROVE TraceTypeOK' /\ TraceBounds'
  <2>1. Move(e, "relayed") /\ Len(trChan) < ChanCap /\ trChan' = Append(trChan, e)
        /\ UNCHANGED <<trPhase, trCaVars, trBatch, trStored, trLost, trEnded, trBrowser,
                       trSeedVars, trPostVars>>
    BY <1>7 DEF SendTrace
  <2>2. /\ trAt' \in [Exchange -> At] /\ Cardinality(Begun') \in Nat
        /\ Cardinality(Begun') >= Cardinality(Begun)
    BY <2>1, <1>a, BegunMoves, BegunBound DEF At
  <2>3. trChan' \in Seq(Exchange) /\ Len(trChan') <= ChanCap
    BY <2>1, <1>a DEF TraceTypeOK
  <2>4. TraceTypeOK'
    BY <1>a, <2>1, <2>2, <2>3 DEF TraceTypeOK
  <2>5. trAuth' <= Cardinality(Begun')
    BY <1>a, <2>1, <2>2, BegunBound DEF TraceBounds, TraceTypeOK
  <2> QED
    BY <1>a, <2>1, <2>4, <2>5 DEF TraceBounds
<1>8. CASE Receive
  <2>1. trChan \in Seq(Exchange) /\ trChan # <<>> /\ trBatch \in Seq(Exchange)
        /\ Len(trChan) <= ChanCap
    BY <1>8, <1>a DEF Receive, TraceTypeOK
  <2>2. Head(trChan) \in Exchange /\ Tail(trChan) \in Seq(Exchange) /\ Len(Tail(trChan)) <= ChanCap
    BY <2>1
  <2>3. PICK events : events = Append(trBatch, Head(trChan))
    OBVIOUS
  <2>4. events \in Seq(Exchange) /\ Len(events) \in Nat
    BY <2>1, <2>2, <2>3
  <2>5. /\ trChan' = Tail(trChan)
        /\ IF Len(events) >= BatchMax
           THEN (\E taken \in BOOLEAN : PostBatch(events, taken)) /\ trBatch' = <<>>
           ELSE trBatch' = events /\ UNCHANGED <<trStored, trLost, trPostVars>>
        /\ UNCHANGED <<trPhase, trCaVars, trAt, trEnded, trBrowser, trSeedVars>>
    BY <1>8, <2>3 DEF Receive
  <2>6. trBatch' \in Seq(Exchange) /\ Len(trBatch') < BatchMax
    <3>1. CASE Len(events) >= BatchMax
      BY <1>b, <2>5, <3>1
    <3>2. CASE ~ (Len(events) >= BatchMax)
      BY <1>b, <2>4, <2>5, <3>2
    <3> QED
      BY <3>1, <3>2
  <2>7. /\ trStored' \subseteq Exchange /\ trLost' \subseteq Exchange
        /\ trFaults' \in 0..MaxTraceFault /\ trHung' \in BOOLEAN
    <3>1. CASE Len(events) >= BatchMax
      <4>1. PICK taken \in BOOLEAN : PostBatch(events, taken)
        BY <2>5, <3>1
      <4> QED
        BY <1>a, <1>c, <2>4, <4>1, PostType DEF TraceTypeOK
    <3>2. CASE ~ (Len(events) >= BatchMax)
      BY <1>a, <1>c, <2>5, <3>2 DEF TraceTypeOK
    <3> QED
      BY <3>1, <3>2
  <2>8. TraceTypeOK'
    BY <1>a, <2>2, <2>5, <2>6, <2>7 DEF TraceTypeOK
  <2> QED
    BY <1>a, <2>5, <2>8 DEF TraceBounds, Begun
<1>9. CASE TickFlush
  <2>1. /\ trBatch' = <<>>
        /\ UNCHANGED <<trPhase, trCaVars, trAt, trChan, trEnded, trBrowser, trSeedVars>>
    BY <1>9 DEF TickFlush
  <2>0. PICK taken \in BOOLEAN : PostBatch(trBatch, taken)
    BY <1>9 DEF TickFlush
  <2>2. /\ trStored' \subseteq Exchange /\ trLost' \subseteq Exchange
        /\ trFaults' \in 0..MaxTraceFault /\ trHung' \in BOOLEAN
    BY <1>a, <1>c, <2>0, PostType DEF TraceTypeOK
  <2>3. trBatch' \in Seq(Exchange) /\ Len(trBatch') < BatchMax
    BY <1>b, <2>1
  <2>4. TraceTypeOK'
    BY <1>a, <2>1, <2>2, <2>3 DEF TraceTypeOK
  <2> QED
    BY <1>a, <2>1, <2>4 DEF TraceBounds, Begun
<1>10. CASE TickSeed
  <2>0. UNCHANGED trPostVars \/ PostFails
    BY <1>10 DEF TickSeed
  <2>1. trFaults' \in 0..MaxTraceFault
    BY <1>c, <2>0 DEF PostFails, TraceFails
  <2>2. trHung' \in BOOLEAN
    BY <1>c, <2>0 DEF PostFails, TraceFails
  <2>3. trAuth \in Nat /\ trSig' \in 0..trAuth /\ trSeeded' \in 0..trAuth
    <3>1. trAuth \in Nat /\ trSig \in 0..trAuth /\ trSeeded \in 0..trAuth
      BY <1>a, BegunBound DEF TraceTypeOK
    <3>2. trSig' \in {trSig, trAuth} /\ trSeeded' \in {trSeeded, trAuth}
      BY <1>10 DEF TickSeed
    <3> QED
      BY <3>1, <3>2
  <2>4. UNCHANGED <<trPhase, trCaVars, trAt, trEventVars, trEnded, trBrowser, trAuth>>
    BY <1>10 DEF TickSeed
  <2>5. TraceTypeOK'
    BY <1>a, <2>1, <2>2, <2>3, <2>4 DEF TraceTypeOK
  <2> QED
    BY <1>a, <2>4, <2>5 DEF TraceBounds, Begun
<1>11. CASE CtrlC
  BY <1>11, <1>a DEF CtrlC, TraceTypeOK, TraceBounds, Begun
<1>12. CASE LastSeed
  <2>0. UNCHANGED trPostVars \/ PostFails
    BY <1>12 DEF LastSeed
  <2>1. trFaults' \in 0..MaxTraceFault
    BY <1>c, <2>0 DEF PostFails, TraceFails
  <2>2. trHung' \in BOOLEAN
    BY <1>c, <2>0 DEF PostFails, TraceFails
  <2>3. trAuth \in Nat /\ trSeeded' \in 0..trAuth
    <3>1. trAuth \in Nat /\ trSeeded \in 0..trAuth
      BY <1>a, BegunBound DEF TraceTypeOK
    <3>2. trSeeded' \in {trSeeded, trAuth}
      BY <1>12 DEF LastSeed
    <3> QED
      BY <3>1, <3>2
  <2>4. /\ trPhase = "seed" /\ trPhase' \in {"seed", "flush"}
        /\ UNCHANGED <<trCaVars, trAt, trEventVars, trEnded, trBrowser, trAuth, trSig>>
    BY <1>12 DEF LastSeed
  <2>5. TraceTypeOK'
    BY <1>a, <2>1, <2>2, <2>3, <2>4 DEF TraceTypeOK
  <2> QED
    BY <1>a, <2>4, <2>5 DEF TraceBounds, Begun
<1>13. CASE FinalFlush
  <2>0. PICK taken \in BOOLEAN : PostBatch(trBatch, taken) /\ trEnded' = taken
    BY <1>13 DEF FinalFlush
  <2>1. trBatch' = <<>> /\ trPhase = "flush" /\ trPhase' \in {"flush", "over"}
        /\ trBrowser' \in {trBrowser, "closed"}
        /\ UNCHANGED <<trCaVars, trAt, trChan, trSeedVars>>
    BY <1>13 DEF FinalFlush
  <2>2. trEnded' \in BOOLEAN
    BY <2>0
  <2>3. /\ trStored' \subseteq Exchange /\ trLost' \subseteq Exchange
        /\ trFaults' \in 0..MaxTraceFault /\ trHung' \in BOOLEAN
    BY <1>a, <1>c, <2>0, PostType DEF TraceTypeOK
  <2>4. trBatch' \in Seq(Exchange) /\ Len(trBatch') < BatchMax
    BY <1>b, <2>1
  <2>5. TraceTypeOK'
    BY <1>a, <2>1, <2>2, <2>3, <2>4 DEF TraceTypeOK
  <2> QED
    BY <1>a, <2>1, <2>5 DEF TraceBounds, Begun
<1>14. CASE CloseBrowser
  BY <1>14, <1>a DEF CloseBrowser, TraceTypeOK, TraceBounds, Begun
<1> QED
  BY <1>1, <1>2, <1>3, <1>4, <1>5, <1>6, <1>7, <1>8, <1>9, <1>10, <1>11, <1>12, <1>13,
     <1>14 DEF TraceNext, TraceSetup, TraceEnd

\* A sequence put together from two has the members of both, and each once if
\* that is so of the two and they share none.
LEMMA ConcatMembers ==
    ASSUME NEW S, NEW c \in Seq(S), NEW b \in Seq(S)
    PROVE  /\ ToSet(c \o b) = ToSet(c) \cup ToSet(b)
           /\ IsInjective(c) /\ IsInjective(b) /\ ToSet(c) \cap ToSet(b) = {} =>
                IsInjective(c \o b)
<1>1. /\ c \o b \in Seq(S) /\ Len(c \o b) = Len(c) + Len(b) /\ Len(c) \in Nat /\ Len(b) \in Nat
      /\ DOMAIN (c \o b) = 1..(Len(c) + Len(b)) /\ DOMAIN c = 1..Len(c) /\ DOMAIN b = 1..Len(b)
  OBVIOUS
<1>2. \A i \in 1..Len(c) : i \in DOMAIN (c \o b) /\ (c \o b)[i] = c[i]
  OBVIOUS
<1>3. \A i \in 1..Len(b) : Len(c) + i \in DOMAIN (c \o b) /\ (c \o b)[Len(c) + i] = b[i]
  OBVIOUS
<1>4. ASSUME NEW i \in DOMAIN (c \o b)
      PROVE  \/ i \in 1..Len(c) /\ (c \o b)[i] = c[i]
             \/ i - Len(c) \in 1..Len(b) /\ (c \o b)[i] = b[i - Len(c)]
  BY <1>1, <1>4
<1>5. ToSet(c \o b) = ToSet(c) \cup ToSet(b)
  <2>1. ToSet(c \o b) \subseteq ToSet(c) \cup ToSet(b)
    <3> SUFFICES ASSUME NEW i \in DOMAIN (c \o b)
                 PROVE  (c \o b)[i] \in ToSet(c) \cup ToSet(b)
      BY DEF ToSet
    <3> QED
      BY <1>1, <1>4 DEF ToSet
  <2>2. ToSet(c) \subseteq ToSet(c \o b)
    BY <1>1, <1>2 DEF ToSet
  <2>3. ToSet(b) \subseteq ToSet(c \o b)
    <3> SUFFICES ASSUME NEW i \in DOMAIN b PROVE b[i] \in ToSet(c \o b)
      BY DEF ToSet
    <3>1. PICK k \in DOMAIN (c \o b) : (c \o b)[k] = b[i]
      BY <1>1, <1>3
    <3> QED
      BY <3>1 DEF ToSet
  <2> QED
    BY <2>1, <2>2, <2>3
<1>6. ASSUME IsInjective(c), IsInjective(b), ToSet(c) \cap ToSet(b) = {} PROVE IsInjective(c \o b)
  <2> SUFFICES ASSUME NEW i \in DOMAIN (c \o b), NEW k \in DOMAIN (c \o b),
                      (c \o b)[i] = (c \o b)[k]
               PROVE  i = k
    BY DEF IsInjective
  <2>1. i \in Int /\ k \in Int /\ Len(c) \in Int
    BY <1>1
  <2>2. CASE i \in 1..Len(c) /\ k \in 1..Len(c)
    BY <1>1, <1>2, <1>6, <2>2 DEF IsInjective
  <2>3. CASE i - Len(c) \in 1..Len(b) /\ (c \o b)[i] = b[i - Len(c)]
             /\ k - Len(c) \in 1..Len(b) /\ (c \o b)[k] = b[k - Len(c)]
    <3>1. i - Len(c) = k - Len(c)
      BY <1>1, <1>6, <2>3 DEF IsInjective
    <3> QED
      BY <2>1, <3>1
  <2>4. \A x, y : x \in 1..Len(c) /\ y \in 1..Len(b) => c[x] # b[y]
    BY <1>1, <1>6 DEF ToSet
  <2> QED
    BY <1>4, <2>2, <2>3, <2>4
<1> QED
  BY <1>5, <1>6

\* The event that is sent is the only new member of the channel.
LEMMA AppendMembers ==
    ASSUME NEW S, NEW s \in Seq(S), NEW e \in S
    PROVE  /\ ToSet(Append(s, e)) = ToSet(s) \cup {e}
           /\ IsInjective(s) /\ e \notin ToSet(s) => IsInjective(Append(s, e))
<1>1. /\ DOMAIN s = 1..Len(s) /\ Len(s) \in Nat /\ DOMAIN Append(s, e) = 1..(Len(s) + 1)
      /\ Append(s, e)[Len(s) + 1] = e /\ \A i \in 1..Len(s) : Append(s, e)[i] = s[i]
  OBVIOUS
<1>2. \A i \in 1..(Len(s) + 1) : i \in 1..Len(s) \/ i = Len(s) + 1
  BY <1>1
<1>3. Len(s) + 1 \in 1..(Len(s) + 1) /\ \A i \in 1..Len(s) : i \in 1..(Len(s) + 1)
  BY <1>1
<1>4. ToSet(Append(s, e)) = ToSet(s) \cup {e}
  <2>1. \A i \in DOMAIN Append(s, e) : Append(s, e)[i] \in ToSet(s) \cup {e}
    BY <1>1, <1>2 DEF ToSet
  <2>2. \A i \in DOMAIN s : \E k \in DOMAIN Append(s, e) : s[i] = Append(s, e)[k]
    BY <1>1, <1>3
  <2>3. \E k \in DOMAIN Append(s, e) : e = Append(s, e)[k]
    BY <1>1, <1>3
  <2> QED
    BY <2>1, <2>2, <2>3 DEF ToSet
<1>5. ASSUME IsInjective(s), e \notin ToSet(s) PROVE IsInjective(Append(s, e))
  <2> SUFFICES ASSUME NEW i \in DOMAIN Append(s, e), NEW k \in DOMAIN Append(s, e),
                      Append(s, e)[i] = Append(s, e)[k]
               PROVE  i = k
    BY DEF IsInjective
  <2>1. \A x \in 1..Len(s) : s[x] # e
    BY <1>1, <1>5 DEF ToSet
  <2>2. \A x, y \in 1..Len(s) : s[x] = s[y] => x = y
    BY <1>1, <1>5 DEF IsInjective
  <2> QED
    BY <1>1, <1>2, <2>1, <2>2
<1> QED
  BY <1>4, <1>5

\* The event that is received is the only one that leaves the channel.
LEMMA TailMembers ==
    ASSUME NEW S, NEW s \in Seq(S), s # <<>>
    PROVE  /\ ToSet(s) = {Head(s)} \cup ToSet(Tail(s))
           /\ IsInjective(s) => IsInjective(Tail(s)) /\ Head(s) \notin ToSet(Tail(s))
<1>1. /\ DOMAIN s = 1..Len(s) /\ Len(s) \in Nat \ {0} /\ Head(s) = s[1]
      /\ DOMAIN Tail(s) = 1..(Len(s) - 1)
      /\ \A i \in 1..(Len(s) - 1) : Tail(s)[i] = s[i + 1]
  OBVIOUS
<1>2. 1 \in 1..Len(s) /\ \A i \in 1..(Len(s) - 1) : i + 1 \in 1..Len(s) /\ i + 1 # 1
  BY <1>1
<1>3. \A i \in 1..Len(s) : i = 1 \/ (i - 1 \in 1..(Len(s) - 1) /\ (i - 1) + 1 = i)
  BY <1>1
<1>4. ToSet(s) = {Head(s)} \cup ToSet(Tail(s))
  <2>1. \A i \in DOMAIN s : s[i] \in {Head(s)} \cup ToSet(Tail(s))
    <3> SUFFICES ASSUME NEW i \in 1..Len(s), i # 1 PROVE s[i] \in ToSet(Tail(s))
      BY <1>1
    <3>1. i - 1 \in DOMAIN Tail(s) /\ Tail(s)[i - 1] = s[i]
      BY <1>1, <1>3
    <3> QED
      BY <3>1 DEF ToSet
  <2>2. \A i \in DOMAIN Tail(s) : Tail(s)[i] \in ToSet(s)
    BY <1>1, <1>2 DEF ToSet
  <2>3. Head(s) \in ToSet(s)
    BY <1>1, <1>2 DEF ToSet
  <2> QED
    BY <2>1, <2>2, <2>3 DEF ToSet
<1>5. ASSUME IsInjective(s) PROVE IsInjective(Tail(s)) /\ Head(s) \notin ToSet(Tail(s))
  <2>1. \A x, y \in 1..Len(s) : s[x] = s[y] => x = y
    BY <1>1, <1>5 DEF IsInjective
  <2>2. ASSUME NEW i \in 1..(Len(s) - 1), NEW k \in 1..(Len(s) - 1), Tail(s)[i] = Tail(s)[k]
        PROVE  i = k
    <3>1. i + 1 = k + 1
      BY <1>1, <1>2, <2>1, <2>2
    <3> QED
      BY <3>1
  <2>3. \A i \in 1..(Len(s) - 1) : Tail(s)[i] # Head(s)
    BY <1>1, <1>2, <2>1
  <2> QED
    BY <1>1, <2>2, <2>3 DEF IsInjective, ToSet
<1> QED
  BY <1>4, <1>5

\* A post moves its events to the control plane or to the lost, and nowhere else
\* (post_batch).
LEMMA PostMoves ==
    ASSUME NEW E, NEW events, NEW taken \in BOOLEAN, E = ToSet(events),
           PostBatch(events, taken),
           E \cap (trStored \cup trLost) = {}, trStored \cap trLost = {}
    PROVE  /\ trStored' \cup trLost' = trStored \cup trLost \cup E
           /\ trStored' \cap trLost' = {}
BY DEF PostBatch

\* No exchange that was answered is posted twice or disappears, with any number
\* of exchanges under way (SendTrace, Receive, TickFlush, FinalFlush).
LEMMA EventsStep == TraceTypeOK /\ EventsApart /\ [TraceNext]_trVars => EventsApart'
<1> SUFFICES ASSUME TraceTypeOK, EventsApart, [TraceNext]_trVars PROVE EventsApart'
  OBVIOUS
<1> DEFINE Rel == {e \in Exchange : trAt[e] = "relayed"}
<1>a. /\ trChan \in Seq(Exchange) /\ trBatch \in Seq(Exchange) /\ trAt \in [Exchange -> At]
  BY DEF TraceTypeOK
<1>b. PICK C, B, D : C = ToSet(trChan) /\ B = ToSet(trBatch) /\ D = trStored \cup trLost
  OBVIOUS
<1>c. /\ IsInjective(trChan) /\ IsInjective(trBatch) /\ C \cap B = {}
      /\ (C \cup B) \cap D = {} /\ trStored \cap trLost = {} /\ Rel = C \cup B \cup D
  BY <1>b DEF EventsApart
<1>e. ToSet(<<>>) = {} /\ IsInjective(<<>>)
  BY DEF ToSet, IsInjective
<1> USE DEF trCaVars, trSeedVars, trEventVars
<1>1. CASE UNCHANGED <<trAt, trChan, trBatch, trStored, trLost>>
  BY <1>1 DEF EventsApart
<1>2. ASSUME NEW e \in Exchange,
             Forward(e) \/ Intercept(e) \/ GateDecides(e) \/ OriginAnswers(e)
      PROVE  EventsApart'
  <2>1. UNCHANGED <<trChan, trBatch, trStored, trLost>>
    BY <1>2 DEF Forward, Intercept, GateDecides, OriginAnswers
  <2>2. PICK at \in {"held", "upstream", "sending", "untraced"} :
          trAt' = [trAt EXCEPT ![e] = at] /\ trAt[e] # "relayed"
    BY <1>2 DEF Forward, Intercept, GateDecides, OriginAnswers, Move
  <2>3. Rel' = Rel
    BY <1>a, <2>2
  <2> QED
    BY <2>1, <2>3 DEF EventsApart
<1>3. ASSUME NEW e \in Exchange, SendTrace(e) PROVE EventsApart'
  <2>1. /\ trAt[e] = "sending" /\ trChan' = Append(trChan, e)
        /\ trAt' = [trAt EXCEPT ![e] = "relayed"] /\ UNCHANGED <<trBatch, trStored, trLost>>
    BY <1>3 DEF SendTrace, Move
  <2>2. Rel' = Rel \cup {e} /\ e \notin Rel
    BY <1>a, <2>1
  <2>3. ToSet(trChan') = C \cup {e} /\ IsInjective(trChan')
    BY <1>a, <1>b, <1>c, <2>1, <2>2, AppendMembers
  <2> QED
    BY <1>b, <1>c, <2>1, <2>2, <2>3 DEF EventsApart
<1>4. CASE Receive
  <2>1. trChan # <<>> /\ trChan' = Tail(trChan) /\ UNCHANGED trAt
    BY <1>4 DEF Receive
  <2>2. PICK h, T : h = Head(trChan) /\ T = ToSet(Tail(trChan))
    OBVIOUS
  <2>3. h \in Exchange /\ C = {h} \cup T /\ h \notin T /\ IsInjective(trChan') /\ ToSet(trChan') = T
    BY <1>a, <1>b, <1>c, <2>1, <2>2, TailMembers
  <2>4. PICK events : events = Append(trBatch, Head(trChan))
    OBVIOUS
  <2>5. ToSet(events) = B \cup {h} /\ IsInjective(events)
    BY <1>a, <1>b, <1>c, <2>2, <2>3, <2>4, AppendMembers
  <2>6. CASE (\E taken \in BOOLEAN : PostBatch(events, taken)) /\ trBatch' = <<>>
    <3>0. PICK taken \in BOOLEAN : PostBatch(events, taken)
      BY <2>6
    <3>1. /\ trStored' \cup trLost' = D \cup (B \cup {h}) /\ trStored' \cap trLost' = {}
      <4>1. (B \cup {h}) \cap (trStored \cup trLost) = {}
        BY <1>b, <1>c, <2>3
      <4> QED
        BY <1>b, <1>c, <2>5, <3>0, <4>1, PostMoves
    <3>2. ToSet(trBatch') = {} /\ IsInjective(trBatch')
      BY <1>e, <2>6
    <3>3. Rel' = T \cup {} \cup (trStored' \cup trLost')
      BY <1>c, <2>1, <2>3, <3>1
    <3>4. T \cap (trStored' \cup trLost') = {}
      BY <1>c, <2>3, <3>1
    <3> QED
      BY <2>3, <3>1, <3>2, <3>3, <3>4 DEF EventsApart
  <2>7. CASE trBatch' = events /\ UNCHANGED <<trStored, trLost>>
    <3>1. ToSet(trBatch') = B \cup {h} /\ IsInjective(trBatch')
      BY <2>5, <2>7
    <3>2. Rel' = Rel
      BY <2>1
    <3>3. D = trStored' \cup trLost' /\ trStored' \cap trLost' = {}
      BY <1>b, <1>c, <2>7
    <3> QED
      BY <1>c, <2>3, <3>1, <3>2, <3>3 DEF EventsApart
  <2> QED
    BY <1>4, <2>4, <2>6, <2>7 DEF Receive
<1>5. CASE TickFlush \/ FinalFlush
  <2>0. PICK taken \in BOOLEAN : PostBatch(trBatch, taken)
    BY <1>5 DEF TickFlush, FinalFlush
  <2>1. trBatch' = <<>> /\ UNCHANGED <<trAt, trChan>>
    BY <1>5 DEF TickFlush, FinalFlush
  <2>2. trStored' \cup trLost' = D \cup B /\ trStored' \cap trLost' = {}
    <3>1. B \cap (trStored \cup trLost) = {}
      BY <1>b, <1>c
    <3> QED
      BY <1>b, <1>c, <2>0, <3>1, PostMoves
  <2>3. ToSet(trBatch') = {} /\ IsInjective(trBatch')
    BY <1>e, <2>1
  <2>4. ToSet(trChan') = C /\ IsInjective(trChan') /\ Rel' = Rel
    BY <1>b, <1>c, <2>1
  <2>5. Rel' = C \cup {} \cup (trStored' \cup trLost') /\ C \cap (trStored' \cup trLost') = {}
    BY <1>c, <2>2, <2>4
  <2> QED
    BY <2>2, <2>3, <2>4, <2>5 DEF EventsApart
<1>6. CASE \/ UNCHANGED trVars \/ LoadCa \/ SaveCa \/ SessionAgain
           \/ TickSeed \/ CtrlC \/ LastSeed \/ CloseBrowser
  <2>1. UNCHANGED <<trAt, trChan, trBatch, trStored, trLost>>
    BY <1>6 DEF trVars, LoadCa, SaveCa, SessionAgain, TickSeed, CtrlC, LastSeed, CloseBrowser
  <2> QED
    BY <1>1, <2>1
<1> QED
  BY <1>2, <1>3, <1>4, <1>5, <1>6 DEF TraceNext, TraceSetup, TraceEnd

\* The two forms of the accounting agree.
LEMMA EventsApartSafe == TraceTypeOK /\ EventsApart => EventsAccounted
<1> SUFFICES ASSUME TraceTypeOK, EventsApart PROVE EventsAccounted
  OBVIOUS
<1>1. trChan \in Seq(Exchange) /\ trBatch \in Seq(Exchange)
  BY DEF TraceTypeOK
<1>2. /\ ToSet(trChan \o trBatch) = ToSet(trChan) \cup ToSet(trBatch)
      /\ IsInjective(trChan \o trBatch)
  BY <1>1, ConcatMembers DEF EventsApart
<1> QED
  BY <1>2 DEF EventsApart, EventsAccounted

-----------------------------------------------------------------------------
(* The node: NodeSpec *)

\* What holds whatever the constants are.
NodeInv ==
    /\ focus \in Focus
    /\ AgentInv /\ ScriptInv /\ InstallerInv
    /\ DatabaseInv /\ ContainerKnown /\ TraceInv /\ EventsApart

\* The part that runs keeps its invariant, and the others rest.
LEMMA NodeStepInv == NodeInv /\ [NodeNext]_nodeVars => NodeInv'
<1> SUFFICES ASSUME NodeInv, [NodeNext]_nodeVars PROVE NodeInv'
  OBVIOUS
<1>0. /\ focus \in Focus
      /\ AgentInv /\ ScriptInv /\ InstallerInv
      /\ DatabaseInv /\ ContainerKnown /\ TraceInv /\ EventsApart
  BY DEF NodeInv
<1>1. /\ UNCHANGED focus
      /\ [AgentNext]_agVars /\ [ScriptNext]_scVars /\ [ToolchainNext]_tcVars
      /\ [DatabaseNext]_dbVars /\ [TraceNext]_trVars
  BY DEF NodeNext, nodeVars
<1>2. AgentInv' /\ ScriptInv' /\ InstallerInv' /\ DatabaseInv' /\ ContainerKnown'
  BY <1>0, <1>1, AgentStepInv, ScriptStepInv, InstallerStepInv, DatabaseStepInv,
     ContainerStepKnown
<1>3. TraceInv' /\ EventsApart'
  BY <1>0, <1>1, TraceTypeStep, CaStep, EventsStep DEF TraceInv
<1> QED
  BY <1>0, <1>1, <1>2, <1>3 DEF NodeInv

\* The inductive invariant of the node holds from its start, for any number of
\* jobs, processes, exchanges and commands (start_daemon, execute_job, the
\* installer, ensure_up and run_proxy).
THEOREM NodeInvariant == NodeSpec => []NodeInv
<1>1. NodeInit => NodeInv
  BY AgentInitInv, ScriptInitInv, ToolchainInitInv, DatabaseInitInv, TraceInitInv
     DEF NodeInit, NodeInv
<1> QED
  BY <1>1, NodeStepInv, PTL DEF NodeSpec

\* Each part keeps its variables in their types: no id of docker, no authority, no
\* credential and no event beyond what was asked for (NodeTypeOK).
THEOREM NodeTypeCorrect == NodeSpec => []NodeTypeOK
<1>1. NodeInv => NodeTypeOK
  BY DEF NodeInv, NodeTypeOK, AgentInv, ScriptInv, InstallerInv, ToolchainInv, DatabaseInv,
     TraceInv
<1> QED
  BY <1>1, NodeInvariant, PTL

\* A node that left the service because it was evicted had been refused the full
\* number of times since its last success (the heartbeat of start_daemon), for
\* every threshold and every mix of answers.
THEOREM EvictionIsSustained == NodeSpec => []EvictedOnlySustained
<1>1. NodeInv => EvictedOnlySustained
  BY DEF NodeInv, AgentInv
<1> QED
  BY <1>1, NodeInvariant, PTL

\* A script that met no other script reads its own targets and publishes under its
\* own id, for any number of jobs and panics (the statics of the cfx runtime).
THEOREM JobsStayApart == NodeSpec => []JobsKeepApart
<1>1. NodeInv => JobsKeepApart
  BY ScriptInvSafe DEF NodeInv
<1> QED
  BY <1>1, NodeInvariant, PTL

\* The authority of a session is whole and of one piece, wherever an earlier setup
\* was killed and however often, although a key could not be written; once the write
\* of a certificate or the read of a saved file failed nothing is claimed, nor that
\* the certificate is within its thirty days (load_or_generate_ca, load_ca).
THEOREM AuthorityIsUsable == NodeSpec => []CaUsable
<1>1. NodeInv => CaUsable
  BY DEF NodeInv, TraceInv, CaPaired
<1> QED
  BY <1>1, NodeInvariant, PTL

\* Every exchange that was relayed is in exactly one place, for every capacity and
\* batch size (the channel, Batcher and post_batch of run_proxy).
THEOREM NoEventVanishes == NodeSpec => []EventsAccounted
<1>1. NodeInv => EventsAccounted
  BY EventsApartSafe DEF NodeInv, TraceInv
<1> QED
  BY <1>1, NodeInvariant, PTL

\* An update skips an engine only if it is there, whole and of the manifest's version
\* (the sidecar check of update), although any step fails, any operation is killed
\* and the manifest goes back, but for the note that was never written; for any
\* number of processes, until two operations run beside one another.
THEOREM SkippedUpdateIsRight == NodeSpec => []SkipIsRight
<1>1. NodeInv => SkipIsRight
  BY InstallerInvSafe DEF NodeInv
<1> QED
  BY <1>1, NodeInvariant, PTL

\* An install that answered well left the binary, its unit and the unit enabled,
\* whatever earlier operations of any process left half done (install_and_start).
THEOREM InstallComesBack == NodeSpec => []InstalledSurvivesReboot
<1>1. NodeInv => InstalledSurvivesReboot
  BY InstallerInvSafe DEF NodeInv
<1> QED
  BY <1>1, NodeInvariant, PTL

\* "Database ready" is true when it is said, through any sequence of commands of any
\* number of processes (ensure_up, up, down and the change of ports), if docker
\* obeys, nothing is killed and no two commands ran beside one another.
THEOREM ReadyMeansReady == NodeSpec => []DatabaseReady
<1>1. NodeInv => DatabaseReady
  BY DEF NodeInv, ContainerKnown, IdKept, DatabaseReady
<1> QED
  BY <1>1, NodeInvariant, PTL

=============================================================================
