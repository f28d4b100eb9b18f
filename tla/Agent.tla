------------------------------- MODULE Agent -------------------------------
(***************************************************************************)
(* The session of a node daemon with its control plane: authorisation at   *)
(* the start, the connection to the broker and its credential, heartbeats  *)
(* and eviction, the refresh every few days, the commands, and the ports   *)
(* of the local services that the dashboard sets.                          *)
(*                                                                         *)
(* Commands are handled one at a time in the loop that also sends the      *)
(* heartbeats, and none of its requests has a timeout: one that is never   *)
(* answered holds the daemon for good, as a shell command that does not    *)
(* return does.  What commands do to extensions is in Toolchain, what jobs *)
(* do in Script; processes and pid files are in Supervisor.                *)
(***************************************************************************)
EXTENDS Integers, Sequences

CONSTANTS
    EvictAfter,   \* EVICT_AFTER_401
    BindTries,    \* attempts to bind the work stream
    JwtDays,      \* life of a broker credential
    RefreshDays,  \* period of the refresh
    RemoteExec,   \* remote_exec of the node's config
    MaxEdit,      \* bound: edits of the ports
    MaxCommand,   \* bound: other commands sent
    MaxSession    \* bound: starts of the daemon

ASSUME AgentAssumption ==
    /\ EvictAfter \in Nat \ {0} /\ BindTries \in Nat \ {0}
    /\ JwtDays \in Nat \ {0} /\ RefreshDays \in Nat \ {0}
    /\ RemoteExec \in BOOLEAN
    /\ MaxEdit \in Nat /\ MaxCommand \in Nat /\ MaxSession \in Nat \ {0}

VARIABLES
    agPhase,    \* where run_daemon stands
    agExit,     \* why it ended
    agKey,      \* the api key at the control plane: "valid" or "deleted"
    ag401,      \* consecutive_401
    agSince,    \* history: 401 answers since the last success
    agJwt,      \* age of the credential the connection uses, in days
    agTimer,    \* days since the last refresh
    agLink,     \* the connection to the broker is up
    agQueue,    \* commands received and not yet handled
    agPull,     \* the work stream: "trying", "bound" or "push-only"
    agTries,    \* attempts to bind it
    agWant,     \* ports: what the dashboard says,
    agConf,     \*   what config.toml says,
    agRun,      \*   what the services listen on
    agHung,     \* a shell command that does not return is running, or a request
                \*   that is never answered
    agSent,     \* commands sent
    agSessions

agPortVars == <<agWant, agConf, agRun>>
agPullVars == <<agPull, agTries>>
agCountVars == <<ag401, agSince>>
agVars == <<agPhase, agExit, agKey, agCountVars, agJwt, agTimer, agLink, agQueue,
            agPullVars, agPortVars, agHung, agSent, agSessions>>

Ports == 0..MaxEdit
\* A command: its kind, and the ports of one that sets them.
Command == [kind : {"terminate", "shell", "update", "unknown", "ports"}, ports : Ports]
SetPorts(v) == [kind |-> "ports", ports |-> v]
Subscribed == agPhase \in {"subscribed", "serve", "busy"}

AgentTypeOK ==
    /\ agPhase \in {"down", "auth", "connect", "subscribed", "serve", "busy"}
    /\ agExit \in {"none", "deleted", "refused", "connect", "revoked", "evicted",
                   "stopped", "updated"}
    /\ agKey \in {"valid", "deleted"}
    /\ ag401 \in 0..EvictAfter /\ agSince \in 0..EvictAfter
    /\ agJwt \in 0..JwtDays /\ agTimer \in 0..RefreshDays
    /\ agLink \in BOOLEAN /\ agHung \in BOOLEAN
    /\ agQueue \in Seq(Command)
    /\ agPull \in {"trying", "bound", "push-only"} /\ agTries \in 0..BindTries
    /\ agWant \in Ports /\ agConf \in Ports /\ agRun \in Ports
    /\ agSent \in 0..MaxCommand /\ agSessions \in 0..MaxSession

AgentInit ==
    /\ agPhase = "down" /\ agExit = "none"
    /\ agKey = "valid"
    /\ ag401 = 0 /\ agSince = 0
    /\ agJwt = 0 /\ agTimer = 0
    /\ agLink = FALSE /\ agHung = FALSE
    /\ agQueue = <<>>
    /\ agPull = "trying" /\ agTries = 0
    /\ agWant = 0 /\ agConf = 0 /\ agRun = 0
    /\ agSent = 0 /\ agSessions = 0

-----------------------------------------------------------------------------
(* The start of the daemon *)

\* The process ends: what it kept in memory is gone.
Ends(reason) ==
    /\ agPhase' = "down" /\ agExit' = reason
    /\ agLink' = FALSE /\ agHung' = FALSE /\ agQueue' = <<>>

StartDaemon ==
    /\ agPhase = "down" /\ agSessions < MaxSession
    /\ agSessions' = agSessions + 1
    /\ agPhase' = "auth" /\ agExit' = "none"
    /\ ag401' = 0 /\ agSince' = 0
    /\ agTimer' = 0
    /\ agPull' = "trying" /\ agTries' = 0
    /\ UNCHANGED <<agKey, agJwt, agLink, agQueue, agPortVars, agHung, agSent>>

\* reconcile_ports: the config is written if a port moved, then its services are
\* moved; a step of that which fails is ignored.  The config can be written.
Reconcile(ports) ==
    IF agConf = ports
    THEN UNCHANGED <<agConf, agRun>>
    ELSE agConf' = ports /\ agRun' \in {ports, agRun}

\* refresh_node_state: the answer has the ports of the moment and a credential.
Authorize ==
    /\ agPhase = "auth" /\ ~ agHung /\ agKey = "valid"
    /\ agPhase' = "connect"
    /\ Reconcile(agWant)
    /\ agJwt' = 0
    /\ UNCHANGED <<agExit, agKey, agCountVars, agTimer, agLink, agQueue, agPullVars,
                   agWant, agHung, agSent, agSessions>>

\* A 401 ends the start at once, even one of a control plane that restarts; so
\* does an answer that another daemon holds the key, or an outage of ten minutes.
AuthorizeFails ==
    /\ agPhase = "auth" /\ ~ agHung
    /\ \E reason \in {"deleted", "refused"} : Ends(reason)
    /\ UNCHANGED <<agKey, agCountVars, agJwt, agTimer, agPullVars, agPortVars, agSent,
                   agSessions>>

\* The broker is connected and the job subject subscribed: commands that were
\* sent before this moment are lost.
ConnectBroker ==
    /\ agPhase = "connect"
    /\ agPhase' = "subscribed"
    /\ agLink' = TRUE
    /\ UNCHANGED <<agExit, agKey, agCountVars, agJwt, agTimer, agQueue, agPullVars,
                   agPortVars, agHung, agSent, agSessions>>

ConnectBrokerFails ==
    /\ agPhase = "connect"
    /\ Ends("connect")
    /\ UNCHANGED <<agKey, agCountVars, agJwt, agTimer, agPullVars, agPortVars, agSent,
                   agSessions>>

\* The first status: only a 401 keeps the node from going online.
Validate ==
    /\ agPhase = "subscribed" /\ ~ agHung
    /\ \/ agPhase' = "serve" /\ UNCHANGED <<agExit, agLink, agHung, agQueue>>
       \/ Ends("revoked")
    /\ UNCHANGED <<agKey, agCountVars, agJwt, agTimer, agPullVars, agPortVars, agSent,
                   agSessions>>

\* The task that binds the work stream, beside the loop.
BindWork ==
    /\ agPhase \in {"serve", "busy"} /\ agPull = "trying" /\ agLink
    /\ agPull' = "bound"
    /\ UNCHANGED <<agPhase, agExit, agKey, agCountVars, agJwt, agTimer, agLink, agQueue,
                   agTries, agPortVars, agHung, agSent, agSessions>>

\* It gives up after its attempts, and at once if the consumer cannot be made.
BindWorkFails ==
    /\ agPhase \in {"serve", "busy"} /\ agPull = "trying"
    /\ agTries' = agTries + 1
    /\ agPull' \in (IF agTries' < BindTries THEN {"trying"} ELSE {}) \cup {"push-only"}
    /\ UNCHANGED <<agPhase, agExit, agKey, agCountVars, agJwt, agTimer, agLink, agQueue,
                   agPortVars, agHung, agSent, agSessions>>

-----------------------------------------------------------------------------
(* The loop *)

AtMost(n) == IF n < EvictAfter THEN n ELSE EvictAfter

\* Mutant: a success does not reset the counter.
HeartbeatOkKeeps ==
    /\ agPhase = "serve" /\ agKey = "valid"
    /\ agSince' = 0
    /\ UNCHANGED <<agPhase, agExit, agKey, ag401, agJwt, agTimer, agLink, agQueue,
                   agPullVars, agPortVars, agHung, agSent, agSessions>>

HeartbeatOk ==
    /\ agPhase = "serve" /\ agKey = "valid"
    /\ ag401' = 0 /\ agSince' = 0
    /\ UNCHANGED <<agPhase, agExit, agKey, agJwt, agTimer, agLink, agQueue, agPullVars,
                   agPortVars, agHung, agSent, agSessions>>

\* Mutant: the threshold is passed before it counts.
HeartbeatRefusedLate ==
    /\ agPhase = "serve"
    /\ ag401' = ag401 + 1
    /\ agSince' = AtMost(agSince + 1)
    /\ IF ag401' > EvictAfter THEN Ends("evicted")
       ELSE UNCHANGED <<agPhase, agExit, agLink, agHung, agQueue>>
    /\ UNCHANGED <<agKey, agJwt, agTimer, agPullVars, agPortVars, agSent, agSessions>>

\* A 401, of a key that is gone or of a control plane that restarts.
HeartbeatRefused ==
    /\ agPhase = "serve"
    /\ ag401' = ag401 + 1
    /\ agSince' = AtMost(agSince + 1)
    /\ IF ag401' >= EvictAfter THEN Ends("evicted")
       ELSE UNCHANGED <<agPhase, agExit, agLink, agHung, agQueue>>
    /\ UNCHANGED <<agKey, agJwt, agTimer, agPullVars, agPortVars, agSent, agSessions>>

\* Any other answer, or none: the counter stays as it is.
HeartbeatFails ==
    /\ agPhase = "serve"
    /\ UNCHANGED <<agPhase, agExit, agKey, ag401, agSince, agJwt, agTimer, agLink, agQueue,
                   agPullVars, agPortVars, agHung, agSent, agSessions>>

RefreshDue == agPhase = "serve" /\ agTimer = RefreshDays

\* Mutant: the refresh is about credentials only.
RefreshOkNoPorts ==
    /\ RefreshDue /\ agKey = "valid"
    /\ agTimer' = 0
    /\ UNCHANGED <<agPhase, agExit, agKey, agCountVars, agJwt, agLink, agQueue, agPullVars,
                   agPortVars, agHung, agSent, agSessions>>

\* The refresh saves the new credential and reconciles the ports; the connection
\* goes on with the old credential.
RefreshOk ==
    /\ RefreshDue /\ agKey = "valid"
    /\ agTimer' = 0
    /\ Reconcile(agWant)
    /\ UNCHANGED <<agPhase, agExit, agKey, agCountVars, agJwt, agLink, agQueue, agPullVars,
                   agWant, agHung, agSent, agSessions>>

\* It fails, with a 401 too: a warning.
RefreshFails ==
    /\ RefreshDue
    /\ agTimer' = 0
    /\ UNCHANGED <<agPhase, agExit, agKey, agCountVars, agJwt, agLink, agQueue, agPullVars,
                   agPortVars, agHung, agSent, agSessions>>

\* The authorisation or the first status of the start, a heartbeat, a refresh or
\* the request of a repeater command is never answered.
RequestHangs ==
    /\ agPhase \in {"auth", "subscribed", "serve"} /\ ~ agHung
    /\ agHung' = TRUE
    /\ agPhase' = IF agPhase = "serve" THEN "busy" ELSE agPhase
    /\ UNCHANGED <<agExit, agKey, agCountVars, agJwt, agTimer, agLink, agQueue, agPullVars,
                   agPortVars, agSent, agSessions>>

\* A signal: it kills a daemon that starts, and is taken at the next turn of the
\* loop of one that serves.
SignalStops ==
    /\ agPhase \in {"auth", "connect", "subscribed", "serve"}
    /\ Ends("stopped")
    /\ UNCHANGED <<agKey, agCountVars, agJwt, agTimer, agPullVars, agPortVars, agSent,
                   agSessions>>

\* The next command.  A shell command keeps the loop until it returns, if it may
\* run at all; an update that installed something ends the process.
TakeCommand ==
    LET c == Head(agQueue) IN
    /\ agPhase = "serve" /\ agQueue # <<>>
    /\ CASE c.kind = "ports" ->
              /\ Reconcile(c.ports)
              /\ agQueue' = Tail(agQueue)
              /\ UNCHANGED <<agPhase, agExit, agLink, agHung>>
         [] c.kind = "shell" /\ RemoteExec ->
              /\ agPhase' = "busy"
              /\ agHung' \in BOOLEAN
              /\ agQueue' = Tail(agQueue)
              /\ UNCHANGED <<agExit, agLink, agConf, agRun>>
         [] c.kind = "terminate" -> Ends("stopped") /\ UNCHANGED <<agConf, agRun>>
         [] OTHER ->
              /\ UNCHANGED <<agConf, agRun>>
              /\ \/ c.kind = "update" /\ Ends("updated")
                 \/ /\ agQueue' = Tail(agQueue)
                    /\ UNCHANGED <<agPhase, agExit, agLink, agHung>>
    /\ UNCHANGED <<agKey, agCountVars, agJwt, agTimer, agPullVars, agWant, agSent,
                   agSessions>>

ShellReturns ==
    /\ agPhase = "busy" /\ ~ agHung
    /\ agPhase' = "serve"
    /\ UNCHANGED <<agExit, agKey, agCountVars, agJwt, agTimer, agLink, agQueue, agPullVars,
                   agPortVars, agHung, agSent, agSessions>>

-----------------------------------------------------------------------------
(* Control plane, broker, time *)

\* A command reaches the daemon only if it is subscribed and connected.
Publish(c) ==
    agQueue' = IF Subscribed /\ agLink THEN Append(agQueue, c) ELSE agQueue

SendCommand(kind) ==
    /\ agSent < MaxCommand
    /\ agSent' = agSent + 1
    /\ Publish([kind |-> kind, ports |-> 0])
    /\ UNCHANGED <<agPhase, agExit, agKey, agCountVars, agJwt, agTimer, agLink, agPullVars,
                   agPortVars, agHung, agSessions>>

\* The operator sets the ports in the dashboard.
EditPorts ==
    /\ agWant < MaxEdit
    /\ agWant' = agWant + 1
    /\ Publish(SetPorts(agWant + 1))
    /\ UNCHANGED <<agPhase, agExit, agKey, agCountVars, agJwt, agTimer, agLink, agPullVars,
                   agConf, agRun, agHung, agSent, agSessions>>

\* The node is deleted in the dashboard.
DeleteKey ==
    /\ agKey = "valid"
    /\ agKey' = "deleted"
    /\ UNCHANGED <<agPhase, agExit, agCountVars, agJwt, agTimer, agLink, agQueue,
                   agPullVars, agPortVars, agHung, agSent, agSessions>>

\* The connection is lost, and comes back while its credential is valid.
LinkChanges ==
    /\ Subscribed
    /\ agLink' = ~ agLink
    /\ agLink' => agJwt < JwtDays
    /\ UNCHANGED <<agPhase, agExit, agKey, agCountVars, agJwt, agTimer, agQueue, agPullVars,
                   agPortVars, agHung, agSent, agSessions>>

\* A day passes.  The broker closes a connection whose credential has expired.
\* A refresh that is due is made first, unless the loop is busy.
Day ==
    /\ Subscribed
    /\ ~ RefreshDue
    /\ agTimer' = IF agTimer < RefreshDays THEN agTimer + 1 ELSE agTimer
    /\ agJwt' = IF agJwt < JwtDays THEN agJwt + 1 ELSE agJwt
    /\ agLink' = (agLink /\ agJwt' < JwtDays)
    /\ UNCHANGED <<agPhase, agExit, agKey, agCountVars, agQueue, agPullVars, agPortVars,
                   agHung, agSent, agSessions>>

-----------------------------------------------------------------------------
AgentStep ==
    \/ Authorize \/ ConnectBroker \/ Validate \/ TakeCommand \/ ShellReturns
    \/ RefreshOk \/ RefreshFails

AgentNext ==
    \/ AgentStep
    \/ StartDaemon \/ AuthorizeFails \/ ConnectBrokerFails \/ BindWork \/ BindWorkFails
    \/ HeartbeatOk \/ HeartbeatRefused \/ HeartbeatFails \/ RequestHangs \/ SignalStops
    \/ EditPorts \/ DeleteKey \/ LinkChanges \/ Day
    \/ \E kind \in {"terminate", "shell", "update", "unknown"} : SendCommand(kind)

AgentSpec == AgentInit /\ [][AgentNext]_agVars

-----------------------------------------------------------------------------
(* Properties *)

\* Only a sustained refusal evicts: since the last success the control plane
\* answered 401 the full number of times, whatever else came between.
EvictedOnlySustained == agExit = "evicted" => agSince >= EvictAfter

\* The ports of the dashboard reach config.toml in the end, although commands are
\* lost while the node is not connected, or arrive when they are out of date.
\* Not of a node that is down, deleted, or stuck in a shell command or in a
\* request that is never answered.
PortsSettled ==
    agConf = agWant \/ agPhase = "down" \/ agKey = "deleted" \/ agHung

\* A node that was deleted stops, unless it is stuck in the same way.
DeletedStops == agPhase = "down" \/ agHung
=============================================================================
