------------------------------- MODULE MCNode -----------------------------
(***************************************************************************)
(* The node around its operations: the session with the control plane, the *)
(* script jobs, the installer and its services, the database container,    *)
(* and the trace proxy.  They share no state the models keep, so one run   *)
(* checks them all: focus picks the one that runs, the others stay at      *)
(* their start.                                                            *)
(***************************************************************************)
EXTENDS Agent, Script, Toolchain, Database, Trace

CONSTANT p

VARIABLE focus

nodeVars == <<focus, agVars, scVars, tcVars, dbVars, trVars>>

Focus == {"agent", "script", "toolchain", "database", "trace"}

NodeInit ==
    /\ focus \in Focus
    /\ AgentInit /\ ScriptInit /\ ToolchainInit /\ DatabaseInit /\ TraceInit
    /\ focus # "database" => dbConf.port = p

NodeNext ==
    /\ UNCHANGED focus
    /\ \/ focus = "agent" /\ AgentNext /\ UNCHANGED <<scVars, tcVars, dbVars, trVars>>
       \/ focus = "script" /\ ScriptNext /\ UNCHANGED <<agVars, tcVars, dbVars, trVars>>
       \/ focus = "toolchain" /\ ToolchainNext /\ UNCHANGED <<agVars, scVars, dbVars, trVars>>
       \/ focus = "database" /\ DatabaseNext /\ UNCHANGED <<agVars, scVars, tcVars, trVars>>
       \/ focus = "trace" /\ TraceNext /\ UNCHANGED <<agVars, scVars, tcVars, dbVars>>

\* The select loop of the daemon and the runtime's threads are scheduled.  A
\* refresh that is tried again and again succeeds in the end, and the control
\* plane goes on refusing the heartbeats of a deleted node.  The tasks and the
\* timer of the proxy are scheduled; its posts have no timeout, and one that is
\* never answered disables what its loop would do next.
NodeFair ==
    /\ WF_agVars(focus = "agent" /\ AgentStep)
    /\ WF_agVars(focus = "agent" /\ Day)
    /\ WF_agVars(focus = "agent" /\ AuthorizeFails)
    /\ SF_agVars(focus = "agent" /\ RefreshOk)
    /\ SF_agVars(focus = "agent" /\ HeartbeatRefused /\ agKey = "deleted")
    /\ \A j \in Job : /\ WF_scVars(focus = "script" /\ ThreadStep(j))
                      /\ WF_scVars(focus = "script" /\ DrainStep(j))
    /\ WF_trVars(focus = "trace" /\ (TraceSetup \/ TraceEnd))
    /\ WF_trVars(focus = "trace" /\ Receive)
    /\ WF_trVars(focus = "trace" /\ TickFlush)
    /\ WF_trVars(focus = "trace" /\ TickSeed)

NodeSpec == NodeInit /\ [][NodeNext]_nodeVars /\ NodeFair

-----------------------------------------------------------------------------
\* Each part keeps its variables in their types.
NodeTypeOK ==
    /\ focus \in Focus
    /\ AgentTypeOK /\ ScriptTypeOK /\ ToolchainTypeOK /\ DatabaseTypeOK /\ TraceTypeOK

\* The control plane has the last word over a node: ports set in the dashboard
\* reach config.toml although set_ports commands are lost or late
\* (refresh_node_state), and a deleted node stops (the heartbeat of start_daemon);
\* but for one that a request without an answer, or a shell command, holds.
NodeFollowsDashboard == <>[](PortsSettled /\ (agKey = "deleted" => DeletedStops))

\* A script that returned is over in the end (execute_job joins both halves).
ScriptsFinish == []<>(\A j \in Job : scPc[j] = "returned" => JobFinishes(j))

\* While the session goes on, what was captured leaves the machine, by a full
\* batch or by the timer, and so do the credentials the traffic showed, although
\* posts are refused and answers lost; but for a post that is never answered,
\* after which the loop does nothing any more (the loop of run_proxy).
TraceDelivers == []<>(trPhase = "run" /\ ~ trHung => AllFlushed /\ trSeeded = trAuth)
=============================================================================
