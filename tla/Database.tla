----------------------------- MODULE Database ------------------------------
(***************************************************************************)
(* The Postgres container the engines share: config.toml remembers its     *)
(* port and the id docker gave it, and every command starts from what it   *)
(* loaded of that file.                                                    *)
(*                                                                         *)
(* Docker gives one container the name; a port of the host is only used by *)
(* it.  Commands come from the terminal (Actor), from the start of a node  *)
(* and from the dashboard.                                                 *)
(***************************************************************************)
EXTENDS Integers, FiniteSets

CONSTANTS
    DbActor,
    DbPort,       \* ports of the host
    MaxDbOps,     \* bound: commands begun, and so containers made
    MaxDbFault,   \* bound: calls of docker that fail
    MaxDbCrash    \* bound: processes killed in a command

ASSUME DatabaseAssumption ==
    /\ IsFiniteSet(DbActor) /\ DbPort # {}
    /\ MaxDbOps \in Nat /\ MaxDbFault \in Nat /\ MaxDbCrash \in Nat

VARIABLES
    dbConf,    \* config.toml: the port and the container's id, 0 if none
    dbCont,    \* the container with the name: its id (0 if there is none), port and state
    dbNext,    \* the next id docker gives
    dbOp, dbPc,
    dbMine,    \* per actor: the configuration it loaded
    dbGot,     \* per actor: the id of the container it made
    dbSaid,    \* per actor: what ensure_up answered, until the next command begins
    dbOps, dbFaults, dbCrashes,
    dbCrossed  \* history: a command began while another one ran

dbBoundVars == <<dbOps, dbFaults, dbCrashes>>
dbVars == <<dbConf, dbCont, dbNext, dbOp, dbPc, dbMine, dbGot, dbSaid, dbBoundVars,
            dbCrossed>>

DbId == 0..MaxDbOps
DbConf == [port : DbPort, id : DbId]
DbOp == {"ensure", "up", "down", "start", "stop", "ports"}
NoCont(port) == [id |-> 0, port |-> port, up |-> FALSE]

DatabaseTypeOK ==
    /\ dbConf \in DbConf
    /\ dbCont \in [id : DbId, port : DbPort, up : BOOLEAN]
    /\ dbNext \in 1..(MaxDbOps + 1)
    /\ dbOp \in [DbActor -> DbOp]
    /\ dbPc \in [DbActor -> {"idle", "save", "look", "restart", "again", "clear", "run",
                             "keep", "down", "forget", "stop"}]
    /\ dbMine \in [DbActor -> DbConf] /\ dbGot \in [DbActor -> DbId]
    /\ dbSaid \in [DbActor -> {"none", "ready", "error"}]
    /\ dbOps \in 0..MaxDbOps /\ dbFaults \in 0..MaxDbFault /\ dbCrashes \in 0..MaxDbCrash
    /\ dbCrossed \in BOOLEAN

DatabaseInit ==
    /\ \E port \in DbPort : dbConf = [port |-> port, id |-> 0] /\ dbCont = NoCont(port)
    /\ dbNext = 1
    /\ dbOp = [a \in DbActor |-> "ensure"] /\ dbPc = [a \in DbActor |-> "idle"]
    /\ dbMine = [a \in DbActor |-> dbConf] /\ dbGot = [a \in DbActor |-> 0]
    /\ dbSaid = [a \in DbActor |-> "none"]
    /\ dbOps = 0 /\ dbFaults = 0 /\ dbCrashes = 0 /\ dbCrossed = FALSE

-----------------------------------------------------------------------------
\* running: the port of the configuration accepts connections.
DbListening(port) == dbCont.up /\ dbCont.port = port
\* resolve_container: the saved id, or the name.
Resolves(conf) == dbCont.id # 0 /\ conf.id \in {0, dbCont.id}

DbGoto(a, pc) == dbPc' = [dbPc EXCEPT ![a] = pc] /\ UNCHANGED dbSaid
DbEnds(a, answer) ==
    /\ dbPc' = [dbPc EXCEPT ![a] = "idle"]
    /\ dbSaid' = [dbSaid EXCEPT ![a] = IF dbOp[a] = "ensure" THEN answer ELSE @]
DockerFails == dbFaults < MaxDbFault /\ dbFaults' = dbFaults + 1 /\ UNCHANGED <<dbOps, dbCrashes>>

FirstStep(op) ==
    CASE op = "ensure" -> "look" [] op = "up" -> "clear" [] op = "down" -> "down"
      [] op = "start" -> "restart" [] op = "stop" -> "stop" [] op = "ports" -> "save"

BeginDb(a, op) ==
    /\ dbPc[a] = "idle" /\ dbOps < MaxDbOps
    /\ dbOps' = dbOps + 1
    /\ dbOp' = [dbOp EXCEPT ![a] = op]
    /\ dbPc' = [dbPc EXCEPT ![a] = FirstStep(op)]
    /\ dbMine' = [dbMine EXCEPT ![a] = dbConf]
    /\ dbSaid' = [b \in DbActor |-> "none"]
    /\ dbCrossed' = (dbCrossed \/ \E b \in DbActor : dbPc[b] # "idle")
    /\ UNCHANGED <<dbConf, dbCont, dbNext, dbGot, dbFaults, dbCrashes>>

\* apply_ports_from_json and reconcile_ports: the whole file is written back with
\* the new port, and the container is made anew if the port moved.
SavePort(a) ==
    /\ dbPc[a] = "save"
    /\ \E port \in DbPort :
         IF port = dbMine[a].port
         THEN DbEnds(a, "none") /\ UNCHANGED <<dbConf, dbMine>>
         ELSE /\ dbConf' = [dbMine[a] EXCEPT !.port = port]
              /\ dbMine' = [dbMine EXCEPT ![a] = dbConf']
              /\ DbGoto(a, "clear")
    /\ UNCHANGED <<dbCont, dbNext, dbOp, dbGot, dbBoundVars, dbCrossed>>

\* ensure_up
LookRunning(a) ==
    /\ dbPc[a] = "look"
    /\ IF DbListening(dbMine[a].port) THEN DbEnds(a, "ready") ELSE DbGoto(a, "restart")
    /\ UNCHANGED <<dbConf, dbCont, dbNext, dbOp, dbMine, dbGot, dbBoundVars, dbCrossed>>

\* docker start: a failure is printed, and answered with Ok.
StartContainer(a) ==
    /\ dbPc[a] = "restart"
    /\ \/ /\ dbCont' = [dbCont EXCEPT !.up = @ \/ Resolves(dbMine[a])]
          /\ UNCHANGED dbBoundVars
       \/ DockerFails /\ UNCHANGED dbCont
    /\ IF dbOp[a] = "ensure" THEN DbGoto(a, "again") ELSE DbEnds(a, "none")
    /\ UNCHANGED <<dbConf, dbNext, dbOp, dbMine, dbGot, dbCrossed>>

LookAgain(a) ==
    /\ dbPc[a] = "again"
    /\ IF DbListening(dbMine[a].port) THEN DbEnds(a, "ready") ELSE DbGoto(a, "clear")
    /\ UNCHANGED <<dbConf, dbCont, dbNext, dbOp, dbMine, dbGot, dbBoundVars, dbCrossed>>

\* up: the old container is removed, by its id if one is saved and else by the
\* name; the answer of docker is not looked at.
ClearContainer(a) ==
    /\ dbPc[a] = "clear"
    /\ \/ /\ dbCont' = IF Resolves(dbMine[a]) THEN NoCont(dbCont.port) ELSE dbCont
          /\ UNCHANGED dbBoundVars
       \/ DockerFails /\ UNCHANGED dbCont
    /\ DbGoto(a, "run")
    /\ UNCHANGED <<dbConf, dbNext, dbOp, dbMine, dbGot, dbCrossed>>

\* docker run: refused while a container has the name; that is printed, and
\* answered with Ok.  A run that fails may leave the container it made, its id
\* kept nowhere.
RunContainer(a) ==
    /\ dbPc[a] = "run"
    /\ \/ /\ dbCont.id = 0
          /\ dbCont' = [id |-> dbNext, port |-> dbMine[a].port, up |-> TRUE]
          /\ dbGot' = [dbGot EXCEPT ![a] = dbNext]
          /\ dbNext' = dbNext + 1
          /\ DbGoto(a, "keep")
          /\ UNCHANGED dbBoundVars
       \/ /\ dbCont.id = 0 /\ DockerFails
          /\ dbCont' = [id |-> dbNext, port |-> dbMine[a].port, up |-> FALSE]
          /\ dbNext' = dbNext + 1
          /\ DbEnds(a, "ready")
          /\ UNCHANGED dbGot
       \/ /\ \/ DockerFails
             \/ dbCont.id # 0 /\ UNCHANGED dbBoundVars
          /\ DbEnds(a, "ready")
          /\ UNCHANGED <<dbCont, dbGot, dbNext>>
    /\ UNCHANGED <<dbConf, dbOp, dbMine, dbCrossed>>

\* Mutant: the id is written only if there was none.
KeepFirstId(a) ==
    /\ dbPc[a] = "keep"
    /\ dbConf' = [dbConf EXCEPT !.id = IF @ = 0 THEN dbGot[a] ELSE @]
    /\ DbEnds(a, "ready")
    /\ UNCHANGED <<dbCont, dbNext, dbOp, dbMine, dbGot, dbBoundVars, dbCrossed>>

\* The file is loaded again, and written with the new id.
KeepId(a) ==
    /\ dbPc[a] = "keep"
    /\ dbConf' = [dbConf EXCEPT !.id = dbGot[a]]
    /\ DbEnds(a, "ready")
    /\ UNCHANGED <<dbCont, dbNext, dbOp, dbMine, dbGot, dbBoundVars, dbCrossed>>

DownContainer(a) ==
    /\ dbPc[a] = "down"
    /\ \/ /\ Resolves(dbMine[a])
          /\ dbCont' = NoCont(dbCont.port)
          /\ DbGoto(a, "forget") /\ UNCHANGED dbBoundVars
       \/ /\ \/ DockerFails
             \/ ~ Resolves(dbMine[a]) /\ UNCHANGED dbBoundVars
          /\ DbEnds(a, "none") /\ UNCHANGED dbCont
    /\ UNCHANGED <<dbConf, dbNext, dbOp, dbMine, dbGot, dbCrossed>>

ForgetId(a) ==
    /\ dbPc[a] = "forget"
    /\ dbConf' = [dbConf EXCEPT !.id = 0]
    /\ DbEnds(a, "none")
    /\ UNCHANGED <<dbCont, dbNext, dbOp, dbMine, dbGot, dbBoundVars, dbCrossed>>

StopContainer(a) ==
    /\ dbPc[a] = "stop"
    /\ \/ /\ dbCont' = [dbCont EXCEPT !.up = @ /\ ~ Resolves(dbMine[a])]
          /\ UNCHANGED dbBoundVars
       \/ DockerFails /\ UNCHANGED dbCont
    /\ DbEnds(a, "none")
    /\ UNCHANGED <<dbConf, dbNext, dbOp, dbMine, dbGot, dbCrossed>>

\* The process of a command is killed.
KillDb(a) ==
    /\ dbPc[a] # "idle" /\ dbCrashes < MaxDbCrash
    /\ dbCrashes' = dbCrashes + 1
    /\ DbGoto(a, "idle")
    /\ UNCHANGED <<dbConf, dbCont, dbNext, dbOp, dbMine, dbGot, dbOps, dbFaults, dbCrossed>>

\* The host reboots, or the container stops, between commands.
ContainerStops ==
    /\ dbCont.up /\ \A a \in DbActor : dbPc[a] = "idle"
    /\ dbCont' = [dbCont EXCEPT !.up = FALSE]
    /\ dbSaid' = [a \in DbActor |-> "none"]
    /\ UNCHANGED <<dbConf, dbNext, dbOp, dbPc, dbMine, dbGot, dbBoundVars, dbCrossed>>

DbStep(a) ==
    \/ SavePort(a) \/ LookRunning(a) \/ StartContainer(a) \/ LookAgain(a)
    \/ ClearContainer(a) \/ RunContainer(a) \/ KeepId(a)
    \/ DownContainer(a) \/ ForgetId(a) \/ StopContainer(a)

DatabaseNext ==
    \/ \E a \in DbActor : DbStep(a) \/ KillDb(a) \/ \E op \in DbOp : BeginDb(a, op)
    \/ ContainerStops

DatabaseSpec == DatabaseInit /\ [][DatabaseNext]_dbVars

-----------------------------------------------------------------------------
(* Properties *)

DbReady(a) ==
    dbPc[a] = "idle" /\ dbOp[a] = "ensure" /\ dbSaid[a] = "ready" => DbListening(dbMine[a].port)

\* "Database ready" is only said of a database that listens on the port of the
\* configuration, through any sequence of commands of any process that move, stop,
\* remove and make it, as long as docker does what it is asked, no process is
\* killed halfway, and no command ran beside another (ensure_up).
DatabaseReady ==
    dbFaults = 0 /\ dbCrashes = 0 /\ ~ dbCrossed => \A a \in DbActor : DbReady(a)
=============================================================================
