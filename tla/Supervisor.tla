----------------------------- MODULE Supervisor -----------------------------
(***************************************************************************)
(* The supervisor of a host (run_boot) and the life of the node daemons it *)
(* starts (run_daemon): the nodes.d registry, the pid lock, signals, the   *)
(* reaping of children, updates, and the operator's commands that run      *)
(* beside them.                                                            *)
(*                                                                         *)
(* A process is <<id, k>>, the k-th daemon started for node id; process    *)
(* ids are not reused.                                                     *)
(***************************************************************************)
EXTENDS Integers, FiniteSets

CONSTANTS
    Id,        \* node ids
    NoProc,    \* no process
    MaxProc,   \* bound: daemons ever started for one node
    MaxEdit,   \* bound: commands that change nodes.d
    Manual,    \* TRUE: the operator also starts daemons by hand, with --force
    MayDie     \* TRUE: a serving daemon may exit on its own

ASSUME SupervisorAssumption ==
    /\ MaxProc \in Nat \ {0}
    /\ MaxEdit \in Nat
    /\ Manual \in BOOLEAN /\ MayDie \in BOOLEAN
    /\ NoProc \notin Id \X (1..MaxProc)

Proc == Id \X (1..MaxProc)

VARIABLES
    cfg,       \* ids with a nodes.d/<id>.toml
    torn,      \* ids whose file write_secret_file truncated and did not write
    initing,   \* ids whose file `node init` is about to write
    wanted,    \* history: ids the operator wants registered
    pidfile,   \* nodes.d/<id>.pid
    st,        \* state of each process
    term,      \* processes with a SIGTERM pending
    byHand,    \* processes the operator started
    sup,       \* the supervisor: "down", "booting" (children started, no signal
               \* handler yet), "up", "reaped" (mid-tick), "stopping"
    children,  \* run_boot's children: the tracked process of each id
    dead,      \* run_boot's dead: ids held back from a respawn
    dropped,   \* history: children de-registered by a rescan
    adopted,   \* history: daemons whose supervisor ended before them
    updated,   \* history: ids whose daemon left for an update, not back yet
    edits

reg  == <<cfg, torn, initing, wanted>>
hist == <<dropped, adopted, updated, edits>>
vars == <<reg, pidfile, st, term, byHand, sup, children, dead, hist>>

\* boot: started; wait: the 800 ms after a SIGTERM to the previous holder;
\* lock: about to write the pid file; locked: it is written; auth: config read,
\* asking the control plane; saving: the config truncated, not written;
\* connect: credentials persisted; serving: in the select loop; rewriting: in
\* it, the config truncated, not written; exiting: out of it, drop guards still to run; exited: still in
\* /proc, not reaped; gone: reaped.
Starting == {"boot", "wait", "lock", "locked", "auth", "saving", "connect"}
Alive    == Starting \cup {"serving", "rewriting", "exiting"}
State    == Alive \cup {"unused", "exited", "gone"}

Running(p) == st[p] \in Alive
InProcFs(p) == st[p] \in Alive \cup {"exited"}
SupUp == sup \in {"up", "reaped"}

TypeOK ==
    /\ torn \subseteq Id /\ initing \subseteq Id
    /\ cfg \subseteq Id /\ wanted \subseteq Id /\ dead \subseteq Id
    /\ pidfile \in [Id -> Proc \cup {NoProc}]
    /\ st \in [Proc -> State]
    /\ term \subseteq Proc /\ byHand \subseteq Proc
    /\ sup \in {"down", "booting", "up", "reaped", "stopping"}
    /\ children \in [Id -> Proc \cup {NoProc}]
    /\ dropped \subseteq Proc /\ adopted \subseteq Proc /\ updated \subseteq Id
    /\ edits \in 0..MaxEdit

Init ==
    /\ cfg \in SUBSET Id /\ wanted = cfg
    /\ torn = {} /\ initing = {}
    /\ pidfile = [i \in Id |-> NoProc]
    /\ st = [p \in Proc |-> "unused"]
    /\ term = {} /\ byHand = {}
    /\ sup = "down"
    /\ children = [i \in Id |-> NoProc]
    /\ dead = {}
    /\ dropped = {} /\ adopted = {} /\ updated = {}
    /\ edits = 0

Tracked == {i \in Id : children[i] # NoProc}
Unused(i) == {k \in 1..MaxProc : st[<<i, k>>] = "unused"}
CanSpawn(i) == Unused(i) # {}
NextProc(i) == <<i, CHOOSE k \in Unused(i) : \A l \in Unused(i) : k <= l>>

-----------------------------------------------------------------------------
(* run_boot *)

\* Start a daemon for every id in S and track it; base is tracked otherwise.
Spawn(S, base) ==
    /\ st' = [p \in Proc |-> IF p[1] \in S /\ p = NextProc(p[1])
                             THEN "boot" ELSE st[p]]
    /\ children' = [i \in Id |-> IF i \in S THEN NextProc(i) ELSE base[i]]

\* `supervise`: with no registered node, or when no daemon could be started,
\* it gives up at once.
Boot ==
    /\ sup = "down"
    /\ \E S \in SUBSET cfg :
        /\ S # {} /\ \A i \in S : CanSpawn(i)
        /\ Spawn(S, [i \in Id |-> NoProc])
    /\ dead' = {}
    /\ sup' = "booting"
    /\ UNCHANGED <<reg, pidfile, term, byHand, hist>>

\* The signal handlers are installed and the first tick is consumed.
HandlersReady ==
    /\ sup = "booting"
    /\ sup' = "up"
    /\ UNCHANGED <<reg, pidfile, st, term, byHand, children, dead, hist>>

\* A signal before that kills the supervisor on the spot; its children go on
\* and are inherited by init.
BootKilled ==
    /\ sup = "booting"
    /\ sup' = "down"
    /\ adopted' = adopted \cup {children[i] : i \in Tracked}
    /\ st' = [p \in Proc |-> IF st[p] = "exited" THEN "gone" ELSE st[p]]
    /\ children' = [i \in Id |-> NoProc]
    /\ UNCHANGED <<reg, pidfile, term, byHand, dead, dropped, updated, edits>>

\* Tick, part 1: reap the tracked children that exited and hold their ids.
Reap ==
    LET exited == {i \in Tracked : st[children[i]] = "exited"} IN
    /\ sup = "up"
    /\ st' = [p \in Proc |-> IF p[1] \in exited /\ children[p[1]] = p
                             THEN "gone" ELSE st[p]]
    /\ children' = [i \in Id |-> IF i \in exited THEN NoProc ELSE children[i]]
    /\ dead' = dead \cup exited
    /\ sup' = "reaped"
    /\ UNCHANGED <<reg, pidfile, term, byHand, hist>>

Appeared == {i \in cfg : i \notin Tracked \cup dead}
Removed  == Tracked \ cfg

\* Start S, drop the removed children and send a SIGTERM to those of signalled.
Reconcile(S, signalled) ==
    /\ sup = "reaped"
    /\ Spawn({i \in S : CanSpawn(i)},
             [i \in Id |-> IF i \in Removed THEN NoProc ELSE children[i]])
    /\ term' = term \cup {children[i] : i \in signalled}
    /\ dropped' = dropped \cup {children[i] : i \in Removed}
    /\ dead' = dead \cap cfg
    /\ sup' = "up"
    /\ UNCHANGED <<reg, pidfile, byHand, adopted, updated, edits>>

\* Mutants: a de-registered child gets no signal; the hold is ignored; only the
\* first scan starts daemons; an id without a child is signalled too.
RescanNoSignal   == Reconcile(Appeared, {})
RescanRespawns   == Reconcile(cfg \ Tracked, Removed)
RescanNoStart    == Reconcile({}, Removed)
RescanSignalsAll == Reconcile(Appeared, Id \ cfg)

\* Tick, part 2: scan nodes.d, start what appeared, send a SIGTERM to what was
\* de-registered and drop it, clear the hold of the ids whose file is gone.
Rescan == Reconcile(Appeared, Removed)

\* The daemons that appeared could not be executed; the next tick tries again.
RescanSpawnFails ==
    /\ Appeared # {}
    /\ Reconcile({}, Removed)

\* nodes.d cannot be read: skip the rest of this tick.
RescanSkipped ==
    /\ sup = "reaped"
    /\ sup' = "up"
    /\ UNCHANGED <<reg, pidfile, st, term, byHand, children, dead, hist>>

\* SIGINT or SIGTERM to the supervisor: forward it to every tracked child.
Shutdown ==
    /\ sup = "up"
    /\ sup' = "stopping"
    /\ term' = term \cup {children[i] : i \in Tracked}
    /\ UNCHANGED <<reg, pidfile, st, byHand, children, dead, hist>>

\* Mutant: the children are not waited for.
ShutdownEndsUnreaped ==
    /\ sup = "stopping"
    /\ sup' = "down"
    /\ st' = [p \in Proc |-> IF st[p] = "exited" THEN "gone" ELSE st[p]]
    /\ children' = [i \in Id |-> NoProc]
    /\ adopted' = adopted \cup {p \in dropped : Running(p)}
    /\ UNCHANGED <<reg, pidfile, term, byHand, dead, dropped, updated, edits>>

\* Two seconds later: SIGKILL and wait for what is left, and exit.  What
\* is left of dropped children is inherited, and its zombies reaped, by init.
ShutdownEnds ==
    /\ sup = "stopping"
    /\ sup' = "down"
    /\ st' = [p \in Proc |-> IF children[p[1]] = p \/ st[p] = "exited"
                             THEN "gone" ELSE st[p]]
    /\ children' = [i \in Id |-> NoProc]
    /\ adopted' = adopted \cup {p \in dropped : Running(p)}
    /\ UNCHANGED <<reg, pidfile, term, byHand, dead, dropped, updated, edits>>

-----------------------------------------------------------------------------
(* run_daemon *)

\* Where a process goes when it ends: a child of a live supervisor stays in
\* /proc until that supervisor waits for it.
Ended(p) == IF sup # "down" /\ p \notin byHand \cup adopted THEN "exited" ELSE "gone"

Goto(p, s) == st' = [st EXCEPT ![p] = s]

\* Read the pid file.  If it names a process that is in /proc, exit, or with
\* --force send it a SIGTERM and wait.
ReadLock(p) ==
    LET q == pidfile[p[1]]
        held == q # NoProc /\ InProcFs(q)
    IN
    /\ st[p] = "boot"
    /\ \/ ~ held /\ Goto(p, "lock") /\ UNCHANGED term
       \/ held /\ p \notin byHand /\ Goto(p, Ended(p)) /\ UNCHANGED term
       \/ held /\ p \in byHand /\ Goto(p, "wait") /\ term' = term \cup {q}
    /\ UNCHANGED <<reg, pidfile, byHand, sup, children, dead, hist>>

\* The 800 ms are over, whether or not the other process is.
WaitOver(p) ==
    /\ st[p] = "wait"
    /\ Goto(p, "lock")
    /\ UNCHANGED <<reg, pidfile, term, byHand, sup, children, dead, hist>>

WriteLock(p) ==
    /\ st[p] = "lock"
    /\ Goto(p, "locked")
    /\ pidfile' = [pidfile EXCEPT ![p[1]] = p]
    /\ UNCHANGED <<reg, term, byHand, sup, children, dead, hist>>

\* No config: exit(1), which runs no drop guard and leaves the pid file.  One
\* that does not parse: run_daemon returns the error, guards run.
LoadConfig(p) ==
    /\ st[p] = "locked"
    /\ Goto(p, IF p[1] \notin cfg THEN Ended(p)
               ELSE IF p[1] \in torn THEN "exiting" ELSE "auth")
    /\ UNCHANGED <<reg, pidfile, term, byHand, sup, children, dead, hist>>

\* write_secret_file, first half: the file is created if it is not there, and
\* truncated.
OpenConfig(i) ==
    /\ cfg' = cfg \cup {i}
    /\ torn' = torn \cup {i}

\* The control plane accepts the node; the refreshed config is written back.
Authorize(p) ==
    /\ st[p] = "auth"
    /\ Goto(p, "saving")
    /\ OpenConfig(p[1])
    /\ UNCHANGED <<initing, wanted, pidfile, term, byHand, sup, children, dead, hist>>

\* write_secret_file, second half; a file removed meanwhile stays removed.
ConfigSaved(p) ==
    /\ \/ st[p] = "saving" /\ Goto(p, "connect")
       \/ st[p] = "rewriting" /\ Goto(p, "serving")
    /\ torn' = torn \ {p[1]}
    /\ UNCHANGED <<cfg, initing, wanted, pidfile, term, byHand, sup, children,
                   dead, hist>>

\* It refuses the node, stays unreachable for the whole retry window, sends no
\* credentials, revokes the key in its first answer, or the config cannot be
\* written: exit(1), no drop guard.
AuthFails(p) ==
    /\ st[p] \in {"auth", "saving", "connect"}
    /\ MayDie
    /\ Goto(p, Ended(p))
    /\ UNCHANGED <<reg, pidfile, term, byHand, sup, children, dead, hist>>

Connect(p) ==
    /\ st[p] = "connect"
    /\ Goto(p, "serving")
    /\ updated' = updated \ {p[1]}
    /\ UNCHANGED <<reg, pidfile, term, byHand, sup, children, dead,
                   dropped, adopted, edits>>

\* NATS cannot be reached: run_daemon returns an error, guards run.
ConnectFails(p) ==
    /\ st[p] = "connect"
    /\ MayDie
    /\ Goto(p, "exiting")
    /\ UNCHANGED <<reg, pidfile, term, byHand, sup, children, dead, hist>>

\* The periodic credential refresh writes the config file again, in the select
\* loop: a SIGTERM waits until it is done.
RefreshSaved(p) ==
    /\ st[p] = "serving"
    /\ Goto(p, "rewriting")
    /\ OpenConfig(p[1])
    /\ UNCHANGED <<initing, wanted, pidfile, term, byHand, sup, children, dead, hist>>

\* The write fails: only a warning, and the file stays as it is.
RefreshFails(p) ==
    /\ st[p] = "rewriting"
    /\ Goto(p, "serving")
    /\ UNCHANGED <<reg, pidfile, term, byHand, sup, children, dead, hist>>

\* A pending SIGTERM: the handler is installed just before the select loop, so
\* a starting daemon dies on the spot, without its drop guards.
TakeSigterm(p) ==
    /\ p \in term
    /\ \/ st[p] \in Starting /\ Goto(p, Ended(p))
       \/ st[p] = "serving" /\ Goto(p, "exiting")
    /\ term' = term \ {p}
    /\ UNCHANGED <<reg, pidfile, byHand, sup, children, dead, hist>>

\* Evicted by 401s, or told to terminate: out of the loop.
Leave(p) ==
    /\ st[p] = "serving"
    /\ MayDie
    /\ Goto(p, "exiting")
    /\ UNCHANGED <<reg, pidfile, term, byHand, sup, children, dead, hist>>

\* update_node installed a new binary: exit(7), without drop guards.
UpdateExit(p) ==
    /\ st[p] = "serving"
    /\ MayDie
    /\ Goto(p, Ended(p))
    /\ updated' = updated \cup {p[1]}
    /\ UNCHANGED <<reg, pidfile, term, byHand, sup, children, dead,
                   dropped, adopted, edits>>

\* run_daemon returns: PidGuard removes the pid file, whatever is in it.
Exit(p) ==
    /\ st[p] = "exiting"
    /\ Goto(p, Ended(p))
    /\ pidfile' = [pidfile EXCEPT ![p[1]] = NoProc]
    /\ UNCHANGED <<reg, term, byHand, sup, children, dead, hist>>

-----------------------------------------------------------------------------
(* The operator *)

\* `crossfyre node init` registers a node: write_secret_file creates the file...
NodeInit(i) ==
    /\ i \notin cfg
    /\ edits < MaxEdit
    /\ edits' = edits + 1
    /\ OpenConfig(i)
    /\ initing' = initing \cup {i}
    /\ wanted' = wanted \cup {i}
    /\ UNCHANGED <<pidfile, st, term, byHand, sup, children, dead,
                   dropped, adopted, updated>>

\* ... and writes it, or fails or is killed before that.
NodeInitWrites(i) ==
    /\ i \in initing
    /\ initing' = initing \ {i}
    /\ torn' \in {torn, torn \ {i}}
    /\ UNCHANGED <<cfg, wanted, pidfile, st, term, byHand, sup, children, dead,
                   hist>>

\* `crossfyre node remove`: config and pid file go; no process is signalled.
NodeRemove(i) ==
    /\ i \in cfg
    /\ edits < MaxEdit
    /\ edits' = edits + 1
    /\ cfg' = cfg \ {i} /\ torn' = torn \ {i} /\ wanted' = wanted \ {i}
    /\ pidfile' = [pidfile EXCEPT ![i] = NoProc]
    /\ UNCHANGED <<initing, st, term, byHand, sup, children, dead,
                   dropped, adopted, updated>>

\* `node daemon <id> --force` in another terminal.
ManualDaemon(i) ==
    /\ Manual
    /\ i \in cfg
    /\ CanSpawn(i)
    /\ Goto(NextProc(i), "boot")
    /\ byHand' = byHand \cup {NextProc(i)}
    /\ UNCHANGED <<reg, pidfile, term, sup, children, dead, hist>>

-----------------------------------------------------------------------------
SupervisorStep == Boot \/ HandlersReady \/ BootKilled \/ Reap \/ Rescan \/ RescanSpawnFails \/ RescanSkipped
                  \/ Shutdown \/ ShutdownEnds

\* Steps a daemon takes without anything happening to it.
DaemonProgress(p) ==
    \/ ReadLock(p) \/ WaitOver(p) \/ WriteLock(p) \/ LoadConfig(p)
    \/ Authorize(p) \/ ConfigSaved(p) \/ Connect(p) \/ TakeSigterm(p) \/ Exit(p)

DaemonStep(p) ==
    \/ DaemonProgress(p)
    \/ AuthFails(p) \/ ConnectFails(p) \/ RefreshSaved(p)
    \/ RefreshFails(p) \/ Leave(p) \/ UpdateExit(p)

OperatorStep == \E i \in Id : \/ NodeInit(i) \/ NodeInitWrites(i)
                              \/ NodeRemove(i) \/ ManualDaemon(i)

Next ==
    \/ SupervisorStep
    \/ \E p \in Proc : DaemonStep(p)
    \/ OperatorStep

\* The rescan timer keeps firing and nodes.d is readable again and again; a
\* daemon that can take a step does, and a signal is taken.
Fairness ==
    /\ WF_vars(Reap) /\ SF_vars(Rescan) /\ WF_vars(ShutdownEnds)
    /\ \A p \in Proc : WF_vars(DaemonProgress(p))
    /\ \A p \in Proc : SF_vars(TakeSigterm(p))

Spec == Init /\ [][Next]_vars
LiveSpec == Spec /\ Fairness

-----------------------------------------------------------------------------
(* Properties *)

\* Daemons of a supervisor that was killed before its signal handlers were
\* installed.
Forsaken == adopted \ dropped

\* No daemon is forgotten: while the supervisor is up, a running daemon it
\* started is the one it tracks for that node, or was sent a SIGTERM.
NoOrphan ==
    SupUp =>
        \A p \in Proc \ (byHand \cup Forsaken) :
            Running(p) => children[p[1]] = p \/ p \in term \/ st[p] = "exiting"

\* A shutdown that run_boot handles leaves no daemon behind, except one that
\* was de-registered earlier and has not finished its own teardown.  Only a
\* signal between the first start and the installation of the handlers leaves
\* the daemons started so far.
ShutdownLeavesNothing ==
    sup = "down" =>
        \A p \in Proc \ (byHand \cup Forsaken) : Running(p) => p \in dropped

\* A node that flaps is not respawned: a daemon the supervisor tracks is never
\* started for a node it holds back, and what it holds is not running.
HeldStaysDown ==
    /\ dead \cap Tracked = {}
    /\ SupUp => \A i \in dead, k \in 1..MaxProc :
                   /\ st[<<i, k>>] \in Starting
                   /\ <<i, k>> \notin byHand \cup Forsaken
                   => <<i, k>> \in term

\* A node that is registered while the supervisor is up is started, unless it
\* is held back.
RegisteredIsStarted ==
    \A i \in Id :
        (sup = "up" /\ i \in cfg)
            ~> (~ SupUp \/ i \notin cfg \/ i \in Tracked \cup dead \/ ~ CanSpawn(i))

\* A daemon whose config file is gone stops, unless the file comes back.
DeregisteredStops ==
    \A p \in Proc :
        (SupUp /\ children[p[1]] = p /\ p[1] \notin cfg)
            ~> (~ SupUp \/ p[1] \in cfg \/ ~ Running(p))
=============================================================================
