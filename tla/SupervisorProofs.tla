-------------------------- MODULE SupervisorProofs --------------------------
(***************************************************************************)
(* Proofs that the supervisor loses no daemon, for every set of nodes and  *)
(* every number of daemons started, with or without daemons started by     *)
(* hand.                                                                   *)
(***************************************************************************)
EXTENDS Supervisor, WellFoundedInduction, TLAPS

\* The next process of a node exists while there is an unused one, and is one.
LEMMA NextProcUnused ==
    ASSUME NEW i \in Id, CanSpawn(i)
    PROVE  /\ NextProc(i) \in Proc
           /\ NextProc(i)[1] = i
           /\ st[NextProc(i)] = "unused"
  <1> DEFINE U == Unused(i)
  <1>1. U # {} /\ U \subseteq 1..MaxProc
    BY DEF CanSpawn, Unused
  <1>2. U \subseteq Nat
    BY <1>1, SupervisorAssumption
  <1>3. \E k \in U : \A l \in U : ~ (<<l, k>> \in OpToRel(<, Nat))
    <2> HIDE DEF U
    <2>1. QED
      BY <1>1, <1>2, NatLessThanWellFounded, WFMin
  <1>4. \E k \in U : \A l \in U : k <= l
    <2>1. PICK k \in U : \A l \in U : ~ (<<l, k>> \in OpToRel(<, Nat))
      BY <1>3
    <2>2. ASSUME NEW l \in U PROVE k <= l
      <3>1. k \in Nat /\ l \in Nat
        BY <1>2
      <3>2. ~ (l < k)
        BY <2>1, <3>1 DEF OpToRel
      <3>3. QED
        BY <3>1, <3>2
    <2>3. QED
      BY <2>2
  <1> DEFINE c == CHOOSE k \in U : \A l \in U : k <= l
  <1>5. c \in U
    BY <1>4
  <1>6. NextProc(i) = <<i, c>>
    BY DEF NextProc
  <1>7. c \in 1..MaxProc /\ st[<<i, c>>] = "unused"
    BY <1>5 DEF Unused
  <1> HIDE DEF c
  <1>8. QED
    BY <1>6, <1>7 DEF Proc

(***************************************************************************)
(* The inductive invariant.  None of the three properties is inductive:    *)
(* what the supervisor has let go of must be known in every state of the   *)
(* supervisor, also while it is down or stopping.                          *)
(***************************************************************************)

\* What is recorded of a process is about a process that was started.
Started ==
    \A p \in Proc :
        st[p] = "unused" =>
            p \notin byHand \cup dropped \cup adopted /\ \A i \in Id : children[i] # p

\* A daemon of the supervisor that runs is tracked, or was de-registered, or
\* its supervisor was killed while booting.
TrackedOrDropped ==
    \A p \in Proc \ byHand :
        Running(p) => children[p[1]] = p \/ p \in dropped \/ p \in adopted

\* A de-registered daemon that runs was sent a SIGTERM, or is on its way out.
DroppedIsSignalled ==
    \A p \in dropped : Running(p) => p \in term \/ st[p] = "exiting"

\* Nothing is tracked by a supervisor that is down.
DownTracksNothing == sup = "down" => Tracked = {}

\* An id that is held back has no tracked daemon.
HeldIsUntracked == dead \cap Tracked = {}

Inv ==
    /\ TypeOK /\ Started /\ TrackedOrDropped /\ DroppedIsSignalled
    /\ DownTracksNothing /\ HeldIsUntracked

LEMMA InitInv == Init => Inv
  <1> SUFFICES ASSUME Init PROVE Inv
    OBVIOUS
  <1>1. TypeOK
    BY SupervisorAssumption DEF Init, TypeOK, State
  <1>2. \A p \in Proc : ~ Running(p)
    BY DEF Init, Running, Alive, Starting
  <1>3. \A p \in Proc, i \in Id : children[i] # p
    BY SupervisorAssumption DEF Init, Proc
  <1>4. Tracked = {}
    BY DEF Init, Tracked
  <1>5. Started
    BY <1>3 DEF Init, Started
  <1>6. TrackedOrDropped /\ DroppedIsSignalled
    BY <1>2 DEF Init, TrackedOrDropped, DroppedIsSignalled
  <1>7. DownTracksNothing /\ HeldIsUntracked
    BY <1>4 DEF DownTracksNothing, HeldIsUntracked
  <1>8. QED
    BY <1>1, <1>5, <1>6, <1>7 DEF Inv

\* What a start of several daemons does to their states and to the table.
SpawnEffect(S, base) ==
    /\ st' \in [Proc -> State]
    /\ children' \in [Id -> Proc \cup {NoProc}]
    /\ \A p \in Proc :
          \/ /\ p[1] \in S /\ children'[p[1]] = p
             /\ st[p] = "unused" /\ st'[p] = "boot"
          \/ st'[p] = st[p]
    /\ \A i \in Id : i \notin S => children'[i] = base[i]
    /\ \A i \in S : children'[i] \in Proc /\ st'[children'[i]] = "boot"

\* The daemons that are started are new ones, and they are tracked.
LEMMA SpawnHasEffect ==
    ASSUME TypeOK, NEW S \in SUBSET Id, \A i \in S : CanSpawn(i),
           NEW base \in [Id -> Proc \cup {NoProc}], Spawn(S, base)
    PROVE  SpawnEffect(S, base)
  <1> DEFINE n(i) == NextProc(i)
  <1>1. \A i \in S : n(i) \in Proc /\ n(i)[1] = i /\ st[n(i)] = "unused"
    BY NextProcUnused
  <1>2. /\ st' = [p \in Proc |-> IF p[1] \in S /\ p = n(p[1]) THEN "boot" ELSE st[p]]
        /\ children' = [i \in Id |-> IF i \in S THEN n(i) ELSE base[i]]
    BY DEF Spawn
  <1> HIDE DEF n
  <1>3. \A p \in Proc : p[1] \in Id
    BY DEF Proc
  <1>4. st \in [Proc -> State] /\ "boot" \in State
    BY DEF TypeOK, State, Alive, Starting
  <1>5. st' \in [Proc -> State]
    BY <1>2, <1>4
  <1>6. children' \in [Id -> Proc \cup {NoProc}]
    BY <1>1, <1>2
  <1>7. QED
    BY <1>1, <1>2, <1>3, <1>5, <1>6 DEF SpawnEffect

\* A step of one daemon: it goes to another state than "unused", the
\* supervisor does nothing, and a signal is lost only by a daemon that dies or
\* starts its teardown on it.
LEMMA DaemonMoves ==
    ASSUME Inv, NEW p \in Proc, NEW s \in State \ {"unused"},
           Running(p), Goto(p, s),
           \/ s \notin Alive \/ s = "exiting"
           \/ st[p] # "exiting" /\ (p \in term => p \in term'),
           \A q \in Proc : q # p /\ q \in term => q \in term',
           UNCHANGED <<byHand, sup, children, dead, dropped, adopted>>
    PROVE  /\ st' \in [Proc -> State]
           /\ Started' /\ TrackedOrDropped' /\ DroppedIsSignalled'
           /\ DownTracksNothing' /\ HeldIsUntracked'
  <1>1. st \in [Proc -> State] /\ dropped \subseteq Proc
    BY DEF Inv, TypeOK
  <1>2. st' \in [Proc -> State]
    BY <1>1 DEF Goto
  <1>3. \A q \in Proc : st'[q] = IF q = p THEN s ELSE st[q]
    BY <1>1 DEF Goto
  <1>4. st[p] # "unused"
    BY DEF Running, Alive, Starting
  <1>5. Started'
    BY <1>3, <1>4 DEF Inv, Started
  <1>6. TrackedOrDropped'
    BY <1>3 DEF Inv, TrackedOrDropped, Running
  <1>7. DroppedIsSignalled'
    <2>1. SUFFICES ASSUME NEW q \in dropped, st'[q] \in Alive
                   PROVE  q \in term' \/ st'[q] = "exiting"
      BY DEF DroppedIsSignalled, Running
    <2>2. CASE q = p
      BY <1>1, <1>3, <2>1, <2>2 DEF Inv, DroppedIsSignalled, Running
    <2>3. CASE q # p
      BY <1>1, <1>3, <2>1, <2>3 DEF Inv, DroppedIsSignalled, Running
    <2>4. QED
      BY <2>2, <2>3
  <1>8. Tracked' = Tracked
    BY DEF Tracked
  <1>9. DownTracksNothing' /\ HeldIsUntracked'
    BY <1>8 DEF Inv, DownTracksNothing, HeldIsUntracked
  <1>10. QED
    BY <1>2, <1>5, <1>6, <1>7, <1>9

\* Every step of a daemon keeps the invariant.
LEMMA DaemonInv ==
    ASSUME Inv, NEW p \in Proc, DaemonStep(p)
    PROVE  Inv'
  <1> USE DEF reg, hist
  <1>1. /\ TypeOK /\ p[1] \in Id
        /\ pidfile[p[1]] \in Proc \cup {NoProc}
    BY DEF Inv, TypeOK, Proc
  <1>2. Ended(p) \in {"exited", "gone"} /\ Ended(p) \notin Alive
    BY DEF Ended, Alive, Starting
  <1>3. \A s \in Alive \cup {"exited", "gone"} : s \in State \ {"unused"}
    BY DEF State, Alive, Starting
  <1>4. /\ \A s \in Starting : s \in Alive /\ s # "exiting" /\ s # "serving" /\ s # "rewriting"
        /\ "serving" \in Alive /\ "rewriting" \in Alive /\ "exiting" \in Alive
        /\ {"boot", "wait", "lock", "locked", "auth", "saving", "connect"} = Starting
    BY DEF Alive, Starting
  <1>5. CASE ReadLock(p)
    <2> DEFINE q == pidfile[p[1]]
    <2>1. /\ term' \subseteq Proc /\ term \subseteq term'
          /\ Running(p) /\ st[p] # "exiting"
      BY <1>1, <1>4, <1>5 DEF ReadLock, TypeOK, Running
    <2>2. PICK s \in {"lock", "wait", Ended(p)} : Goto(p, s)
      BY <1>5 DEF ReadLock
    <2>3. s \in State \ {"unused"}
      BY <1>2, <1>3, <1>4, <2>2
    <2>4. UNCHANGED <<reg, pidfile, byHand, sup, children, dead, hist>>
      BY <1>5 DEF ReadLock
    <2>5. /\ st' \in [Proc -> State]
          /\ Started' /\ TrackedOrDropped' /\ DroppedIsSignalled'
          /\ DownTracksNothing' /\ HeldIsUntracked'
      BY <2>1, <2>2, <2>3, <2>4, DaemonMoves
    <2>6. TypeOK'
      BY <1>1, <2>1, <2>4, <2>5 DEF TypeOK
    <2>7. QED
      BY <2>5, <2>6 DEF Inv
  <1>6. CASE WaitOver(p)
    <2>1. Running(p) /\ st[p] # "exiting"
      BY <1>4, <1>6 DEF WaitOver, Running
    <2>2. /\ st' \in [Proc -> State]
          /\ Started' /\ TrackedOrDropped' /\ DroppedIsSignalled'
          /\ DownTracksNothing' /\ HeldIsUntracked'
      BY <1>1, <1>2, <1>3, <1>4, <1>6, <2>1, DaemonMoves DEF WaitOver
    <2>3. TypeOK'
      BY <1>1, <1>6, <2>2 DEF TypeOK, WaitOver
    <2>4. QED
      BY <2>2, <2>3 DEF Inv
  <1>7. CASE WriteLock(p)
    <2>1. Running(p) /\ st[p] # "exiting"
      BY <1>4, <1>7 DEF WriteLock, Running
    <2>2. /\ st' \in [Proc -> State]
          /\ Started' /\ TrackedOrDropped' /\ DroppedIsSignalled'
          /\ DownTracksNothing' /\ HeldIsUntracked'
      BY <1>1, <1>2, <1>3, <1>4, <1>7, <2>1, DaemonMoves DEF WriteLock
    <2>3. TypeOK'
      BY <1>1, <1>7, <2>2 DEF TypeOK, WriteLock
    <2>4. QED
      BY <2>2, <2>3 DEF Inv
  <1>8. CASE LoadConfig(p)
    <2>1. Running(p) /\ st[p] # "exiting"
      BY <1>4, <1>8 DEF LoadConfig, Running
    <2>2. /\ st' \in [Proc -> State]
          /\ Started' /\ TrackedOrDropped' /\ DroppedIsSignalled'
          /\ DownTracksNothing' /\ HeldIsUntracked'
      BY <1>1, <1>2, <1>3, <1>4, <1>8, <2>1, DaemonMoves DEF LoadConfig
    <2>3. TypeOK'
      BY <1>1, <1>8, <2>2 DEF TypeOK, LoadConfig
    <2>4. QED
      BY <2>2, <2>3 DEF Inv
  <1>9. CASE Authorize(p)
    <2>1. Running(p) /\ st[p] # "exiting"
      BY <1>4, <1>9 DEF Authorize, Running
    <2>2. /\ st' \in [Proc -> State]
          /\ Started' /\ TrackedOrDropped' /\ DroppedIsSignalled'
          /\ DownTracksNothing' /\ HeldIsUntracked'
      BY <1>1, <1>2, <1>3, <1>4, <1>9, <2>1, DaemonMoves DEF Authorize
    <2>3. TypeOK'
      BY <1>1, <1>9, <2>2 DEF TypeOK, Authorize, OpenConfig
    <2>4. QED
      BY <2>2, <2>3 DEF Inv
  <1>10. CASE AuthFails(p)
    <2>1. Running(p) /\ st[p] # "exiting"
      BY <1>4, <1>10 DEF AuthFails, Running
    <2>2. /\ st' \in [Proc -> State]
          /\ Started' /\ TrackedOrDropped' /\ DroppedIsSignalled'
          /\ DownTracksNothing' /\ HeldIsUntracked'
      BY <1>1, <1>2, <1>3, <1>4, <1>10, <2>1, DaemonMoves DEF AuthFails
    <2>3. TypeOK'
      BY <1>1, <1>10, <2>2 DEF TypeOK, AuthFails
    <2>4. QED
      BY <2>2, <2>3 DEF Inv
  <1>11. CASE Connect(p)
    <2>1. Running(p) /\ st[p] # "exiting"
      BY <1>4, <1>11 DEF Connect, Running
    <2>2. /\ st' \in [Proc -> State]
          /\ Started' /\ TrackedOrDropped' /\ DroppedIsSignalled'
          /\ DownTracksNothing' /\ HeldIsUntracked'
      BY <1>1, <1>2, <1>3, <1>4, <1>11, <2>1, DaemonMoves DEF Connect
    <2>3. TypeOK'
      BY <1>1, <1>11, <2>2 DEF TypeOK, Connect
    <2>4. QED
      BY <2>2, <2>3 DEF Inv
  <1>12. CASE ConnectFails(p)
    <2>1. Running(p) /\ st[p] # "exiting"
      BY <1>4, <1>12 DEF ConnectFails, Running
    <2>2. /\ st' \in [Proc -> State]
          /\ Started' /\ TrackedOrDropped' /\ DroppedIsSignalled'
          /\ DownTracksNothing' /\ HeldIsUntracked'
      BY <1>1, <1>2, <1>3, <1>4, <1>12, <2>1, DaemonMoves DEF ConnectFails
    <2>3. TypeOK'
      BY <1>1, <1>12, <2>2 DEF TypeOK, ConnectFails
    <2>4. QED
      BY <2>2, <2>3 DEF Inv
  <1>13. CASE Leave(p)
    <2>1. Running(p) /\ st[p] # "exiting"
      BY <1>4, <1>13 DEF Leave, Running
    <2>2. /\ st' \in [Proc -> State]
          /\ Started' /\ TrackedOrDropped' /\ DroppedIsSignalled'
          /\ DownTracksNothing' /\ HeldIsUntracked'
      BY <1>1, <1>2, <1>3, <1>4, <1>13, <2>1, DaemonMoves DEF Leave
    <2>3. TypeOK'
      BY <1>1, <1>13, <2>2 DEF TypeOK, Leave
    <2>4. QED
      BY <2>2, <2>3 DEF Inv
  <1>14. CASE UpdateExit(p)
    <2>1. Running(p) /\ st[p] # "exiting"
      BY <1>4, <1>14 DEF UpdateExit, Running
    <2>2. /\ st' \in [Proc -> State]
          /\ Started' /\ TrackedOrDropped' /\ DroppedIsSignalled'
          /\ DownTracksNothing' /\ HeldIsUntracked'
      BY <1>1, <1>2, <1>3, <1>4, <1>14, <2>1, DaemonMoves DEF UpdateExit
    <2>3. TypeOK'
      BY <1>1, <1>14, <2>2 DEF TypeOK, UpdateExit
    <2>4. QED
      BY <2>2, <2>3 DEF Inv
  <1>15. CASE RefreshSaved(p)
    <2>1. Running(p) /\ st[p] # "exiting"
      BY <1>4, <1>15 DEF RefreshSaved, Running
    <2>2. /\ st' \in [Proc -> State]
          /\ Started' /\ TrackedOrDropped' /\ DroppedIsSignalled'
          /\ DownTracksNothing' /\ HeldIsUntracked'
      BY <1>1, <1>2, <1>3, <1>4, <1>15, <2>1, DaemonMoves DEF RefreshSaved
    <2>3. TypeOK'
      BY <1>1, <1>15, <2>2 DEF TypeOK, RefreshSaved, OpenConfig
    <2>4. QED
      BY <2>2, <2>3 DEF Inv
  <1>15a. CASE RefreshFails(p)
    <2>1. Running(p) /\ st[p] # "exiting"
      BY <1>4, <1>15a DEF RefreshFails, Running
    <2>2. /\ st' \in [Proc -> State]
          /\ Started' /\ TrackedOrDropped' /\ DroppedIsSignalled'
          /\ DownTracksNothing' /\ HeldIsUntracked'
      BY <1>1, <1>2, <1>3, <1>4, <1>15a, <2>1, DaemonMoves DEF RefreshFails
    <2>3. TypeOK'
      BY <1>1, <1>15a, <2>2 DEF TypeOK, RefreshFails
    <2>4. QED
      BY <2>2, <2>3 DEF Inv
  <1>15b. CASE ConfigSaved(p)
    <2>1. Running(p) /\ st[p] # "exiting"
      BY <1>4, <1>15b DEF ConfigSaved, Running
    <2>2. /\ st' \in [Proc -> State]
          /\ Started' /\ TrackedOrDropped' /\ DroppedIsSignalled'
          /\ DownTracksNothing' /\ HeldIsUntracked'
      BY <1>1, <1>2, <1>3, <1>4, <1>15b, <2>1, DaemonMoves DEF ConfigSaved
    <2>3. TypeOK'
      BY <1>1, <1>15b, <2>2 DEF TypeOK, ConfigSaved
    <2>4. QED
      BY <2>2, <2>3 DEF Inv
  <1>16. CASE TakeSigterm(p)
    <2>1. Running(p) /\ term' = term \ {p}
      BY <1>4, <1>16 DEF TakeSigterm, Running
    <2>2. PICK s \in {Ended(p), "exiting"} : Goto(p, s)
      BY <1>16 DEF TakeSigterm
    <2>3. s \in State \ {"unused"} /\ (s \notin Alive \/ s = "exiting")
      BY <1>2, <1>3, <1>4, <2>2
    <2>4. UNCHANGED <<reg, pidfile, byHand, sup, children, dead, hist>>
      BY <1>16 DEF TakeSigterm
    <2>5. /\ st' \in [Proc -> State]
          /\ Started' /\ TrackedOrDropped' /\ DroppedIsSignalled'
          /\ DownTracksNothing' /\ HeldIsUntracked'
      BY <2>1, <2>2, <2>3, <2>4, DaemonMoves
    <2>6. TypeOK'
      BY <1>1, <2>1, <2>4, <2>5 DEF TypeOK
    <2>7. QED
      BY <2>5, <2>6 DEF Inv
  <1>17. CASE Exit(p)
    <2>1. Running(p)
      BY <1>4, <1>17 DEF Exit, Running
    <2>2. /\ st' \in [Proc -> State]
          /\ Started' /\ TrackedOrDropped' /\ DroppedIsSignalled'
          /\ DownTracksNothing' /\ HeldIsUntracked'
      BY <1>1, <1>2, <1>3, <1>4, <1>17, <2>1, DaemonMoves DEF Exit
    <2>3. TypeOK'
      BY <1>1, <1>17, <2>2 DEF TypeOK, Exit
    <2>4. QED
      BY <2>2, <2>3 DEF Inv
  <1>18. QED
    BY <1>5, <1>6, <1>7, <1>8, <1>9, <1>10, <1>11, <1>12, <1>13, <1>14,
       <1>15, <1>15a, <1>15b, <1>16, <1>17 DEF DaemonStep, DaemonProgress

\* The first scan of a supervisor: nothing was tracked, so what runs already
\* was de-registered by an earlier supervisor.
LEMMA BootInv == Inv /\ Boot => Inv'
  <1> SUFFICES ASSUME Inv, Boot PROVE Inv'
    OBVIOUS
  <1> USE DEF reg, hist
  <1>1. PICK S \in SUBSET cfg :
            (\A i \in S : CanSpawn(i)) /\ Spawn(S, [i \in Id |-> NoProc])
    BY DEF Boot
  <1>2. /\ TypeOK /\ S \in SUBSET Id
        /\ [i \in Id |-> NoProc] \in [Id -> Proc \cup {NoProc}]
        /\ \A p \in Proc : p[1] \in Id /\ p # NoProc
    BY SupervisorAssumption DEF Inv, TypeOK, Proc
  <1>3. \A i \in Id : children[i] = NoProc
    BY DEF Inv, DownTracksNothing, Tracked, Boot
  <1>4. SpawnEffect(S, [i \in Id |-> NoProc])
    BY <1>1, <1>2, SpawnHasEffect
  <1>5. /\ sup' = "booting" /\ dead' = {}
        /\ UNCHANGED <<reg, pidfile, term, byHand, dropped, adopted, updated, edits>>
    BY DEF Boot
  <1>6. TypeOK'
    BY <1>2, <1>4, <1>5 DEF SpawnEffect, TypeOK
  <1>7. Started'
    BY <1>2, <1>4, <1>5 DEF SpawnEffect, Inv, Started
  <1>8. TrackedOrDropped'
    BY <1>2, <1>3, <1>4, <1>5 DEF SpawnEffect, Inv, TrackedOrDropped, Running
  <1>9. DroppedIsSignalled'
    BY <1>2, <1>4, <1>5 DEF SpawnEffect, Inv, TypeOK, DroppedIsSignalled, Started, Running
  <1>10. DownTracksNothing' /\ HeldIsUntracked'
    BY <1>5 DEF DownTracksNothing, HeldIsUntracked
  <1>11. QED
    BY <1>6, <1>7, <1>8, <1>9, <1>10 DEF Inv

\* The first half of a tick.
LEMMA ReapInv == Inv /\ Reap => Inv'
  <1> SUFFICES ASSUME Inv, Reap PROVE Inv'
    OBVIOUS
  <1> USE DEF reg, hist
  <1> DEFINE X == {i \in Tracked : st[children[i]] = "exited"}
  <1>1. /\ TypeOK /\ X \subseteq Id
        /\ \A p \in Proc : p[1] \in Id /\ p # NoProc
    BY SupervisorAssumption DEF Inv, TypeOK, Proc, Tracked
  <1>2. /\ st' = [p \in Proc |-> IF p[1] \in X /\ children[p[1]] = p
                                 THEN "gone" ELSE st[p]]
        /\ children' = [i \in Id |-> IF i \in X THEN NoProc ELSE children[i]]
        /\ dead' = dead \cup X /\ sup' = "reaped"
        /\ UNCHANGED <<reg, pidfile, term, byHand, dropped, adopted, updated, edits>>
    BY DEF Reap
  <1> HIDE DEF X
  <1>3. "gone" \in State /\ "gone" \notin Alive
    BY DEF State, Alive, Starting
  <1>4. \A p \in Proc : st'[p] = "gone" \/ st'[p] = st[p]
    BY <1>2
  <1>5. TypeOK'
    BY <1>1, <1>2, <1>3 DEF TypeOK
  <1>6. Started'
    BY <1>1, <1>2, <1>4 DEF Inv, Started
  <1>7. TrackedOrDropped'
    BY <1>1, <1>2, <1>3 DEF Inv, TrackedOrDropped, Running
  <1>8. DroppedIsSignalled'
    BY <1>1, <1>2, <1>3, <1>4 DEF Inv, TypeOK, DroppedIsSignalled, Running
  <1>9. Tracked' = Tracked \ X
    BY <1>1, <1>2 DEF Tracked
  <1>10. DownTracksNothing' /\ HeldIsUntracked'
    BY <1>2, <1>9 DEF Inv, DownTracksNothing, HeldIsUntracked
  <1>11. QED
    BY <1>5, <1>6, <1>7, <1>8, <1>10 DEF Inv

\* The second half of a tick, whatever part of the appeared nodes it starts.
LEMMA ReconcileInv ==
    ASSUME Inv, NEW A \in SUBSET Appeared, Reconcile(A, Removed)
    PROVE  Inv'
  <1> USE DEF reg, hist
  <1> DEFINE S == {i \in A : CanSpawn(i)}
             base == [i \in Id |-> IF i \in Removed THEN NoProc ELSE children[i]]
             out == {children[i] : i \in Removed}
  <1>1. /\ TypeOK /\ S \in SUBSET Id
        /\ \A p \in Proc : p[1] \in Id /\ p # NoProc
    BY SupervisorAssumption DEF Inv, TypeOK, Proc, Appeared
  <1>2. /\ S \cap Tracked = {} /\ S \cap dead = {}
        /\ base \in [Id -> Proc \cup {NoProc}]
        /\ Removed \subseteq Tracked /\ Tracked \subseteq Id
    BY <1>1 DEF Appeared, Removed, Tracked, TypeOK
  <1>3. out \subseteq Proc
    BY <1>1, <1>2 DEF Tracked, TypeOK
  <1>4. /\ Spawn(S, base) /\ sup' = "up"
        /\ term' = term \cup out /\ dropped' = dropped \cup out
        /\ dead' = dead \cap cfg
        /\ UNCHANGED <<reg, pidfile, byHand, adopted, updated, edits>>
    BY DEF Reconcile
  <1>5. \A i \in S : CanSpawn(i)
    OBVIOUS
  <1>6. \A i \in Id : i \notin S => base[i] = IF i \in Removed THEN NoProc ELSE children[i]
    OBVIOUS
  <1>7. \A i \in Removed : children[i] \in out
    OBVIOUS
  <1>8. \A p \in out : \E i \in Id : p = children[i]
    BY <1>2
  <1> HIDE DEF S, base, out
  <1>9. SpawnEffect(S, base)
    BY <1>1, <1>2, <1>4, <1>5, SpawnHasEffect
  <1>10. TypeOK'
    BY <1>1, <1>3, <1>4, <1>9 DEF TypeOK, SpawnEffect
  <1>11. \A p \in out : st[p] # "unused"
    BY <1>3, <1>8 DEF Inv, Started
  <1>12. Started'
    <2>1. SUFFICES ASSUME NEW p \in Proc, st'[p] = "unused"
                   PROVE  p \notin byHand' \cup dropped' \cup adopted'
                          /\ \A i \in Id : children'[i] # p
      BY DEF Started
    <2>2. st[p] = "unused" /\ p # NoProc
      BY <1>1, <1>9, <2>1 DEF SpawnEffect
    <2>3. p \notin byHand' \cup dropped' \cup adopted'
      BY <1>4, <1>11, <2>2 DEF Inv, Started
    <2>4. ASSUME NEW i \in Id PROVE children'[i] # p
      BY <1>6, <1>9, <2>1, <2>2 DEF Inv, Started, SpawnEffect
    <2>5. QED
      BY <2>3, <2>4
  <1>13. TrackedOrDropped'
    <2>1. SUFFICES ASSUME NEW p \in Proc \ byHand, st'[p] \in Alive
                   PROVE  children'[p[1]] = p \/ p \in dropped' \/ p \in adopted'
      BY <1>4 DEF TrackedOrDropped, Running
    <2>2. CASE children'[p[1]] = p
      BY <2>2
    <2>3. CASE children'[p[1]] # p
      <3>1. Running(p) /\ p[1] \in Id
        BY <1>1, <1>9, <2>1, <2>3 DEF Running, SpawnEffect
      <3>2. children[p[1]] = p \/ p \in dropped \/ p \in adopted
        BY <3>1 DEF Inv, TrackedOrDropped
      <3>3. CASE children[p[1]] = p
        <4>1. p[1] \in Tracked
          BY <1>1, <3>1, <3>3 DEF Tracked
        <4>2. p[1] \notin S
          BY <1>2, <4>1
        <4>3. p[1] \in Removed
          BY <1>6, <1>9, <2>3, <3>1, <3>3, <4>2 DEF SpawnEffect
        <4>4. QED
          BY <1>4, <1>7, <3>3, <4>3
      <3>4. QED
        BY <1>4, <3>2, <3>3
    <2>4. QED
      BY <2>2, <2>3
  <1>14. DroppedIsSignalled'
    <2>1. SUFFICES ASSUME NEW p \in dropped', st'[p] \in Alive
                   PROVE  p \in term' \/ st'[p] = "exiting"
      BY DEF DroppedIsSignalled, Running
    <2>2. CASE p \in out
      BY <1>4, <2>2
    <2>3. CASE p \in dropped
      <3>1. p \in Proc /\ st[p] # "unused"
        BY <1>1, <2>3 DEF Inv, Started, TypeOK
      <3>2. st'[p] = st[p]
        BY <1>9, <3>1 DEF SpawnEffect
      <3>3. QED
        BY <1>4, <2>1, <2>3, <3>2 DEF Inv, DroppedIsSignalled, Running
    <2>4. QED
      BY <1>4, <2>1, <2>2, <2>3
  <1>15. HeldIsUntracked'
    <2>1. SUFFICES ASSUME NEW i \in dead', i \in Tracked' PROVE FALSE
      BY DEF HeldIsUntracked
    <2>2. i \in Id /\ i \in dead /\ i \notin S /\ children'[i] # NoProc
      BY <1>1, <1>2, <1>4, <2>1 DEF Tracked
    <2>3. children[i] # NoProc
      BY <1>6, <1>9, <2>2 DEF SpawnEffect
    <2>4. QED
      BY <2>2, <2>3 DEF Inv, HeldIsUntracked, Tracked
  <1>16. DownTracksNothing'
    BY <1>4 DEF DownTracksNothing
  <1>17. QED
    BY <1>10, <1>12, <1>13, <1>14, <1>15, <1>16 DEF Inv

\* A step of the supervisor that leaves the table alone.
LEMMA QuietInv ==
    ASSUME Inv, RescanSkipped \/ Shutdown \/ HandlersReady
    PROVE  Inv'
  <1> USE DEF reg, hist
  <1>1. /\ TypeOK /\ {children[i] : i \in Tracked} \subseteq Proc
    BY DEF Inv, TypeOK, Tracked
  <1>2. /\ term' \subseteq Proc /\ term \subseteq term'
        /\ sup' \in {"up", "stopping"}
        /\ UNCHANGED <<reg, pidfile, st, byHand, children, dead, hist>>
    BY <1>1 DEF RescanSkipped, Shutdown, HandlersReady, TypeOK
  <1>3. Tracked' = Tracked
    BY <1>2 DEF Tracked
  <1>4. TypeOK'
    BY <1>1, <1>2 DEF TypeOK
  <1>5. QED
    BY <1>2, <1>3, <1>4 DEF Inv, Started, TrackedOrDropped, Running,
       DroppedIsSignalled, DownTracksNothing, HeldIsUntracked

\* The end of the supervisor, by a shutdown or by a signal while it boots:
\* what it tracked is gone or adopted.
LEMMA EndInv ==
    ASSUME Inv,
           ShutdownEnds \/ BootKilled
    PROVE  Inv'
  <1>1. /\ TypeOK /\ \A p \in Proc : p[1] \in Id /\ p # NoProc
    BY SupervisorAssumption DEF Inv, TypeOK, Proc
  <1>2. /\ children' = [i \in Id |-> NoProc]
        /\ sup' = "down" /\ adopted \subseteq adopted'
        /\ UNCHANGED <<reg, pidfile, term, byHand, dead, dropped, updated, edits>>
    BY DEF ShutdownEnds, BootKilled
  <1>3. "gone" \in State /\ "gone" \notin Alive
    BY DEF State, Alive, Starting
  <1>4. /\ st' \in [Proc -> State]
        /\ \A p \in Proc : st'[p] = st[p] \/ (st'[p] = "gone" /\ st[p] # "unused")
    <2>1. CASE ShutdownEnds
      BY <1>1, <1>3, <2>1 DEF ShutdownEnds, TypeOK, Inv, Started
    <2>2. CASE BootKilled
      BY <1>1, <1>3, <2>2 DEF BootKilled, TypeOK
    <2>3. QED
      BY <2>1, <2>2
  <1>5. \A p \in Proc : /\ p \in adopted' => p \in adopted \/ st[p] # "unused"
                        /\ children[p[1]] = p => st'[p] = "gone" \/ p \in adopted'
    <2>1. CASE ShutdownEnds
      <3>1. \A p \in dropped : p \in Proc /\ st[p] # "unused"
        BY <1>1 DEF Inv, TypeOK, Started
      <3>2. QED
        BY <2>1, <3>1 DEF ShutdownEnds
    <2>2. CASE BootKilled
      <3>1. adopted' = adopted \cup {children[i] : i \in Tracked}
        BY <2>2 DEF BootKilled
      <3>2. \A p \in Proc : children[p[1]] = p => p[1] \in Tracked
        BY <1>1 DEF Tracked
      <3>3. \A i \in Tracked : children[i] \in Proc /\ st[children[i]] # "unused"
        BY <1>1 DEF Tracked, TypeOK, Inv, Started
      <3>4. QED
        BY <3>1, <3>2, <3>3
    <2>3. QED
      BY <2>1, <2>2
  <1>6. adopted' \subseteq Proc
    <2>1. \A i \in Tracked : children[i] \in Proc
      BY <1>1 DEF Tracked, TypeOK
    <2>2. QED
      BY <1>1, <2>1 DEF ShutdownEnds, BootKilled, TypeOK
  <1>7. TypeOK'
    BY <1>1, <1>2, <1>4, <1>6 DEF TypeOK, reg
  <1>8. Started'
    BY <1>1, <1>2, <1>4, <1>5 DEF Inv, Started
  <1>9. TrackedOrDropped'
    BY <1>1, <1>2, <1>3, <1>4, <1>5 DEF Inv, TrackedOrDropped, Running
  <1>10. DroppedIsSignalled'
    BY <1>1, <1>2, <1>3, <1>4 DEF Inv, TypeOK, DroppedIsSignalled, Running
  <1>11. Tracked' = {}
    BY <1>2 DEF Tracked
  <1>12. QED
    BY <1>7, <1>8, <1>9, <1>10, <1>11 DEF Inv, DownTracksNothing, HeldIsUntracked

\* The operator's commands.
LEMMA OperatorInv == Inv /\ OperatorStep => Inv'
  <1> SUFFICES ASSUME Inv, NEW i \in Id,
                      \/ NodeInit(i) \/ NodeInitWrites(i)
                      \/ NodeRemove(i) \/ ManualDaemon(i)
               PROVE  Inv'
    BY DEF OperatorStep
  <1> USE DEF reg, hist
  <1>1. TypeOK
    BY DEF Inv
  <1>2. CASE NodeInit(i) \/ NodeInitWrites(i) \/ NodeRemove(i)
    <2>1. UNCHANGED <<st, term, byHand, sup, children, dead, dropped, adopted>>
      BY <1>2 DEF NodeInit, NodeInitWrites, NodeRemove
    <2>2. Tracked' = Tracked
      BY <2>1 DEF Tracked
    <2>3. TypeOK'
      BY <1>1, <1>2, SupervisorAssumption
         DEF TypeOK, NodeInit, NodeInitWrites, NodeRemove, OpenConfig
    <2>4. QED
      BY <2>1, <2>2, <2>3 DEF Inv, Started, TrackedOrDropped, Running,
         DroppedIsSignalled, DownTracksNothing, HeldIsUntracked
  <1>3. CASE ManualDaemon(i)
    <2>1. PICK n \in Proc : n = NextProc(i) /\ st[n] = "unused"
      BY <1>3, NextProcUnused DEF ManualDaemon
    <2>2. /\ st' = [st EXCEPT ![n] = "boot"] /\ byHand' = byHand \cup {n}
          /\ UNCHANGED <<reg, pidfile, term, sup, children, dead, hist>>
      BY <1>3, <2>1 DEF ManualDaemon, Goto
    <2>3. "boot" \in State
      BY DEF State, Alive, Starting
    <2>4. TypeOK'
      BY <1>1, <2>1, <2>2, <2>3 DEF TypeOK
    <2>5. \A p \in Proc : p # n => st'[p] = st[p]
      BY <1>1, <2>2 DEF TypeOK
    <2>6. st'[n] = "boot"
      BY <1>1, <2>2 DEF TypeOK
    <2>7. Started'
      BY <2>2, <2>5, <2>6 DEF Inv, Started
    <2>8. TrackedOrDropped'
      BY <2>2, <2>5 DEF Inv, TrackedOrDropped, Running
    <2>9. n \notin dropped /\ dropped \subseteq Proc
      BY <1>1, <2>1 DEF Inv, Started, TypeOK
    <2>10. DroppedIsSignalled'
      BY <2>2, <2>5, <2>9 DEF Inv, DroppedIsSignalled, Running
    <2>11. Tracked' = Tracked
      BY <2>2 DEF Tracked
    <2>12. QED
      BY <2>2, <2>4, <2>7, <2>8, <2>10, <2>11
         DEF Inv, DownTracksNothing, HeldIsUntracked
  <1>4. QED
    BY <1>2, <1>3

\* Every step keeps the invariant.
LEMMA NextInv == Inv /\ [Next]_vars => Inv'
  <1> SUFFICES ASSUME Inv, [Next]_vars PROVE Inv'
    OBVIOUS
  <1>1. CASE SupervisorStep
    <2>1. CASE Rescan
      BY <2>1, ReconcileInv DEF Rescan
    <2>2. CASE RescanSpawnFails
      <3>1. {} \in SUBSET Appeared
        OBVIOUS
      <3>2. QED
        BY <2>2, <3>1, ReconcileInv DEF RescanSpawnFails
    <2>3. QED
      BY <1>1, <2>1, <2>2, BootInv, ReapInv, QuietInv, EndInv
         DEF SupervisorStep
  <1>2. CASE \E p \in Proc : DaemonStep(p)
    BY <1>2, DaemonInv
  <1>3. CASE OperatorStep
    BY <1>3, OperatorInv
  <1>4. CASE UNCHANGED vars
    <2>1. UNCHANGED <<cfg, torn, initing, wanted, pidfile, st, term, byHand,
                      sup, children, dead, dropped, adopted, updated, edits>>
      BY <1>4 DEF vars, reg, hist
    <2>2. Tracked' = Tracked
      BY <2>1 DEF Tracked
    <2>3. QED
      BY <2>1, <2>2 DEF Inv, TypeOK, Started, TrackedOrDropped, Running,
         DroppedIsSignalled, DownTracksNothing, HeldIsUntracked
  <1>5. QED
    BY <1>1, <1>2, <1>3, <1>4 DEF Next

\* The invariant holds in every reachable state.
THEOREM SupervisorInvariant == Spec => []Inv
  BY InitInv, NextInv, PTL DEF Spec

\* The states the supervisor, the daemons and the operator reach are well
\* typed.
THEOREM TypeCorrect == Spec => []TypeOK
  <1>1. Inv => TypeOK
    BY DEF Inv
  <1>2. QED
    BY <1>1, SupervisorInvariant, PTL

\* No daemon is forgotten: run_boot's rescans, reaping and starts never leave a
\* running daemon of its own untracked and unsignalled.
THEOREM NoDaemonForgotten == Spec => []NoOrphan
  <1>1. Inv => NoOrphan
    BY DEF Inv, TypeOK, TrackedOrDropped, DroppedIsSignalled, NoOrphan, Forsaken
  <1>2. QED
    BY <1>1, SupervisorInvariant, PTL

\* A supervisor that is down leaves running only daemons it had de-registered
\* before, and those of a supervisor killed before its handlers were in place.
THEOREM ShutdownIsClean == Spec => []ShutdownLeavesNothing
  <1>1. Inv => ShutdownLeavesNothing
    <2> SUFFICES ASSUME Inv, sup = "down", NEW p \in Proc \ byHand, Running(p),
                        p \notin Forsaken
                 PROVE  p \in dropped
      BY DEF ShutdownLeavesNothing
    <2>1. p[1] \in Id /\ p # NoProc
      BY SupervisorAssumption DEF Proc
    <2>2. children[p[1]] # p
      BY <2>1 DEF Inv, DownTracksNothing, Tracked
    <2>3. QED
      BY <2>2 DEF Inv, TrackedOrDropped, Forsaken
  <1>2. QED
    BY <1>1, SupervisorInvariant, PTL

\* A node that is held back after its daemon exited is not started again by
\* the supervisor.
THEOREM HeldIsNotRespawned == Spec => []HeldStaysDown
  <1>1. Inv => HeldStaysDown
    <2> SUFFICES ASSUME Inv, NEW i \in dead, NEW k \in 1..MaxProc,
                        st[<<i, k>>] \in Starting,
                        <<i, k>> \notin byHand \cup Forsaken
                 PROVE  <<i, k>> \in term
      BY DEF Inv, HeldIsUntracked, HeldStaysDown
    <2>1. i \in Id /\ <<i, k>> \in Proc /\ <<i, k>> # NoProc
      BY SupervisorAssumption DEF Inv, TypeOK, Proc
    <2>2. children[i] = NoProc
      BY <2>1 DEF Inv, HeldIsUntracked, Tracked
    <2>3. Running(<<i, k>>) /\ st[<<i, k>>] # "exiting"
      BY DEF Running, Alive, Starting
    <2>4. <<i, k>> \in dropped
      BY <2>1, <2>2, <2>3 DEF Inv, TrackedOrDropped, Forsaken
    <2>5. QED
      BY <2>3, <2>4 DEF Inv, DroppedIsSignalled
  <1>2. QED
    BY <1>1, SupervisorInvariant, PTL
=============================================================================
