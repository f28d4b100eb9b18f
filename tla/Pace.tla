-------------------------------- MODULE Pace --------------------------------
(***************************************************************************)
(* The pace that all chunks of a workflow share against one host: every    *)
(* probe outcome goes into a health window; every TickEvery outcomes one   *)
(* of the chunks advances the rate controller and publishes its directive. *)
(* The window and the controller have a lock each, the published values    *)
(* are atomics, and nothing holds over the whole of observe().             *)
(*                                                                         *)
(* Concurrency is counted in 1/Unit of a task.  No latency is known here,  *)
(* so the score is what the worst class of failures leaves.                *)
(***************************************************************************)
EXTENDS Integers, Sequences, SequencesExt, FiniteSets

CONSTANTS
    Chunk,         \* the chunks that observe
    WindowCap,     \* WINDOW_CAP
    TickEvery,     \* TICK_EVERY
    MinSamples,    \* MIN_SAMPLES
    HealthyPm,     \* failures per mille of the window at healthy_wm ...
    StressedPm,    \*   ... and at stressed_wm
    Unit, MaxConc, \* parts of a task; caps.max_concurrency
    DelayStep, DelayRelief, MaxDelay,
    BaseDelay,     \* the delay the workflow asks for
    MaxSick        \* bound: outcomes that are failures

ASSUME PaceAssumption ==
    /\ WindowCap \in Nat \ {0} /\ TickEvery \in Nat \ {0} /\ MinSamples \in Nat
    /\ HealthyPm \in Nat /\ StressedPm \in Nat /\ HealthyPm < StressedPm
    /\ Unit \in Nat \ {0} /\ MaxConc \in Nat \ {0}
    /\ DelayStep \in Nat /\ DelayRelief \in Nat \ {0} /\ MaxDelay \in Nat /\ BaseDelay \in Nat
    /\ MaxSick \in Nat /\ IsFiniteSet(Chunk)

VARIABLES
    pcWindow,    \* HealthWindow.buf
    pcSince,     \* since_tick
    pcConc, pcHold, pcSlow,   \* the controller: conc, delay_ms, slow_start
    pcDelay, pcTasks,         \* published: delay_ms, tasks
    pcAt,        \* per chunk: where in observe() it is
    pcSaw,       \* per chunk: what its snapshot says
    pcDir,       \* per chunk: the directive it has to publish
    pcSick       \* failures so far

pcControl == <<pcConc, pcHold, pcSlow>>
pcShown == <<pcDelay, pcTasks>>
pcVars == <<pcWindow, pcSince, pcControl, pcShown, pcAt, pcSaw, pcDir, pcSick>>

Failing == {"limited", "server", "dropped"}
ProbeClass == {"answered"} \cup Failing
Health == {"few", "healthy", "fair", "stressed"}
Directive == [tasks : 1..MaxConc, delay : 0..MaxDelay]

Least(m, n) == IF m < n THEN m ELSE n
Greatest(m, n) == IF m < n THEN n ELSE m

PaceTypeOK ==
    /\ Range(pcWindow) \subseteq ProbeClass /\ Len(pcWindow) <= WindowCap
    /\ pcSince \in 0..(TickEvery + Cardinality(Chunk))
    /\ pcConc \in Unit..(MaxConc * Unit) /\ pcHold \in 0..MaxDelay /\ pcSlow \in BOOLEAN
    /\ pcDelay \in 0..Greatest(MaxDelay, BaseDelay) /\ pcTasks \in 1..MaxConc
    /\ pcAt \in [Chunk -> {"observe", "reset", "stats", "tick", "delay", "tasks"}]
    /\ pcSaw \in [Chunk -> Health] /\ pcDir \in [Chunk -> Directive]
    /\ pcSick \in 0..MaxSick

\* target_pace: a fresh entry of the map, with new_optimistic; or the controller
\* of a subdomain scan, which starts slowly (new).
PaceInit ==
    /\ pcWindow = <<>> /\ pcSince = 0
    /\ pcSlow \in BOOLEAN
    /\ pcConc = IF pcSlow THEN Unit ELSE MaxConc * Unit
    /\ pcHold = Least(BaseDelay, MaxDelay)
    /\ pcDelay = BaseDelay /\ pcTasks = MaxConc
    /\ pcAt = [c \in Chunk |-> "observe"]
    /\ pcSaw = [c \in Chunk |-> "few"]
    /\ pcDir = [c \in Chunk |-> [tasks |-> 1, delay |-> 0]]
    /\ pcSick = 0

InObserve(c, here, next) == pcAt[c] = here /\ pcAt' = [pcAt EXCEPT ![c] = next]

\* HealthWindow.record: the oldest outcome falls off a full window.
Recorded(class) ==
    IF Len(pcWindow) < WindowCap THEN Append(pcWindow, class) ELSE Append(Tail(pcWindow), class)

\* An outcome is classified, recorded and counted.
Observe(c, class) ==
    /\ InObserve(c, "observe", IF pcSince + 1 >= TickEvery THEN "reset" ELSE "observe")
    /\ class \in Failing => pcSick < MaxSick
    /\ pcSick' = IF class \in Failing THEN pcSick + 1 ELSE pcSick
    /\ pcWindow' = Recorded(class)
    /\ pcSince' = pcSince + 1
    /\ UNCHANGED <<pcControl, pcShown, pcSaw, pcDir>>

ResetCount(c) ==
    /\ InObserve(c, "reset", "stats")
    /\ pcSince' = 0
    /\ UNCHANGED <<pcWindow, pcControl, pcShown, pcSaw, pcDir, pcSick>>

\* stats and score: the worst class of failures against the two watermarks.
CountOf(class) == Cardinality({i \in 1..Len(pcWindow) : pcWindow[i] = class})
Score ==
    LET total == Len(pcWindow)
        AtMost(pm) == \A class \in Failing : 1000 * CountOf(class) <= pm * total
        AtLeast(pm) == \E class \in Failing : 1000 * CountOf(class) >= pm * total
    IN IF total < MinSamples THEN "few"
       ELSE IF AtMost(HealthyPm) THEN "healthy"
       ELSE IF AtLeast(StressedPm) THEN "stressed" ELSE "fair"

Snapshot(c) ==
    /\ InObserve(c, "stats", "tick")
    /\ pcSaw' = [pcSaw EXCEPT ![c] = Score]
    /\ UNCHANGED <<pcWindow, pcSince, pcControl, pcShown, pcDir, pcSick>>

\* RateController.tick.
Faster ==
    IF pcSlow THEN <<(pcConc * 3) \div 2, 2 * ((pcConc * 3) \div 2) < MaxConc * Unit>>
    ELSE <<pcConc + Unit, FALSE>>
Within(conc) == Greatest(Unit, Least(conc, MaxConc * Unit))
Rounded(conc) == Greatest(1, Least((conc + Unit \div 2) \div Unit, MaxConc))
TickPace(c) ==
    /\ InObserve(c, "tick", "delay")
    /\ CASE pcSaw[c] = "healthy" ->
              /\ pcConc' = Within(Faster[1]) /\ pcSlow' = Faster[2]
              /\ pcHold' = Greatest(0, pcHold - DelayRelief)
         [] pcSaw[c] = "stressed" ->
              /\ pcConc' = Within(pcConc \div 2) /\ pcSlow' = FALSE
              /\ pcHold' = Least(pcHold + DelayStep, MaxDelay)
         [] OTHER -> UNCHANGED pcControl
    /\ pcDir' = [pcDir EXCEPT ![c] = [tasks |-> Rounded(pcConc'), delay |-> pcHold']]
    /\ UNCHANGED <<pcWindow, pcSince, pcShown, pcSaw, pcSick>>

PublishDelay(c) ==
    /\ InObserve(c, "delay", "tasks")
    /\ pcDelay' = pcDir[c].delay
    /\ UNCHANGED <<pcWindow, pcSince, pcControl, pcTasks, pcSaw, pcDir, pcSick>>
PublishTasks(c) ==
    /\ InObserve(c, "tasks", "observe")
    /\ pcTasks' = pcDir[c].tasks
    /\ UNCHANGED <<pcWindow, pcSince, pcControl, pcDelay, pcSaw, pcDir, pcSick>>

ObserveStep(c) ==
    \/ \E class \in ProbeClass : Observe(c, class)
    \/ ResetCount(c) \/ Snapshot(c) \/ TickPace(c) \/ PublishDelay(c) \/ PublishTasks(c)
PaceNext == \E c \in Chunk : ObserveStep(c)

\* The chunks of a host that answers run at the pace they were asked to have.
AtFullPace == pcTasks = MaxConc /\ pcDelay = 0
=============================================================================
