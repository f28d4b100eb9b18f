----------------------------- MODULE MachScan -----------------------------
(***************************************************************************)
(* A mach scan: prepare_scan and the scan_entries table, the workers that  *)
(* take rows from it (fixed pool or adaptive pool), the controller that    *)
(* sets how many may work, the stream to the client, and what a stopped    *)
(* scan leaves for the next request of the same list.                      *)
(*                                                                         *)
(* A row is <<word, c>>: the c-th time the word was inserted for this      *)
(* scan.  One scan request is served at a time.                            *)
(***************************************************************************)
EXTENDS Integers, FiniteSets

CONSTANTS
    Word,
    NumWorkers,   \* config.tasks
    NoRow,
    Stream,       \* the request is streamed, and so isolated; else instant
    RateOn,       \* adaptive_rate
    MaxRetry,     \* retries of one probe
    MaxCopies,    \* bound: populations of one scan
    MaxSession,   \* bound: scan requests
    MaxFault,     \* bound: failed database calls
    MaxCrash      \* bound: crashes of the daemon

ASSUME MachScanAssumption ==
    /\ NumWorkers \in Nat \ {0} /\ MaxCopies \in Nat \ {0}
    /\ Stream \in BOOLEAN /\ RateOn \in BOOLEAN
    /\ MaxRetry \in Nat /\ MaxSession \in Nat
    /\ MaxFault \in Nat /\ MaxCrash \in Nat
    /\ RateOn => Stream   \* run_headless has only the fixed pool
    /\ NoRow \notin Word \X (1..MaxCopies)

Row    == Word \X (1..MaxCopies)
Worker == 0..(NumWorkers - 1)

Final  == {"found", "not_found", "error"}
PoolState == {"off", "gate", "fetch", "locked", "probe", "record", "exited"}
Status == Final \cup {"absent", "queued", "scanning", "processing"}

VARIABLES
    scan,      \* the scans row: "absent", "created" or "populated"
    status,    \* scan_entries
    phase,     \* the request: "idle", "running", "done" or "failed"
    open,      \* the client reads the stream
    wpc, work, outcome, tries,   \* the workers
    target,    \* target_conc
    drained,
    events,    \* result events sent in this session: <<word, status>>
    spoiled,   \* history: rows a failed database call or a crash left behind
    sessions, faults, crashes

dbVars   == <<scan, status>>
wVars    == <<wpc, work, outcome, tries>>
ctlVars  == <<target, drained>>
bounds   == <<sessions, faults, crashes>>
vars == <<dbVars, phase, open, wVars, ctlVars, events, spoiled, bounds>>

TypeOK ==
    /\ scan \in {"absent", "created", "populated"}
    /\ status \in [Row -> Status]
    /\ phase \in {"idle", "running", "done", "failed"}
    /\ open \in BOOLEAN
    /\ wpc \in [Worker -> PoolState]
    /\ work \in [Worker -> Row \cup {NoRow}]
    /\ outcome \in [Worker -> Final]
    /\ tries \in [Worker -> 0..MaxRetry]
    /\ target \in 1..NumWorkers
    /\ drained \in BOOLEAN
    /\ events \subseteq Word \X Final
    /\ spoiled \subseteq Row
    /\ sessions \in 0..MaxSession
    /\ faults \in 0..MaxFault
    /\ crashes \in 0..MaxCrash

Init ==
    /\ scan = "absent"
    /\ status = [r \in Row |-> "absent"]
    /\ phase = "idle"
    /\ open = FALSE
    /\ wpc = [w \in Worker |-> "off"]
    /\ work = [w \in Worker |-> NoRow]
    /\ outcome = [w \in Worker |-> "error"]
    /\ tries = [w \in Worker |-> 0]
    /\ target = NumWorkers
    /\ drained = FALSE
    /\ events = {}
    /\ spoiled = {}
    /\ sessions = 0 /\ faults = 0 /\ crashes = 0

-----------------------------------------------------------------------------
(* prepare_scan *)

\* The pool is in state s, and no worker has a row.
AllWorkers(s) ==
    /\ wpc' = [w \in Worker |-> s]
    /\ work' = [w \in Worker |-> NoRow]
    /\ outcome' = [w \in Worker |-> "error"]
    /\ tries' = [w \in Worker |-> 0]

NoRows == [r \in Row |-> "absent"]

\* find_scan: a stream scan has a hash of its own and finds nothing; a fresh
\* start deletes the rows of the scan it finds.
Kept(fresh) == IF Stream \/ fresh THEN NoRows ELSE status

\* History: a table that is kept keeps its spoiled rows.
KeepSpoiled(fresh) == spoiled' = IF Stream \/ fresh THEN {} ELSE spoiled

\* The scan must be populated: it is new, fresh, or a population failed.
MustPopulate(fresh) == Stream \/ fresh \/ scan # "populated"

\* create_scan_entries: one more queued row for each word of W.
Inserted(s, W) ==
    [r \in Row |-> IF /\ r[1] \in W
                      /\ s[r] = "absent"
                      /\ \A c \in 1..(r[2] - 1) : s[<<r[1], c>>] # "absent"
                   THEN "queued" ELSE s[r]]

\* reset_halted_scan_entries
ResetHalted(s) == [r \in Row |-> IF s[r] = "processing" THEN "queued" ELSE s[r]]

\* The table once it is populated and reset.
Prepared(fresh) ==
    ResetHalted(IF MustPopulate(fresh) THEN Inserted(Kept(fresh), Word) ELSE Kept(fresh))

RoomFor(fresh, W) ==
    MustPopulate(fresh) =>
        \A x \in W : \E c \in 1..MaxCopies : Kept(fresh)[<<x, c>>] = "absent"

\* A scan request is taken.
Request ==
    /\ phase \in {"idle", "done", "failed"}
    /\ sessions < MaxSession
    /\ sessions' = sessions + 1

\* A request that is prepared without an error: the workers start.
Prepare(fresh) ==
    /\ Request
    /\ RoomFor(fresh, Word)
    /\ scan' = "populated"
    /\ status' = Prepared(fresh)
    /\ phase' = "running"
    /\ open' = Stream
    /\ AllWorkers("gate")
    /\ target' = IF RateOn THEN 1 ELSE NumWorkers
    /\ drained' = FALSE
    /\ events' = {}
    /\ KeepSpoiled(fresh)
    /\ UNCHANGED <<faults, crashes>>

\* fresh_start_scan fails after its first statement.
FreshStartFails(fresh) ==
    /\ fresh /\ ~ Stream /\ scan # "absent"
    /\ scan' = "created"
    /\ UNCHANGED <<status, spoiled>>

\* create_scan_entries fails after the batches of W, or set_scan_status after
\* all of them: the scan stays "created" and keeps the rows.
PopulateFails(fresh, W) ==
    /\ MustPopulate(fresh)
    /\ RoomFor(fresh, W)
    /\ scan' = "created"
    /\ status' = Inserted(Kept(fresh), W)
    /\ KeepSpoiled(fresh)

\* The scan is there, but its rows cannot be counted, or the client is gone
\* before the ack: nobody runs it.
StartFails(fresh) ==
    /\ RoomFor(fresh, Word)
    /\ scan' = "populated"
    /\ status' = Prepared(fresh)
    /\ KeepSpoiled(fresh)

PrepareFails(fresh, W) ==
    /\ Request
    /\ faults < MaxFault
    /\ faults' = faults + 1
    /\ FreshStartFails(fresh) \/ PopulateFails(fresh, W) \/ StartFails(fresh)
    /\ phase' = "idle"
    /\ UNCHANGED <<open, wVars, ctlVars, events, crashes>>

-----------------------------------------------------------------------------
(* task_handle and adaptive_task_handle *)

Hungup == Stream /\ ~ open
Parked(w) == RateOn /\ w >= target

Goto(w, s) == wpc' = [wpc EXCEPT ![w] = s]

\* The end of an iteration: the row and what was learnt of it are locals.
Forget(w, s) ==
    /\ Goto(w, s)
    /\ work' = [work EXCEPT ![w] = NoRow]
    /\ outcome' = [outcome EXCEPT ![w] = "error"]
    /\ tries' = [tries EXCEPT ![w] = 0]

\* Top of the loop: a parked worker leaves when the queue drained or nobody
\* listens, and waits otherwise; one that may work leaves when nobody listens.
Gate(w) ==
    /\ wpc[w] = "gate"
    /\ IF Parked(w)
       THEN (drained \/ Hungup) /\ Goto(w, "exited")
       ELSE Goto(w, IF Hungup THEN "exited" ELSE "fetch")
    /\ UNCHANGED <<dbVars, phase, open, work, outcome, tries, ctlVars, events,
                   spoiled, bounds>>

Queued == {r \in Row : status[r] = "queued"}

\* The row that a call of get_work_one has locked and not yet marked.
Locks(w, r) == wpc[w] = "locked" /\ work[w] = r

\* FOR UPDATE SKIP LOCKED: the queued rows that a call can choose from.
Available == {r \in Queued : \A v \in Worker : ~ Locks(v, r)}

\* Mutant: the row is chosen without looking at the locks.
FetchUnlocked(w, r) ==
    /\ wpc[w] = "fetch"
    /\ r \in Queued
    /\ work' = [work EXCEPT ![w] = r]
    /\ Goto(w, "locked")
    /\ UNCHANGED <<dbVars, phase, open, outcome, tries, ctlVars, events, spoiled,
                   bounds>>

\* get_work_one: the subquery chooses a queued row and locks it; until the
\* statement is committed the other calls see it queued, and skip it.
Fetch(w, r) ==
    /\ wpc[w] = "fetch"
    /\ r \in Available
    /\ work' = [work EXCEPT ![w] = r]
    /\ Goto(w, "locked")
    /\ UNCHANGED <<dbVars, phase, open, outcome, tries, ctlVars, events, spoiled,
                   bounds>>

\* The statement is committed and the call answers: the row is marked.
Marked(w) ==
    /\ wpc[w] = "locked"
    /\ status' = [status EXCEPT ![work[w]] = "scanning"]
    /\ tries' = [tries EXCEPT ![w] = 0]
    /\ Goto(w, "probe")
    /\ UNCHANGED <<scan, phase, open, work, outcome, ctlVars, events, spoiled,
                   bounds>>

\* Mutant: the parked workers are not told.
FetchNothingSilent(w) ==
    /\ wpc[w] = "fetch"
    /\ Available = {}
    /\ Goto(w, "exited")
    /\ UNCHANGED <<dbVars, phase, open, work, outcome, tries, ctlVars, events,
                   spoiled, bounds>>

\* RowNotFound: every row that is queued is locked by another call.  The worker
\* takes it for an empty queue: it tells the parked workers and leaves.
FetchNothing(w) ==
    /\ wpc[w] = "fetch"
    /\ Available = {}
    /\ drained' = TRUE
    /\ Goto(w, "exited")
    /\ UNCHANGED <<dbVars, phase, open, work, outcome, tries, target, events,
                   spoiled, bounds>>

\* A database error before a row was chosen; or after, with the row still
\* queued, though others may have left for want of it, or with the row marked,
\* by a statement whose answer was lost or that a lookup after it followed.
FetchFails(w) ==
    /\ wpc[w] \in {"fetch", "locked"}
    /\ faults < MaxFault
    /\ faults' = faults + 1
    /\ IF wpc[w] = "fetch"
       THEN UNCHANGED <<status, spoiled>>
       ELSE /\ \/ status' = [status EXCEPT ![work[w]] = "scanning"]
               \/ UNCHANGED status
            /\ spoiled' = spoiled \cup {work[w]}
    /\ Forget(w, "gate")
    /\ UNCHANGED <<scan, phase, open, ctlVars, events, sessions, crashes>>

\* Mutant: the policy never says that the attempts are used up.
RetryUnbounded(w) ==
    /\ wpc[w] = "probe" /\ ~ Hungup
    /\ tries' = [tries EXCEPT ![w] = @ + 1]
    /\ UNCHANGED <<dbVars, phase, open, wpc, work, outcome, ctlVars, events,
                   spoiled, bounds>>

\* A retryable answer, and the policy allows one more attempt; after the
\* backoff the worker leaves if nobody listens.
Retry(w) ==
    /\ wpc[w] = "probe"
    /\ tries[w] < MaxRetry
    /\ IF Hungup
       THEN Forget(w, "exited")
       ELSE /\ tries' = [tries EXCEPT ![w] = @ + 1]
            /\ UNCHANGED <<wpc, work, outcome>>
    /\ UNCHANGED <<dbVars, phase, open, ctlVars, events, spoiled, bounds>>

Probe(w, o) ==
    /\ wpc[w] = "probe"
    /\ outcome' = [outcome EXCEPT ![w] = o]
    /\ Goto(w, "record")
    /\ UNCHANGED <<dbVars, phase, open, work, tries, ctlVars, events, spoiled,
                   bounds>>

\* Mutant: the event of a request that failed is not sent.
RecordQuiet(w) ==
    LET r == work[w] IN
    /\ wpc[w] = "record"
    /\ status' = [status EXCEPT ![r] = outcome[w]]
    /\ events' = IF outcome[w] = "error" THEN events
                 ELSE events \cup {<<r[1], outcome[w]>>}
    /\ Forget(w, "gate")
    /\ UNCHANGED <<scan, phase, open, ctlVars, spoiled, bounds>>

\* record_outcome: the row gets its result, and the event is sent.
Record(w) ==
    LET r == work[w] IN
    /\ wpc[w] = "record"
    /\ status' = [status EXCEPT ![r] = outcome[w]]
    /\ events' = events \cup {<<r[1], outcome[w]>>}
    /\ Forget(w, "gate")
    /\ UNCHANGED <<scan, phase, open, ctlVars, spoiled, bounds>>

\* The update fails, or is committed and its answer lost: the row is put back,
\* unless that fails too.  After a request that failed the event is sent all the
\* same.
RecordFails(w) ==
    LET r == work[w] IN
    /\ wpc[w] = "record"
    /\ faults < MaxFault
    /\ faults' = faults + 1
    /\ \E s \in {"queued", "scanning", outcome[w]} : status' = [status EXCEPT ![r] = s]
    /\ spoiled' = spoiled \cup {r}
    /\ events' = IF outcome[w] = "error"
                 THEN events \cup {<<r[1], "error">>} ELSE events
    /\ Forget(w, "gate")
    /\ UNCHANGED <<scan, phase, open, ctlVars, sessions, crashes>>

-----------------------------------------------------------------------------
(* The controller, the end of the scan, the client and the daemon *)

\* controller_tick publishes the concurrency the rate controller asks for.
Tick(n) ==
    /\ phase = "running" /\ RateOn
    /\ n # target
    /\ target' = n
    /\ UNCHANGED <<dbVars, phase, open, wVars, drained, events, spoiled, bounds>>

\* The prober cannot be built: the scan ends without a worker and without a
\* done event.
ProberFails ==
    /\ phase = "running"
    /\ \A w \in Worker : wpc[w] = "gate" /\ work[w] = NoRow
    /\ faults < MaxFault
    /\ faults' = faults + 1
    /\ phase' = "failed"
    /\ AllWorkers("off")
    /\ UNCHANGED <<dbVars, open, ctlVars, events, spoiled, sessions, crashes>>

\* Mutant: the end does not wait for the workers.
FinishEarly ==
    /\ phase = "running"
    /\ \E w \in Worker : wpc[w] = "exited"
    /\ phase' = "done"
    /\ UNCHANGED <<dbVars, open, wVars, ctlVars, events, spoiled, bounds>>

\* Every worker was joined: the done event.
Finish ==
    /\ phase = "running"
    /\ \A w \in Worker : wpc[w] = "exited"
    /\ phase' = "done"
    /\ UNCHANGED <<dbVars, open, wVars, ctlVars, events, spoiled, bounds>>

\* The totals of the done event cannot be read: no done event.
FinishFails ==
    /\ phase = "running"
    /\ \A w \in Worker : wpc[w] = "exited"
    /\ faults < MaxFault
    /\ faults' = faults + 1
    /\ phase' = "failed"
    /\ UNCHANGED <<dbVars, open, wVars, ctlVars, events, spoiled, sessions, crashes>>

\* delete_scan: a stream scan removes its rows once it is over.
DeleteScan ==
    /\ Stream
    /\ phase \in {"done", "failed"} /\ scan # "absent"
    /\ scan' = "absent"
    /\ status' = NoRows
    /\ UNCHANGED <<phase, open, wVars, ctlVars, events, spoiled, bounds>>

\* The client of a stream goes away: a halted operation, a closed terminal.
Disconnect ==
    /\ phase = "running" /\ Stream /\ open
    /\ open' = FALSE
    /\ UNCHANGED <<dbVars, phase, wVars, ctlVars, events, spoiled, bounds>>

\* The daemon stops or dies: its tasks are gone, the tables stay.
Crash ==
    /\ phase = "running"
    /\ crashes < MaxCrash
    /\ crashes' = crashes + 1
    /\ phase' = "idle"
    /\ open' = FALSE
    /\ AllWorkers("off")
    /\ spoiled' = spoiled \cup {r \in Row : status[r] = "scanning"}
    /\ UNCHANGED <<dbVars, ctlVars, events, sessions, faults>>

-----------------------------------------------------------------------------
WorkerStep(w) ==
    \/ Gate(w) \/ FetchNothing(w) \/ FetchFails(w) \/ Retry(w)
    \/ Marked(w) \/ Record(w) \/ RecordFails(w)
    \/ \E r \in Row : Fetch(w, r)
    \/ \E o \in Final : Probe(w, o)

Next ==
    \/ \E fresh \in BOOLEAN : Prepare(fresh)
    \/ \E fresh \in BOOLEAN, W \in SUBSET Word : PrepareFails(fresh, W)
    \/ \E w \in Worker : WorkerStep(w)
    \/ \E n \in 1..NumWorkers : Tick(n)
    \/ ProberFails \/ Finish \/ FinishFails \/ DeleteScan \/ Disconnect \/ Crash

\* Every worker is a tokio task that is polled again and again, probes have a
\* timeout, and the end follows the last worker.  The controller owes nothing.
Fairness == WF_vars(Finish \/ FinishFails) /\ \A w \in Worker : WF_vars(WorkerStep(w))

Spec == Init /\ [][Next]_vars
LiveSpec == Spec /\ Fairness

-----------------------------------------------------------------------------
(* Properties *)

Working(w) == wpc[w] \in {"probe", "record"}

\* No row is probed by two workers at once, and the row a worker holds is
\* marked, so that no other can take it.
OneWorkerPerRow ==
    \A w \in Worker :
        Working(w) => /\ status[work[w]] = "scanning"
                      /\ \A v \in Worker \ {w} : Working(v) => work[v] # work[w]

\* A scan that somebody listens to until its end has a result for every row:
\* a worker leaves when every queued row is locked by another, and the end
\* waits for the rows the others still hold.  The exceptions are the rows a
\* failed database call or a crash left behind.
ScanComplete ==
    phase = "done" /\ ~ Hungup =>
        \A r \in Row \ spoiled : status[r] \in Final \cup {"absent"}

\* Every result the table holds at the end of a stream was sent to the client,
\* with the status that is in the table, but for the rows of a failed call: an
\* update that was committed with its answer lost sends none.
ResultsDelivered ==
    Stream /\ phase = "done" =>
        \A r \in Row \ spoiled : status[r] \in Final => <<r[1], status[r]>> \in events

\* A scan ends, whatever the controller does: the parked workers are told when
\* the queue is drained.
ScanEnds == phase = "running" ~> phase # "running"
===========================================================================
