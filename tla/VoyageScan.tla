---------------------------- MODULE VoyageScan ----------------------------
(***************************************************************************)
(* Subdomain enumerations of the voyage daemon that share one scan record: *)
(* the preparation of the rows, the fixed and the adaptive worker pool, a  *)
(* second enumeration of the same domain beside the first, failing         *)
(* database calls and a crash of the daemon.                               *)
(*                                                                         *)
(* Every SQL statement is one step, but for the one that takes a row: its  *)
(* subquery locks the row, and other calls run before it is committed.     *)
(* DNS and HTTP answers are choices; the retries of a transient answer end *)
(* in one of them.                                                         *)
(***************************************************************************)
EXTENDS Integers, FiniteSets

CONSTANTS
    Name,      \* the subdomains of the wordlist
    Enum,      \* requests for the same domain and wordlist
    Worker,    \* <<e, i>>: worker i of enumeration e, from 0
    Request,   \* what a request may ask for: [mode, pool, fresh]
    MaxFault,  \* bound: failing database calls
    MaxCrash   \* bound: crashes of the daemon

ASSUME VoyageAssumption ==
    /\ Worker \subseteq Enum \X Nat
    /\ \A e \in Enum : <<e, 0>> \in Worker
    /\ Request \subseteq [mode : {"stream", "instant", "queue"},
                          pool : {"fixed", "adaptive", "none"}, fresh : BOOLEAN]
    /\ MaxFault \in Nat /\ MaxCrash \in Nat

VARIABLES
    vyScan,     \* the scan record exists
    vyRow,      \* status of each row
    vyGen,      \* which insertion the rows are of; row ids are not reused
    vyReq,      \* the request of each enumeration
    vyPhase,    \* the progress of each enumeration
    vyOp,       \* its row in operations
    vyWork,     \* each worker: [st, row, gen]
    vyTarget,   \* target_conc of each enumeration
    vyDrained,  \* drained flag of each enumeration
    vyStuck,    \* history: rows left in scanning by a call that failed
    vyUnserved, \* history: enumerations that began without some of their workers
    vyFaults, vyCrashes

vyBounds == <<vyFaults, vyCrashes, vyUnserved>>
vyPool == <<vyWork, vyTarget, vyDrained>>
vyVars == <<vyScan, vyRow, vyGen, vyReq, vyPhase, vyOp, vyPool, vyStuck, vyBounds>>

NoName == "none"
Idle == [st |-> "off", row |-> NoName, gen |-> 0]
WorkerState(s) == [st |-> s, row |-> NoName, gen |-> 0]
Of(e) == {w \in Worker : w[1] = e}
Running(e) == vyPhase[e] = "running"
Preparing(e) == vyPhase[e] \in {"create", "clear", "passive", "words", "reset"}
InStatus(s) == {r \in Name : vyRow[r] = s}

\* The row is locked by a call of get_work_one that is not committed: other
\* calls skip it, and every other statement on it waits.
Locked(r) == \E v \in Worker : vyWork[v].st = "lock" /\ vyWork[v].row = r

VoyageTypeOK ==
    /\ vyScan \in BOOLEAN
    /\ vyRow \in [Name -> {"absent", "queued", "scanning", "found", "not_found"}]
    /\ vyGen \in Nat
    /\ vyReq \in [Enum -> Request]
    /\ vyPhase \in [Enum -> {"idle", "create", "clear", "passive", "words", "reset",
                             "running", "done", "failed"}]
    /\ vyOp \in [Enum -> {"none", "queued", "completed", "error"}]
    /\ vyWork \in [Worker -> [st : {"off", "poll", "empty", "lock", "work", "undo", "gone"},
                              row : Name \cup {NoName}, gen : Nat]]
    /\ vyTarget \in [Enum -> Nat \ {0}]
    /\ vyDrained \in [Enum -> BOOLEAN]
    /\ vyStuck \subseteq Name /\ vyUnserved \subseteq Enum
    /\ vyFaults \in 0..MaxFault /\ vyCrashes \in 0..MaxCrash

VoyageInit ==
    /\ vyScan = FALSE
    /\ vyRow = [r \in Name |-> "absent"]
    /\ vyGen = 0
    /\ vyReq \in [Enum -> Request]
    /\ vyPhase = [e \in Enum |-> "idle"]
    /\ vyOp = [e \in Enum |-> "none"]
    /\ vyWork = [w \in Worker |-> Idle]
    /\ vyTarget = [e \in Enum |-> 1]
    /\ vyDrained = [e \in Enum |-> FALSE]
    /\ vyStuck = {} /\ vyUnserved = {}
    /\ vyFaults = 0 /\ vyCrashes = 0

-----------------------------------------------------------------------------
(* The daemon: dispatch, handle_stream_enum and prepare_enum *)

Goto(e, p) == vyPhase' = [vyPhase EXCEPT ![e] = p]

\* A request arrives: its operation is recorded, and the scan of its domain and
\* wordlist looked up.
Begin(e) ==
    /\ vyPhase[e] = "idle"
    /\ vyOp' = [vyOp EXCEPT ![e] = "queued"]
    /\ Goto(e, IF vyScan THEN "clear" ELSE "create")
    /\ UNCHANGED <<vyScan, vyRow, vyGen, vyReq, vyPool, vyStuck, vyBounds>>

\* What the three response modes leave in operations when the preparation
\* fails: a stream leaves the row alone, a queued request calls it completed.
Failed(e) ==
    /\ Goto(e, "failed")
    /\ vyOp' = [vyOp EXCEPT ![e] = CASE vyReq[e].mode = "stream"  -> @
                                     [] vyReq[e].mode = "instant" -> "error"
                                     [] vyReq[e].mode = "queue"   -> "completed"]

\* The record is inserted; config_hash is unique, so of two requests that both
\* found none the second fails.
CreateScan(e) ==
    /\ vyPhase[e] = "create"
    /\ IF vyScan THEN Failed(e) /\ UNCHANGED vyScan
       ELSE Goto(e, "clear") /\ vyScan' = TRUE /\ UNCHANGED vyOp
    /\ UNCHANGED <<vyRow, vyGen, vyReq, vyPool, vyStuck, vyBounds>>

\* fresh_start_scan deletes the rows, whoever works on them, once none is locked.
ClearScan(e) ==
    /\ vyPhase[e] = "clear"
    /\ vyReq[e].fresh => \A r \in Name : ~ Locked(r)
    /\ Goto(e, "passive")
    /\ IF vyReq[e].fresh
       THEN /\ vyRow' = [r \in Name |-> "absent"]
            /\ vyGen' = vyGen + 1
            /\ vyStuck' = {}
       ELSE UNCHANGED <<vyRow, vyGen, vyStuck>>
    /\ UNCHANGED <<vyScan, vyReq, vyOp, vyPool, vyBounds>>

\* insert_entries_batch: rows that exist stay as they are.
InsertEntries(R, s) ==
    vyRow' = [r \in Name |-> IF r \in R /\ vyRow[r] = "absent" THEN s ELSE vyRow[r]]

\* The passive sources name some subdomains, or none, or fail.
PassiveRows(e) ==
    /\ vyPhase[e] = "passive"
    /\ Goto(e, "words")
    /\ \E R \in SUBSET Name : InsertEntries(R, "found")
    /\ UNCHANGED <<vyScan, vyGen, vyReq, vyOp, vyPool, vyStuck, vyBounds>>

WordRows(e) ==
    /\ vyPhase[e] = "words"
    /\ Goto(e, "reset")
    /\ InsertEntries(Name, "queued")
    /\ UNCHANGED <<vyScan, vyGen, vyReq, vyOp, vyPool, vyStuck, vyBounds>>

\* reset_halted_entries puts every row in scanning back, those of another
\* enumeration's workers too.
ResetHalted ==
    /\ vyRow' = [r \in Name |-> IF vyRow[r] = "scanning" THEN "queued" ELSE vyRow[r]]
    /\ vyStuck' = {}

\* The pool starts, without the workers of B, which return before their loop.  A
\* fixed pool of zero tasks has no worker.
StartPool(e, B) ==
    /\ vyPhase[e] = "reset"
    /\ ResetHalted
    /\ Goto(e, "running")
    /\ vyWork' = [w \in Worker |->
                    IF w[1] # e THEN vyWork[w]
                    ELSE WorkerState(IF w \in B \/ vyReq[e].pool = "none" THEN "gone" ELSE "poll")]
    /\ vyTarget' = [vyTarget EXCEPT ![e] = 1]
    /\ vyDrained' = [vyDrained EXCEPT ![e] = FALSE]
    /\ UNCHANGED <<vyScan, vyGen, vyReq, vyOp>>

StartWorkers(e) == StartPool(e, {}) /\ UNCHANGED vyBounds

OneFault == vyFaults < MaxFault /\ vyFaults' = vyFaults + 1 /\ UNCHANGED vyCrashes
Fault == OneFault /\ UNCHANGED vyUnserved

\* Some workers cannot build their resolver or their client.
StartShort(e) ==
    /\ OneFault
    /\ \E B \in SUBSET Of(e) \ {{}} : StartPool(e, B)
    /\ vyUnserved' = vyUnserved \cup {e}

\* The wordlist cannot be read, or a statement of the preparation fails.
PrepareFails(e) ==
    /\ Preparing(e)
    /\ Fault
    /\ Failed(e)
    /\ UNCHANGED <<vyScan, vyRow, vyGen, vyReq, vyPool, vyStuck>>

\* get_passive_results, the first statement of the scanner, fails: no worker is
\* started.  A stream ends without a done event; for the other modes the error
\* is dropped, and the operation is completed with its rows queued.
StartFails(e) ==
    /\ vyPhase[e] = "reset"
    /\ OneFault
    /\ ResetHalted
    /\ Goto(e, IF vyReq[e].mode = "stream" THEN "failed" ELSE "done")
    /\ vyOp' = [vyOp EXCEPT ![e] = IF vyReq[e].mode = "stream" THEN "error" ELSE "completed"]
    /\ vyUnserved' = vyUnserved \cup {e}
    /\ UNCHANGED <<vyScan, vyGen, vyReq, vyPool>>

\* Mutant: the handles of the workers are dropped, not awaited.
EnumDoneUnjoined(e) ==
    /\ Running(e)
    /\ Goto(e, "done")
    /\ vyOp' = [vyOp EXCEPT ![e] = "completed"]
    /\ UNCHANGED <<vyScan, vyRow, vyGen, vyReq, vyPool, vyStuck, vyBounds>>

\* Every worker has returned: the done event, and the operation is completed.
EnumDone(e) ==
    /\ Running(e)
    /\ \A w \in Of(e) : vyWork[w].st = "gone"
    /\ Goto(e, "done")
    /\ vyOp' = [vyOp EXCEPT ![e] = "completed"]
    /\ UNCHANGED <<vyScan, vyRow, vyGen, vyReq, vyPool, vyStuck, vyBounds>>

-----------------------------------------------------------------------------
(* The workers: task_handle and adaptive_task_handle *)

Adaptive(w) == vyReq[w[1]].pool = "adaptive"
Parked(w) == Adaptive(w) /\ w[2] >= vyTarget[w[1]]

WorkerGoes(w, s) == vyWork' = [vyWork EXCEPT ![w] = WorkerState(s)]
Leave(w) ==
    /\ WorkerGoes(w, "gone")
    /\ vyDrained' = [vyDrained EXCEPT ![w[1]] = @ \/ Adaptive(w)]

\* get_work_one: lock a queued row, or see none that is not locked.
Fetch(w) ==
    /\ vyWork[w].st = "poll" /\ ~ Parked(w)
    /\ \/ \E r \in InStatus("queued") :
            /\ ~ Locked(r)
            /\ vyWork' = [vyWork EXCEPT ![w] = [st |-> "lock", row |-> r, gen |-> vyGen]]
       \/ /\ \A r \in InStatus("queued") : Locked(r)
          /\ WorkerGoes(w, "empty")
    /\ UNCHANGED <<vyScan, vyRow, vyGen, vyReq, vyPhase, vyOp, vyTarget, vyDrained, vyStuck,
                   vyBounds>>

\* The statement is committed and answers: the row is the worker's.
Mark(w) ==
    /\ vyWork[w].st = "lock"
    /\ vyRow' = [vyRow EXCEPT ![vyWork[w].row] = "scanning"]
    /\ vyWork' = [vyWork EXCEPT ![w].st = "work"]
    /\ UNCHANGED <<vyScan, vyGen, vyReq, vyPhase, vyOp, vyTarget, vyDrained, vyStuck,
                   vyBounds>>

\* It fails and the row stays queued, or its answer is lost and nobody has the
\* row that it marked.
FetchFails(w) ==
    /\ vyWork[w].st = "lock"
    /\ Fault
    /\ \/ /\ vyRow' = [vyRow EXCEPT ![vyWork[w].row] = "scanning"]
          /\ vyStuck' = vyStuck \cup {vyWork[w].row}
       \/ UNCHANGED <<vyRow, vyStuck>>
    /\ WorkerGoes(w, "poll")
    /\ UNCHANGED <<vyScan, vyGen, vyReq, vyPhase, vyOp, vyTarget, vyDrained>>

\* is_scanning_active: while a row is in scanning it may come back.
CheckActive(w) ==
    /\ vyWork[w].st = "empty"
    /\ IF InStatus("scanning") # {}
       THEN WorkerGoes(w, "poll") /\ UNCHANGED vyDrained
       ELSE Leave(w)
    /\ UNCHANGED <<vyScan, vyRow, vyGen, vyReq, vyPhase, vyOp, vyTarget, vyStuck, vyBounds>>

\* The same query fails: the worker leaves as if there were none.
CheckActiveFails(w) ==
    /\ vyWork[w].st = "empty"
    /\ Fault
    /\ Leave(w)
    /\ UNCHANGED <<vyScan, vyRow, vyGen, vyReq, vyPhase, vyOp, vyTarget, vyStuck>>

\* A parked worker of a drained enumeration returns.
ParkedLeaves(w) ==
    /\ vyWork[w].st = "poll" /\ Parked(w)
    /\ vyDrained[w[1]]
    /\ WorkerGoes(w, "gone")
    /\ UNCHANGED <<vyScan, vyRow, vyGen, vyReq, vyPhase, vyOp, vyTarget, vyDrained,
                   vyStuck, vyBounds>>

\* A statement on the row a worker holds: nothing if the row was deleted.
SetRow(w, s) ==
    IF vyWork[w].gen = vyGen
    THEN /\ ~ Locked(vyWork[w].row)
         /\ vyRow' = [vyRow EXCEPT ![vyWork[w].row] = s]
         /\ vyStuck' = vyStuck \ {vyWork[w].row}
    ELSE UNCHANGED <<vyRow, vyStuck>>

Record(w) ==
    /\ vyWork[w].st = "work"
    /\ \E s \in {"found", "not_found"} : SetRow(w, s)
    /\ WorkerGoes(w, "poll")
    /\ UNCHANGED <<vyScan, vyGen, vyReq, vyPhase, vyOp, vyTarget, vyDrained, vyBounds>>

\* update_work_status fails, or is committed and its answer lost; the row is to
\* be requeued.
RecordFails(w) ==
    /\ vyWork[w].st = "work"
    /\ Fault
    /\ \/ \E s \in {"found", "not_found"} : SetRow(w, s)
       \/ UNCHANGED <<vyRow, vyStuck>>
    /\ vyWork' = [vyWork EXCEPT ![w].st = "undo"]
    /\ UNCHANGED <<vyScan, vyGen, vyReq, vyPhase, vyOp, vyTarget, vyDrained>>

\* reset_entry_to_queued.
Undo(w) ==
    /\ vyWork[w].st = "undo"
    /\ SetRow(w, "queued")
    /\ WorkerGoes(w, "poll")
    /\ UNCHANGED <<vyScan, vyGen, vyReq, vyPhase, vyOp, vyTarget, vyDrained, vyBounds>>

\* It fails too (the database is still away), and the failure is ignored.
UndoFails(w) ==
    /\ vyWork[w].st = "undo"
    /\ WorkerGoes(w, "poll")
    /\ vyStuck' = IF vyWork[w].gen = vyGen /\ vyRow[vyWork[w].row] = "scanning"
                  THEN vyStuck \cup {vyWork[w].row} ELSE vyStuck
    /\ UNCHANGED <<vyScan, vyRow, vyGen, vyReq, vyPhase, vyOp, vyTarget, vyDrained,
                   vyBounds>>

\* controller_tick: the controller's concurrency, within its caps.
ControllerTick(e) ==
    /\ Running(e) /\ vyReq[e].pool = "adaptive"
    /\ \E c \in 1..Cardinality(Of(e)) : vyTarget' = [vyTarget EXCEPT ![e] = c]
    /\ UNCHANGED <<vyScan, vyRow, vyGen, vyReq, vyPhase, vyOp, vyWork, vyDrained, vyStuck,
                   vyBounds>>

\* The daemon dies and is started again; the clients ask again.
Crash ==
    /\ vyCrashes < MaxCrash
    /\ \E e \in Enum : Preparing(e) \/ Running(e)
    /\ vyCrashes' = vyCrashes + 1
    /\ vyPhase' = [e \in Enum |-> "idle"]
    /\ vyWork' = [w \in Worker |-> Idle]
    /\ vyStuck' = {} /\ vyUnserved' = {}
    /\ UNCHANGED <<vyScan, vyRow, vyGen, vyReq, vyOp, vyTarget, vyDrained, vyFaults>>

-----------------------------------------------------------------------------
PrepareStep(e) ==
    \/ Begin(e) \/ CreateScan(e) \/ ClearScan(e) \/ PassiveRows(e) \/ WordRows(e)
    \/ StartWorkers(e)

WorkerStep(w) ==
    \/ Fetch(w) \/ Mark(w) \/ CheckActive(w) \/ ParkedLeaves(w) \/ Record(w) \/ Undo(w)

VoyageNext ==
    \/ \E e \in Enum :
        \/ PrepareStep(e) \/ PrepareFails(e) \/ StartShort(e) \/ StartFails(e)
        \/ EnumDone(e) \/ ControllerTick(e)
    \/ \E w \in Worker :
        \/ WorkerStep(w) \/ FetchFails(w) \/ CheckActiveFails(w) \/ RecordFails(w)
        \/ UndoFails(w)
    \/ Crash

VoyageSpec == VoyageInit /\ [][VoyageNext]_vyVars

-----------------------------------------------------------------------------
(* Properties *)

\* No enumeration of the scan is under way, one ended, none failed half way.
Settled == /\ \A e \in Enum : vyPhase[e] \in {"idle", "done", "failed"}
           /\ \E e \in Enum : vyPhase[e] = "done"

\* What completeness rests on: every enumeration started its whole pool, every
\* row could be put back, and no call failed in an adaptive pool, which may park
\* the one worker that would take a requeued row after another has called the
\* scan drained.
Dependable ==
    /\ vyFaults = 0 \/ \A e \in Enum : vyReq[e].pool = "fixed"
    /\ vyStuck = {} /\ vyUnserved = {}
    /\ \A e \in Enum : vyReq[e].pool # "none" /\ vyPhase[e] \in {"idle", "done"}

\* The workers end: an enumeration that runs is done in the end, unless a row
\* is left in scanning, or it is adaptive and its first worker may not have
\* started: the others wait for a target that only finished rows can raise.
EnumEnds(e) ==
    \/ vyPhase[e] \in {"idle", "done", "failed"}
    \/ vyStuck # {}
    \/ e \in vyUnserved /\ vyReq[e].pool = "adaptive"
=============================================================================
