--------------------------- MODULE MachScanProofs ---------------------------
(***************************************************************************)
(* Proofs about MachScan, for every word list, every number of workers and *)
(* every value of the bounds.                                              *)
(***************************************************************************)
EXTENDS MCMachScan, TLAPS

\* No worker of a scan that is over, or has not begun, is at work.
IdlePool == phase # "running" => \A w \in Worker : wpc[w] \in {"off", "exited"}

\* A worker that probes has a row.
WorkingHasRow == \A w \in Worker : Working(w) => work[w] \in Row

\* The results in the table were sent, from the start of the stream on.
SentSoFar ==
    Stream /\ phase \in {"running", "done"} =>
        \A r \in Row \ spoiled : status[r] \in Final => <<r[1], status[r]>> \in events

\* A call that has locked a row found it queued, and no other has locked it.
OneLockPerRow ==
    \A w \in Worker :
        wpc[w] = "locked" =>
            /\ work[w] \in Row /\ status[work[w]] = "queued"
            /\ \A v \in Worker \ {w} : ~ Locks(v, work[w])

\* Once a worker has been told that nothing is left, or has gone, while somebody
\* listens, what is queued was put back, or another call has locked it.
DrainedMeansEmpty ==
    /\ phase \in {"running", "done"}
    /\ ~ Hungup
    /\ drained \/ \E w \in Worker : wpc[w] = "exited"
    => \A r \in Queued : r \in spoiled \/ \E v \in Worker : Locks(v, r)

\* A row that is marked is in the hands of a worker, or spoiled.
MarkedIsHeld ==
    (Stream => phase \in {"running", "done"} /\ open) =>
        \A r \in Row \ spoiled :
            \/ status[r] \in Final \cup {"absent", "queued"}
            \/ \E w \in Worker : Working(w) /\ work[w] = r

\* A scan is done only once its workers have left.
DoneMeansLeft == phase = "done" => \A w \in Worker : wpc[w] = "exited"

Inv ==
    /\ TypeOK
    /\ IdlePool
    /\ WorkingHasRow
    /\ OneWorkerPerRow
    /\ OneLockPerRow
    /\ SentSoFar
    /\ DrainedMeansEmpty
    /\ MarkedIsHeld
    /\ DoneMeansLeft

-----------------------------------------------------------------------------
\* The pool is never empty.
LEMMA WorkerZero == 0 \in Worker /\ Worker \subseteq Int /\ NumWorkers \in 1..NumWorkers
  BY MachScanAssumption DEF Worker

\* create_scan_entries and reset_halted_scan_entries write known statuses.
LEMMA InsertedType ==
  ASSUME NEW s \in [Row -> Status], NEW W \in SUBSET Word
  PROVE  /\ Inserted(s, W) \in [Row -> Status]
         /\ ResetHalted(s) \in [Row -> Status]
  BY DEF Inserted, ResetHalted, Status

\* What prepare_scan keeps of an earlier scan is a table.
LEMMA KeptType ==
  ASSUME TypeOK, NEW fresh \in BOOLEAN
  PROVE  Kept(fresh) \in [Row -> Status]
  BY DEF Kept, NoRows, TypeOK, Status

\* The table of a scan that is populated and reset has known statuses.
LEMMA PreparedType ==
  ASSUME TypeOK, NEW fresh \in BOOLEAN
  PROVE  Prepared(fresh) \in [Row -> Status]
  <1>1. Inserted(Kept(fresh), Word) \in [Row -> Status]
    BY KeptType, InsertedType
  <1>2. QED
    BY <1>1, KeptType, InsertedType DEF Prepared

\* The initial state is well typed.
LEMMA InitType == Init => TypeOK
  <1> SUFFICES ASSUME Init PROVE TypeOK
    OBVIOUS
  <1>1. open \in BOOLEAN /\ drained \in BOOLEAN
    BY DEF Init
  <1>2. status \in [Row -> Status]
    BY DEF Init, Status
  <1>3. /\ wpc \in [Worker -> PoolState]
        /\ work \in [Worker -> Row \cup {NoRow}]
        /\ outcome \in [Worker -> Final]
        /\ tries \in [Worker -> 0..MaxRetry]
    BY MachScanAssumption DEF Init, PoolState, Final
  <1>4. /\ target \in 1..NumWorkers
        /\ sessions \in 0..MaxSession /\ faults \in 0..MaxFault
        /\ crashes \in 0..MaxCrash
    BY MachScanAssumption, WorkerZero DEF Init
  <1>5. QED
    BY <1>1, <1>2, <1>3, <1>4 DEF Init, TypeOK

\* The pool as a whole changes to a well-typed state.
LEMMA AllWorkersType ==
  ASSUME NEW s \in PoolState, AllWorkers(s)
  PROVE  /\ wpc' \in [Worker -> PoolState]
         /\ work' \in [Worker -> Row \cup {NoRow}]
         /\ outcome' \in [Worker -> Final]
         /\ tries' \in [Worker -> 0..MaxRetry]
  BY MachScanAssumption DEF AllWorkers, Final

\* Every step keeps the types.
LEMMA NextType ==
  TypeOK /\ WorkingHasRow /\ OneLockPerRow /\ [Next]_vars => TypeOK'
  <1> SUFFICES ASSUME TypeOK, WorkingHasRow, OneLockPerRow, [Next]_vars PROVE TypeOK'
    OBVIOUS
  <1> USE MachScanAssumption
  <1>1. ASSUME NEW fresh \in BOOLEAN, Prepare(fresh) PROVE TypeOK'
    <2>3. status' \in [Row -> Status]
      BY <1>1, PreparedType DEF Prepare
    <2>4. wpc' \in [Worker -> PoolState]
          /\ work' \in [Worker -> Row \cup {NoRow}]
          /\ outcome' \in [Worker -> Final] /\ tries' \in [Worker -> 0..MaxRetry]
      BY <1>1, AllWorkersType DEF Prepare, PoolState
    <2>5. open' \in BOOLEAN /\ drained' \in BOOLEAN
      BY <1>1 DEF Prepare
    <2>6. target' \in 1..NumWorkers
      BY <1>1, WorkerZero DEF Prepare
    <2>7. sessions' \in 0..MaxSession /\ faults' \in 0..MaxFault /\ crashes' \in 0..MaxCrash
      BY <1>1 DEF Prepare, Request, TypeOK
    <2>8. /\ scan' \in {"absent", "created", "populated"}
          /\ phase' \in {"idle", "running", "done", "failed"}
          /\ events' \subseteq Word \X Final
          /\ spoiled' \subseteq Row
      BY <1>1 DEF Prepare, Request, KeepSpoiled, TypeOK
    <2>9. QED
      BY <2>3, <2>4, <2>5, <2>6, <2>7, <2>8 DEF TypeOK
  <1>2. ASSUME NEW fresh \in BOOLEAN, NEW W \in SUBSET Word, PrepareFails(fresh, W)
        PROVE  TypeOK'
    <2>1. status' \in [Row -> Status]
      <3>1. Inserted(Kept(fresh), W) \in [Row -> Status]
        BY KeptType, InsertedType
      <3>2. status' \in {status, Inserted(Kept(fresh), W), Prepared(fresh)}
        BY <1>2 DEF PrepareFails, FreshStartFails, PopulateFails, StartFails
      <3>3. QED
        BY <3>1, <3>2, PreparedType DEF TypeOK
    <2>2. spoiled' \subseteq Row
      BY <1>2 DEF PrepareFails, FreshStartFails, PopulateFails, StartFails,
                  KeepSpoiled, TypeOK
    <2>3. QED
      BY <1>2, <2>1, <2>2 DEF PrepareFails, Request, FreshStartFails, PopulateFails,
                              StartFails, TypeOK, wVars, ctlVars
  <1>3. ASSUME NEW w \in Worker, WorkerStep(w) PROVE TypeOK'
    <2>1. CASE Gate(w)
      BY <2>1 DEF Gate, Goto, PoolState, TypeOK, dbVars, ctlVars, bounds
    <2>2. CASE FetchNothing(w)
      BY <2>2 DEF FetchNothing, Goto, PoolState, TypeOK, dbVars, bounds
    <2>3. CASE FetchFails(w)
      <3>1. spoiled' \subseteq Row
        BY <2>3 DEF FetchFails, OneLockPerRow, TypeOK
      <3>2. status' \in [Row -> Status]
        BY <2>3 DEF FetchFails, TypeOK, Status
      <3>3. QED
        BY <2>3, <3>1, <3>2 DEF FetchFails, Forget, Goto, PoolState, TypeOK, ctlVars, Final
    <2>4. CASE Retry(w)
      BY <2>4 DEF Retry, Forget, Goto, PoolState, TypeOK, dbVars, ctlVars, bounds,
                  Final
    <2>5. CASE Record(w) \/ RecordFails(w)
      <3> USE <2>5 DEF Record, RecordFails, Forget, Goto, PoolState, TypeOK, ctlVars, bounds
      <3>1. work[w] \in Row /\ work[w][1] \in Word
        BY DEF Row, WorkingHasRow, Working
      <3>2. outcome[w] \in Final /\ outcome[w] \in Status
        BY DEF Status
      <3>3. status' \in [Row -> Status]
        BY <3>2 DEF Status
      <3>4. events' \subseteq Word \X Final
            /\ spoiled' \subseteq Row
        BY <3>1, <3>2 DEF Final
      <3>5. QED
        BY <3>3, <3>4 DEF Final
    <2>6. CASE \E r \in Row : Fetch(w, r)
      BY <2>6 DEF Fetch, Goto, PoolState, TypeOK, dbVars, ctlVars, bounds
    <2>9. CASE Marked(w)
      <3>1. status' \in [Row -> Status]
        BY <2>9 DEF Marked, TypeOK, Status
      <3>2. wpc' \in [Worker -> PoolState] /\ tries' \in [Worker -> 0..MaxRetry]
        BY <2>9 DEF Marked, Goto, PoolState, TypeOK
      <3>3. QED
        BY <2>9, <3>1, <3>2 DEF Marked, TypeOK, ctlVars, bounds
    <2>7. CASE \E o \in Final : Probe(w, o)
      BY <2>7 DEF Probe, Goto, PoolState, TypeOK, dbVars, ctlVars, bounds
    <2>8. QED
      BY <1>3, <2>1, <2>2, <2>3, <2>4, <2>5, <2>6, <2>7, <2>9 DEF WorkerStep
  <1>4. ASSUME NEW n \in 1..NumWorkers, Tick(n) PROVE TypeOK'
    BY <1>4 DEF Tick, TypeOK, dbVars, wVars, bounds
  <1>5. CASE ProberFails \/ Crash
    <2>1. AllWorkers("off")
      BY <1>5 DEF ProberFails, Crash
    <2>2. open' \in BOOLEAN /\ drained' \in BOOLEAN
      BY <1>5 DEF ProberFails, Crash, TypeOK, ctlVars
    <2>3. QED
      BY <1>5, <2>1, <2>2, AllWorkersType
         DEF ProberFails, Crash, TypeOK, dbVars, ctlVars, PoolState
  <1>6. CASE Finish \/ FinishFails \/ DeleteScan
    BY <1>6 DEF Finish, FinishFails, DeleteScan, NoRows, TypeOK,
                dbVars, wVars, ctlVars, bounds, Status
  <1>9. CASE Disconnect
    <2>1. open' \in BOOLEAN
      BY <1>9 DEF Disconnect
    <2>2. QED
      BY <1>9, <2>1 DEF Disconnect, TypeOK, dbVars, wVars, ctlVars, bounds
  <1>7. CASE UNCHANGED vars
    BY <1>7 DEF vars, dbVars, wVars, ctlVars, bounds, TypeOK
  <1>8. QED
    BY <1>1, <1>2, <1>3, <1>4, <1>5, <1>6, <1>7, <1>9 DEF Next

-----------------------------------------------------------------------------
(* Rows *)

\* A worker's step gives it the row it took, and only that row.
LEMMA RowsNext ==
  TypeOK /\ IdlePool /\ WorkingHasRow /\ OneWorkerPerRow /\ OneLockPerRow /\ [Next]_vars
  => (IdlePool /\ WorkingHasRow /\ OneWorkerPerRow /\ OneLockPerRow)'
  <1> SUFFICES ASSUME TypeOK, IdlePool, WorkingHasRow, OneWorkerPerRow, OneLockPerRow,
                      [Next]_vars
               PROVE  (IdlePool /\ WorkingHasRow /\ OneWorkerPerRow /\ OneLockPerRow)'
    OBVIOUS
  <1> DEFINE Rows == IdlePool /\ WorkingHasRow /\ OneWorkerPerRow /\ OneLockPerRow
  <1>1. ASSUME \A w \in Worker : wpc'[w] \in {"off", "exited"} PROVE Rows'
    BY <1>1 DEF Working, IdlePool, WorkingHasRow, OneWorkerPerRow, OneLockPerRow, Locks
  <1>2. ASSUME NEW fresh \in BOOLEAN, Prepare(fresh) PROVE Rows'
    BY <1>2 DEF Prepare, AllWorkers, Working, IdlePool, WorkingHasRow,
                OneWorkerPerRow, OneLockPerRow, Locks
  <1>3. ASSUME NEW fresh \in BOOLEAN, NEW W \in SUBSET Word, PrepareFails(fresh, W)
        PROVE  Rows'
    BY <1>1, <1>3 DEF PrepareFails, Request, wVars, Working, IdlePool
  <1>4. ASSUME NEW w \in Worker, WorkerStep(w) PROVE Rows'
    <2>1. CASE Gate(w) \/ FetchNothing(w)
      BY <2>1 DEF Gate, FetchNothing, Goto, TypeOK, dbVars, Working,
                  IdlePool, WorkingHasRow, OneWorkerPerRow, OneLockPerRow, Locks
    <2>2. CASE FetchFails(w)
      BY <2>2 DEF FetchFails, Forget, Goto, TypeOK, Working,
                  IdlePool, WorkingHasRow, OneWorkerPerRow, OneLockPerRow, Locks
    <2>3. CASE Retry(w)
      BY <2>3 DEF Retry, Forget, Goto, TypeOK, dbVars, Working,
                  IdlePool, WorkingHasRow, OneWorkerPerRow, OneLockPerRow, Locks
    <2>4. CASE Record(w) \/ RecordFails(w)
      BY <2>4 DEF Record, RecordFails, Forget, Goto, TypeOK, Working,
                  IdlePool, WorkingHasRow, OneWorkerPerRow, OneLockPerRow, Locks
    <2>5. CASE \E r \in Row : Fetch(w, r)
      <3>1. PICK r \in Row : Fetch(w, r)
        BY <2>5
      <3>2. phase' = "running"
        BY <3>1 DEF Fetch, IdlePool
      <3>3. QED
        BY <3>1, <3>2 DEF Fetch, Available, Queued, Goto, TypeOK, dbVars, Working,
                  IdlePool, WorkingHasRow, OneWorkerPerRow, OneLockPerRow, Locks
    <2>6. CASE \E o \in Final : Probe(w, o)
      BY <2>6 DEF Probe, Goto, TypeOK, dbVars, Working,
                  IdlePool, WorkingHasRow, OneWorkerPerRow, OneLockPerRow, Locks
    <2>8. CASE Marked(w)
      <3>1. phase' = "running"
        BY <2>8 DEF Marked, IdlePool
      <3>2. QED
        BY <2>8, <3>1 DEF Marked, Goto, TypeOK, Working,
                  IdlePool, WorkingHasRow, OneWorkerPerRow, OneLockPerRow, Locks
    <2>7. QED
      BY <1>4, <2>1, <2>2, <2>3, <2>4, <2>5, <2>6, <2>8 DEF WorkerStep
  <1>5. ASSUME NEW n \in 1..NumWorkers, Tick(n) PROVE Rows'
    BY <1>5 DEF Tick, dbVars, wVars, Working, IdlePool, WorkingHasRow,
                OneWorkerPerRow, OneLockPerRow, Locks
  <1>6. CASE ProberFails \/ Crash
    BY <1>1, <1>6 DEF ProberFails, Crash, AllWorkers, Working
  <1>7. CASE Finish \/ FinishFails
    BY <1>1, <1>7 DEF Finish, FinishFails, wVars, Working
  <1>8. CASE DeleteScan
    BY <1>1, <1>8 DEF DeleteScan, wVars, Working, IdlePool
  <1>9. CASE Disconnect \/ UNCHANGED vars
    BY <1>9 DEF Disconnect, vars, dbVars, wVars, Working, IdlePool,
                WorkingHasRow, OneWorkerPerRow, OneLockPerRow, Locks
  <1>10. QED
    BY <1>2, <1>3, <1>4, <1>5, <1>6, <1>7, <1>8, <1>9 DEF Next

-----------------------------------------------------------------------------
(* The stream *)

\* A result reaches the table and the stream in the same step, or its row is
\* spoiled.
LEMMA SentNext ==
  TypeOK /\ IdlePool /\ WorkingHasRow /\ SentSoFar /\ [Next]_vars => SentSoFar'
  <1> SUFFICES ASSUME TypeOK, IdlePool, WorkingHasRow, SentSoFar, [Next]_vars,
                      Stream, phase' \in {"running", "done"},
                      NEW r \in Row \ spoiled', status'[r] \in Final
               PROVE  <<r[1], status'[r]>> \in events'
    BY DEF SentSoFar
  <1>1. ASSUME NEW fresh \in BOOLEAN, Prepare(fresh) PROVE FALSE
    <2>1. status' = ResetHalted(Inserted(NoRows, Word))
      BY <1>1 DEF Prepare, Prepared, MustPopulate, Kept
    <2>2. QED
      BY <2>1 DEF ResetHalted, Inserted, NoRows, Final
  <1>2. ASSUME NEW fresh \in BOOLEAN, NEW W \in SUBSET Word, PrepareFails(fresh, W)
        PROVE  FALSE
    BY <1>2 DEF PrepareFails
  <1>3. ASSUME NEW w \in Worker, WorkerStep(w)
        PROVE  <<r[1], status'[r]>> \in events'
    <2>0. phase' = phase
      BY <1>3 DEF WorkerStep, Gate, FetchNothing, FetchFails, Retry, Record,
                  RecordFails, Fetch, Marked, Probe
    <2>1. CASE Gate(w) \/ FetchNothing(w) \/ Retry(w) \/ \E o \in Final : Probe(w, o)
      BY <2>0, <2>1 DEF Gate, FetchNothing, Retry, Probe, dbVars, SentSoFar
    <2>2. CASE FetchFails(w) \/ Marked(w) \/ \E s \in Row : Fetch(w, s)
      BY <2>0, <2>2 DEF FetchFails, Fetch, Marked, dbVars, TypeOK, SentSoFar, Final
    <2>3. CASE Record(w)
      BY <2>0, <2>3 DEF Record, TypeOK, SentSoFar
    <2>4. CASE RecordFails(w)
      BY <2>0, <2>4 DEF RecordFails, TypeOK, SentSoFar, Final
    <2>5. QED
      BY <1>3, <2>1, <2>2, <2>3, <2>4 DEF WorkerStep
  <1>4. ASSUME NEW n \in 1..NumWorkers, Tick(n)
        PROVE  <<r[1], status'[r]>> \in events'
    BY <1>4 DEF Tick, dbVars, SentSoFar
  <1>5. CASE ProberFails \/ Crash \/ FinishFails
    BY <1>5 DEF ProberFails, Crash, FinishFails
  <1>6. CASE Finish \/ Disconnect \/ UNCHANGED vars
    BY <1>6 DEF Finish, Disconnect, vars, dbVars, SentSoFar
  <1>7. CASE DeleteScan
    BY <1>7 DEF DeleteScan, NoRows, Final
  <1>8. QED
    BY <1>1, <1>2, <1>3, <1>4, <1>5, <1>6, <1>7 DEF Next

-----------------------------------------------------------------------------
(* The queue *)

\* Once a worker was told that nothing is left, a row is queued only behind the
\* lock of another call, or by a call that failed.
LEMMA DrainedNext ==
  TypeOK /\ IdlePool /\ WorkingHasRow /\ DrainedMeansEmpty /\ [Next]_vars
  => DrainedMeansEmpty'
  <1> SUFFICES ASSUME TypeOK, IdlePool, WorkingHasRow, DrainedMeansEmpty,
                      [Next]_vars,
                      phase' \in {"running", "done"}, ~ Hungup',
                      drained' \/ \E w \in Worker : wpc'[w] = "exited",
                      NEW r \in Row, status'[r] = "queued"
               PROVE  r \in spoiled' \/ \E v \in Worker : Locks(v, r)'
    BY DEF DrainedMeansEmpty, Queued
  <1> DEFINE Excused == r \in spoiled' \/ \E v \in Worker : Locks(v, r)'
  <1>1. ASSUME NEW fresh \in BOOLEAN, Prepare(fresh) PROVE FALSE
    BY <1>1 DEF Prepare, AllWorkers
  <1>2. ASSUME NEW fresh \in BOOLEAN, NEW W \in SUBSET Word, PrepareFails(fresh, W)
        PROVE  FALSE
    BY <1>2 DEF PrepareFails
  <1>3. ASSUME NEW w \in Worker, WorkerStep(w) PROVE Excused
    <2>0. phase' = phase /\ Hungup' = Hungup
      BY <1>3 DEF WorkerStep, Gate, FetchNothing, FetchFails, Retry, Record,
                  RecordFails, Fetch, Marked, Probe, Hungup
    <2>1. CASE Gate(w)
      BY <2>0, <2>1 DEF Gate, Goto, TypeOK, dbVars, ctlVars, Queued,
                        DrainedMeansEmpty, Locks
    <2>2. CASE FetchNothing(w)
      <3>1. PICK v \in Worker : Locks(v, r)
        BY <2>2 DEF FetchNothing, dbVars, Queued, Available
      <3>2. v # w /\ wpc'[v] = wpc[v] /\ work' = work
        BY <2>2, <3>1 DEF FetchNothing, Goto, Locks, TypeOK
      <3>3. QED
        BY <3>1, <3>2 DEF Locks
    <2>3. CASE Retry(w) \/ \E o \in Final : Probe(w, o)
      BY <2>0, <2>3 DEF Retry, Probe, Forget, Goto, TypeOK, dbVars, ctlVars,
                        Queued, DrainedMeansEmpty, Locks
    <2>8. CASE \E s \in Row : Fetch(w, s)
      BY <2>0, <2>8 DEF Fetch, Goto, TypeOK, dbVars, ctlVars,
                        Queued, DrainedMeansEmpty, Locks
    <2>9. CASE Marked(w)
      BY <2>0, <2>9 DEF Marked, Goto, TypeOK, ctlVars,
                        Queued, DrainedMeansEmpty, Locks
    <2>4. CASE FetchFails(w)
      BY <2>0, <2>4 DEF FetchFails, Forget, Goto, TypeOK, ctlVars,
                        Queued, DrainedMeansEmpty, Locks
    <2>5. CASE Record(w)
      <3>1. outcome[w] # "queued"
        BY DEF TypeOK, Final
      <3>2. QED
        BY <2>0, <2>5, <3>1 DEF Record, Forget, Goto, TypeOK, ctlVars, Queued,
                                DrainedMeansEmpty, Locks
    <2>6. CASE RecordFails(w)
      BY <2>0, <2>6 DEF RecordFails, Forget, Goto, TypeOK, ctlVars, Queued,
                        DrainedMeansEmpty, Locks
    <2>7. QED
      BY <1>3, <2>1, <2>2, <2>3, <2>4, <2>5, <2>6, <2>8, <2>9 DEF WorkerStep
  <1>4. ASSUME NEW n \in 1..NumWorkers, Tick(n) PROVE Excused
    BY <1>4 DEF Tick, dbVars, wVars, Hungup, Queued, DrainedMeansEmpty, Locks
  <1>5. CASE ProberFails \/ Crash \/ FinishFails
    BY <1>5 DEF ProberFails, Crash, FinishFails
  <1>6. CASE Finish \/ UNCHANGED vars
    BY <1>6 DEF Finish, vars, dbVars, wVars, ctlVars, Hungup, Queued,
                DrainedMeansEmpty, Locks
  <1>7. CASE Disconnect
    BY <1>7 DEF Disconnect, Hungup
  <1>8. CASE DeleteScan
    BY <1>8 DEF DeleteScan, NoRows
  <1>9. QED
    BY <1>1, <1>2, <1>3, <1>4, <1>5, <1>6, <1>7, <1>8 DEF Next

\* The table that a request starts from has no marked row that is not spoiled.
LEMMA KeptMarks ==
  ASSUME TypeOK, IdlePool, MarkedIsHeld, NEW fresh \in BOOLEAN, phase # "running",
         KeepSpoiled(fresh), NEW r \in Row \ spoiled'
  PROVE  Kept(fresh)[r] \in Final \cup {"absent", "queued"}
  <1>1. CASE Stream \/ fresh
    BY <1>1 DEF Kept, NoRows
  <1>2. CASE ~ (Stream \/ fresh)
    BY <1>2 DEF Kept, KeepSpoiled, MarkedIsHeld, IdlePool, Working
  <1>3. QED
    BY <1>1, <1>2

\* Inserting and resetting rows marks none.
LEMMA PreparedMarks ==
  ASSUME NEW fresh \in BOOLEAN, NEW W \in SUBSET Word, NEW r \in Row,
         Kept(fresh)[r] \in Final \cup {"absent", "queued"}
  PROVE  /\ Inserted(Kept(fresh), W)[r] \in Final \cup {"absent", "queued"}
         /\ Prepared(fresh)[r] \in Final \cup {"absent", "queued"}
  <1>1. /\ Inserted(Kept(fresh), W)[r] \in Final \cup {"absent", "queued"}
        /\ Inserted(Kept(fresh), Word)[r] \in Final \cup {"absent", "queued"}
    BY DEF Inserted
  <1>2. QED
    BY <1>1 DEF Prepared, ResetHalted

\* A row is marked when a worker takes it, and a worker that gives up its row
\* records it or spoils it, as long as somebody listens.
LEMMA MarkedNext ==
  TypeOK /\ IdlePool /\ WorkingHasRow /\ OneWorkerPerRow /\ MarkedIsHeld /\ [Next]_vars
  => MarkedIsHeld'
  <1> SUFFICES ASSUME TypeOK, IdlePool, WorkingHasRow, OneWorkerPerRow, MarkedIsHeld,
                      [Next]_vars,
                      Stream => phase' \in {"running", "done"} /\ open',
                      NEW r \in Row \ spoiled'
               PROVE  \/ status'[r] \in Final \cup {"absent", "queued"}
                      \/ \E w \in Worker : Working(w)' /\ work'[w] = r
    BY DEF MarkedIsHeld
  <1> DEFINE Good == \/ status'[r] \in Final \cup {"absent", "queued"}
                     \/ \E w \in Worker : Working(w)' /\ work'[w] = r
  <1>1. ASSUME NEW fresh \in BOOLEAN, Prepare(fresh) PROVE Good
    BY <1>1, KeptMarks, PreparedMarks DEF Prepare, Request
  <1>2. ASSUME NEW fresh \in BOOLEAN, NEW W \in SUBSET Word, PrepareFails(fresh, W)
        PROVE  Good
    <2>1. ~ Stream /\ phase # "running"
      BY <1>2 DEF PrepareFails, Request
    <2>2. CASE FreshStartFails(fresh)
      BY <2>1, <2>2 DEF FreshStartFails, MarkedIsHeld, IdlePool, Working
    <2>3. CASE PopulateFails(fresh, W) \/ StartFails(fresh)
      BY <2>1, <2>3, KeptMarks, PreparedMarks DEF PopulateFails, StartFails
    <2>4. QED
      BY <1>2, <2>2, <2>3 DEF PrepareFails
  <1>3. ASSUME NEW w \in Worker, WorkerStep(w) PROVE Good
    <2>0. phase' = phase /\ open' = open
      BY <1>3 DEF WorkerStep, Gate, FetchNothing, FetchFails, Retry, Record,
                  RecordFails, Fetch, Marked, Probe
    <2>1. CASE Gate(w) \/ FetchNothing(w)
      BY <2>0, <2>1 DEF Gate, FetchNothing, Goto, TypeOK, dbVars, Working,
                        MarkedIsHeld
    <2>2. CASE FetchFails(w)
      BY <2>0, <2>2 DEF FetchFails, Forget, Goto, TypeOK, Working, MarkedIsHeld
    <2>3. CASE Retry(w)
      BY <2>0, <2>3 DEF Retry, Hungup, TypeOK, dbVars, Working,
                        MarkedIsHeld
    <2>4. CASE Record(w)
      BY <2>0, <2>4 DEF Record, Forget, Goto, TypeOK, Working, MarkedIsHeld
    <2>5. CASE RecordFails(w)
      BY <2>0, <2>5 DEF RecordFails, Forget, Goto, TypeOK, Working, MarkedIsHeld
    <2>6. CASE \E s \in Row : Fetch(w, s)
      BY <2>0, <2>6 DEF Fetch, Goto, TypeOK, dbVars, Working, MarkedIsHeld
    <2>9. CASE Marked(w)
      BY <2>0, <2>9 DEF Marked, Goto, TypeOK, Working, MarkedIsHeld
    <2>7. CASE \E o \in Final : Probe(w, o)
      BY <2>0, <2>7 DEF Probe, Goto, TypeOK, dbVars, Working, MarkedIsHeld
    <2>8. QED
      BY <1>3, <2>1, <2>2, <2>3, <2>4, <2>5, <2>6, <2>7, <2>9 DEF WorkerStep
  <1>4. ASSUME NEW n \in 1..NumWorkers, Tick(n) PROVE Good
    BY <1>4 DEF Tick, dbVars, wVars, Working, MarkedIsHeld
  <1>5. CASE ProberFails
    BY <1>5 DEF ProberFails, dbVars, Working, MarkedIsHeld
  <1>6. CASE Crash
    <2>1. ~ Stream
      BY <1>6 DEF Crash
    <2>2. r \notin spoiled /\ status[r] # "scanning" /\ status'[r] = status[r]
      BY <1>6 DEF Crash, dbVars
    <2>3. \A w \in Worker : Working(w) => work[w] # r
      BY <2>2 DEF OneWorkerPerRow
    <2>4. QED
      BY <2>1, <2>2, <2>3 DEF MarkedIsHeld
  <1>7. CASE Finish \/ FinishFails \/ Disconnect \/ UNCHANGED vars
    BY <1>7 DEF Finish, FinishFails, Disconnect, vars, dbVars, wVars,
                Working, MarkedIsHeld
  <1>8. CASE DeleteScan
    BY <1>8 DEF DeleteScan, NoRows
  <1>9. QED
    BY <1>1, <1>2, <1>3, <1>4, <1>5, <1>6, <1>7, <1>8 DEF Next

\* The done event comes after the last worker.
LEMMA DoneNext == TypeOK /\ IdlePool /\ DoneMeansLeft /\ [Next]_vars => DoneMeansLeft'
  <1> SUFFICES ASSUME TypeOK, IdlePool, DoneMeansLeft, [Next]_vars, phase' = "done"
               PROVE  \A w \in Worker : wpc'[w] = "exited"
    BY DEF DoneMeansLeft
  <1>1. ASSUME NEW w \in Worker, WorkerStep(w) PROVE FALSE
    BY <1>1 DEF WorkerStep, Gate, FetchNothing, FetchFails, Retry, Record,
                RecordFails, Fetch, Marked, Probe, DoneMeansLeft
  <1>2. QED
    BY <1>1 DEF Next, Prepare, PrepareFails, Tick, ProberFails, Finish, FinishFails,
                DeleteScan, Disconnect, Crash, vars, wVars, DoneMeansLeft

-----------------------------------------------------------------------------
(* The theorems *)

\* The invariant holds initially.
LEMMA InitInv == Init => Inv
  <1> SUFFICES ASSUME Init PROVE Inv
    OBVIOUS
  <1>1. TypeOK
    BY InitType
  <1>2. IdlePool /\ WorkingHasRow /\ OneWorkerPerRow /\ OneLockPerRow
    BY DEF Init, IdlePool, WorkingHasRow, OneWorkerPerRow, OneLockPerRow, Working
  <1>3. SentSoFar /\ DrainedMeansEmpty /\ MarkedIsHeld /\ DoneMeansLeft
    BY DEF Init, SentSoFar, DrainedMeansEmpty, MarkedIsHeld, DoneMeansLeft, Final
  <1>4. QED
    BY <1>1, <1>2, <1>3 DEF Inv

\* Inv is an invariant of a scan: it holds initially and every step of the
\* workers, the controller, the client and the database preserves it.
THEOREM Invariance == Spec => []Inv
  <1>1. Inv /\ [Next]_vars => Inv'
    BY NextType, RowsNext, SentNext, DrainedNext, MarkedNext, DoneNext DEF Inv
  <1>2. QED
    BY InitInv, <1>1, PTL DEF Spec

\* A scan is well typed in every reachable state.
THEOREM TypeCorrect == Spec => []TypeOK
  <1>1. Inv => TypeOK
    BY DEF Inv
  <1>2. QED
    BY Invariance, <1>1, PTL

\* get_work_one never hands a row to two workers, in whatever order they run,
\* and what a failed or interrupted scan left in the table does not change that.
THEOREM RowsTheorem == Spec => []OneWorkerPerRow
  <1>1. Inv => OneWorkerPerRow
    BY DEF Inv
  <1>2. QED
    BY Invariance, <1>1, PTL

\* A scan that ends while somebody listens has a result for every row, however
\* the controller moved the target and whenever the client, the database or the
\* daemon failed before, except for the rows that a failure left behind.
THEOREM CompletenessTheorem == Spec => []ScanComplete
  <1>1. ASSUME Inv PROVE ScanComplete
    <2> SUFFICES ASSUME phase = "done", ~ Hungup, NEW r \in Row \ spoiled
                 PROVE  status[r] \in Final \cup {"absent"}
      BY DEF ScanComplete
    <2>1. \A w \in Worker : wpc[w] = "exited" /\ ~ Working(w) /\ \A q : ~ Locks(w, q)
      BY <1>1 DEF Inv, DoneMeansLeft, Working, Locks
    <2>2. status[r] # "queued"
      BY <1>1, <2>1, WorkerZero DEF Inv, DrainedMeansEmpty, Queued
    <2>3. QED
      BY <1>1, <2>1, <2>2 DEF Inv, MarkedIsHeld, Hungup
  <1>2. QED
    BY Invariance, <1>1, PTL

\* At the end of a stream, the client was sent every result in the table.
THEOREM DeliveryTheorem == Spec => []ResultsDelivered
  <1>1. Inv => ResultsDelivered
    BY DEF Inv, SentSoFar, ResultsDelivered
  <1>2. QED
    BY Invariance, <1>1, PTL

-----------------------------------------------------------------------------
(* MachScan implements ScanJob *)

\* The rows of a list that an instant scan keeps are never removed, those that
\* a failure left behind included.
SpoiledIsThere == ~ Stream => \A r \in spoiled : status[r] # "absent"

\* The steps that can change a row, or what is known of one.
LEMMA QuietStep ==
  ASSUME UNCHANGED <<status, spoiled>>
  PROVE  Waiting' = Waiting /\ Settled' = Settled /\ LeftBehind' = LeftBehind
  BY DEF Waiting, Settled, LeftBehind

\* create_scan_entries and reset_halted_scan_entries leave the results alone,
\* and no row they find is lost.
LEMMA PreparedKeepsRows ==
  ASSUME TypeOK, NEW fresh \in BOOLEAN, NEW W \in SUBSET Word, ~ Stream, ~ fresh,
         NEW t \in {Inserted(Kept(fresh), W), Prepared(fresh)}, NEW r \in Row
  PROVE  /\ status[r] \in Final => t[r] = status[r]
         /\ status[r] \in Live => t[r] \in Live
         /\ status[r] = "absent" => t[r] \in {"absent", "queued"}
  <1>1. Kept(fresh) = status
    BY DEF Kept
  <1>2. ASSUME NEW V \in SUBSET Word
        PROVE  /\ Inserted(status, V)[r] = status[r]
                    \/ (status[r] = "absent" /\ Inserted(status, V)[r] = "queued")
               /\ Inserted(status, V) \in [Row -> Status]
    BY InsertedType DEF Inserted, TypeOK
  <1>3. ASSUME NEW s \in [Row -> Status]
        PROVE  ResetHalted(s)[r] = s[r]
                 \/ (s[r] = "processing" /\ ResetHalted(s)[r] = "queued")
    BY DEF ResetHalted
  <1>4. CASE t = Inserted(Kept(fresh), W)
    BY <1>1, <1>2, <1>4 DEF Live, Final, TypeOK
  <1>5. CASE t = Prepared(fresh)
    <2>1. PICK s \in {status, Inserted(status, Word)} : t = ResetHalted(s)
      BY <1>1, <1>5 DEF Prepared
    <2>2. s \in [Row -> Status] /\ (s[r] = status[r] \/ (status[r] = "absent" /\ s[r] = "queued"))
      BY <1>2, <2>1 DEF TypeOK
    <2>3. t[r] = s[r] \/ (s[r] = "processing" /\ t[r] = "queued")
      BY <1>3, <2>1, <2>2
    <2>4. QED
      BY <2>2, <2>3 DEF Live, Final
  <1>6. QED
    BY <1>4, <1>5

\* A request: what an instant scan had is kept, with new rows; a stream or a
\* fresh start begins with a table of its own, unless it fails before that.
LEMMA RequestRows ==
  ASSUME TypeOK, NEW fresh \in BOOLEAN, NEW W \in SUBSET Word,
         Prepare(fresh) \/ PrepareFails(fresh, W)
  PROVE  \/ UNCHANGED <<status, spoiled>>
         \/ /\ Stream \/ fresh
            /\ spoiled' = {}
            /\ \A r \in Row : status'[r] \in {"absent", "queued"}
         \/ /\ ~ Stream /\ ~ fresh
            /\ spoiled' = spoiled
            /\ status' \in {Inserted(Kept(fresh), W), Prepared(fresh)}
  <1>1. \/ UNCHANGED <<status, spoiled>>
        \/ status' \in {Inserted(Kept(fresh), W), Prepared(fresh)} /\ KeepSpoiled(fresh)
    BY DEF Prepare, PrepareFails, FreshStartFails, PopulateFails, StartFails
  <1>2. ASSUME Stream \/ fresh, NEW r \in Row
        PROVE  /\ Inserted(Kept(fresh), W)[r] \in {"absent", "queued"}
               /\ Prepared(fresh)[r] \in {"absent", "queued"}
    <2>1. Kept(fresh) = NoRows /\ MustPopulate(fresh)
      BY <1>2 DEF Kept, MustPopulate
    <2>2. \A V \in SUBSET Word : Inserted(NoRows, V)[r] \in {"absent", "queued"}
      BY DEF Inserted, NoRows
    <2>3. Prepared(fresh) = ResetHalted(Inserted(NoRows, Word))
      BY <2>1 DEF Prepared
    <2>4. QED
      BY <2>1, <2>2, <2>3 DEF ResetHalted
  <1>3. QED
    BY <1>1, <1>2 DEF KeepSpoiled

\* What a step of a worker does to the rows: nothing, or it takes a queued row,
\* settles or gives up the row it holds, or fails to take one.
LEMMA WorkerRows ==
  ASSUME Inv, NEW w \in Worker, WorkerStep(w)
  PROVE  /\ phase = "running" /\ phase' = "running"
         /\ \/ UNCHANGED <<status, spoiled>>
            \/ \E r \in Row, s \in Status :
                  /\ status' = [status EXCEPT ![r] = s]
                  /\ status[r] \in {"queued", "scanning"}
                  /\ s \in Final \cup Live
                  /\ spoiled' \in {spoiled, spoiled \cup {r}}
  <1>1. phase \in {"idle", "running", "done", "failed"} /\ wpc[w] \in PoolState
        /\ outcome[w] \in Final /\ status \in [Row -> Status]
    BY DEF Inv, TypeOK
  <1>2. wpc[w] \notin {"off", "exited"}
    BY DEF WorkerStep, Gate, FetchNothing, FetchFails, Retry, Record, RecordFails,
           Fetch, Marked, Probe
  <1>3. phase = "running" /\ phase' = "running"
    BY <1>2 DEF Inv, IdlePool, WorkerStep, Gate, FetchNothing, FetchFails, Retry,
                Record, RecordFails, Fetch, Marked, Probe
  <1>4. CASE \/ Gate(w) \/ FetchNothing(w) \/ Retry(w)
             \/ (\E o \in Final : Probe(w, o)) \/ (\E r \in Row : Fetch(w, r))
    BY <1>3, <1>4 DEF Gate, FetchNothing, Retry, Probe, Fetch, dbVars
  <1>5. ASSUME wpc[w] = "locked"
        PROVE  work[w] \in Row /\ status[work[w]] = "queued"
    BY <1>5 DEF Inv, OneLockPerRow
  <1>11. CASE Marked(w)
    <2>1. /\ status' = [status EXCEPT ![work[w]] = "scanning"]
          /\ spoiled' = spoiled /\ wpc[w] = "locked"
      BY <1>11 DEF Marked
    <2>2. QED
      BY <1>3, <1>5, <2>1 DEF Status, Live
  <1>6. CASE FetchFails(w)
    <2>1. CASE wpc[w] = "fetch"
      BY <1>3, <1>6, <2>1 DEF FetchFails
    <2>2. CASE wpc[w] = "locked"
      <3>1. /\ \/ status' = [status EXCEPT ![work[w]] = "scanning"]
               \/ status' = status
            /\ spoiled' = spoiled \cup {work[w]}
        BY <1>6, <2>2 DEF FetchFails
      <3>2. status = [status EXCEPT ![work[w]] = "queued"]
        BY <1>1, <1>5, <2>2
      <3>3. \E s \in {"queued", "scanning"} : status' = [status EXCEPT ![work[w]] = s]
        BY <3>1, <3>2
      <3>4. QED
        BY <1>3, <1>5, <2>2, <3>1, <3>3 DEF Status, Live
    <2>3. QED
      BY <1>6, <2>1, <2>2 DEF FetchFails
  <1>7. ASSUME wpc[w] = "record"
        PROVE  work[w] \in Row /\ status[work[w]] = "scanning"
    BY <1>7 DEF Inv, WorkingHasRow, OneWorkerPerRow, Working
  <1>8. CASE Record(w)
    <2>1. /\ status' = [status EXCEPT ![work[w]] = outcome[w]]
          /\ spoiled' = spoiled /\ wpc[w] = "record"
      BY <1>8 DEF Record
    <2>2. QED
      BY <1>1, <1>3, <1>7, <2>1 DEF Status
  <1>9. CASE RecordFails(w)
    <2>1. /\ spoiled' = spoiled \cup {work[w]} /\ wpc[w] = "record"
          /\ \E s \in {"queued", "scanning", outcome[w]} :
                status' = [status EXCEPT ![work[w]] = s]
      BY <1>9 DEF RecordFails
    <2>2. QED
      BY <1>1, <1>3, <1>7, <2>1 DEF Status, Live
  <1>10. QED
    BY <1>4, <1>6, <1>8, <1>9, <1>11 DEF WorkerStep

\* No step removes a row of an instant scan and keeps it in mind as spoiled.
LEMMA SpoiledNext == Inv /\ SpoiledIsThere /\ [Next]_vars => SpoiledIsThere'
  <1> SUFFICES ASSUME Inv, SpoiledIsThere, [Next]_vars, ~ Stream, NEW q \in spoiled'
               PROVE  status'[q] # "absent"
    BY DEF SpoiledIsThere
  <1>0. TypeOK /\ status \in [Row -> Status] /\ spoiled \subseteq Row
    BY DEF Inv, TypeOK
  <1>1. ASSUME NEW fresh \in BOOLEAN, NEW W \in SUBSET Word,
               Prepare(fresh) \/ PrepareFails(fresh, W)
        PROVE  status'[q] # "absent"
    <2>1. CASE UNCHANGED <<status, spoiled>>
      BY <2>1 DEF SpoiledIsThere
    <2>2. CASE /\ ~ fresh /\ spoiled' = spoiled
               /\ status' \in {Inserted(Kept(fresh), W), Prepared(fresh)}
      <3>1. q \in Row /\ status[q] \in Live \cup Final
        BY <1>0, <2>2 DEF SpoiledIsThere, Status, Live
      <3>2. status'[q] \in Live \cup Final
        BY <1>0, <2>2, <3>1, PreparedKeepsRows
      <3>3. QED
        BY <3>2 DEF Live, Final
    <2>3. QED
      BY <1>0, <1>1, <2>1, <2>2, RequestRows
  <1>2. ASSUME NEW w \in Worker, WorkerStep(w) PROVE status'[q] # "absent"
    <2>1. CASE UNCHANGED <<status, spoiled>>
      BY <2>1 DEF SpoiledIsThere
    <2>2. ASSUME NEW r \in Row, NEW s \in Final \cup Live,
                 status' = [status EXCEPT ![r] = s],
                 spoiled' \in {spoiled, spoiled \cup {r}}
          PROVE  status'[q] # "absent"
      BY <1>0, <2>2 DEF SpoiledIsThere, Final, Live
    <2>3. QED
      BY <1>2, <2>1, <2>2, WorkerRows
  <1>3. CASE Crash
    BY <1>0, <1>3 DEF Crash, SpoiledIsThere, dbVars
  <1>4. CASE ProberFails \/ Finish \/ FinishFails \/ Disconnect \/ UNCHANGED vars
             \/ \E n \in 1..NumWorkers : Tick(n)
    BY <1>4 DEF ProberFails, Finish, FinishFails, Disconnect, Tick, vars, dbVars,
                SpoiledIsThere
  <1>5. ~ DeleteScan
    BY DEF DeleteScan
  <1>6. QED
    BY <1>1, <1>2, <1>3, <1>4, <1>5 DEF Next

\* A request admits rows, or starts afresh.
LEMMA RequestImplements ==
  ASSUME Inv, SpoiledIsThere, NEW fresh \in BOOLEAN, NEW W \in SUBSET Word,
         Prepare(fresh) \/ PrepareFails(fresh, W)
  PROVE  MachJob!Admit \/ MachJob!Restart
  <1>0. TypeOK /\ status \in [Row -> Status] /\ spoiled \subseteq Row
    BY DEF Inv, TypeOK
  <1>1. CalledOver' = FALSE
    <2>1. phase' # "done"
      BY DEF Prepare, PrepareFails
    <2>2. QED
      BY <2>1 DEF CalledOver
  <1>2. CASE UNCHANGED <<status, spoiled>>
    <2>1. Waiting' = Waiting \cup {} /\ LeftBehind' = LeftBehind \ {} /\ Settled' = Settled
      BY <1>2, QuietStep
    <2>2. QED
      BY <1>1, <2>1 DEF MachJob!Admit
  <1>3. CASE /\ spoiled' = {}
             /\ \A r \in Row : status'[r] \in {"absent", "queued"}
    <2>1. Settled' = {} /\ LeftBehind' = {} /\ Waiting' \in SUBSET Row
      BY <1>3 DEF Settled, LeftBehind, Waiting, Final
    <2>2. QED
      BY <1>1, <2>1 DEF MachJob!Restart
  <1>4. CASE /\ ~ Stream /\ ~ fresh /\ spoiled' = spoiled
             /\ status' \in {Inserted(Kept(fresh), W), Prepared(fresh)}
    <2>1. \A r \in Row : /\ status[r] \in Final => status'[r] = status[r]
                         /\ status[r] \in Live => status'[r] \in Live
                         /\ status[r] = "absent" => status'[r] \in {"absent", "queued"}
      BY <1>0, <1>4, PreparedKeepsRows
    <2>2. \A r \in Row : status[r] \in Final \cup Live \cup {"absent"}
      BY <1>0 DEF Status, Live
    <2>3. Settled' = Settled
      BY <2>1, <2>2 DEF Settled, Final, Live
    <2>4. LeftBehind' = LeftBehind
      BY <1>0, <1>4, <2>1, <2>2 DEF LeftBehind, SpoiledIsThere, Final, Live
    <2>5. Waiting \subseteq Waiting'
      BY <1>4, <2>1 DEF Waiting
    <2>6. Waiting' \subseteq Row \ Settled /\ Waiting' \cap LeftBehind = {}
      BY <1>4, <2>1 DEF Waiting, Settled, LeftBehind, Final, Live
    <2>7. /\ Waiting' \in SUBSET (Row \ Settled)
          /\ Waiting' = Waiting \cup Waiting' /\ LeftBehind' = LeftBehind \ Waiting'
      BY <2>4, <2>5, <2>6
    <2>8. QED
      BY <1>1, <2>3, <2>7 DEF MachJob!Admit
  <1>5. QED
    BY <1>0, <1>2, <1>3, <1>4, RequestRows

\* A worker settles a row, loses one, or moves on among those that wait.
LEMMA WorkerImplements ==
  ASSUME Inv, NEW w \in Worker, WorkerStep(w)
  PROVE  MachJob!Settle \/ MachJob!Lose \/ UNCHANGED MachJob!sjVars
  <1>0. status \in [Row -> Status] /\ spoiled \subseteq Row
    BY DEF Inv, TypeOK
  <1>1. ~ CalledOver /\ CalledOver' = CalledOver
    BY WorkerRows DEF CalledOver
  <1>2. CASE UNCHANGED <<status, spoiled>>
    BY <1>1, <1>2, QuietStep DEF MachJob!sjVars
  <1>3. ASSUME NEW r \in Row, NEW s \in Final,
               status' = [status EXCEPT ![r] = s],
               status[r] \in {"queued", "scanning"},
               spoiled' \in {spoiled, spoiled \cup {r}}
        PROVE  MachJob!Settle
    <2>1. {r} \in SUBSET (Row \ Settled)
      BY <1>3 DEF Settled, Final
    <2>2. Waiting' = Waiting \ {r}
      BY <1>0, <1>3 DEF Waiting, Live, Final
    <2>3. LeftBehind' = LeftBehind \ {r}
      BY <1>0, <1>3 DEF LeftBehind, Live, Final
    <2>4. Settled' = Settled \cup {r}
      BY <1>0, <1>3 DEF Settled
    <2>5. QED
      BY <1>1, <2>1, <2>2, <2>3, <2>4 DEF MachJob!Settle
  <1>4. ASSUME NEW r \in Row, NEW s \in Live,
               status' = [status EXCEPT ![r] = s],
               status[r] \in {"queued", "scanning"},
               spoiled' \in {spoiled, spoiled \cup {r}}
        PROVE  MachJob!Lose
    <2>1. Settled' = Settled
      BY <1>0, <1>4 DEF Settled, Live, Final
    <2>2. \A q \in Row : status'[q] \in Live <=> status[q] \in Live
      BY <1>0, <1>4 DEF Live
    <2>3. spoiled' \subseteq Row
      BY <1>0, <1>4
    <2>4. CASE spoiled' = spoiled
      <3>1. Waiting' = Waiting \ {} /\ LeftBehind' = LeftBehind \cup {}
        BY <1>0, <2>2, <2>4 DEF Waiting, LeftBehind
      <3>2. QED
        BY <1>1, <2>1, <3>1 DEF MachJob!Lose
    <2>5. CASE spoiled' = spoiled \cup {r}
      <3>1. status[r] \in Live
        BY <1>4 DEF Live
      <3>2. Waiting' = Waiting \ ({r} \ spoiled)
        BY <2>2, <2>5 DEF Waiting
      <3>3. LeftBehind' = LeftBehind \cup ({r} \ spoiled)
        BY <1>0, <2>2, <2>5, <3>1 DEF LeftBehind
      <3>4. {r} \ spoiled \in SUBSET Waiting
        BY <3>1 DEF Waiting
      <3>5. QED
        BY <1>1, <2>1, <3>2, <3>3, <3>4 DEF MachJob!Lose
    <2>6. QED
      BY <1>4, <2>4, <2>5
  <1>5. QED
    BY <1>2, <1>3, <1>4, WorkerRows

\* Every step of a scan is one of the promised kind, or changes nothing of it.
LEMMA StepImplements ==
  Inv /\ SpoiledIsThere /\ [Next]_vars => [MachJob!SjNext]_(MachJob!sjVars)
  <1> SUFFICES ASSUME Inv, SpoiledIsThere, [Next]_vars
               PROVE  MachJob!SjNext \/ UNCHANGED MachJob!sjVars
    OBVIOUS
  <1>0. status \in [Row -> Status] /\ spoiled \subseteq Row
    BY DEF Inv, TypeOK
  <1>1. ASSUME NEW fresh \in BOOLEAN, NEW W \in SUBSET Word,
               Prepare(fresh) \/ PrepareFails(fresh, W)
        PROVE  MachJob!SjNext
    BY <1>1, RequestImplements DEF MachJob!SjNext
  <1>2. ASSUME NEW w \in Worker, WorkerStep(w)
        PROVE  MachJob!SjNext \/ UNCHANGED MachJob!sjVars
    BY <1>2, WorkerImplements DEF MachJob!SjNext
  <1>3. CASE Finish
    <2>1. UNCHANGED <<status, spoiled>> /\ phase = "running" /\ phase' = "done" /\ open' = open
      BY <1>3 DEF Finish, dbVars
    <2>2. Waiting' = Waiting /\ Settled' = Settled /\ LeftBehind' = LeftBehind
      BY <2>1, QuietStep
    <2>3. CASE Hungup
      <3>1. CalledOver' = CalledOver
        BY <2>1, <2>3 DEF CalledOver, Hungup
      <3>2. QED
        BY <2>2, <3>1 DEF MachJob!sjVars
    <2>4. CASE ~ Hungup
      <3>1. CalledOver' = TRUE
        BY <2>1, <2>4 DEF CalledOver, Hungup
      <3>2. ASSUME NEW r \in Row \ spoiled PROVE status[r] \notin Live
        <4>1. \A w \in Worker : wpc[w] = "exited" /\ ~ Working(w) /\ \A q : ~ Locks(w, q)
          BY <1>3 DEF Finish, Working, Locks
        <4>2. status[r] # "queued"
          BY <2>1, <2>4, <4>1, WorkerZero DEF Inv, DrainedMeansEmpty, Queued
        <4>3. status[r] \in Final \cup {"absent"}
          BY <2>1, <2>4, <4>1, <4>2 DEF Inv, MarkedIsHeld, Hungup
        <4>4. QED
          BY <4>3 DEF Final, Live
      <3>3. Waiting = {}
        BY <3>2 DEF Waiting
      <3>4. QED
        BY <2>2, <3>1, <3>3 DEF MachJob!SjNext, MachJob!End
    <2>5. QED
      BY <2>3, <2>4
  <1>4. CASE DeleteScan
    <2>1. \A r \in Row : status'[r] = "absent"
      BY <1>4 DEF DeleteScan, NoRows
    <2>2. spoiled' = spoiled /\ CalledOver' = CalledOver
      BY <1>4 DEF DeleteScan, CalledOver, Hungup
    <2>3. Waiting' = {} /\ Settled' = {} /\ LeftBehind' = {}
      BY <1>0, <2>1, <2>2 DEF Waiting, Settled, LeftBehind, Final, Live
    <2>4. QED
      BY <2>2, <2>3 DEF MachJob!SjNext, MachJob!Discard
  <1>5. CASE Crash
    <2>1. /\ phase = "running" /\ phase' = "idle" /\ status' = status
          /\ spoiled' = spoiled \cup {r \in Row : status[r] = "scanning"}
      BY <1>5 DEF Crash, dbVars
    <2>2. ~ CalledOver /\ CalledOver' = CalledOver
      BY <2>1 DEF CalledOver
    <2>3. PICK S : S = {r \in Row \ spoiled : status[r] = "scanning"}
      OBVIOUS
    <2>4. S \in SUBSET Waiting
      BY <2>3 DEF Waiting, Live
    <2>5. Waiting' = Waiting \ S
      BY <2>1, <2>3 DEF Waiting
    <2>6. LeftBehind' = LeftBehind \cup S
      BY <1>0, <2>1, <2>3 DEF LeftBehind, Live
    <2>7. Settled' = Settled
      BY <2>1 DEF Settled
    <2>8. QED
      BY <2>2, <2>4, <2>5, <2>6, <2>7 DEF MachJob!SjNext, MachJob!Lose
  <1>6. CASE ProberFails \/ FinishFails \/ Disconnect \/ UNCHANGED vars
             \/ \E n \in 1..NumWorkers : Tick(n)
    <2>1. UNCHANGED <<status, spoiled>>
      BY <1>6 DEF ProberFails, FinishFails, Disconnect, Tick, vars, dbVars
    <2>2. CalledOver' = CalledOver
      BY <1>6 DEF ProberFails, FinishFails, Disconnect, Tick, vars, CalledOver, Hungup
    <2>3. QED
      BY <2>1, <2>2, QuietStep DEF MachJob!sjVars
  <1>7. QED
    BY <1>1, <1>2, <1>3, <1>4, <1>5, <1>6 DEF Next

\* A scan keeps what ScanJob promises, whatever its workers, its database, its
\* client and the daemon do: no row disappears but with the whole table, each
\* gets a result of its own or is left behind by a fault, and the scan is called
\* over only when no other row is left.
THEOREM MachImplementsScanJob == Spec => MachKeepsItems
  <1>1. Init => SpoiledIsThere
    BY DEF Init, SpoiledIsThere
  <1>2. Spec => [](Inv /\ SpoiledIsThere)
    BY Invariance, SpoiledNext, <1>1, PTL DEF Spec
  <1>3. ASSUME Init PROVE MachJob!SjInit
    <2>1. Waiting = {} /\ Settled = {} /\ LeftBehind = {}
      BY <1>3 DEF Init, Waiting, Settled, LeftBehind, Final, Live
    <2>2. CalledOver = FALSE
      BY <1>3 DEF Init, CalledOver
    <2>3. QED
      BY <2>1, <2>2 DEF MachJob!SjInit
  <1>4. QED
    BY <1>2, <1>3, StepImplements, PTL DEF Spec, MachKeepsItems, MachJob!SjSpec
=============================================================================
