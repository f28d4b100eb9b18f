---------------------------- MODULE MCMachScan ----------------------------
(***************************************************************************)
(* Instances of MachScan, and what the documentation says of a scan.       *)
(***************************************************************************)
EXTENDS MachScan

CONSTANTS x, y, z

\* README.md: "a scan you stop picks up exactly where it left off".  When the
\* scan is over, every row has its result.
StoppedScanCompletes ==
    phase = "done" /\ ~ Hungup =>
        \A r \in Row : status[r] \in Final \cup {"absent"}

Live == {"queued", "scanning", "processing"}

\* Rows of the list that wait for a worker or are with one, rows with a result,
\* and rows a failed call left behind.
Waiting    == {r \in Row \ spoiled : status[r] \in Live}
Settled    == {r \in Row : status[r] \in Final}
LeftBehind == {r \in spoiled : status[r] \in Live}
CalledOver == phase = "done" /\ ~ Hungup

MachJob == INSTANCE ScanJob WITH
    Item <- Row, todo <- Waiting, settled <- Settled, lost <- LeftBehind,
    over <- CalledOver

\* MachScan implements ScanJob: no step of the workers, of a stop and a resume,
\* or of a crash makes a row disappear, and the scan is called over only when
\* every row that no failed call left behind has its result.
MachKeepsItems == MachJob!SjSpec
===========================================================================
