----------------------------- MODULE Toolchain -----------------------------
(***************************************************************************)
(* The built-in package manager: install, reinstall, update and remove of  *)
(* a scan engine, as files of a directory every process of the host writes *)
(* and as a unit of the service manager.                                   *)
(*                                                                         *)
(* An operation is a sequence of steps any of which may fail or be the     *)
(* last one of its process.  Actor is the set of processes that may run    *)
(* one: commands in a terminal, and the node daemon for the dashboard.     *)
(* Engines share nothing here, so there is one; crossfyre and the node     *)
(* worker are placed by the same steps, without a service of this kind.    *)
(***************************************************************************)
EXTENDS Integers, FiniteSets

CONSTANTS
    Actor,
    MaxRelease,   \* bound: releases published
    MaxOps,       \* bound: operations begun
    MaxFault,     \* bound: steps that fail
    MaxCrash      \* bound: processes killed in an operation

ASSUME ToolchainAssumption ==
    /\ IsFiniteSet(Actor)
    /\ MaxRelease \in Nat \ {0} /\ MaxOps \in Nat
    /\ MaxFault \in Nat /\ MaxCrash \in Nat

VARIABLES
    tcRelease,   \* the version in the release manifest
    tcBin,       \* the engine's binary
    tcTmp,       \* the file next to it that place_binary writes
    tcNote,      \* the version in the sidecar file, 0 if there is none
    tcUnit,      \* the unit file exists
    tcEnabled,
    tcRun,       \* the version of the daemon that runs, 0 if none does
    tcOp,        \* per actor: what it does,
    tcPc,        \*   its next step,
    tcGot,       \*   the version in the manifest it fetched,
    tcSaid,      \*   and what it answered, until the next operation begins
    tcOps, tcFaults, tcCrashes,
    tcCrossed,   \* history: an operation began while another one ran,
    tcWentBack,  \*   the manifest went back to an earlier version,
    tcUnnoted    \*   the binary's version was not written to the sidecar file

tcFileVars == <<tcBin, tcTmp, tcNote>>
tcServiceVars == <<tcUnit, tcEnabled, tcRun>>
tcActorVars == <<tcOp, tcPc, tcGot, tcSaid>>
tcBoundVars == <<tcOps, tcFaults, tcCrashes>>
tcPast == <<tcRelease, tcCrossed, tcWentBack, tcUnnoted>>
tcVars == <<tcPast, tcFileVars, tcServiceVars, tcActorVars, tcBoundVars>>

Release == 1..MaxRelease
\* A file: the version of its contents, who is writing it, and whether a writer
\* was killed or two wrote different versions.
File == [ver : Release, writers : SUBSET Actor, spoilt : BOOLEAN]
NoFile == [ver |-> 0, writers |-> {}, spoilt |-> FALSE]
Whole(f) == f # NoFile => f.writers = {} /\ ~ f.spoilt

ToolOp == {"install", "reinstall", "update", "remove"}
ToolPc == {"fetch", "check", "download", "stop", "open", "write", "rename", "note", "unit",
           "enable", "start", "remove", "halt", "disable", "deregister", "delete", "idle"}

ToolchainTypeOK ==
    /\ tcRelease \in Release
    /\ tcBin \in File \cup {NoFile} /\ tcTmp \in File \cup {NoFile}
    /\ tcNote \in 0..MaxRelease /\ tcRun \in 0..MaxRelease
    /\ tcUnit \in BOOLEAN /\ tcEnabled \in BOOLEAN
    /\ tcOp \in [Actor -> ToolOp] /\ tcPc \in [Actor -> ToolPc]
    /\ tcGot \in [Actor -> 0..MaxRelease]
    /\ tcSaid \in [Actor -> {"none", "ok", "error"}]
    /\ tcOps \in 0..MaxOps /\ tcFaults \in 0..MaxFault /\ tcCrashes \in 0..MaxCrash
    /\ tcCrossed \in BOOLEAN /\ tcWentBack \in BOOLEAN /\ tcUnnoted \in BOOLEAN

ToolchainInit ==
    /\ tcRelease = 1
    /\ tcBin = NoFile /\ tcTmp = NoFile /\ tcNote = 0
    /\ tcUnit = FALSE /\ tcEnabled = FALSE /\ tcRun = 0
    /\ tcOp = [a \in Actor |-> "install"] /\ tcPc = [a \in Actor |-> "idle"]
    /\ tcGot = [a \in Actor |-> 0] /\ tcSaid = [a \in Actor |-> "none"]
    /\ tcOps = 0 /\ tcFaults = 0 /\ tcCrashes = 0
    /\ tcCrossed = FALSE /\ tcWentBack = FALSE /\ tcUnnoted = FALSE

-----------------------------------------------------------------------------
(* The steps of an operation *)

Goto(a, pc) == tcPc' = [tcPc EXCEPT ![a] = pc] /\ UNCHANGED <<tcOp, tcGot, tcSaid>>
Says(a, answer) ==
    /\ tcPc' = [tcPc EXCEPT ![a] = "idle"]
    /\ tcSaid' = [tcSaid EXCEPT ![a] = answer]
    /\ UNCHANGED <<tcOp, tcGot>>

\* install_one's error ends a reinstall and an install; update prints it and goes on.
Gone(a) == Says(a, IF tcOp[a] = "update" THEN "ok" ELSE "error")

MayFail == tcFaults < MaxFault /\ tcFaults' = tcFaults + 1 /\ UNCHANGED <<tcOps, tcCrashes>>

BeginOp(a, op) ==
    /\ tcPc[a] = "idle" /\ tcOps < MaxOps
    /\ tcOps' = tcOps + 1
    /\ tcOp' = [tcOp EXCEPT ![a] = op]
    /\ tcPc' = [tcPc EXCEPT ![a] = IF op = "remove" THEN "remove" ELSE "fetch"]
    /\ tcSaid' = [b \in Actor |-> "none"]
    /\ tcCrossed' = (tcCrossed \/ \E b \in Actor : tcPc[b] # "idle")
    /\ UNCHANGED <<tcRelease, tcWentBack, tcUnnoted, tcFileVars, tcServiceVars, tcGot,
                   tcFaults, tcCrashes>>

FetchManifest(a) ==
    /\ tcPc[a] = "fetch"
    /\ tcGot' = [tcGot EXCEPT ![a] = tcRelease]
    /\ tcPc' = [tcPc EXCEPT ![a] = "check"]
    /\ UNCHANGED <<tcPast, tcFileVars, tcServiceVars, tcOp, tcSaid, tcBoundVars>>

\* An install of an engine that is there, and an update of one whose sidecar has
\* the version of the manifest, download nothing; only the install goes on, to
\* enable and start the service.  An update of every engine passes over one that
\* is not there, an update of a named one installs it.
CheckInstalled(a) ==
    LET there == tcBin # NoFile IN
    /\ tcPc[a] = "check"
    /\ CASE tcOp[a] = "install" /\ there -> Goto(a, "enable")
         [] tcOp[a] = "update" /\ there /\ tcNote = tcGot[a] -> Says(a, "ok")
         [] tcOp[a] = "update" /\ ~ there -> Says(a, "ok") \/ Goto(a, "download")
         [] OTHER -> Goto(a, "download")
    /\ UNCHANGED <<tcPast, tcFileVars, tcServiceVars, tcBoundVars>>

\* The archive of the manifest's version, checked against its digest and unpacked
\* in a directory of the operation.
Download(a) ==
    /\ tcPc[a] = "download"
    /\ Goto(a, IF tcBin # NoFile THEN "stop" ELSE "open")
    /\ UNCHANGED <<tcPast, tcFileVars, tcServiceVars, tcBoundVars>>

\* try_stop: best effort.
TryStop(a) ==
    /\ tcPc[a] = "stop"
    /\ \/ tcRun' = 0 /\ UNCHANGED tcBoundVars
       \/ MayFail /\ UNCHANGED tcRun
    /\ Goto(a, "open")
    /\ UNCHANGED <<tcPast, tcFileVars, tcUnit, tcEnabled>>

\* place_binary: the copy truncates the file next to the binary, writes it, and
\* renames it.  The path is the same for every process.
OpenCopy(a) ==
    /\ tcPc[a] = "open"
    /\ tcTmp' = [ver |-> tcGot[a],
                 writers |-> tcTmp.writers \cup {a},
                 spoilt |-> tcTmp.writers # {} /\ tcTmp.ver # tcGot[a]]
    /\ Goto(a, "write")
    /\ UNCHANGED <<tcPast, tcBin, tcNote, tcServiceVars, tcBoundVars>>

\* The writer's file may have been renamed, or replaced, meanwhile.
Closed(f, a) == [f EXCEPT !.writers = @ \ {a}]
FinishCopy(a) ==
    /\ tcPc[a] = "write"
    /\ tcTmp' = Closed(tcTmp, a) /\ tcBin' = Closed(tcBin, a)
    /\ Goto(a, "rename")
    /\ UNCHANGED <<tcPast, tcNote, tcServiceVars, tcBoundVars>>

\* A failure to make the file executable comes after the rename.
RenameBinary(a) ==
    /\ tcPc[a] = "rename"
    /\ \/ /\ tcTmp = NoFile
          /\ Gone(a) /\ UNCHANGED <<tcBin, tcTmp, tcUnnoted, tcBoundVars>>
       \/ /\ tcTmp # NoFile
          /\ tcBin' = tcTmp /\ tcTmp' = NoFile /\ tcUnnoted' = TRUE
          /\ \/ Goto(a, "note") /\ UNCHANGED tcBoundVars
             \/ Gone(a) /\ MayFail
    /\ UNCHANGED <<tcRelease, tcCrossed, tcWentBack, tcNote, tcServiceVars>>

\* Mutant: the note is not of the version that was placed.
WriteNoteLatest(a) ==
    /\ tcPc[a] = "note"
    /\ \/ tcNote' = tcRelease /\ tcUnnoted' = FALSE /\ UNCHANGED tcBoundVars
       \/ MayFail /\ tcNote' \in {tcNote, 0} /\ UNCHANGED tcUnnoted
    /\ Goto(a, "unit")
    /\ UNCHANGED <<tcRelease, tcCrossed, tcWentBack, tcBin, tcTmp, tcServiceVars>>

\* The sidecar file, truncated and written: best effort.
WriteNote(a) ==
    /\ tcPc[a] = "note"
    /\ \/ tcNote' = tcGot[a] /\ tcUnnoted' = FALSE /\ UNCHANGED tcBoundVars
       \/ MayFail /\ tcNote' \in {tcNote, 0} /\ UNCHANGED tcUnnoted
    /\ Goto(a, "unit")
    /\ UNCHANGED <<tcRelease, tcCrossed, tcWentBack, tcBin, tcTmp, tcServiceVars>>

\* create_service_file: a failure is printed, no more.  An install enables the
\* service; a reinstall and an update only start it.
CreateUnit(a) ==
    /\ tcPc[a] = "unit"
    /\ \/ tcUnit' = TRUE /\ UNCHANGED tcBoundVars
       \/ MayFail /\ UNCHANGED tcUnit
    /\ Goto(a, IF tcOp[a] = "install" THEN "enable" ELSE "start")
    /\ UNCHANGED <<tcPast, tcFileVars, tcEnabled, tcRun>>

\* Mutant: the service manager's answer is not looked at.
EnableServiceIgnored(a) ==
    /\ tcPc[a] = "enable"
    /\ \/ tcUnit /\ tcEnabled' = TRUE /\ UNCHANGED tcBoundVars
       \/ MayFail /\ UNCHANGED tcEnabled
       \/ ~ tcUnit /\ UNCHANGED <<tcEnabled, tcBoundVars>>
    /\ Goto(a, "start")
    /\ UNCHANGED <<tcPast, tcFileVars, tcUnit, tcRun>>

EnableService(a) ==
    /\ tcPc[a] = "enable"
    /\ \/ tcUnit /\ tcEnabled' = TRUE /\ UNCHANGED tcBoundVars /\ Goto(a, "start")
       \/ ~ tcUnit /\ UNCHANGED <<tcEnabled, tcBoundVars>> /\ Says(a, "error")
       \/ MayFail /\ UNCHANGED tcEnabled /\ Says(a, "error")
    /\ UNCHANGED <<tcPast, tcFileVars, tcUnit, tcRun>>

\* A daemon that runs is left alone.  A reinstall and an update answer well even
\* if the start fails.
StartService(a) ==
    LET failed == IF tcOp[a] = "install" THEN "error" ELSE "ok" IN
    /\ tcPc[a] = "start"
    /\ \/ /\ tcUnit /\ (tcRun # 0 \/ tcBin # NoFile)
          /\ tcRun' = IF tcRun # 0 THEN tcRun ELSE tcBin.ver
          /\ UNCHANGED tcBoundVars /\ Says(a, "ok")
       \/ ~ tcUnit /\ UNCHANGED <<tcRun, tcBoundVars>> /\ Says(a, failed)
       \/ MayFail /\ UNCHANGED tcRun /\ Says(a, failed)
    /\ UNCHANGED <<tcPast, tcFileVars, tcUnit, tcEnabled>>

\* A step of the first half fails: the operation ends there.
StepFails(a) ==
    /\ tcPc[a] \in {"fetch", "download", "open", "write", "rename"}
    /\ MayFail
    /\ tcTmp' = IF a \in tcTmp.writers THEN [Closed(tcTmp, a) EXCEPT !.spoilt = TRUE] ELSE tcTmp
    /\ tcBin' = IF a \in tcBin.writers THEN [Closed(tcBin, a) EXCEPT !.spoilt = TRUE] ELSE tcBin
    /\ IF tcPc[a] = "fetch" THEN Says(a, "error") ELSE Gone(a)
    /\ UNCHANGED <<tcPast, tcNote, tcServiceVars>>

\* remove_one: stop and disable are best effort, the unit and the binary are
\* deleted, the sidecar file stays.
CheckRemove(a) ==
    /\ tcPc[a] = "remove"
    /\ IF tcBin = NoFile THEN Says(a, "ok") ELSE Goto(a, "halt")
    /\ UNCHANGED <<tcPast, tcFileVars, tcServiceVars, tcBoundVars>>

HaltService(a) ==
    /\ tcPc[a] = "halt"
    /\ \/ tcRun' = 0 /\ UNCHANGED tcBoundVars
       \/ MayFail /\ UNCHANGED tcRun
    /\ Goto(a, "disable")
    /\ UNCHANGED <<tcPast, tcFileVars, tcUnit, tcEnabled>>

DisableService(a) ==
    /\ tcPc[a] = "disable"
    /\ \/ tcEnabled' = FALSE /\ UNCHANGED tcBoundVars
       \/ MayFail /\ UNCHANGED tcEnabled
    /\ Goto(a, "deregister")
    /\ UNCHANGED <<tcPast, tcFileVars, tcUnit, tcRun>>

DeleteUnit(a) ==
    /\ tcPc[a] = "deregister"
    /\ \/ tcUnit' = FALSE /\ UNCHANGED tcBoundVars /\ Goto(a, "delete")
       \/ MayFail /\ UNCHANGED tcUnit /\ Says(a, "error")
    /\ UNCHANGED <<tcPast, tcFileVars, tcEnabled, tcRun>>

DeleteBinary(a) ==
    /\ tcPc[a] = "delete"
    /\ \/ tcBin # NoFile /\ tcBin' = NoFile /\ UNCHANGED tcBoundVars /\ Says(a, "ok")
       \/ tcBin = NoFile /\ UNCHANGED <<tcBin, tcBoundVars>> /\ Says(a, "error")
       \/ MayFail /\ UNCHANGED tcBin /\ Says(a, "error")
    /\ UNCHANGED <<tcPast, tcTmp, tcNote, tcServiceVars>>

-----------------------------------------------------------------------------
(* Around the operations *)

KillOp(a) ==
    /\ tcPc[a] # "idle" /\ tcCrashes < MaxCrash
    /\ tcCrashes' = tcCrashes + 1
    /\ tcTmp' = IF a \in tcTmp.writers THEN [Closed(tcTmp, a) EXCEPT !.spoilt = TRUE] ELSE tcTmp
    /\ tcBin' = IF a \in tcBin.writers THEN [Closed(tcBin, a) EXCEPT !.spoilt = TRUE] ELSE tcBin
    /\ tcNote' \in IF tcPc[a] = "note" THEN {tcNote, 0} ELSE {tcNote}
    /\ Goto(a, "idle")
    /\ UNCHANGED <<tcPast, tcServiceVars, tcOps, tcFaults>>

\* The manifest has a new release, or is rolled back to an earlier one.
PublishRelease ==
    /\ tcRelease' \in Release \ {tcRelease}
    /\ tcWentBack' = (tcWentBack \/ tcRelease' < tcRelease)
    /\ UNCHANGED <<tcCrossed, tcUnnoted, tcFileVars, tcServiceVars, tcActorVars, tcBoundVars>>

\* `service stop` and `service restart`, from the command line or the dashboard.
StopByHand ==
    /\ tcRun # 0
    /\ tcRun' = 0
    /\ UNCHANGED <<tcPast, tcFileVars, tcUnit, tcEnabled, tcActorVars, tcBoundVars>>

RestartByHand ==
    /\ tcUnit /\ tcBin # NoFile
    /\ tcRun' = tcBin.ver
    /\ UNCHANGED <<tcPast, tcFileVars, tcUnit, tcEnabled, tcActorVars, tcBoundVars>>

ToolStep(a) ==
    \/ FetchManifest(a) \/ CheckInstalled(a) \/ Download(a) \/ TryStop(a)
    \/ OpenCopy(a) \/ FinishCopy(a) \/ RenameBinary(a) \/ WriteNote(a) \/ CreateUnit(a)
    \/ EnableService(a) \/ StartService(a) \/ StepFails(a)
    \/ CheckRemove(a) \/ HaltService(a) \/ DisableService(a) \/ DeleteUnit(a)
    \/ DeleteBinary(a)

ToolchainNext ==
    \/ \E a \in Actor : ToolStep(a) \/ KillOp(a) \/ \E op \in ToolOp : BeginOp(a, op)
    \/ PublishRelease \/ StopByHand \/ RestartByHand

ToolchainSpec == ToolchainInit /\ [][ToolchainNext]_tcVars

-----------------------------------------------------------------------------
(* Properties *)

\* An update that finds the manifest's version in the sidecar file is right to
\* skip the engine: the binary is complete and of that version, whatever step of
\* an earlier operation failed or was the last of its process.  The one case in
\* which it is not: the note of the binary in place was never written, and the
\* manifest was rolled back to the version the older note has.  For operations
\* that never ran beside one another, of any process (update, install_one).
SkipIsRight ==
    ~ tcCrossed =>
        \A a \in Actor :
            /\ tcPc[a] = "check" /\ tcOp[a] = "update"
            /\ tcBin # NoFile /\ tcNote = tcGot[a]
            => Whole(tcBin) /\ (tcBin.ver = tcGot[a] \/ (tcUnnoted /\ tcWentBack))

\* An install that answered well left an engine that comes back after a reboot:
\* its binary, its unit, and the unit enabled, whatever an earlier operation of
\* any process left half done.  For operations that never ran beside one another
\* (install_and_start).
InstalledSurvivesReboot ==
    ~ tcCrossed =>
        \A a \in Actor :
            tcOp[a] = "install" /\ tcSaid[a] = "ok" => tcBin # NoFile /\ tcUnit /\ tcEnabled
=============================================================================
