------------------------------- MODULE Trace -------------------------------
(***************************************************************************)
(* A capture session of the Web Tracer: the certificate authority on disk, *)
(* the exchanges that pass through the proxy, the events they become, the  *)
(* batches these are posted in, and the credentials the session seeds.     *)
(*                                                                         *)
(* Each exchange is a task of its own; the loop that batches and posts is  *)
(* another.  A post that fails loses its batch; the client has no timeout, *)
(* so that a post that is never answered holds the loop for good.  The     *)
(* keylog method has the same loop, with a line of tshark for an event.    *)
(***************************************************************************)
EXTENDS Integers, Sequences, SequencesExt, FiniteSets

CONSTANTS
    Exchange,     \* requests of the browser, or of an app, in this session
    ChanCap,      \* capacity of the channel of events
    BatchMax,     \* batch_size
    Seeding,      \* --seed-credentials
    MaxTraceFault, \* bound: posts that fail or are never answered, reads and writes of
                   \*   the authority's files that fail
    MaxTraceCrash \* bound: sessions before this one, killed or over

ASSUME TraceAssumption ==
    /\ IsFiniteSet(Exchange) /\ ChanCap \in Nat \ {0} /\ BatchMax \in Nat \ {0}
    /\ Seeding \in BOOLEAN /\ MaxTraceFault \in Nat /\ MaxTraceCrash \in Nat

VARIABLES
    trPhase,    \* where run_proxy stands
    trCert,     \* the authority on disk: its certificate
    trKey,      \*   and its key
    trCa,       \* the authority the session uses
    trMade,     \* authorities generated
    trSpoilt,   \* history: a certificate was not written, or a saved file not read
    trAt,       \* per exchange: where it stands
    trChan,     \* events in the channel
    trBatch,    \* events in the batcher
    trStored,   \* events the control plane has taken
    trLost,     \* events of a batch that was not taken
    trHung,     \* the loop waits for an answer that never comes
    trEnded,    \* the control plane was told that the session ended
    trBrowser,  \* the launched browser: "none", "open" or "closed"
    trAuth,     \* the latest credential seen, 0 if none
    trSig,      \* the one seeded last, as the loop remembers it
    trSeeded,   \* the one the control plane has
    trFaults, trCrashes

trCaVars == <<trCert, trKey, trCa, trMade, trSpoilt, trCrashes>>
trSeedVars == <<trAuth, trSig, trSeeded>>
trEventVars == <<trChan, trBatch, trStored, trLost>>
trPostVars == <<trFaults, trHung>>
trVars == <<trPhase, trCaVars, trAt, trEventVars, trEnded, trBrowser, trSeedVars, trPostVars>>

MaxMade == MaxTraceCrash + 1
\* A file: nothing, the beginning of its text, or all of it.
CaFile == [of : 0..MaxMade, whole : BOOLEAN]
NoCaFile == [of |-> 0, whole |-> FALSE]
Written(n) == [of |-> n, whole |-> TRUE]
Truncated(n) == [of |-> n, whole |-> FALSE]
At == {"new", "upstream", "held", "sending", "relayed", "untraced"}

TraceTypeOK ==
    /\ trPhase \in {"load", "cert", "certdone", "key", "keydone", "run", "seed", "flush", "over"}
    /\ trCert \in CaFile /\ trKey \in CaFile
    /\ trCa \in [cert : CaFile, key : 0..MaxMade] /\ trMade \in 0..MaxMade
    /\ trAt \in [Exchange -> At]
    /\ trChan \in Seq(Exchange) /\ Len(trChan) <= ChanCap
    /\ trBatch \in Seq(Exchange) /\ Len(trBatch) < BatchMax
    /\ trStored \subseteq Exchange /\ trLost \subseteq Exchange
    /\ trEnded \in BOOLEAN /\ trBrowser \in {"none", "open", "closed"}
    /\ trAuth \in 0..Cardinality(Exchange) /\ trSig \in 0..trAuth /\ trSeeded \in 0..trAuth
    /\ trSpoilt \in BOOLEAN /\ trHung \in BOOLEAN
    /\ trFaults \in 0..MaxTraceFault /\ trCrashes \in 0..MaxTraceCrash

TraceInit ==
    /\ trPhase = "load"
    /\ trCert = NoCaFile /\ trKey = NoCaFile
    /\ trCa = [cert |-> NoCaFile, key |-> 0] /\ trMade = 0
    /\ trAt = [e \in Exchange |-> "new"]
    /\ trChan = <<>> /\ trBatch = <<>> /\ trStored = {} /\ trLost = {}
    /\ trEnded = FALSE /\ trBrowser = "none"
    /\ trAuth = 0 /\ trSig = 0 /\ trSeeded = 0
    /\ trSpoilt = FALSE /\ trHung = FALSE
    /\ trFaults = 0 /\ trCrashes = 0

-----------------------------------------------------------------------------
(* load_or_generate_ca *)

TraceFails == trFaults < MaxTraceFault /\ trFaults' = trFaults + 1

\* The saved pair is used if both files are there, are read, and the key is one; the
\* certificate's text is taken as it is, complete or not.  Nobody asks whether it is
\* past its thirty days, which are not kept here.  If not, a new authority is made.
LoadCa ==
    LET saved == trCert # NoCaFile /\ trKey # NoCaFile IN
    /\ trPhase = "load"
    /\ \/ /\ saved /\ trKey.whole
          /\ trCa' = [cert |-> trCert, key |-> trKey.of]
          /\ trPhase' = "run" /\ trBrowser' \in {"none", "open"}
          /\ UNCHANGED <<trMade, trSpoilt, trFaults>>
       \/ /\ \/ ~ (saved /\ trKey.whole) /\ UNCHANGED <<trSpoilt, trFaults>>
             \/ saved /\ TraceFails /\ trSpoilt' = TRUE
          /\ trMade' = trMade + 1
          /\ trCa' = [cert |-> Written(trMade'), key |-> trMade']
          /\ trPhase' = "cert" /\ UNCHANGED trBrowser
    /\ UNCHANGED <<trCert, trKey, trCrashes, trAt, trEventVars, trEnded, trSeedVars, trHung>>

\* Mutant: the key is written first.
SaveCaKeyFirst ==
    /\ CASE trPhase = "cert" -> trKey' = Truncated(trMade) /\ UNCHANGED trCert
         [] trPhase = "certdone" -> trKey' = Written(trMade) /\ UNCHANGED trCert
         [] trPhase = "key" -> trCert' = Truncated(trMade) /\ UNCHANGED trKey
         [] trPhase = "keydone" -> trCert' = Written(trMade) /\ UNCHANGED trKey
         [] OTHER -> FALSE
    /\ trPhase' = CASE trPhase = "cert" -> "certdone" [] trPhase = "certdone" -> "key"
                    [] trPhase = "key" -> "keydone" [] OTHER -> "run"
    /\ trBrowser' \in (IF trPhase' = "run" THEN {"none", "open"} ELSE {"none"})
    /\ UNCHANGED <<trCa, trMade, trSpoilt, trCrashes, trAt, trEventVars, trEnded,
                   trSeedVars, trPostVars>>

\* The two files are written, the certificate first; each write truncates and then
\* fills, and an error of either is not looked at.
SaveCert ==
    /\ \/ /\ trPhase = "cert" /\ trPhase' = "certdone"
          /\ trCert' = Truncated(trMade) /\ UNCHANGED <<trSpoilt, trFaults>>
       \/ /\ trPhase = "certdone" /\ trPhase' = "key"
          /\ trCert' = Written(trMade) /\ UNCHANGED <<trSpoilt, trFaults>>
       \/ /\ trPhase \in {"cert", "certdone"} /\ trPhase' = "key"
          /\ TraceFails /\ trSpoilt' = TRUE /\ UNCHANGED trCert
    /\ UNCHANGED <<trKey, trBrowser>>

\* After the key the proxy listens, and a browser may be launched.
SaveKey ==
    /\ \/ /\ trPhase = "key" /\ trPhase' = "keydone"
          /\ trKey' = Truncated(trMade) /\ UNCHANGED trFaults
       \/ /\ trPhase = "keydone" /\ trPhase' = "run"
          /\ trKey' = Written(trMade) /\ UNCHANGED trFaults
       \/ /\ trPhase \in {"key", "keydone"} /\ trPhase' = "run"
          /\ TraceFails /\ UNCHANGED trKey
    /\ trBrowser' \in (IF trPhase' = "run" THEN {"none", "open"} ELSE {"none"})
    /\ UNCHANGED <<trCert, trSpoilt>>

SaveCa ==
    /\ SaveCert \/ SaveKey
    /\ UNCHANGED <<trCa, trMade, trCrashes, trAt, trEventVars, trEnded, trSeedVars, trHung>>

\* The session is killed while it sets the authority up, or it ends with nothing
\* captured; the next one begins at any time later.
SessionAgain ==
    /\ trPhase \in {"cert", "certdone", "key", "keydone", "run"}
    /\ \A e \in Exchange : trAt[e] = "new"
    /\ trCrashes < MaxTraceCrash
    /\ trCrashes' = trCrashes + 1
    /\ trPhase' = "load" /\ trBrowser' = "none"
    /\ UNCHANGED <<trCert, trKey, trCa, trMade, trSpoilt, trAt, trEventVars, trEnded,
                   trSeedVars, trPostVars>>

-----------------------------------------------------------------------------
(* One exchange *)

Serving == trPhase \in {"run", "seed", "flush"}
Move(e, at) == trAt' = [trAt EXCEPT ![e] = at]

\* handle and forward: the request is read, its credential noted if the session
\* seeds them, and sent to the origin.  A request to the portal is answered here.
\* Of a mobile flow: a host that is relayed untouched, or that refuses the
\* certificate, leaves no event.
Forward(e) ==
    /\ Serving /\ trAt[e] = "new"
    /\ \/ /\ Move(e, "upstream")
          /\ trAuth' \in (IF Seeding THEN {trAuth, trAuth + 1} ELSE {trAuth})
       \/ Move(e, "untraced") /\ UNCHANGED trAuth
    /\ UNCHANGED <<trPhase, trCaVars, trEventVars, trEnded, trBrowser, trSig, trSeeded,
                   trPostVars>>

\* Manual interception holds the request until somebody decides.
Intercept(e) ==
    /\ Serving /\ trAt[e] = "new"
    /\ Move(e, "held")
    /\ UNCHANGED <<trPhase, trCaVars, trEventVars, trEnded, trBrowser, trSeedVars, trPostVars>>

GateDecides(e) ==
    /\ Serving /\ trAt[e] = "held"
    /\ Move(e, "upstream") \/ Move(e, "untraced")
    /\ UNCHANGED <<trPhase, trCaVars, trEventVars, trEnded, trBrowser, trSeedVars, trPostVars>>

\* The origin answers; shape drops what is out of scope.  An origin that cannot be
\* reached is a 502 for the browser and no event.
OriginAnswers(e) ==
    /\ Serving /\ trAt[e] = "upstream"
    /\ Move(e, "sending") \/ Move(e, "untraced")
    /\ UNCHANGED <<trPhase, trCaVars, trEventVars, trEnded, trBrowser, trSeedVars, trPostVars>>

\* The event is sent, which waits while the channel is full, and only then the
\* browser gets its response.
SendTrace(e) ==
    /\ Serving /\ trAt[e] = "sending" /\ Len(trChan) < ChanCap
    /\ trChan' = Append(trChan, e)
    /\ Move(e, "relayed")
    /\ UNCHANGED <<trPhase, trCaVars, trBatch, trStored, trLost, trEnded, trBrowser,
                   trSeedVars, trPostVars>>

-----------------------------------------------------------------------------
(* The loop *)

\* A post that does not come back well: an error, or no answer, for good.
PostFails == TraceFails /\ trHung' \in BOOLEAN

\* post_batch: the control plane takes the events, or they are lost; it may have
\* taken those of a post that failed here.
PostBatch(events, taken) ==
    /\ IF taken
       THEN trStored' = trStored \cup ToSet(events) /\ UNCHANGED trLost
       ELSE trLost' = trLost \cup ToSet(events) /\ UNCHANGED trStored
    /\ \/ taken /\ UNCHANGED trPostVars
       \/ PostFails

\* Mutant: a batch that is full is posted and kept.
ReceiveKeeps ==
    LET events == Append(trBatch, Head(trChan)) IN
    /\ trPhase = "run" /\ ~ trHung /\ trChan # <<>>
    /\ trChan' = Tail(trChan)
    /\ IF Len(events) >= BatchMax
       THEN (\E taken \in BOOLEAN : PostBatch(events, taken)) /\ UNCHANGED trBatch
       ELSE trBatch' = events /\ UNCHANGED <<trStored, trLost, trPostVars>>
    /\ UNCHANGED <<trPhase, trCaVars, trAt, trEnded, trBrowser, trSeedVars>>

Receive ==
    LET events == Append(trBatch, Head(trChan)) IN
    /\ trPhase = "run" /\ ~ trHung /\ trChan # <<>>
    /\ trChan' = Tail(trChan)
    /\ IF Len(events) >= BatchMax
       THEN (\E taken \in BOOLEAN : PostBatch(events, taken)) /\ trBatch' = <<>>
       ELSE trBatch' = events /\ UNCHANGED <<trStored, trLost, trPostVars>>
    /\ UNCHANGED <<trPhase, trCaVars, trAt, trEnded, trBrowser, trSeedVars>>

\* Mutant: the timer waits for a batch that is nearly full.
TickFlushLate ==
    /\ trPhase = "run" /\ ~ trHung /\ Len(trBatch) + 1 > BatchMax
    /\ \E taken \in BOOLEAN : PostBatch(trBatch, taken)
    /\ trBatch' = <<>>
    /\ UNCHANGED <<trPhase, trCaVars, trAt, trChan, trEnded, trBrowser, trSeedVars>>

\* The timer posts what there is, ...
TickFlush ==
    /\ trPhase = "run" /\ ~ trHung /\ trBatch # <<>>
    /\ \E taken \in BOOLEAN : PostBatch(trBatch, taken)
    /\ trBatch' = <<>>
    /\ UNCHANGED <<trPhase, trCaVars, trAt, trChan, trEnded, trBrowser, trSeedVars>>

\* ... and seeds the credentials if they changed since the last time it could.
TickSeed ==
    /\ trPhase = "run" /\ ~ trHung /\ trAuth # trSig
    /\ \/ trSig' = trAuth /\ trSeeded' = trAuth /\ UNCHANGED trPostVars
       \/ PostFails /\ trSeeded' \in {trSeeded, trAuth} /\ UNCHANGED trSig
    /\ UNCHANGED <<trPhase, trCaVars, trAt, trEventVars, trEnded, trBrowser, trAuth>>

\* Ctrl-C, between two turns of the loop.  Nothing else ends it: the accept loop
\* keeps a sender of the channel, and nobody waits for the browser.
CtrlC ==
    /\ trPhase = "run" /\ ~ trHung
    /\ trPhase' = "seed"
    /\ UNCHANGED <<trCaVars, trAt, trEventVars, trEnded, trBrowser, trSeedVars, trPostVars>>

LastSeed ==
    /\ trPhase = "seed" /\ ~ trHung
    /\ \/ trSeeded' = trAuth /\ UNCHANGED trPostVars
       \/ trAuth # 0 /\ PostFails /\ trSeeded' \in {trSeeded, trAuth}
    /\ trPhase' = IF trHung' THEN "seed" ELSE "flush"
    /\ UNCHANGED <<trCaVars, trAt, trEventVars, trEnded, trBrowser, trAuth, trSig>>

\* The tail of the batcher closes the session.  Events still in the channel go
\* with the process.
FinalFlush ==
    /\ trPhase = "flush" /\ ~ trHung
    /\ trBatch' = <<>>
    /\ \E taken \in BOOLEAN : PostBatch(trBatch, taken) /\ trEnded' = taken
    /\ trPhase' = IF trHung' THEN "flush" ELSE "over"
    /\ trBrowser' = IF trBrowser = "open" /\ ~ trHung' THEN "closed" ELSE trBrowser
    /\ UNCHANGED <<trCaVars, trAt, trChan, trSeedVars>>

\* The operator closes the browser that was launched.
CloseBrowser ==
    /\ Serving /\ trBrowser = "open"
    /\ trBrowser' = "closed"
    /\ UNCHANGED <<trPhase, trCaVars, trAt, trEventVars, trEnded, trSeedVars, trPostVars>>

-----------------------------------------------------------------------------
TraceSetup == LoadCa \/ SaveCa
TraceEnd == LastSeed \/ FinalFlush

TraceNext ==
    \/ TraceSetup \/ SessionAgain
    \/ \E e \in Exchange : \/ Forward(e) \/ Intercept(e) \/ GateDecides(e)
                           \/ OriginAnswers(e) \/ SendTrace(e)
    \/ Receive \/ TickFlush \/ TickSeed
    \/ CtrlC \/ TraceEnd \/ CloseBrowser

TraceSpec == TraceInit /\ [][TraceNext]_trVars

-----------------------------------------------------------------------------
(* Properties *)

\* The certificate a session hands out to the browser is complete and of the key it
\* signs with, wherever an earlier session was killed, although a write of the key
\* failed.  Unless the write of a certificate failed, which nobody looks at, or a
\* saved file was there and not read; and not that it is within its thirty days
\* (load_or_generate_ca, load_ca).
CaUsable == trPhase = "run" /\ ~ trSpoilt => trCa.cert.whole /\ trCa.cert.of = trCa.key

\* Each exchange the browser got an answer to is in one place: the channel, where
\* it stays if the process ends, the batcher, the control plane, or a batch that
\* was not taken.  None is posted twice, none disappears on the way.
EventsAccounted ==
    LET waiting == trChan \o trBatch IN
    /\ IsInjective(waiting)
    /\ ToSet(waiting) \cap (trStored \cup trLost) = {}
    /\ trStored \cap trLost = {}
    /\ {e \in Exchange : trAt[e] = "relayed"} = ToSet(waiting) \cup trStored \cup trLost

\* Every exchange that was relayed is with the control plane, or its batch was
\* not taken.
AllFlushed == \A e \in Exchange : trAt[e] = "relayed" => e \in trStored \cup trLost
=============================================================================
