-------------------------------- MODULE Oast --------------------------------
(***************************************************************************)
(* The interaction store of the OAST server (two maps, each with a lock of *)
(* its own) under its four users: callbacks that are captured, clients     *)
(* that register, poll and deregister, and the collector of expired        *)
(* registrations.  One lock section is one step.                           *)
(*                                                                         *)
(* A correlation id is drawn at random by one client, so its secret and    *)
(* key never change; sealing is left out.                                  *)
(***************************************************************************)
EXTENDS Integers, FiniteSets, Sequences, Functions

CONSTANTS
    Corr,        \* correlation ids
    MaxRegs,     \* MAX_REGISTRATIONS
    CapPerCorr,  \* cap_per_corr
    MaxItem,     \* bound: callbacks
    MaxReg       \* bound: registrations that are not refreshes

ASSUME OastAssumption ==
    /\ MaxRegs \in Nat \ {0} /\ CapPerCorr \in Nat \ {0}
    /\ MaxItem \in Nat /\ MaxReg \in Nat
    /\ "none" \notin Corr

Item == 1..MaxItem

VARIABLES
    oaReg,      \* regs: "none", "live" or "expired", for each correlation
    oaStore,    \* interactions
    oaEpoch,    \* history: how often each correlation was registered anew
    oaCapt,     \* captures between their two locks: <<corr, item>>
    oaPoll,     \* correlations with a poll between its two locks
    oaDereg,    \* each deregister: "none", "checked", "removed"
    oaGc,       \* keys the collector removed from regs, still to be cleared
    oaGot,      \* interactions handed out: <<item, number of times>>
    oaBorn,     \* history: each item's correlation and its registration
    oaEvicted,  \* history: items pushed out by the cap
    oaSwept     \* history: items the collector removed after a re-registration

oaHist == <<oaEpoch, oaBorn, oaEvicted, oaSwept>>
oaVars == <<oaReg, oaStore, oaCapt, oaPoll, oaDereg, oaGc, oaGot, oaHist>>

Registered == {c \in Corr : oaReg[c] # "none"}
Registrations == FoldFunction(+, 0, oaEpoch)
Stored == UNION {{oaStore[c][k] : k \in DOMAIN oaStore[c]} : c \in Corr}
Unborn == [corr |-> "none", epoch |-> 0]

OastTypeOK ==
    /\ oaReg \in [Corr -> {"none", "live", "expired"}]
    /\ oaStore \in [Corr -> Seq(Item)]
    /\ \A c \in Corr : Len(oaStore[c]) <= CapPerCorr
    /\ oaEpoch \in [Corr -> Nat]
    /\ oaCapt \subseteq Corr \X Item /\ oaPoll \subseteq Corr
    /\ oaDereg \in [Corr -> {"none", "checked", "removed"}]
    /\ oaGc \subseteq Corr
    /\ oaGot \in [Item -> Nat]
    /\ oaBorn \in [Item -> [corr : Corr \cup {"none"}, epoch : Nat]]
    /\ oaEvicted \subseteq Item /\ oaSwept \subseteq Item

OastInit ==
    /\ oaReg = [c \in Corr |-> "none"]
    /\ oaStore = [c \in Corr |-> <<>>]
    /\ oaEpoch = [c \in Corr |-> 0]
    /\ oaCapt = {} /\ oaPoll = {}
    /\ oaDereg = [c \in Corr |-> "none"]
    /\ oaGc = {}
    /\ oaGot = [i \in Item |-> 0]
    /\ oaBorn = [i \in Item |-> Unborn]
    /\ oaEvicted = {} /\ oaSwept = {}

-----------------------------------------------------------------------------
\* register: a new correlation is refused when the table is full, a refresh is
\* not.
Register(c) ==
    /\ oaReg[c] = "none" =>
           Cardinality(Registered) < MaxRegs /\ Registrations < MaxReg
    /\ oaReg' = [oaReg EXCEPT ![c] = "live"]
    /\ oaEpoch' = [oaEpoch EXCEPT ![c] = IF oaReg[c] = "none" THEN @ + 1 ELSE @]
    /\ UNCHANGED <<oaStore, oaCapt, oaPoll, oaDereg, oaGc, oaGot, oaBorn, oaEvicted, oaSwept>>

\* The registration outlives its time to live.
Expire(c) ==
    /\ oaReg[c] = "live"
    /\ oaReg' = [oaReg EXCEPT ![c] = "expired"]
    /\ UNCHANGED <<oaStore, oaCapt, oaPoll, oaDereg, oaGc, oaGot, oaHist>>

\* capture, first lock: a callback (DNS, HTTP or HTTPS) whose correlation is not
\* registered, or expired, is dropped.
CaptureCheck(c, i) ==
    /\ oaBorn[i] = Unborn /\ \A j \in 1..(i - 1) : oaBorn[j] # Unborn
    /\ oaReg[c] = "live"
    /\ oaCapt' = oaCapt \cup {<<c, i>>}
    /\ oaBorn' = [oaBorn EXCEPT ![i] = [corr |-> c, epoch |-> oaEpoch[c]]]
    /\ UNCHANGED <<oaReg, oaStore, oaPoll, oaDereg, oaGc, oaGot, oaEpoch, oaEvicted, oaSwept>>

\* Mutant: nothing goes at the cap.
CaptureStoreFull(c, i) ==
    /\ <<c, i>> \in oaCapt
    /\ oaCapt' = oaCapt \ {<<c, i>>}
    /\ oaStore' = [oaStore EXCEPT ![c] = Append(@, i)]
    /\ UNCHANGED <<oaReg, oaPoll, oaDereg, oaGc, oaGot, oaHist>>

\* Second lock: the sealed interaction is appended, the oldest go at the cap.
CaptureStore(c, i) ==
    LET all == Append(oaStore[c], i)
        over == Len(all) > CapPerCorr
    IN
    /\ <<c, i>> \in oaCapt
    /\ oaCapt' = oaCapt \ {<<c, i>>}
    /\ oaStore' = [oaStore EXCEPT ![c] = IF over THEN Tail(all) ELSE all]
    /\ oaEvicted' = IF over THEN oaEvicted \cup {Head(all)} ELSE oaEvicted
    /\ UNCHANGED <<oaReg, oaPoll, oaDereg, oaGc, oaGot, oaEpoch, oaBorn, oaSwept>>

\* poll, first lock: the secret is compared, expired or not.
PollCheck(c) ==
    /\ oaReg[c] # "none"
    /\ oaPoll' = oaPoll \cup {c}
    /\ UNCHANGED <<oaReg, oaStore, oaCapt, oaDereg, oaGc, oaGot, oaHist>>

HandOut(c) == oaGot' = [i \in Item |-> oaGot[i] +
                          Cardinality({k \in DOMAIN oaStore[c] : oaStore[c][k] = i})]

\* Mutant: the interactions are copied, not taken.
PollCopy(c) ==
    /\ c \in oaPoll
    /\ oaPoll' = oaPoll \ {c}
    /\ HandOut(c)
    /\ \A i \in Item : oaGot[i] < 2
    /\ UNCHANGED <<oaReg, oaStore, oaCapt, oaDereg, oaGc, oaHist>>

\* Second lock: everything stored is taken out and sent.  An answer that is lost
\* on the way is lost: the client counts none.
PollDrain(c) ==
    /\ c \in oaPoll
    /\ oaPoll' = oaPoll \ {c}
    /\ HandOut(c)
    /\ oaStore' = [oaStore EXCEPT ![c] = <<>>]
    /\ UNCHANGED <<oaReg, oaCapt, oaDereg, oaGc, oaHist>>

\* deregister: compare the secret, remove the registration, remove what is
\* stored, each under a lock of its own.
DeregCheck(c) ==
    /\ oaDereg[c] = "none" /\ oaReg[c] # "none"
    /\ oaDereg' = [oaDereg EXCEPT ![c] = "checked"]
    /\ UNCHANGED <<oaReg, oaStore, oaCapt, oaPoll, oaGc, oaGot, oaHist>>

DeregRemove(c) ==
    /\ oaDereg[c] = "checked"
    /\ oaDereg' = [oaDereg EXCEPT ![c] = "removed"]
    /\ oaReg' = [oaReg EXCEPT ![c] = "none"]
    /\ UNCHANGED <<oaStore, oaCapt, oaPoll, oaGc, oaGot, oaHist>>

DeregClear(c) ==
    /\ oaDereg[c] = "removed"
    /\ oaDereg' = [oaDereg EXCEPT ![c] = "none"]
    /\ oaStore' = [oaStore EXCEPT ![c] = <<>>]
    /\ UNCHANGED <<oaReg, oaCapt, oaPoll, oaGc, oaGot, oaHist>>

\* gc_loop, first lock: the expired registrations go.
GcCollect ==
    /\ oaGc = {}
    /\ \E c \in Corr : oaReg[c] = "expired"
    /\ oaGc' = {c \in Corr : oaReg[c] = "expired"}
    /\ oaReg' = [c \in Corr |-> IF oaReg[c] = "expired" THEN "none" ELSE oaReg[c]]
    /\ UNCHANGED <<oaStore, oaCapt, oaPoll, oaDereg, oaGot, oaHist>>

\* Second lock: what they stored goes, even if one was registered again since.
GcClear ==
    /\ oaGc # {}
    /\ oaStore' = [c \in Corr |-> IF c \in oaGc THEN <<>> ELSE oaStore[c]]
    /\ oaSwept' = oaSwept \cup
         UNION {{oaStore[c][k] : k \in DOMAIN oaStore[c]} : c \in oaGc \cap Registered}
    /\ oaGc' = {}
    /\ UNCHANGED <<oaReg, oaCapt, oaPoll, oaDereg, oaGot, oaEpoch, oaBorn, oaEvicted>>

-----------------------------------------------------------------------------
\* A client leaves a correlation alone once it deregisters it.
ClientStep(c) ==
    \/ oaDereg[c] = "none" /\ Register(c)
    \/ PollCheck(c) \/ PollDrain(c)
    \/ DeregCheck(c) \/ DeregRemove(c) \/ DeregClear(c)

OastNext ==
    \/ \E c \in Corr : ClientStep(c) \/ Expire(c)
    \/ \E c \in Corr, i \in Item : CaptureCheck(c, i) \/ CaptureStore(c, i)
    \/ GcCollect \/ GcClear

OastSpec == OastInit /\ [][OastNext]_oaVars

-----------------------------------------------------------------------------
(* Properties *)

\* An interaction is handed out at most once; and while the registration it was
\* captured for is there, it is waiting, handed out, or was pushed out by newer
\* ones.  The exception is what the collector sweeps when a correlation is
\* registered again between its two locks.
PolledOnce ==
    \A i \in Item :
        /\ oaGot[i] <= 1
        /\ LET birth == oaBorn[i] IN
            birth # Unborn /\ <<birth.corr, i>> \notin oaCapt
            /\ oaReg[birth.corr] # "none" /\ oaEpoch[birth.corr] = birth.epoch
            => i \in Stored \cup oaEvicted \cup oaSwept \/ oaGot[i] = 1
=============================================================================
