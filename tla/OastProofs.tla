----------------------------- MODULE OastProofs -----------------------------
(***************************************************************************)
(* Proofs that the interaction store hands out an interaction at most once *)
(* and keeps it while its registration lasts, for every set of             *)
(* correlations, every cap and every interleaving of captures, polls,      *)
(* deregistrations and the collector.                                      *)
(***************************************************************************)
EXTENDS Oast, FiniteSetTheorems, TLAPS

\* Interaction i is stored for correlation c.
Holds(c, i) == \E k \in 1..Len(oaStore[c]) : oaStore[c][k] = i

\* An interaction is in one place at a time: not yet captured, between the two
\* locks of its capture, stored once for its correlation, or gone.
OnePlace ==
    /\ \A i \in Item :
          oaBorn[i] = Unborn =>
             oaGot[i] = 0 /\ \A c \in Corr : <<c, i>> \notin oaCapt /\ ~ Holds(c, i)
    /\ \A c \in Corr, i \in Item :
          <<c, i>> \in oaCapt =>
             oaBorn[i].corr = c /\ oaGot[i] = 0 /\ \A d \in Corr : ~ Holds(d, i)
    /\ \A c \in Corr : \A k \in 1..Len(oaStore[c]) :
          /\ oaBorn[oaStore[c][k]].corr = c /\ oaGot[oaStore[c][k]] = 0
          /\ \A l \in 1..Len(oaStore[c]) : oaStore[c][l] = oaStore[c][k] => l = k

\* Nothing was captured for a registration still to come, and a correlation
\* that is being deregistered is not registered again.
RegistrationsInOrder ==
    /\ \A i \in Item :
          oaBorn[i] # Unborn => /\ oaBorn[i].corr \in Corr
                                /\ oaBorn[i].epoch <= oaEpoch[oaBorn[i].corr]
    /\ \A c \in Corr : oaDereg[c] = "removed" => oaReg[c] = "none"

HandedOutOnce == \A i \in Item : oaGot[i] <= 1

\* A captured interaction of the current registration is there, or accounted for.
Due(i) ==
    /\ oaBorn[i] # Unborn /\ <<oaBorn[i].corr, i>> \notin oaCapt
    /\ oaReg[oaBorn[i].corr] # "none"
    /\ oaEpoch[oaBorn[i].corr] = oaBorn[i].epoch

Accounted(i) == Holds(oaBorn[i].corr, i) \/ i \in oaEvicted \cup oaSwept \/ oaGot[i] = 1

Retained == \A i \in Item : Due(i) => Accounted(i)

Inv == OastTypeOK /\ OnePlace /\ RegistrationsInOrder /\ HandedOutOnce /\ Retained

-----------------------------------------------------------------------------
LEMMA InitInv == OastInit => Inv
  <1> SUFFICES ASSUME OastInit PROVE Inv
    OBVIOUS
  <1>1. \A c \in Corr : oaStore[c] = <<>> /\ oaStore[c] \in Seq(Item) /\ Len(oaStore[c]) = 0
    BY DEF OastInit
  <1>2. \A c \in Corr, i \in Item : ~ Holds(c, i)
    BY <1>1 DEF Holds
  <1>3. \A i \in Item : oaBorn[i] = Unborn /\ oaGot[i] = 0
    BY DEF OastInit
  <1>4. OastTypeOK
    <2>1. Unborn \in [corr : Corr \cup {"none"}, epoch : Nat]
      BY DEF Unborn
    <2>2. oaStore \in [Corr -> Seq(Item)] /\ \A c \in Corr : Len(oaStore[c]) <= CapPerCorr
      BY <1>1, OastAssumption DEF OastInit
    <2>3. QED
      BY <2>1, <2>2 DEF OastInit, OastTypeOK
  <1>5. OnePlace
    BY <1>1, <1>2, <1>3 DEF OastInit, OnePlace
  <1>6. RegistrationsInOrder
    BY <1>3 DEF OastInit, RegistrationsInOrder
  <1>7. HandedOutOnce /\ Retained
    BY <1>3 DEF HandedOutOnce, Retained, Due
  <1>8. QED
    BY <1>4, <1>5, <1>6, <1>7 DEF Inv

\* A correlation of an interaction that was captured.
LEMMA BornTypes ==
    ASSUME Inv, NEW i \in Item
    PROVE  /\ oaBorn[i].corr \in Corr \cup {"none"} /\ oaBorn[i].epoch \in Nat
           /\ oaBorn[i].corr \in Corr => oaBorn[i] # Unborn
  <1>1. oaBorn[i] \in [corr : Corr \cup {"none"}, epoch : Nat]
    BY DEF Inv, OastTypeOK
  <1>2. Unborn.corr = "none"
    BY DEF Unborn
  <1>3. QED
    BY <1>1, <1>2, OastAssumption

\* Steps on the registrations alone: a correlation that is registered after the
\* step either was before, for the same registration, or is newly registered.
LEMMA RegistryStep ==
    ASSUME Inv, OastTypeOK',
           UNCHANGED <<oaStore, oaCapt, oaGot, oaBorn, oaEvicted, oaSwept>>,
           \A c \in Corr :
              /\ oaEpoch'[c] >= oaEpoch[c]
              /\ oaReg'[c] # "none" => oaReg[c] # "none" \/ oaEpoch'[c] > oaEpoch[c]
              /\ oaDereg'[c] = "removed" => oaReg'[c] = "none"
    PROVE  Inv'
  <1>1. \A c, i : Holds(c, i)' <=> Holds(c, i)
    BY DEF Holds
  <1>2. \A c \in Corr : oaEpoch[c] \in Nat /\ oaEpoch'[c] \in Nat
    BY DEF Inv, OastTypeOK
  <1>3. OnePlace'
    BY <1>1 DEF Inv, OnePlace
  <1>4. RegistrationsInOrder'
    <2> SUFFICES ASSUME NEW i \in Item, oaBorn[i] # Unborn
                 PROVE  /\ oaBorn[i].corr \in Corr
                        /\ oaBorn[i].epoch <= oaEpoch'[oaBorn[i].corr]
      BY DEF RegistrationsInOrder
    <2>1. /\ oaBorn[i].corr \in Corr /\ oaBorn[i].epoch \in Nat
          /\ oaBorn[i].epoch <= oaEpoch[oaBorn[i].corr]
      BY BornTypes DEF Inv, RegistrationsInOrder
    <2>2. QED
      BY <1>2, <2>1
  <1>5. HandedOutOnce'
    BY DEF Inv, HandedOutOnce
  <1>6. Retained'
    <2> SUFFICES ASSUME NEW i \in Item, Due(i)' PROVE Accounted(i)'
      BY DEF Retained
    <2> DEFINE c == oaBorn[i].corr
    <2>1. /\ oaBorn[i] # Unborn /\ <<c, i>> \notin oaCapt
          /\ oaReg'[c] # "none" /\ oaEpoch'[c] = oaBorn[i].epoch
      BY DEF Due
    <2>2. c \in Corr /\ oaBorn[i].epoch <= oaEpoch[c] /\ oaBorn[i].epoch \in Nat
      BY <2>1, BornTypes DEF Inv, RegistrationsInOrder
    <2>3. oaReg[c] # "none" /\ oaEpoch[c] = oaBorn[i].epoch
      BY <1>2, <2>1, <2>2
    <2>4. Accounted(i)
      BY <2>1, <2>3 DEF Due, Inv, Retained
    <2>5. QED
      BY <1>1, <2>4 DEF Accounted
  <1>7. QED
    BY <1>3, <1>4, <1>5, <1>6 DEF Inv

LEMMA RegistryInv ==
    ASSUME Inv, NEW c \in Corr,
           \/ oaDereg[c] = "none" /\ Register(c)
           \/ Expire(c) \/ PollCheck(c) \/ DeregCheck(c) \/ DeregRemove(c)
    PROVE  Inv'
  <1> USE DEF oaHist
  <1>1. OastTypeOK /\ \A d \in Corr : oaEpoch[d] \in Nat
    BY DEF Inv, OastTypeOK
  <1>2. CASE oaDereg[c] = "none" /\ Register(c)
    <2>1. OastTypeOK'
      BY <1>1, <1>2 DEF Register, OastTypeOK
    <2>2. \A d \in Corr :
             /\ oaEpoch'[d] >= oaEpoch[d]
             /\ oaReg'[d] # "none" => oaReg[d] # "none" \/ oaEpoch'[d] > oaEpoch[d]
             /\ oaDereg'[d] = "removed" => oaReg'[d] = "none"
      BY <1>1, <1>2 DEF Register, OastTypeOK, Inv, RegistrationsInOrder
    <2>3. QED
      BY <1>2, <2>1, <2>2, RegistryStep DEF Register
  <1>3. CASE Expire(c)
    <2>1. OastTypeOK'
      BY <1>1, <1>3 DEF Expire, OastTypeOK
    <2>2. \A d \in Corr :
             /\ oaEpoch'[d] >= oaEpoch[d]
             /\ oaReg'[d] # "none" => oaReg[d] # "none"
             /\ oaDereg'[d] = "removed" => oaReg'[d] = "none"
      BY <1>1, <1>3 DEF Expire, OastTypeOK, Inv, RegistrationsInOrder
    <2>3. QED
      BY <1>3, <2>1, <2>2, RegistryStep DEF Expire
  <1>4. CASE PollCheck(c)
    <2>1. OastTypeOK'
      BY <1>1, <1>4 DEF PollCheck, OastTypeOK
    <2>2. \A d \in Corr :
             /\ oaEpoch'[d] >= oaEpoch[d]
             /\ oaReg'[d] # "none" => oaReg[d] # "none"
             /\ oaDereg'[d] = "removed" => oaReg'[d] = "none"
      BY <1>1, <1>4 DEF PollCheck, Inv, RegistrationsInOrder
    <2>3. QED
      BY <1>4, <2>1, <2>2, RegistryStep DEF PollCheck
  <1>5. CASE DeregCheck(c)
    <2>1. OastTypeOK'
      BY <1>1, <1>5 DEF DeregCheck, OastTypeOK
    <2>2. \A d \in Corr :
             /\ oaEpoch'[d] >= oaEpoch[d]
             /\ oaReg'[d] # "none" => oaReg[d] # "none"
             /\ oaDereg'[d] = "removed" => oaReg'[d] = "none"
      BY <1>1, <1>5 DEF DeregCheck, OastTypeOK, Inv, RegistrationsInOrder
    <2>3. QED
      BY <1>5, <2>1, <2>2, RegistryStep DEF DeregCheck
  <1>6. CASE DeregRemove(c)
    <2>1. OastTypeOK'
      BY <1>1, <1>6 DEF DeregRemove, OastTypeOK
    <2>2. \A d \in Corr :
             /\ oaEpoch'[d] >= oaEpoch[d]
             /\ oaReg'[d] # "none" => oaReg[d] # "none"
             /\ oaDereg'[d] = "removed" => oaReg'[d] = "none"
      BY <1>1, <1>6 DEF DeregRemove, OastTypeOK, Inv, RegistrationsInOrder
    <2>3. QED
      BY <1>6, <2>1, <2>2, RegistryStep DEF DeregRemove
  <1>7. QED
    BY <1>2, <1>3, <1>4, <1>5, <1>6

LEMMA GcCollectInv == Inv /\ GcCollect => Inv'
  <1> SUFFICES ASSUME Inv, GcCollect PROVE Inv'
    OBVIOUS
  <1> USE DEF oaHist
  <1>1. OastTypeOK /\ \A d \in Corr : oaEpoch[d] \in Nat
    BY DEF Inv, OastTypeOK
  <1>2. OastTypeOK'
    BY <1>1 DEF GcCollect, OastTypeOK
  <1>3. \A d \in Corr :
           /\ oaEpoch'[d] >= oaEpoch[d]
           /\ oaReg'[d] # "none" => oaReg[d] # "none"
           /\ oaDereg'[d] = "removed" => oaReg'[d] = "none"
    BY <1>1 DEF GcCollect, Inv, RegistrationsInOrder
  <1>4. QED
    BY <1>2, <1>3, RegistryStep DEF GcCollect

-----------------------------------------------------------------------------
\* Steps that empty the stores of S: what was in them is handed out, swept, or
\* of a registration that is over.
LEMMA ClearingStep ==
    ASSUME Inv, NEW S \in SUBSET Corr, OastTypeOK',
           UNCHANGED <<oaReg, oaCapt, oaBorn, oaEpoch, oaEvicted>>,
           oaStore' = [c \in Corr |-> IF c \in S THEN <<>> ELSE oaStore[c]],
           oaSwept \subseteq oaSwept',
           \A c \in Corr : oaDereg'[c] = "removed" => oaDereg[c] = "removed",
           \A i \in Item :
              \/ oaGot'[i] = oaGot[i]
              \/ oaGot'[i] = 1 /\ \E c \in S : Holds(c, i),
           \A c \in S, i \in Item :
              Holds(c, i) => oaGot'[i] = 1 \/ i \in oaSwept' \/ oaReg[c] = "none"
    PROVE  Inv'
  <1>1. \A c \in Corr : /\ c \in S => oaStore'[c] = <<>> /\ Len(oaStore'[c]) = 0
                        /\ c \notin S => oaStore'[c] = oaStore[c]
    OBVIOUS
  <1>2. \A c \in Corr : \A i : Holds(c, i)' <=> Holds(c, i) /\ c \notin S
    BY <1>1 DEF Holds
  <1>3. OnePlace'
    <2>1. ASSUME NEW i \in Item, oaGot'[i] # oaGot[i]
          PROVE  /\ oaBorn[i] # Unborn
                 /\ \A c \in Corr : <<c, i>> \notin oaCapt /\ ~ Holds(c, i)'
      <3>1. PICK c \in S : Holds(c, i)
        BY <2>1
      <3>2. PICK k \in 1..Len(oaStore[c]) : oaStore[c][k] = i
        BY <3>1 DEF Holds
      <3>3. oaBorn[i].corr = c /\ c \in Corr
        BY <3>2 DEF Inv, OnePlace
      <3>4. oaBorn[i] # Unborn /\ \A d \in Corr : <<d, i>> \notin oaCapt
        <4>1. oaBorn[i] # Unborn
          BY <3>3, BornTypes
        <4>2. OnePlace
          BY DEF Inv
        <4>3. ASSUME NEW d \in Corr, <<d, i>> \in oaCapt PROVE FALSE
          BY <3>1, <3>3, <4>2, <4>3 DEF OnePlace
        <4>4. QED
          BY <4>1, <4>3
      <3>5. ASSUME NEW d \in Corr, Holds(d, i) PROVE d = c
        <4>1. PICK l \in 1..Len(oaStore[d]) : oaStore[d][l] = i
          BY <3>5 DEF Holds
        <4>2. QED
          BY <3>3, <4>1 DEF Inv, OnePlace
      <3>6. QED
        BY <1>2, <3>4, <3>5
    <2>2. \A i \in Item :
             oaBorn[i] = Unborn =>
                oaGot'[i] = 0 /\ \A c \in Corr : <<c, i>> \notin oaCapt /\ ~ Holds(c, i)'
      BY <1>2, <2>1 DEF Inv, OnePlace
    <2>3. \A c \in Corr, i \in Item :
             <<c, i>> \in oaCapt =>
                oaBorn[i].corr = c /\ oaGot'[i] = 0 /\ \A d \in Corr : ~ Holds(d, i)'
      BY <1>2, <2>1 DEF Inv, OnePlace
    <2>4. ASSUME NEW c \in Corr, NEW k \in 1..Len(oaStore'[c])
          PROVE  /\ oaBorn[oaStore'[c][k]].corr = c /\ oaGot'[oaStore'[c][k]] = 0
                 /\ \A l \in 1..Len(oaStore'[c]) : oaStore'[c][l] = oaStore'[c][k] => l = k
      <3>1. c \notin S /\ oaStore'[c] = oaStore[c]
        BY <1>1
      <3>2. oaStore[c][k] \in Item
        BY <3>1 DEF Inv, OastTypeOK
      <3>4. oaGot'[oaStore[c][k]] = oaGot[oaStore[c][k]]
        <4>1. PICK i \in Item : i = oaStore[c][k]
          BY <3>2
        <4>2. Holds(c, i)'
          BY <3>1, <4>1 DEF Holds
        <4>3. QED
          BY <2>1, <4>1, <4>2
      <3>5. QED
        BY <3>1, <3>4 DEF Inv, OnePlace
    <2>5. QED
      BY <2>2, <2>3, <2>4 DEF OnePlace
  <1>4. RegistrationsInOrder'
    BY DEF Inv, RegistrationsInOrder
  <1>5. HandedOutOnce'
    BY DEF Inv, HandedOutOnce
  <1>6. Retained'
    <2> SUFFICES ASSUME NEW i \in Item, Due(i)' PROVE Accounted(i)'
      BY DEF Retained
    <2> DEFINE c == oaBorn[i].corr
    <2>1. Due(i) /\ oaReg[c] # "none"
      BY DEF Due
    <2>2. c \in Corr
      BY <2>1 DEF Due, Inv, RegistrationsInOrder
    <2>3. Accounted(i)
      BY <2>1 DEF Inv, Retained
    <2>4. CASE Holds(c, i)
      BY <1>2, <2>1, <2>2, <2>4 DEF Accounted
    <2>5. CASE i \in oaEvicted \cup oaSwept
      BY <2>5 DEF Accounted
    <2>6. CASE oaGot[i] = 1
      BY <2>6 DEF Accounted
    <2>7. QED
      BY <2>3, <2>4, <2>5, <2>6 DEF Accounted
  <1>7. QED
    BY <1>3, <1>4, <1>5, <1>6 DEF Inv

\* A poll hands out what it drains, each interaction once.
LEMMA HandOutOnce ==
    ASSUME Inv, NEW c \in Corr, HandOut(c)
    PROVE  \A i \in Item : oaGot'[i] = IF Holds(c, i) THEN 1 ELSE oaGot[i]
  <1> SUFFICES ASSUME NEW i \in Item
               PROVE  oaGot'[i] = IF Holds(c, i) THEN 1 ELSE oaGot[i]
    OBVIOUS
  <1> DEFINE K == {k \in DOMAIN oaStore[c] : oaStore[c][k] = i}
  <1>1. oaGot'[i] = oaGot[i] + Cardinality(K) /\ oaGot[i] \in Nat
    BY DEF HandOut, Inv, OastTypeOK
  <1>2. oaStore[c] \in Seq(Item)
    BY DEF Inv, OastTypeOK
  <1>3. K = {k \in 1..Len(oaStore[c]) : oaStore[c][k] = i}
    BY <1>2
  <1>4. CASE Holds(c, i)
    <2>1. PICK k \in 1..Len(oaStore[c]) : oaStore[c][k] = i
      BY <1>4 DEF Holds
    <2>2. K = {k} /\ oaGot[i] = 0
      BY <1>3, <2>1 DEF Inv, OnePlace
    <2>3. Cardinality(K) = 1
      BY <2>2, FS_Singleton
    <2> HIDE DEF K
    <2>4. QED
      BY <1>1, <1>4, <2>2, <2>3
  <1>5. CASE ~ Holds(c, i)
    <2>1. K = {}
      BY <1>3, <1>5 DEF Holds
    <2>2. Cardinality(K) = 0
      BY <2>1, FS_EmptySet
    <2> HIDE DEF K
    <2>3. QED
      BY <1>1, <1>5, <2>2
  <1>6. QED
    BY <1>4, <1>5

LEMMA PollDrainInv ==
    ASSUME Inv, NEW c \in Corr, PollDrain(c)
    PROVE  Inv'
  <1> USE DEF oaHist
  <1>1. \A i \in Item : oaGot'[i] = IF Holds(c, i) THEN 1 ELSE oaGot[i]
    BY HandOutOnce DEF PollDrain
  <1>2. OastTypeOK
    BY DEF Inv
  <1>3. oaStore' = [d \in Corr |-> IF d \in {c} THEN <<>> ELSE oaStore[d]]
    BY <1>2 DEF PollDrain, OastTypeOK
  <1>4. /\ oaStore' \in [Corr -> Seq(Item)]
        /\ \A d \in Corr : Len(oaStore'[d]) <= CapPerCorr
    <2>1. <<>> \in Seq(Item) /\ Len(<<>>) = 0 /\ CapPerCorr \in Nat
      BY OastAssumption
    <2>2. QED
      BY <1>2, <1>3, <2>1 DEF OastTypeOK
  <1>5. oaGot' \in [Item -> Nat]
    <2>1. DOMAIN oaGot' = Item /\ oaGot' = [i \in Item |-> oaGot'[i]]
      BY DEF PollDrain, HandOut
    <2>2. \A i \in Item : oaGot'[i] \in Nat
      <3>1. \A i \in Item : oaGot[i] \in Nat
        BY <1>2 DEF OastTypeOK
      <3>2. QED
        BY <1>1, <3>1
    <2>3. QED
      BY <2>1, <2>2
  <1>6. OastTypeOK'
    BY <1>2, <1>4, <1>5 DEF PollDrain, OastTypeOK
  <1>7. UNCHANGED <<oaReg, oaCapt, oaBorn, oaEpoch, oaEvicted, oaSwept, oaDereg>>
    BY DEF PollDrain
  <1>8. {c} \in SUBSET Corr
    OBVIOUS
  <1>9. \A i \in Item : \/ oaGot'[i] = oaGot[i]
                        \/ oaGot'[i] = 1 /\ \E d \in {c} : Holds(d, i)
    BY <1>1
  <1>10. \A d \in {c}, i \in Item :
            Holds(d, i) => oaGot'[i] = 1 \/ i \in oaSwept' \/ oaReg[d] = "none"
    BY <1>1
  <1>11. QED
    BY <1>3, <1>6, <1>7, <1>8, <1>9, <1>10, ClearingStep

LEMMA DeregClearInv ==
    ASSUME Inv, NEW c \in Corr, DeregClear(c)
    PROVE  Inv'
  <1> USE DEF oaHist
  <1>1. OastTypeOK /\ oaReg[c] = "none"
    BY DEF Inv, RegistrationsInOrder, DeregClear
  <1>2. oaStore' = [d \in Corr |-> IF d \in {c} THEN <<>> ELSE oaStore[d]]
    BY <1>1 DEF DeregClear, OastTypeOK
  <1>3. /\ oaStore' \in [Corr -> Seq(Item)]
        /\ \A d \in Corr : Len(oaStore'[d]) <= CapPerCorr
    <2>1. <<>> \in Seq(Item) /\ Len(<<>>) = 0 /\ CapPerCorr \in Nat
      BY OastAssumption
    <2>2. QED
      BY <1>1, <1>2, <2>1 DEF OastTypeOK
  <1>4. OastTypeOK'
    BY <1>1, <1>3 DEF DeregClear, OastTypeOK
  <1>5. /\ UNCHANGED <<oaReg, oaCapt, oaBorn, oaEpoch, oaEvicted, oaSwept, oaGot>>
        /\ {c} \in SUBSET Corr
        /\ \A d \in Corr : oaDereg'[d] = "removed" => oaDereg[d] = "removed"
    BY <1>1 DEF DeregClear, OastTypeOK
  <1>6. \A d \in {c}, i \in Item :
           Holds(d, i) => oaGot'[i] = 1 \/ i \in oaSwept' \/ oaReg[d] = "none"
    BY <1>1
  <1>7. QED
    BY <1>2, <1>4, <1>5, <1>6, ClearingStep

LEMMA GcClearInv == Inv /\ GcClear => Inv'
  <1> SUFFICES ASSUME Inv, GcClear PROVE Inv'
    OBVIOUS
  <1> USE DEF oaHist
  <1> DEFINE in(c) == {oaStore[c][k] : k \in DOMAIN oaStore[c]}
             swept == UNION {in(c) : c \in oaGc \cap Registered}
  <1>1. OastTypeOK /\ oaGc \in SUBSET Corr
    BY DEF Inv, OastTypeOK
  <1>2. PICK S \in SUBSET Corr : S = oaGc
    BY <1>1
  <1>3. /\ oaStore' = [c \in Corr |-> IF c \in S THEN <<>> ELSE oaStore[c]]
        /\ oaSwept' = oaSwept \cup swept /\ oaGc' = {}
        /\ UNCHANGED <<oaReg, oaCapt, oaPoll, oaDereg, oaGot, oaEpoch, oaBorn, oaEvicted>>
    BY <1>2 DEF GcClear
  <1>4. \A c \in Corr : oaStore[c] \in Seq(Item) /\ DOMAIN oaStore[c] = 1..Len(oaStore[c])
    BY <1>1 DEF OastTypeOK
  <1>5. \A c \in Corr : in(c) \subseteq Item
    BY <1>4
  <1>6. swept \subseteq Item
    BY <1>1, <1>5
  <1>7. \A c \in Corr : \A i : Holds(c, i) => i \in in(c)
    BY <1>4 DEF Holds
  <1>8. \A c \in oaGc \cap Registered : in(c) \subseteq swept
    OBVIOUS
  <1> HIDE DEF swept, in
  <1>9. /\ oaStore' \in [Corr -> Seq(Item)]
        /\ \A d \in Corr : Len(oaStore'[d]) <= CapPerCorr
    <2>1. <<>> \in Seq(Item) /\ Len(<<>>) = 0 /\ CapPerCorr \in Nat
      BY OastAssumption
    <2>2. QED
      BY <1>1, <1>3, <2>1 DEF OastTypeOK
  <1>10. OastTypeOK'
    BY <1>1, <1>3, <1>6, <1>9 DEF OastTypeOK
  <1>11. \A c \in S, i \in Item :
            Holds(c, i) => oaGot'[i] = 1 \/ i \in oaSwept' \/ oaReg[c] = "none"
    BY <1>2, <1>3, <1>7, <1>8 DEF Registered
  <1>12. QED
    BY <1>3, <1>10, <1>11, ClearingStep

-----------------------------------------------------------------------------
\* The first lock of a capture: the interaction begins its life between the two
\* locks.
LEMMA CaptureCheckInv ==
    ASSUME Inv, NEW c \in Corr, NEW i \in Item, CaptureCheck(c, i)
    PROVE  Inv'
  <1> DEFINE b == [corr |-> c, epoch |-> oaEpoch[c]]
  <1>1. /\ OastTypeOK /\ OnePlace /\ RegistrationsInOrder /\ HandedOutOnce /\ Retained
    BY DEF Inv
  <1>2. /\ oaBorn[i] = Unborn /\ oaCapt' = oaCapt \cup {<<c, i>>}
        /\ oaBorn' = [oaBorn EXCEPT ![i] = b]
        /\ UNCHANGED <<oaReg, oaStore, oaPoll, oaDereg, oaGc, oaGot, oaEpoch, oaEvicted,
                       oaSwept>>
    BY DEF CaptureCheck
  <1>3. b \in [corr : Corr \cup {"none"}, epoch : Nat] /\ b.corr = c /\ b.epoch = oaEpoch[c]
        /\ oaEpoch[c] \in Nat
    BY <1>1 DEF OastTypeOK
  <1>4. b # Unborn
    BY OastAssumption DEF Unborn
  <1> HIDE DEF b
  <1>5. /\ oaBorn'[i] = b
        /\ \A j \in Item : j # i => oaBorn'[j] = oaBorn[j]
    BY <1>1, <1>2 DEF OastTypeOK
  <1>6. OastTypeOK'
    BY <1>1, <1>2, <1>3 DEF OastTypeOK
  <1>7. \A d, j : Holds(d, j)' <=> Holds(d, j)
    BY <1>2 DEF Holds
  <1>8. \A d \in Corr : <<d, i>> \notin oaCapt /\ ~ Holds(d, i)
    BY <1>1, <1>2 DEF OnePlace
  <1>9. oaGot[i] = 0
    BY <1>1, <1>2 DEF OnePlace
  <1>10. OnePlace'
    <2>1. \A j \in Item :
             oaBorn'[j] = Unborn =>
                oaGot[j] = 0 /\ \A d \in Corr : <<d, j>> \notin oaCapt' /\ ~ Holds(d, j)
      BY <1>1, <1>2, <1>4, <1>5 DEF OnePlace
    <2>2. ASSUME NEW d \in Corr, NEW j \in Item, <<d, j>> \in oaCapt'
          PROVE  oaBorn'[j].corr = d /\ oaGot[j] = 0 /\ \A e \in Corr : ~ Holds(e, j)
      <3>1. CASE j = i
        <4>1. d = c
          BY <1>2, <1>8, <2>2, <3>1
        <4>2. QED
          BY <1>3, <1>5, <1>8, <1>9, <3>1, <4>1
      <3>2. CASE j # i
        <4>1. <<d, j>> \in oaCapt
          BY <1>2, <2>2, <3>2
        <4>2. QED
          BY <1>1, <1>5, <3>2, <4>1 DEF OnePlace
      <3>3. QED
        BY <3>1, <3>2
    <2>3. ASSUME NEW d \in Corr, NEW k \in 1..Len(oaStore[d])
          PROVE  oaBorn'[oaStore[d][k]].corr = d
      <3>1. oaStore[d][k] \in Item /\ Holds(d, oaStore[d][k])
        BY <1>1 DEF OastTypeOK, Holds
      <3>2. oaStore[d][k] # i
        BY <1>8, <3>1
      <3>3. QED
        BY <1>1, <1>5, <3>1, <3>2 DEF OnePlace
    <2>4. QED
      BY <1>1, <1>2, <1>7, <2>1, <2>2, <2>3 DEF OnePlace
  <1>11. RegistrationsInOrder'
    BY <1>1, <1>2, <1>3, <1>5 DEF RegistrationsInOrder
  <1>12. HandedOutOnce'
    BY <1>1, <1>2 DEF HandedOutOnce
  <1>13. Retained'
    <2> SUFFICES ASSUME NEW j \in Item, Due(j)' PROVE Accounted(j)'
      BY DEF Retained
    <2>1. j # i
      BY <1>2, <1>3, <1>5 DEF Due
    <2>2. Due(j)
      BY <1>2, <1>5, <2>1 DEF Due
    <2>3. Accounted(j)
      BY <1>1, <2>2 DEF Retained
    <2>4. QED
      BY <1>2, <1>5, <1>7, <2>1, <2>3 DEF Accounted
  <1>14. QED
    BY <1>6, <1>10, <1>11, <1>12, <1>13 DEF Inv

\* What the second lock of a capture does to the queue of its correlation: the
\* new interaction is in it, or pushed out; the others keep their order and are
\* in it, or the oldest is pushed out.
LEMMA StoreEffect ==
    ASSUME Inv, NEW c \in Corr, NEW i \in Item, CaptureStore(c, i)
    PROVE  /\ OastTypeOK'
           /\ \A d \in Corr : d # c => oaStore'[d] = oaStore[d]
           /\ \A j \in Item : Holds(c, j)' => Holds(c, j) \/ j = i
           /\ \A j \in Item : Holds(c, j) \/ j = i => Holds(c, j)' \/ j \in oaEvicted'
           /\ \A k, l \in 1..Len(oaStore'[c]) : oaStore'[c][k] = oaStore'[c][l] => k = l
           /\ oaEvicted \subseteq oaEvicted'
  <1> USE DEF oaHist
  <1> DEFINE s == oaStore[c]
             all == Append(s, i)
             over == Len(all) > CapPerCorr
  <1>1. /\ oaCapt' = oaCapt \ {<<c, i>>} /\ <<c, i>> \in oaCapt
        /\ oaStore' = [oaStore EXCEPT ![c] = IF over THEN Tail(all) ELSE all]
        /\ oaEvicted' = IF over THEN oaEvicted \cup {Head(all)} ELSE oaEvicted
        /\ UNCHANGED <<oaReg, oaPoll, oaDereg, oaGc, oaGot, oaEpoch, oaBorn, oaSwept>>
    BY DEF CaptureStore
  <1>2. /\ OastTypeOK /\ OnePlace /\ s \in Seq(Item) /\ Len(s) \in Nat
        /\ Len(s) <= CapPerCorr /\ CapPerCorr \in Nat \ {0}
    <2>1. OastTypeOK /\ OnePlace /\ CapPerCorr \in Nat \ {0}
      BY OastAssumption DEF Inv
    <2>2. s \in Seq(Item) /\ Len(s) <= CapPerCorr
      BY <2>1 DEF OastTypeOK
    <2>3. QED
      BY <2>1, <2>2
  <1>3. /\ all \in Seq(Item) /\ Len(all) = Len(s) + 1
        /\ all[Len(s) + 1] = i /\ \A k \in 1..Len(s) : all[k] = s[k]
    BY <1>2
  <1>4. /\ Tail(all) \in Seq(Item) /\ Len(Tail(all)) = Len(s) /\ Head(all) = all[1]
        /\ Head(all) \in Item
        /\ \A k \in 1..Len(s) : Tail(all)[k] = all[k + 1]
    BY <1>2, <1>3
  <1>5. oaStore'[c] = IF over THEN Tail(all) ELSE all
    BY <1>1, <1>2 DEF OastTypeOK
  <1>6. \A d \in Corr : d # c => oaStore'[d] = oaStore[d]
    BY <1>1, <1>2 DEF OastTypeOK
  <1>7. ~ Holds(c, i) /\ \A k, l \in 1..Len(s) : s[k] = s[l] => k = l
    BY <1>1, <1>2 DEF OnePlace
  <1> DEFINE t == Tail(all)
             h == Head(all)
  <1> HIDE DEF all, t, h
  <1>8. \A k, l \in 1..Len(all) : all[k] = all[l] => k = l
    <2>1. \A k \in 1..Len(s) : s[k] # i
      BY <1>7 DEF Holds
    <2>2. \A k \in 1..Len(all) : k \in 1..Len(s) \/ k = Len(s) + 1
      BY <1>2, <1>3
    <2> HIDE DEF s
    <2>3. QED
      BY <1>3, <1>7, <2>1, <2>2
  <1>9. CASE ~ over
    <2>1. oaStore'[c] = all /\ Len(all) <= CapPerCorr /\ oaEvicted' = oaEvicted
      BY <1>1, <1>2, <1>3, <1>5, <1>9
    <2>2. OastTypeOK'
      BY <1>1, <1>2, <1>3, <1>9, <2>1 DEF OastTypeOK
    <2>3. \A j \in Item : Holds(c, j)' <=> Holds(c, j) \/ j = i
      <3>1. \A k \in 1..Len(all) : k \in 1..Len(s) \/ k = Len(s) + 1
        BY <1>2, <1>3
      <3>2. Len(s) + 1 \in 1..Len(all) /\ \A k \in 1..Len(s) : k \in 1..Len(all)
        BY <1>2, <1>3
      <3>3. QED
        BY <1>3, <2>1, <3>1, <3>2 DEF Holds
    <2>4. QED
      BY <1>6, <1>8, <2>1, <2>2, <2>3
  <1>10. CASE over
    <2>1. oaStore'[c] = t /\ oaEvicted' = oaEvicted \cup {h}
      BY <1>1, <1>5, <1>10 DEF t, h
    <2>2. /\ t \in Seq(Item) /\ Len(t) = Len(s) /\ h = all[1] /\ h \in Item
          /\ \A k \in 1..Len(s) : t[k] = all[k + 1]
      BY <1>4 DEF t, h
    <2>3. OastTypeOK'
      <3>1. /\ oaStore' \in [Corr -> Seq(Item)]
            /\ \A d \in Corr : Len(oaStore'[d]) <= CapPerCorr
        <4>1. oaStore' = [oaStore EXCEPT ![c] = t]
          BY <1>1, <1>10 DEF t
        <4>2. QED
          BY <1>2, <2>2, <4>1 DEF OastTypeOK
      <3>2. oaEvicted' \subseteq Item
        BY <1>2, <2>1, <2>2 DEF OastTypeOK
      <3>3. QED
        BY <1>1, <1>2, <3>1, <3>2 DEF OastTypeOK
    <2>4. \A k \in 1..Len(s) : k + 1 \in 1..Len(all) /\ (k + 1 \in 1..Len(s) \/ k = Len(s))
      BY <1>2, <1>3
    <2>5. \A j \in Item : Holds(c, j)' => Holds(c, j) \/ j = i
      <3>1. SUFFICES ASSUME NEW k \in 1..Len(s), t[k] # i
                     PROVE  \E l \in 1..Len(s) : s[l] = t[k]
        BY <2>1, <2>2 DEF Holds
      <3>2. k + 1 \in 1..Len(s)
        BY <1>3, <2>2, <2>4, <3>1
      <3>3. QED
        BY <1>3, <2>2, <3>2
    <2>6. ASSUME NEW k \in 1..Len(all), all[k] # h
          PROVE  \E l \in 1..Len(t) : t[l] = all[k]
      <3>1. k # 1
        BY <2>2, <2>6
      <3>2. k - 1 \in 1..Len(s) /\ (k - 1) + 1 = k
        BY <1>2, <1>3, <3>1
      <3>3. QED
        BY <2>2, <3>2
    <2>7. ASSUME NEW j \in Item, Holds(c, j) \/ j = i, j # h PROVE Holds(c, j)'
      <3>1. PICK k \in 1..Len(all) : all[k] = j
        <4>1. Len(s) + 1 \in 1..Len(all) /\ \A k \in 1..Len(s) : k \in 1..Len(all)
          BY <1>2, <1>3
        <4>2. QED
          BY <1>3, <2>7, <4>1 DEF Holds
      <3>2. QED
        BY <2>1, <2>6, <2>7, <3>1 DEF Holds
    <2>8. ASSUME NEW k \in 1..Len(t), NEW l \in 1..Len(t), t[k] = t[l] PROVE k = l
      <3>1. all[k + 1] = all[l + 1] /\ k + 1 \in 1..Len(all) /\ l + 1 \in 1..Len(all)
        BY <2>2, <2>4, <2>8
      <3>2. k + 1 = l + 1
        BY <1>8, <3>1
      <3>3. QED
        BY <3>2
    <2>9. QED
      BY <1>6, <2>1, <2>3, <2>5, <2>7, <2>8
  <1>11. QED
    BY <1>9, <1>10

LEMMA CaptureStoreInv ==
    ASSUME Inv, NEW c \in Corr, NEW i \in Item, CaptureStore(c, i)
    PROVE  Inv'
  <1> USE DEF oaHist
  <1>1. /\ OastTypeOK /\ OnePlace /\ RegistrationsInOrder /\ HandedOutOnce /\ Retained
    BY DEF Inv
  <1>2. /\ <<c, i>> \in oaCapt /\ oaCapt' = oaCapt \ {<<c, i>>}
        /\ UNCHANGED <<oaReg, oaPoll, oaDereg, oaGc, oaGot, oaEpoch, oaBorn, oaSwept>>
    BY DEF CaptureStore
  <1>3. /\ OastTypeOK'
        /\ \A d \in Corr : d # c => oaStore'[d] = oaStore[d]
        /\ \A j \in Item : Holds(c, j)' => Holds(c, j) \/ j = i
        /\ \A j \in Item : Holds(c, j) \/ j = i => Holds(c, j)' \/ j \in oaEvicted'
        /\ \A k, l \in 1..Len(oaStore'[c]) : oaStore'[c][k] = oaStore'[c][l] => k = l
        /\ oaEvicted \subseteq oaEvicted'
    BY StoreEffect
  <1>4. \A d \in Corr : d # c => \A j : Holds(d, j)' <=> Holds(d, j)
    BY <1>3 DEF Holds
  <1>5. oaBorn[i].corr = c /\ oaGot[i] = 0 /\ oaBorn[i] # Unborn
    <2>1. oaBorn[i].corr = c /\ oaGot[i] = 0
      BY <1>1, <1>2 DEF OnePlace
    <2>2. QED
      BY <2>1, BornTypes
  <1>6. \A d \in Corr : d # c => <<d, i>> \notin oaCapt
    BY <1>1, <1>2 DEF OnePlace
  <1>7. \A d \in Corr, j \in Item : Holds(d, j)' => Holds(d, j) \/ (d = c /\ j = i)
    BY <1>3, <1>4
  <1>8. OnePlace'
    <2>1. \A j \in Item :
             oaBorn[j] = Unborn =>
                oaGot[j] = 0 /\ \A d \in Corr : <<d, j>> \notin oaCapt' /\ ~ Holds(d, j)'
      BY <1>1, <1>2, <1>5, <1>7 DEF OnePlace
    <2>2. ASSUME NEW d \in Corr, NEW j \in Item, <<d, j>> \in oaCapt'
          PROVE  oaBorn[j].corr = d /\ oaGot[j] = 0 /\ \A e \in Corr : ~ Holds(e, j)'
      <3>1. <<d, j>> \in oaCapt /\ <<d, j>> # <<c, i>>
        BY <1>2, <2>2
      <3>2. j # i
        BY <1>6, <3>1
      <3>3. QED
        BY <1>1, <1>7, <3>1, <3>2 DEF OnePlace
    <2>3. ASSUME NEW d \in Corr, NEW k \in 1..Len(oaStore'[d])
          PROVE  /\ oaBorn[oaStore'[d][k]].corr = d /\ oaGot[oaStore'[d][k]] = 0
                 /\ \A l \in 1..Len(oaStore'[d]) : oaStore'[d][l] = oaStore'[d][k] => l = k
      <3>1. PICK j \in Item : j = oaStore'[d][k]
        BY <1>3 DEF OastTypeOK
      <3>2. Holds(d, j)'
        BY <3>1 DEF Holds
      <3>3. oaBorn[j].corr = d /\ oaGot[j] = 0
        BY <1>1, <1>5, <1>7, <3>2 DEF OnePlace, Holds
      <3>4. CASE d = c
        BY <1>3, <3>1, <3>3, <3>4
      <3>5. CASE d # c
        BY <1>1, <1>3, <3>1, <3>3, <3>5 DEF OnePlace
      <3>6. QED
        BY <3>4, <3>5
    <2>4. QED
      BY <1>2, <2>1, <2>2, <2>3 DEF OnePlace
  <1>9. RegistrationsInOrder' /\ HandedOutOnce'
    BY <1>1, <1>2 DEF RegistrationsInOrder, HandedOutOnce
  <1>10. Retained'
    <2> SUFFICES ASSUME NEW j \in Item, Due(j)' PROVE Accounted(j)'
      BY DEF Retained
    <2>1. CASE j = i
      BY <1>2, <1>3, <1>5, <2>1 DEF Accounted
    <2>2. CASE j # i
      <3>1. <<oaBorn[j].corr, j>> # <<c, i>>
        BY <2>2
      <3>2. Due(j)
        BY <1>2, <3>1 DEF Due
      <3>3. Accounted(j) /\ oaBorn[j].corr \in Corr
        BY <1>1, <3>2 DEF Retained, Due, RegistrationsInOrder
      <3>4. PICK d \in Corr : d = oaBorn[j].corr
        BY <3>3
      <3>5. Holds(d, j) => Holds(d, j)' \/ j \in oaEvicted'
        BY <1>3, <1>4
      <3>6. QED
        BY <1>2, <1>3, <3>3, <3>4, <3>5 DEF Accounted
    <2>3. QED
      BY <2>1, <2>2
  <1>11. QED
    BY <1>3, <1>8, <1>9, <1>10 DEF Inv

-----------------------------------------------------------------------------
LEMMA NextInv == Inv /\ [OastNext]_oaVars => Inv'
  <1> SUFFICES ASSUME Inv, [OastNext]_oaVars PROVE Inv'
    OBVIOUS
  <1>1. ASSUME NEW c \in Corr, ClientStep(c) \/ Expire(c) PROVE Inv'
    BY <1>1, RegistryInv, PollDrainInv, DeregClearInv DEF ClientStep
  <1>2. ASSUME NEW c \in Corr, NEW i \in Item, CaptureCheck(c, i) \/ CaptureStore(c, i)
        PROVE  Inv'
    BY <1>2, CaptureCheckInv, CaptureStoreInv
  <1>3. CASE UNCHANGED oaVars
    <2>1. /\ UNCHANGED <<oaReg, oaStore, oaCapt, oaPoll, oaDereg, oaGc, oaGot, oaEpoch,
                        oaBorn, oaEvicted, oaSwept>>
      BY <1>3 DEF oaVars, oaHist
    <2>2. OastTypeOK'
      BY <2>1 DEF Inv, OastTypeOK
    <2>3. \A c \in Corr :
             /\ oaEpoch'[c] >= oaEpoch[c]
             /\ oaReg'[c] # "none" => oaReg[c] # "none"
             /\ oaDereg'[c] = "removed" => oaReg'[c] = "none"
      BY <2>1 DEF Inv, OastTypeOK, RegistrationsInOrder
    <2>4. QED
      BY <2>1, <2>2, <2>3, RegistryStep
  <1>4. QED
    BY <1>1, <1>2, <1>3, GcCollectInv, GcClearInv DEF OastNext

\* The invariant of the interaction store holds in every reachable state.
THEOREM OastInvariant == OastSpec => []Inv
  BY InitInv, NextInv, PTL DEF OastSpec

\* The states of the interaction store are well typed, no correlation holds
\* more than its cap.
THEOREM OastTypeCorrect == OastSpec => []OastTypeOK
  <1>1. Inv => OastTypeOK
    BY DEF Inv
  <1>2. QED
    BY <1>1, OastInvariant, PTL

\* An interaction is handed out at most once, and while its registration lasts
\* it waits, was handed out, or was pushed out or swept.
THEOREM InteractionsPolledOnce == OastSpec => []PolledOnce
  <1>1. Inv => PolledOnce
    <2> SUFFICES ASSUME Inv, NEW i \in Item
                 PROVE  /\ oaGot[i] <= 1
                        /\ Due(i) => i \in Stored \cup oaEvicted \cup oaSwept \/ oaGot[i] = 1
      BY DEF PolledOnce, Due
    <2>1. oaGot[i] <= 1
      BY DEF Inv, HandedOutOnce
    <2>2. ASSUME Due(i)
          PROVE  i \in Stored \cup oaEvicted \cup oaSwept \/ oaGot[i] = 1
      <3>1. Accounted(i) /\ oaBorn[i].corr \in Corr
        BY <2>2 DEF Inv, Retained, Due, RegistrationsInOrder
      <3>2. ASSUME NEW c \in Corr, Holds(c, i) PROVE i \in Stored
        <4>1. oaStore[c] \in Seq(Item)
          BY DEF Inv, OastTypeOK
        <4>2. i \in {oaStore[c][k] : k \in DOMAIN oaStore[c]}
          BY <3>2, <4>1 DEF Holds
        <4>3. QED
          BY <4>2 DEF Stored
      <3>3. QED
        BY <3>1, <3>2 DEF Accounted
    <2>3. QED
      BY <2>1, <2>2
  <1>2. QED
    BY <1>1, OastInvariant, PTL
=============================================================================
