---------------------------- MODULE CheckProofs ----------------------------
(***************************************************************************)
(* Proofs about what looks at a target: the takeover check, the active     *)
(* checks, and the pace that chunks share against a host.                  *)
(***************************************************************************)
EXTENDS Confirm, MCTakeover, Pace, FiniteSetTheorems, TLAPS

-----------------------------------------------------------------------------
(* The takeover check: names and aliases *)

\* What the check assumes of a zone and of its hosts.
LEMMA ZoneFacts ==
  ASSUME tkZone \in Zones
  PROVE  /\ tkZone.alias \in [DnsName -> DnsName \cup {Nowhere}] /\ Nowhere \notin DnsName
         /\ HostSet \subseteq DnsName /\ IsFiniteSet(DnsName) /\ IsFiniteSet(HostSet)
<1>1. /\ tkZone.alias \in [DnsName -> DnsName \cup {Nowhere}] /\ Nowhere \notin DnsName
      /\ IsFiniteSet(DnsName) /\ Host \in Seq(DnsName)
  BY TakeoverAssumption
<1>2. HostSet \subseteq DnsName
  BY <1>1 DEF HostSet, Range
<1>3. IsFiniteSet(HostSet)
  BY <1>1, <1>2, FS_Subset
<1>4. QED
  BY <1>1, <1>2, <1>3

\* A set of names that has the alias of each of its names.
Closed(S) == \A y \in S : tkZone.alias[y] \in S \cup {Nowhere}

LEMMA ReachLeast ==
  ASSUME NEW n, NEW S \in SUBSET DnsName, n \in S, Closed(S)
  PROVE  Reach(n) \subseteq S
BY DEF Reach, Closed

LEMMA ReachClosed ==
  ASSUME tkZone \in Zones, NEW n \in DnsName
  PROVE  n \in Reach(n) /\ Closed(Reach(n)) /\ Reach(n) \subseteq DnsName
<1>1. n \in Reach(n) /\ Reach(n) \subseteq DnsName
  BY DEF Reach
<1>2. ASSUME NEW y \in Reach(n), tkZone.alias[y] # Nowhere PROVE tkZone.alias[y] \in Reach(n)
  <2>1. tkZone.alias[y] \in DnsName
    BY <1>1, <1>2, ZoneFacts
  <2>2. ASSUME NEW S \in SUBSET DnsName, n \in S, \A z \in S : tkZone.alias[z] \in S \cup {Nowhere}
        PROVE  tkZone.alias[y] \in S
    <3>1. y \in S
      BY <2>2 DEF Reach
    <3>2. QED
      BY <1>2, <2>2, <3>1
  <2>3. QED
    BY <2>1, <2>2 DEF Reach
<1>3. QED
  BY <1>1, <1>2 DEF Closed

\* An alias ends where the name it is for ends.
LEMMA EndsNext ==
  ASSUME tkZone \in Zones, NEW n \in DnsName, tkZone.alias[n] # Nowhere
  PROVE  Ends(tkZone.alias[n]) = Ends(n)
<1>1. PICK m \in DnsName : m = tkZone.alias[n]
  BY ZoneFacts
<1>2. /\ n \in Reach(n) /\ Closed(Reach(n)) /\ Reach(n) \subseteq DnsName
      /\ m \in Reach(m) /\ Closed(Reach(m)) /\ Reach(m) \subseteq DnsName
  BY ReachClosed
<1>3. m \in Reach(n)
  BY <1>1, <1>2 DEF Closed
<1>4. Reach(m) \subseteq Reach(n)
  BY <1>2, <1>3, ReachLeast
<1>5. Closed({n} \cup Reach(m))
  BY <1>1, <1>2 DEF Closed
<1>6. {n} \cup Reach(m) \in SUBSET DnsName /\ n \in {n} \cup Reach(m)
  BY <1>2
<1>7. Reach(n) \subseteq {n} \cup Reach(m)
  BY <1>5, <1>6, ReachLeast
<1>8. QED
  BY <1>1, <1>4, <1>7 DEF Ends

\* The walk of a host: the alias of the host, its alias, and so on, no name twice.
At(h, ch) == IF ch = <<>> THEN h ELSE Last(ch)
IsWalk(h, ch) ==
    /\ ch \in Seq(DnsName)
    /\ \A k \in 1..Len(ch) :
          /\ ch[k] = tkZone.alias[IF k = 1 THEN h ELSE ch[k - 1]] /\ ch[k] \in Behind(h)
          /\ \A l \in 1..Len(ch) : ch[l] = ch[k] => l = k
    /\ Ends(At(h, ch)) = Ends(h)

\* It went as far as it can.
WalkedOut(h, ch) ==
    \/ tkZone.alias[At(h, ch)] \in {Nowhere} \cup {ch[k] : k \in 1..Len(ch)}
    \/ Len(ch) >= MaxHops

LEMMA WalkFacts ==
  ASSUME tkZone \in Zones, NEW h \in HostSet, NEW ch, IsWalk(h, ch), ch # <<>>
  PROVE  /\ Len(ch) \in Nat \ {0} /\ ch[1] = tkZone.alias[h] /\ tkZone.alias[h] # Nowhere
         /\ At(h, ch) = ch[Len(ch)] /\ At(h, ch) \in Behind(h) /\ At(h, ch) \in DnsName
         /\ \A k \in 1..(Len(ch) - 1) : k + 1 \in 1..Len(ch) /\ ch[k + 1] = tkZone.alias[ch[k]]
         /\ \A k \in 1..Len(ch) : ch[k] \in DnsName
<1>1. ch \in Seq(DnsName) /\ Len(ch) \in Nat \ {0} /\ \A k \in 1..Len(ch) : ch[k] \in DnsName
  BY DEF IsWalk
<1>2. 1 \in 1..Len(ch) /\ Len(ch) \in 1..Len(ch)
  BY <1>1
<1>3. ch[1] = tkZone.alias[h] /\ ch[1] # Nowhere
  BY <1>1, <1>2, ZoneFacts DEF IsWalk
<1>4. At(h, ch) = ch[Len(ch)] /\ ch[Len(ch)] \in Behind(h)
  BY <1>2 DEF At, Last, IsWalk
<1>5. ASSUME NEW k \in 1..(Len(ch) - 1)
      PROVE  k + 1 \in 1..Len(ch) /\ ch[k + 1] = tkZone.alias[ch[k]]
  <2>1. k + 1 \in 1..Len(ch) /\ k + 1 # 1 /\ (k + 1) - 1 = k
    BY <1>1
  <2>2. QED
    BY <2>1 DEF IsWalk
<1>6. QED
  BY <1>1, <1>2, <1>3, <1>4, <1>5

\* A walk that went as far as it can is at the end, if that is near enough.
LEMMA LastIsEnd ==
  ASSUME tkZone \in Zones, NEW h \in HostSet, NEW ch, IsWalk(h, ch), ch # <<>>, WalkedOut(h, ch),
         Cardinality(Behind(h)) <= MaxHops, NEW x \in Behind(h), tkZone.alias[x] = Nowhere
  PROVE  x = At(h, ch)
<1>1. /\ Len(ch) \in Nat \ {0} /\ ch[1] = tkZone.alias[h] /\ tkZone.alias[h] # Nowhere
      /\ At(h, ch) = ch[Len(ch)]
      /\ \A k \in 1..(Len(ch) - 1) : k + 1 \in 1..Len(ch) /\ ch[k + 1] = tkZone.alias[ch[k]]
      /\ \A k \in 1..Len(ch) : ch[k] \in DnsName
  BY WalkFacts
<1>2. PICK C : C = {ch[k] : k \in 1..Len(ch)}
  OBVIOUS
<1>3. C \in SUBSET DnsName /\ ch[1] \in C
  <2>1. 1 \in 1..Len(ch)
    BY <1>1
  <2>2. QED
    BY <1>1, <1>2, <2>1
<1>4. Behind(h) = Reach(ch[1]) /\ ch[1] \in DnsName
  BY <1>1, <1>3 DEF Behind
<1>5. x \in C
  <2>1. CASE tkZone.alias[At(h, ch)] \in {Nowhere} \cup C
    <3>1. ASSUME NEW k \in 1..Len(ch) PROVE tkZone.alias[ch[k]] \in C \cup {Nowhere}
      <4>1. CASE k = Len(ch)
        BY <1>1, <2>1, <4>1
      <4>2. CASE k # Len(ch)
        <5>1. k \in 1..(Len(ch) - 1)
          BY <1>1, <4>2
        <5>2. QED
          BY <1>1, <1>2, <5>1
      <4>3. QED
        BY <4>1, <4>2
    <3>2. Closed(C)
      BY <1>2, <3>1 DEF Closed
    <3>3. QED
      BY <1>3, <1>4, <3>2, ReachLeast
  <2>2. CASE Len(ch) >= MaxHops
    <3>1. C \subseteq Behind(h) /\ Behind(h) \subseteq DnsName
      BY <1>2, <1>4, ReachClosed DEF IsWalk
    <3>2. IsFiniteSet(Behind(h)) /\ Cardinality(Behind(h)) \in Nat
      BY <3>1, ZoneFacts, FS_Subset, FS_CardinalityType
    <3>3. IsFiniteSet(C) /\ Cardinality(C) <= Cardinality(Behind(h))
          /\ (Cardinality(Behind(h)) = Cardinality(C) => Behind(h) = C)
      BY <3>1, <3>2, FS_Subset
    <3>4. Cardinality(C) = Len(ch)
      <4>1. ch \in [1..Len(ch) -> C]
        BY <1>2 DEF IsWalk
      <4>2. ch \in Bijection(1..Len(ch), C)
        BY <1>2, <4>1 DEF IsWalk, Bijection, Injection, Surjection, IsInjective
      <4>3. IsFiniteSet(1..Len(ch)) /\ Cardinality(1..Len(ch)) = Len(ch)
        BY <1>1, FS_Interval
      <4>4. QED
        BY <4>2, <4>3, FS_Bijection DEF ExistsBijection
    <3>5. QED
      BY <1>1, <2>2, <3>2, <3>3, <3>4, TakeoverAssumption
  <2>3. QED
    BY <1>2, <2>1, <2>2 DEF WalkedOut
<1>6. PICK k \in 1..Len(ch) : x = ch[k]
  BY <1>2, <1>5
<1>7. k = Len(ch)
  <2>1. CASE k # Len(ch)
    <3>1. k \in 1..(Len(ch) - 1)
      BY <1>1, <2>1
    <3>2. tkZone.alias[x] \in DnsName
      BY <1>1, <1>6, <3>1
    <3>3. QED
      BY <3>2, ZoneFacts
  <2>2. QED
    BY <2>1
<1>8. QED
  BY <1>1, <1>6, <1>7

\* One more name: the walk goes on.
LEMMA WalkGoesOn ==
  ASSUME tkZone \in Zones, NEW h \in HostSet, NEW ch, IsWalk(h, ch),
         NEW next, next = tkZone.alias[At(h, ch)], next # Nowhere,
         \A k \in 1..Len(ch) : ch[k] # next
  PROVE  /\ IsWalk(h, Append(ch, next)) /\ Append(ch, next) # <<>>
         /\ Len(Append(ch, next)) = Len(ch) + 1
<1>0. PICK m : m = At(h, ch)
  OBVIOUS
<1>1. m \in DnsName /\ (ch # <<>> => m \in Behind(h) /\ m = ch[Len(ch)])
  <2>1. CASE ch = <<>>
    BY <1>0, <2>1, ZoneFacts DEF At
  <2>2. CASE ch # <<>>
    BY <1>0, <2>2, WalkFacts
  <2>3. QED
    BY <2>1, <2>2
<1>2. next \in DnsName /\ ch \in Seq(DnsName) /\ Len(ch) \in Nat
  BY <1>0, <1>1, ZoneFacts DEF IsWalk
<1>3. PICK new : new = Append(ch, next)
  OBVIOUS
<1>4. /\ new \in Seq(DnsName) /\ Len(new) = Len(ch) + 1 /\ new[Len(ch) + 1] = next
      /\ \A k \in 1..Len(ch) : new[k] = ch[k]
      /\ new # <<>>
  BY <1>2, <1>3
<1>5. next \in Behind(h)
  <2>1. CASE ch = <<>>
    BY <1>0, <1>2, <2>1, ReachClosed DEF Behind, At
  <2>2. CASE ch # <<>>
    <3>1. tkZone.alias[h] # Nowhere /\ tkZone.alias[h] \in DnsName
      BY <2>2, WalkFacts, ZoneFacts
    <3>2. QED
      BY <1>0, <1>1, <2>2, <3>1, ReachClosed DEF Behind, Closed
  <2>3. QED
    BY <2>1, <2>2
<1>6. At(h, new) = next
  BY <1>4 DEF At, Last
<1>7. Ends(next) = Ends(h)
  BY <1>0, <1>1, EndsNext DEF IsWalk
<1>8. ASSUME NEW k \in 1..Len(new)
      PROVE  /\ new[k] = tkZone.alias[IF k = 1 THEN h ELSE new[k - 1]] /\ new[k] \in Behind(h)
             /\ \A l \in 1..Len(new) : new[l] = new[k] => l = k
  <2>1. \A l \in 1..Len(new) : l \in 1..Len(ch) \/ l = Len(ch) + 1
    BY <1>2, <1>4
  <2>2. CASE k \in 1..Len(ch)
    <3>1. k # 1 => k - 1 \in 1..Len(ch)
      BY <1>2, <2>2
    <3>2. /\ ch[k] = tkZone.alias[IF k = 1 THEN h ELSE ch[k - 1]] /\ ch[k] \in Behind(h)
          /\ \A l \in 1..Len(ch) : ch[l] = ch[k] => l = k
      BY <2>2 DEF IsWalk
    <3>3. new[k] = ch[k] /\ (k # 1 => new[k - 1] = ch[k - 1])
      BY <1>4, <2>2, <3>1
    <3>4. \A l \in 1..Len(new) : new[l] = new[k] => l = k
      BY <1>4, <2>1, <2>2, <3>2, <3>3
    <3>5. QED
      BY <3>2, <3>3, <3>4
  <2>3. CASE k = Len(ch) + 1
    <3>1. CASE ch = <<>>
      BY <1>0, <1>4, <1>5, <2>1, <2>3, <3>1 DEF At
    <3>2. CASE ch # <<>>
      <4>1. k # 1 /\ k - 1 = Len(ch) /\ Len(ch) \in 1..Len(ch)
        BY <1>2, <2>3, <3>2
      <4>2. QED
        BY <1>0, <1>1, <1>4, <1>5, <2>1, <2>3, <3>2, <4>1
    <3>3. QED
      BY <3>1, <3>2
  <2>4. QED
    BY <2>1, <2>2, <2>3
<1>9. QED
  BY <1>3, <1>4, <1>6, <1>7, <1>8 DEF IsWalk
\* What a finding says, and what has to be found.
Takeable(h) == DanglingHost(h) \/ (Unclaimed(h) /\ Behind(h) \cap tkZone.provider # {})
LeftOpen(h) == DanglingHost(h) \/ (Abandoned(h) /\ ~ tkZone.page[h].accented)

\* A check by its stage: where the walk is, and what was ruled out when every
\* lookup was answered (o is the number of those that were not).
CheckOK(h, st, ch, o) ==
    /\ st \in Walking => IsWalk(h, ch)
    /\ st = "walk" => Len(ch) < MaxHops
    /\ st \in {"resolve", "fetch"} => ch # <<>> /\ (o = 0 => WalkedOut(h, ch))
    /\ st = "fetch" => HasBodies(At(h, ch)) /\ (o = 0 => ~ DanglingHost(h))
    /\ st \in {"dangling", "unclaimed"} => Takeable(h)
    /\ o = 0 /\ st \in {"clean", "claimed", "panicked"} => ~ LeftOpen(h)

\* The zone decides all of it.
LEMMA ZoneKept ==
  ASSUME tkZone' = tkZone
  PROVE  /\ \A h : Takeable(h)' <=> Takeable(h)
         /\ \A h : LeftOpen(h)' <=> LeftOpen(h)
         /\ \A h, st, ch, o : CheckOK(h, st, ch, o)' <=> CheckOK(h, st, ch, o)
<1>1. \A n : Reach(n)' = Reach(n)
  BY DEF Reach
<1>2. \A n : Ends(n)' = Ends(n)
  BY <1>1 DEF Ends
<1>3. \A h : Behind(h)' = Behind(h)
  BY <1>1 DEF Behind
<1>4. \A h : /\ DanglingHost(h)' <=> DanglingHost(h)
             /\ Unclaimed(h)' <=> Unclaimed(h)
             /\ HasBodies(h)' <=> HasBodies(h)
  BY <1>2 DEF DanglingHost, Nonexistent, Unclaimed, HasBodies
<1>5. \A h : Takeable(h)' <=> Takeable(h)
  BY <1>3, <1>4 DEF Takeable
<1>6. \A h : LeftOpen(h)' <=> LeftOpen(h)
  <2>1. \A h : Abandoned(h)' <=> Abandoned(h)
    BY <1>2, <1>3, <1>4 DEF Abandoned
  <2>2. QED
    BY <1>4, <2>1 DEF LeftOpen
<1>7. \A h, ch : IsWalk(h, ch)' <=> IsWalk(h, ch)
  BY <1>2, <1>3 DEF IsWalk, At
<1>8. \A h, ch : WalkedOut(h, ch)' <=> WalkedOut(h, ch)
  BY DEF WalkedOut, At
<1>9. \A h, st, ch, o : CheckOK(h, st, ch, o)' <=> CheckOK(h, st, ch, o)
  BY <1>4, <1>5, <1>6, <1>7, <1>8 DEF CheckOK, At
<1>10. QED
  BY <1>5, <1>6, <1>9

\* A walk is at a name that ends in nothing when the host dangles.
LEMMA WalkDangles ==
  ASSUME tkZone \in Zones, NEW h \in HostSet, NEW ch, IsWalk(h, ch), ch # <<>>
  PROVE  Nonexistent(At(h, ch)) <=> DanglingHost(h)
<1>1. tkZone.alias[h] # Nowhere
  BY WalkFacts
<1>2. Ends(At(h, ch)) = Ends(h)
  BY DEF IsWalk
<1>3. QED
  BY <1>1, <1>2 DEF Nonexistent, DanglingHost

LEMMA NoAliasIsSafe ==
  ASSUME NEW h, tkZone.alias[h] = Nowhere
  PROVE  ~ LeftOpen(h)
<1>1. Behind(h) = {}
  BY DEF Behind
<1>2. ~ DanglingHost(h) /\ ~ Abandoned(h)
  BY <1>1 DEF DanglingHost, Abandoned
<1>3. QED
  BY <1>2 DEF LeftOpen

\* The walk of an abandoned host ends at its provider.
LEMMA WalkFindsProvider ==
  ASSUME tkZone \in Zones, NEW h \in HostSet, NEW ch, IsWalk(h, ch), ch # <<>>,
         WalkedOut(h, ch), Abandoned(h)
  PROVE  HasBodies(At(h, ch))
<1>1. PICK x \in Behind(h) : x \in Ends(h) /\ HasBodies(x)
  BY DEF Abandoned
<1>2. Cardinality(Behind(h)) <= MaxHops /\ tkZone.alias[x] = Nowhere
  BY <1>1 DEF Abandoned, Ends
<1>3. x = At(h, ch)
  BY <1>2, LastIsEnd
<1>4. QED
  BY <1>1, <1>3

\* A failed lookup takes nothing back.
LEMMA OutageKeeps ==
  ASSUME NEW h, NEW st, NEW ch, NEW o, NEW o2, CheckOK(h, st, ch, o), o2 = o \/ o2 # 0
  PROVE  CheckOK(h, st, ch, o2)
BY DEF CheckOK

\* cname_chain: the walk goes on by one name or ends.
WalkTo(h, ch, ok, next, st2, ch2) ==
    LET goes == ok = "yes" /\ next # Nowhere /\ ~ Contains(ch, next)
    IN /\ next = tkZone.alias[At(h, ch)]
       /\ ch2 = IF goes THEN Append(ch, next) ELSE ch
       /\ st2 = IF goes /\ Len(ch) + 1 < MaxHops THEN "walk"
                ELSE IF ch2 = <<>> THEN "clean" ELSE "resolve"

LEMMA WalkMoves ==
  ASSUME tkZone \in Zones, NEW h \in HostSet, NEW ch, NEW o \in Nat, NEW o2 \in Nat, NEW st2, NEW ch2,
         CheckOK(h, "walk", ch, o), NEW ok \in {"yes", "no"},
         IF ok = "yes" THEN o2 = o ELSE o2 = o + 1,
         NEW next, WalkTo(h, ch, ok, next, st2, ch2)
  PROVE  CheckOK(h, st2, ch2, o2) /\ Len(ch2) <= MaxHops /\ ch2 \in Seq(DnsName)
<1>1. IsWalk(h, ch) /\ Len(ch) < MaxHops /\ Len(ch) \in Nat /\ MaxHops \in Nat /\ ch \in Seq(DnsName)
  BY TakeoverAssumption DEF CheckOK, Walking, IsWalk
<1>2. CASE ok = "yes" /\ next # Nowhere /\ ~ Contains(ch, next)
  <2>1. /\ ch2 = Append(ch, next)
        /\ IF Len(ch) + 1 < MaxHops THEN st2 = "walk"
           ELSE st2 = IF ch2 = <<>> THEN "clean" ELSE "resolve"
    BY <1>2 DEF WalkTo
  <2>2. IsWalk(h, ch2) /\ ch2 # <<>> /\ Len(ch2) = Len(ch) + 1
    BY <1>1, <1>2, <2>1, WalkGoesOn DEF Contains, WalkTo
  <2>3. CASE Len(ch) + 1 < MaxHops
    <3>1. st2 = "walk" /\ Len(ch2) < MaxHops
      BY <2>1, <2>2, <2>3
    <3>2. QED
      BY <1>1, <2>2, <3>1 DEF CheckOK, IsWalk
  <2>4. CASE ~ (Len(ch) + 1 < MaxHops)
    <3>1. st2 = "resolve" /\ Len(ch2) >= MaxHops /\ Len(ch2) <= MaxHops
      BY <1>1, <2>1, <2>2, <2>4
    <3>2. QED
      BY <2>2, <3>1 DEF CheckOK, IsWalk, WalkedOut
  <2>5. QED
    BY <2>3, <2>4
<1>3. CASE ~ (ok = "yes" /\ next # Nowhere /\ ~ Contains(ch, next))
  <2>1. ch2 = ch /\ st2 = IF ch = <<>> THEN "clean" ELSE "resolve"
    BY <1>3 DEF WalkTo
  <2>2. o2 = 0 => next \in {Nowhere} \cup {ch[k] : k \in 1..Len(ch)}
    BY <1>3 DEF Contains
  <2>3. CASE ch = <<>>
    <3>1. o2 = 0 => ~ LeftOpen(h)
      <4>1. At(h, ch) = h /\ {ch[k] : k \in 1..Len(ch)} = {}
        BY <2>3 DEF At
      <4>2. QED
        BY <2>2, <4>1, NoAliasIsSafe DEF WalkTo
    <3>2. st2 = "clean"
      BY <2>1, <2>3
    <3>3. QED
      BY <1>1, <2>1, <3>1, <3>2 DEF CheckOK, Walking
  <2>4. CASE ch # <<>>
    <3>1. st2 = "resolve" /\ (o2 = 0 => WalkedOut(h, ch))
      BY <2>1, <2>2, <2>4 DEF WalkedOut, WalkTo
    <3>2. QED
      BY <1>1, <2>1, <2>4, <3>1 DEF CheckOK
  <2>5. QED
    BY <2>3, <2>4
<1>4. QED
  BY <1>2, <1>3

\* The answer for the last name of the walk.
LEMMA ResolveMoves ==
  ASSUME tkZone \in Zones, NEW h \in HostSet, NEW ch, NEW o \in Nat, NEW o2 \in Nat, NEW st2,
         CheckOK(h, "resolve", ch, o), NEW ok \in {"yes", "no"},
         IF ok = "yes" THEN o2 = o ELSE o2 = o + 1,
         st2 = IF ok = "yes" /\ Nonexistent(At(h, ch)) THEN "dangling"
               ELSE IF ~ HasFingerprint(At(h, ch)) THEN "clean"
               ELSE IF HasBodies(At(h, ch)) THEN "fetch" ELSE "claimed"
  PROVE  CheckOK(h, st2, ch, o2)
<1>1. IsWalk(h, ch) /\ ch # <<>> /\ (o = 0 => WalkedOut(h, ch))
  BY DEF CheckOK, Walking
<1>2. CASE ok = "yes" /\ Nonexistent(At(h, ch))
  BY <1>1, <1>2, WalkDangles DEF CheckOK, Takeable, Walking
<1>3. CASE ~ (ok = "yes" /\ Nonexistent(At(h, ch)))
  <2>1. o2 = 0 => ~ DanglingHost(h) /\ WalkedOut(h, ch)
    BY <1>1, <1>3, WalkDangles
  <2>2. CASE HasFingerprint(At(h, ch)) /\ HasBodies(At(h, ch))
    <3>1. st2 = "fetch"
      BY <1>3, <2>2
    <3>2. QED
      BY <1>1, <2>1, <2>2, <3>1 DEF CheckOK
  <2>3. CASE ~ (HasFingerprint(At(h, ch)) /\ HasBodies(At(h, ch)))
    <3>1. ~ HasBodies(At(h, ch)) /\ st2 \in {"clean", "claimed"}
      BY <1>3, <2>3 DEF HasBodies, HasFingerprint
    <3>2. o2 = 0 => ~ LeftOpen(h)
      BY <1>1, <2>1, <3>1, WalkFindsProvider DEF LeftOpen
    <3>3. QED
      BY <3>1, <3>2 DEF CheckOK, Walking
  <2>4. QED
    BY <2>2, <2>3
<1>4. QED
  BY <1>2, <1>3

\* The page.
LEMMA FetchMoves ==
  ASSUME tkZone \in Zones, NEW h \in HostSet, NEW ch, NEW o \in Nat, NEW o2 \in Nat, NEW st2,
         CheckOK(h, "fetch", ch, o), NEW got,
         \/ got = "none" /\ o2 = o + 1
         \/ /\ o2 = o
            /\ got = IF tkZone.page[h].says # "none" /\ tkZone.page[h].accented THEN "panicked"
                     ELSE tkZone.page[h].says,
         st2 = IF got \in {"panicked", "unclaimed"} THEN got ELSE "claimed"
  PROVE  CheckOK(h, st2, ch, o2)
<1>1. /\ IsWalk(h, ch) /\ ch # <<>> /\ HasBodies(At(h, ch)) /\ (o = 0 => ~ DanglingHost(h))
  BY DEF CheckOK, Walking
<1>2. st2 \in {"panicked", "unclaimed", "claimed"}
  OBVIOUS
<1>3. CASE st2 = "unclaimed"
  <2>1. Unclaimed(h)
    BY <1>3 DEF Unclaimed
  <2>2. At(h, ch) \in Behind(h)
    BY <1>1, WalkFacts
  <2>3. Takeable(h)
    BY <1>1, <2>1, <2>2 DEF Takeable, HasBodies
  <2>4. QED
    BY <1>3, <2>3 DEF CheckOK, Walking
<1>4. CASE st2 \in {"panicked", "claimed"}
  <2>1. o2 = 0 => tkZone.page[h].accented \/ ~ Unclaimed(h)
    BY <1>4 DEF Unclaimed
  <2>2. o2 = 0 => ~ LeftOpen(h)
    BY <1>1, <2>1 DEF LeftOpen, Abandoned
  <2>3. QED
    BY <1>4, <2>2 DEF CheckOK, Walking
<1>5. QED
  BY <1>2, <1>3, <1>4

-----------------------------------------------------------------------------
(* The takeover check: the list and its chunks *)

Active == {h \in HostSet : tkStage[h] # "off"}

ListInjective == \A k, l \in 1..Len(tkHosts) : tkHosts[k] = tkHosts[l] => k = l
\* Only hosts of chunks that were started are checked.
ActiveStarted == \A h \in HostSet : tkStage[h] # "off" => \E k \in 1..(tkFrom - 1) : tkHosts[k] = h
ChecksOK == \A h \in HostSet : CheckOK(h, tkStage[h], tkChain[h], tkOutage)
FoundTakeable == \A h \in tkFound : Takeable(h)
NothingYet ==
    tkPhase = "start" =>
        tkHosts = <<>> /\ tkFrom = 1 /\ tkDone = 0 /\ tkFound = {} /\ tkStage = NoTasks
\* Every host of a started chunk is being checked or counted.
Counted ==
    tkPhase \in {"start", "listed", "check", "done"} => tkDone + Cardinality(Active) = tkFrom - 1
\* What ended and was open is reported, as long as the client reads.
EndedFound ==
    tkPhase \in {"listed", "check", "done"} /\ tkOutage = 0 =>
        \A k \in 1..(tkFrom - 1) :
            tkStage[tkHosts[k]] = "off" /\ LeftOpen(tkHosts[k]) => tkHosts[k] \in tkFound
AllTaken == tkPhase = "done" => tkStage = NoTasks /\ tkFrom = Len(tkHosts) + 1

TakeoverInv ==
    /\ TakeoverTypeOK /\ ListInjective /\ ActiveStarted /\ ChecksOK /\ FoundTakeable
    /\ NothingYet /\ Counted /\ EndedFound /\ AllTaken

LEMMA ListFacts ==
  ASSUME TakeoverTypeOK
  PROVE  /\ tkHosts \in Seq(HostSet) /\ Len(tkHosts) \in Nat /\ Range(tkHosts) \subseteq HostSet
         /\ \A k \in 1..Len(tkHosts) : tkHosts[k] \in HostSet /\ tkHosts[k] \in Range(tkHosts)
         /\ \A h \in Range(tkHosts) : \E k \in 1..Len(tkHosts) : tkHosts[k] = h
         /\ tkFrom \in Nat /\ tkFrom >= 1 /\ tkFrom <= Len(tkHosts) + 1 /\ tkDone \in Nat
         /\ IsFiniteSet(Active) /\ Cardinality(Active) \in Nat /\ tkOutage \in Nat
<1>1. /\ tkHosts \in Seq(HostSet) /\ Len(tkHosts) \in Nat /\ DOMAIN tkHosts = 1..Len(tkHosts)
      /\ tkFrom \in 1..(Len(tkHosts) + 1) /\ tkDone \in 0..Len(tkHosts) /\ tkOutage \in 0..MaxOutage
  BY DEF TakeoverTypeOK
<1>2. \A k \in 1..Len(tkHosts) : tkHosts[k] \in HostSet
  BY <1>1
<1>3. Range(tkHosts) = {tkHosts[k] : k \in 1..Len(tkHosts)}
  BY <1>1 DEF Range
<1>4. IsFiniteSet(HostSet)
  BY ZoneFacts DEF TakeoverTypeOK
<1>5. IsFiniteSet(Active) /\ Cardinality(Active) \in Nat
  BY <1>4, FS_Subset, FS_CardinalityType DEF Active
<1>6. tkOutage \in Nat
  BY <1>1, TakeoverAssumption
<1>7. QED
  BY <1>1, <1>2, <1>3, <1>5, <1>6

LEMMA NoActive ==
  ASSUME tkStage \in [HostSet -> Walking \cup Verdict \cup {"off"}]
  PROVE  tkStage = NoTasks <=> Active = {}
<1>1. ASSUME Active = {} PROVE tkStage = NoTasks
  <2>1. \A h \in HostSet : tkStage[h] = "off"
    BY <1>1 DEF Active
  <2>2. QED
    BY <2>1 DEF NoTasks
<1>2. ASSUME tkStage = NoTasks PROVE Active = {}
  BY <1>2 DEF Active, NoTasks
<1>3. QED
  BY <1>1, <1>2

LEMMA TakeoverInitInv == TakeoverInit => TakeoverInv
<1> SUFFICES ASSUME TakeoverInit PROVE TakeoverInv
  OBVIOUS
<1>0. <<>> \in Seq(HostSet) /\ <<>> \in Seq(DnsName) /\ Len(<<>>) = 0
  OBVIOUS
<1>1. tkClient \in BOOLEAN /\ tkZone \in Zones
  BY DEF TakeoverInit
<1>2. tkStage \in [HostSet -> Walking \cup Verdict \cup {"off"}] /\ tkChain \in [HostSet -> Seq(DnsName)]
  BY <1>0 DEF TakeoverInit, NoTasks
<1>3. TakeoverTypeOK
  <2>1. \A h \in HostSet : Len(tkChain[h]) <= MaxHops
    BY <1>0, TakeoverAssumption DEF TakeoverInit
  <2>2. /\ tkHosts \in Seq(HostSet) /\ Len(tkHosts) = 0 /\ tkCut = 0 /\ tkFrom = 1 /\ tkDone = 0
        /\ tkFound = {} /\ tkOutage = 0 /\ tkPhase = "start" /\ Len(Host) \in Nat
    BY <1>0, TakeoverAssumption DEF TakeoverInit
  <2>3. QED
    BY <1>1, <1>2, <2>1, <2>2, TakeoverAssumption DEF TakeoverTypeOK
<1>4. Active = {} /\ tkPhase = "start" /\ tkFound = {}
  BY <1>2, NoActive DEF TakeoverInit
<1>5. Cardinality(Active) = 0
  BY <1>4, FS_EmptySet
<1>6. ListInjective /\ ActiveStarted
  BY <1>0, <1>4 DEF ListInjective, ActiveStarted, TakeoverInit, Active
<1>7. ChecksOK
  BY <1>4 DEF ChecksOK, Active, CheckOK, Walking
<1>8. Counted
  BY <1>5 DEF Counted, TakeoverInit
<1>9. NothingYet /\ EndedFound /\ AllTaken /\ FoundTakeable
  BY <1>4 DEF NothingYet, EndedFound, AllTaken, FoundTakeable, TakeoverInit
<1>10. QED
  BY <1>3, <1>6, <1>7, <1>8, <1>9 DEF TakeoverInv
\* A step of a check moves that check only, to a stage that is right.
Moved(h, st2, ch2, o2) ==
    /\ tkStage[h] # "off" /\ st2 \in Walking \cup Verdict
    /\ ch2 \in Seq(DnsName) /\ Len(ch2) <= MaxHops
    /\ o2 \in 0..MaxOutage /\ (o2 = tkOutage \/ o2 # 0)
    /\ CheckOK(h, st2, ch2, o2)
    /\ tkStage' = [tkStage EXCEPT ![h] = st2] /\ tkChain' = [tkChain EXCEPT ![h] = ch2]
    /\ tkOutage' = o2 /\ CheckUnchanged

LEMMA CheckFacts ==
  ASSUME TakeoverInv, NEW h \in HostSet
  PROVE  /\ tkZone \in Zones /\ tkOutage \in Nat /\ MaxOutage \in Nat /\ tkOutage <= MaxOutage
         /\ CheckOK(h, tkStage[h], tkChain[h], tkOutage)
         /\ tkStage \in [HostSet -> Walking \cup Verdict \cup {"off"}]
         /\ tkChain \in [HostSet -> Seq(DnsName)] /\ Len(tkChain[h]) <= MaxHops
         /\ tkChain[h] \in Seq(DnsName) /\ NameAt(h) = At(h, tkChain[h])
<1>1. /\ tkZone \in Zones /\ tkOutage \in 0..MaxOutage /\ CheckOK(h, tkStage[h], tkChain[h], tkOutage)
      /\ tkStage \in [HostSet -> Walking \cup Verdict \cup {"off"}]
      /\ tkChain \in [HostSet -> Seq(DnsName)] /\ Len(tkChain[h]) <= MaxHops
  BY DEF TakeoverInv, TakeoverTypeOK, ChecksOK
<1>2. tkChain[h] \in Seq(DnsName)
  BY <1>1
<1>3. NameAt(h) = At(h, tkChain[h])
  BY DEF NameAt, At
<1>4. QED
  BY <1>1, <1>2, <1>3, TakeoverAssumption

\* An answer, or one that is missing.
Outcome(ok, o2) ==
    /\ ok = "no" => tkOutage < MaxOutage
    /\ o2 = IF ok = "yes" THEN tkOutage ELSE tkOutage + 1

LEMMA LookupEffect ==
  ASSUME TakeoverInv, NEW h \in HostSet, CnameLookup(h)
  PROVE  \E st2, ch2, o2 : Moved(h, st2, ch2, o2)
<1>1. /\ tkZone \in Zones /\ tkOutage \in Nat /\ MaxOutage \in Nat /\ tkOutage <= MaxOutage
      /\ CheckOK(h, tkStage[h], tkChain[h], tkOutage)
      /\ tkStage \in [HostSet -> Walking \cup Verdict \cup {"off"}]
      /\ tkChain \in [HostSet -> Seq(DnsName)] /\ NameAt(h) = At(h, tkChain[h])
      /\ tkChain[h] \in Seq(DnsName)
  BY CheckFacts
<1>2. PICK ch, o2 : ch = tkChain[h] /\ o2 = tkOutage'
  OBVIOUS
<1>3. PICK next : next = tkZone.alias[At(h, ch)]
  OBVIOUS
<1>4. \E ok \in {"yes", "no"} :
         /\ Outcome(ok, o2)
         /\ tkChain' = IF ok = "yes" /\ next # Nowhere /\ ~ Contains(ch, next)
                       THEN [tkChain EXCEPT ![h] = Append(ch, next)] ELSE tkChain
         /\ IF ok = "yes" /\ next # Nowhere /\ ~ Contains(ch, next) /\ Len(ch) + 1 < MaxHops
            THEN UNCHANGED tkStage ELSE WalkEnds(h)
  BY <1>1, <1>2, <1>3 DEF CnameLookup, Answered, Outcome
<1>5. PICK ok \in {"yes", "no"} :
         /\ Outcome(ok, o2)
         /\ tkChain' = IF ok = "yes" /\ next # Nowhere /\ ~ Contains(ch, next)
                       THEN [tkChain EXCEPT ![h] = Append(ch, next)] ELSE tkChain
         /\ IF ok = "yes" /\ next # Nowhere /\ ~ Contains(ch, next) /\ Len(ch) + 1 < MaxHops
            THEN UNCHANGED tkStage ELSE WalkEnds(h)
  BY <1>4
<1>6. PICK ch2 : ch2 = IF ok = "yes" /\ next # Nowhere /\ ~ Contains(ch, next)
                       THEN Append(ch, next) ELSE ch
  OBVIOUS
<1>7. tkChain' = [tkChain EXCEPT ![h] = ch2] /\ tkChain'[h] = ch2
  BY <1>1, <1>2, <1>5, <1>6
<1>8. PICK st2 : st2 = IF ok = "yes" /\ next # Nowhere /\ ~ Contains(ch, next) /\ Len(ch) + 1 < MaxHops
                       THEN "walk" ELSE IF ch2 = <<>> THEN "clean" ELSE "resolve"
  OBVIOUS
<1>9. tkStage[h] = "walk" /\ tkStage' = [tkStage EXCEPT ![h] = st2] /\ CheckUnchanged
  BY <1>1, <1>5, <1>7, <1>8 DEF CnameLookup, WalkEnds, Stage
<1>10. /\ o2 \in Nat /\ o2 <= MaxOutage /\ (IF ok = "yes" THEN o2 = tkOutage ELSE o2 = tkOutage + 1)
  BY <1>1, <1>5 DEF Outcome
<1>11. CheckOK(h, st2, ch2, o2) /\ Len(ch2) <= MaxHops /\ ch2 \in Seq(DnsName)
  <2>1. PICK o \in Nat : o = tkOutage
    BY <1>1
  <2>2. CheckOK(h, "walk", ch, o) /\ (IF ok = "yes" THEN o2 = o ELSE o2 = o + 1) /\ o2 \in Nat
    BY <1>1, <1>2, <1>9, <1>10, <2>1
  <2>3. tkZone \in Zones
    BY <1>1
  <2>4. WalkTo(h, ch, ok, next, st2, ch2)
    BY <1>3, <1>6, <1>8 DEF WalkTo
  <2>5. QED
    BY <2>2, <2>3, <2>4, WalkMoves
<1>12. st2 \in Walking \cup Verdict
  BY <1>8 DEF Walking, Verdict
<1>13. Moved(h, st2, ch2, o2)
  BY <1>1, <1>2, <1>7, <1>9, <1>10, <1>11, <1>12 DEF Moved
<1>14. QED
  BY <1>13

LEMMA ResolveEffect ==
  ASSUME TakeoverInv, NEW h \in HostSet, Resolve(h)
  PROVE  \E st2, ch2, o2 : Moved(h, st2, ch2, o2)
<1>1. /\ tkZone \in Zones /\ tkOutage \in Nat /\ MaxOutage \in Nat /\ tkOutage <= MaxOutage
      /\ CheckOK(h, tkStage[h], tkChain[h], tkOutage)
      /\ tkStage \in [HostSet -> Walking \cup Verdict \cup {"off"}]
      /\ tkChain \in [HostSet -> Seq(DnsName)] /\ NameAt(h) = At(h, tkChain[h])
      /\ tkChain[h] \in Seq(DnsName) /\ Len(tkChain[h]) <= MaxHops
  BY CheckFacts
<1>2. PICK ch, o2 : ch = tkChain[h] /\ o2 = tkOutage'
  OBVIOUS
<1>3. \E ok \in {"yes", "no"} :
         /\ Outcome(ok, o2)
         /\ Stage(h, IF ok = "yes" /\ Nonexistent(NameAt(h)) THEN "dangling"
                     ELSE IF ~ HasFingerprint(NameAt(h)) THEN "clean"
                     ELSE IF HasBodies(NameAt(h)) THEN "fetch" ELSE "claimed")
  BY <1>1, <1>2 DEF Resolve, Answered, Outcome
<1>4. PICK ok \in {"yes", "no"} :
         /\ Outcome(ok, o2)
         /\ Stage(h, IF ok = "yes" /\ Nonexistent(NameAt(h)) THEN "dangling"
                     ELSE IF ~ HasFingerprint(NameAt(h)) THEN "clean"
                     ELSE IF HasBodies(NameAt(h)) THEN "fetch" ELSE "claimed")
  BY <1>3
<1>5. PICK st2 : st2 = IF ok = "yes" /\ Nonexistent(At(h, ch)) THEN "dangling"
                       ELSE IF ~ HasFingerprint(At(h, ch)) THEN "clean"
                       ELSE IF HasBodies(At(h, ch)) THEN "fetch" ELSE "claimed"
  OBVIOUS
<1>6. /\ tkStage[h] = "resolve" /\ tkStage' = [tkStage EXCEPT ![h] = st2]
      /\ tkChain' = [tkChain EXCEPT ![h] = ch] /\ CheckUnchanged
  BY <1>1, <1>2, <1>4, <1>5 DEF Resolve, Stage
<1>7. /\ o2 \in Nat /\ o2 <= MaxOutage /\ (IF ok = "yes" THEN o2 = tkOutage ELSE o2 = tkOutage + 1)
  BY <1>1, <1>4 DEF Outcome
<1>8. CheckOK(h, st2, ch, o2)
  BY <1>1, <1>2, <1>5, <1>6, <1>7, ResolveMoves
<1>9. st2 \in Walking \cup Verdict
  BY <1>5 DEF Walking, Verdict
<1>10. Moved(h, st2, ch, o2)
  BY <1>1, <1>2, <1>6, <1>7, <1>8, <1>9 DEF Moved
<1>11. QED
  BY <1>10

LEMMA FetchEffect ==
  ASSUME TakeoverInv, NEW h \in HostSet, FetchPage(h)
  PROVE  \E st2, ch2, o2 : Moved(h, st2, ch2, o2)
<1>1. /\ tkZone \in Zones /\ tkOutage \in Nat /\ MaxOutage \in Nat /\ tkOutage <= MaxOutage
      /\ CheckOK(h, tkStage[h], tkChain[h], tkOutage)
      /\ tkStage \in [HostSet -> Walking \cup Verdict \cup {"off"}]
      /\ tkChain \in [HostSet -> Seq(DnsName)]
      /\ tkChain[h] \in Seq(DnsName) /\ Len(tkChain[h]) <= MaxHops
  BY CheckFacts
<1>2. PICK ch, o2 : ch = tkChain[h] /\ o2 = tkOutage'
  OBVIOUS
<1>3. PICK own : own = IF tkZone.page[h].says # "none" /\ tkZone.page[h].accented THEN "panicked"
                       ELSE tkZone.page[h].says
  OBVIOUS
<1>4. Fetched(h, FALSE) = "none" /\ Fetched(h, TRUE) = own
  BY <1>3 DEF Fetched
<1>5. \E got : /\ \/ got = "none" /\ o2 = tkOutage + 1 /\ tkOutage < MaxOutage
                  \/ got = own /\ o2 = tkOutage
               /\ Stage(h, IF got \in {"panicked", "unclaimed"} THEN got ELSE "claimed")
  BY <1>2, <1>4 DEF FetchPage, Answered
<1>6. PICK got : /\ \/ got = "none" /\ o2 = tkOutage + 1 /\ tkOutage < MaxOutage
                    \/ got = own /\ o2 = tkOutage
                 /\ Stage(h, IF got \in {"panicked", "unclaimed"} THEN got ELSE "claimed")
  BY <1>5
<1>7. PICK st2 : st2 = IF got \in {"panicked", "unclaimed"} THEN got ELSE "claimed"
  OBVIOUS
<1>8. /\ tkStage[h] = "fetch" /\ tkStage' = [tkStage EXCEPT ![h] = st2]
      /\ tkChain' = [tkChain EXCEPT ![h] = ch] /\ CheckUnchanged
  BY <1>1, <1>2, <1>6, <1>7 DEF FetchPage, Stage
<1>9. o2 \in Nat /\ o2 <= MaxOutage /\ (o2 = tkOutage \/ o2 = tkOutage + 1)
  BY <1>1, <1>6
<1>10. CheckOK(h, st2, ch, o2)
  BY <1>1, <1>2, <1>3, <1>6, <1>7, <1>8, <1>9, FetchMoves
<1>11. st2 \in Walking \cup Verdict
  BY <1>7 DEF Walking, Verdict
<1>12. Moved(h, st2, ch, o2)
  BY <1>1, <1>2, <1>8, <1>9, <1>10, <1>11 DEF Moved
<1>13. QED
  BY <1>12
\* A step of a check keeps the invariant.
LEMMA CheckKeeps ==
  ASSUME TakeoverInv, NEW h \in HostSet, NEW st2, NEW ch2, NEW o2, Moved(h, st2, ch2, o2)
  PROVE  TakeoverInv'
<1>0. TakeoverTypeOK
  BY DEF TakeoverInv
<1>1. /\ UNCHANGED <<tkZone, tkPhase, tkHosts, tkCut, tkFrom, tkDone, tkFound, tkClient>>
      /\ tkStage' = [tkStage EXCEPT ![h] = st2] /\ tkChain' = [tkChain EXCEPT ![h] = ch2]
      /\ tkOutage' = o2 /\ tkStage[h] # "off" /\ st2 # "off" /\ (o2 = tkOutage \/ o2 # 0)
  BY DEF Moved, CheckUnchanged, tkList, Walking, Verdict
<1>2. /\ tkStage' \in [HostSet -> Walking \cup Verdict \cup {"off"}]
      /\ tkChain' \in [HostSet -> Seq(DnsName)]
      /\ \A g \in HostSet : tkStage'[g] = IF g = h THEN st2 ELSE tkStage[g]
      /\ \A g \in HostSet : tkChain'[g] = IF g = h THEN ch2 ELSE tkChain[g]
  BY <1>0, <1>1 DEF Moved, TakeoverTypeOK
<1>3. TakeoverTypeOK'
  <2>1. \A g \in HostSet : Len(tkChain'[g]) <= MaxHops
    BY <1>0, <1>2 DEF Moved, TakeoverTypeOK
  <2>2. tkOutage' \in 0..MaxOutage
    BY <1>1 DEF Moved
  <2>3. QED
    BY <1>0, <1>1, <1>2, <2>1, <2>2 DEF TakeoverTypeOK
<1>4. Active' = Active /\ \A g \in HostSet : tkStage'[g] = "off" <=> tkStage[g] = "off"
  BY <1>1, <1>2 DEF Active
<1>5. ListInjective' /\ ActiveStarted'
  BY <1>1, <1>4 DEF TakeoverInv, ListInjective, ActiveStarted
<1>6. ChecksOK'
  <2>1. SUFFICES ASSUME NEW g \in HostSet PROVE CheckOK(g, tkStage[g], tkChain[g], tkOutage)'
    BY DEF ChecksOK
  <2>2. PICK st, ch, o : st = tkStage'[g] /\ ch = tkChain'[g] /\ o = tkOutage'
    OBVIOUS
  <2>3. CheckOK(g, st, ch, o)
    <3>1. CASE g = h
      BY <1>1, <1>2, <2>2, <3>1 DEF Moved
    <3>2. CASE g # h
      <4>1. CheckOK(g, st, ch, tkOutage)
        BY <1>2, <2>2, <3>2 DEF TakeoverInv, ChecksOK
      <4>2. QED
        BY <1>1, <2>2, <4>1, OutageKeeps
    <3>3. QED
      BY <3>1, <3>2
  <2>4. CheckOK(g, st, ch, o)'
    BY <1>1, <2>3, ZoneKept
  <2>5. QED
    BY <2>2, <2>4
<1>7. FoundTakeable'
  BY <1>1, ZoneKept DEF TakeoverInv, FoundTakeable
<1>8. NothingYet'
  <2>1. tkPhase # "start"
    BY <1>1 DEF TakeoverInv, NothingYet, NoTasks
  <2>2. QED
    BY <1>1, <2>1 DEF NothingYet
<1>9. Counted'
  BY <1>1, <1>4 DEF TakeoverInv, Counted
<1>10. AllTaken'
  <2>1. tkPhase # "done"
    BY <1>1 DEF TakeoverInv, AllTaken, NoTasks
  <2>2. QED
    BY <1>1, <2>1 DEF AllTaken
<1>11. EndedFound'
  <2>1. \A k \in 1..(tkFrom - 1) : k \in 1..Len(tkHosts) /\ tkHosts[k] \in HostSet
    BY <1>0, ListFacts
  <2>2. \A g : LeftOpen(g)' <=> LeftOpen(g)
    BY <1>1, ZoneKept
  <2>3. SUFFICES ASSUME tkPhase \in {"listed", "check", "done"}, tkOutage' = 0,
                        NEW k \in 1..(tkFrom - 1), tkStage'[tkHosts[k]] = "off", LeftOpen(tkHosts[k])'
                 PROVE  tkHosts[k] \in tkFound
    BY <1>1 DEF EndedFound
  <2>4. PICK g \in HostSet : g = tkHosts[k]
    BY <2>1
  <2>5. LeftOpen(g)
    <3>1. LeftOpen(g)'
      BY <1>1, <2>3, <2>4
    <3>2. QED
      BY <2>2, <3>1
  <2>6. QED
    BY <1>1, <1>4, <2>3, <2>4, <2>5 DEF TakeoverInv, EndedFound
<1>12. QED
  BY <1>3, <1>5, <1>6, <1>7, <1>8, <1>9, <1>10, <1>11 DEF TakeoverInv
\* Checks that end, or go on untouched, stay right.
LEMMA ChecksStay ==
  ASSUME ChecksOK, tkZone' = tkZone, tkOutage' = tkOutage,
         \A g \in HostSet : tkStage'[g] = "off" \/ (tkStage'[g] = tkStage[g] /\ tkChain'[g] = tkChain[g])
  PROVE  ChecksOK'
<1>1. SUFFICES ASSUME NEW g \in HostSet PROVE CheckOK(g, tkStage[g], tkChain[g], tkOutage)'
  BY DEF ChecksOK
<1>2. PICK st, ch, o : st = tkStage'[g] /\ ch = tkChain'[g] /\ o = tkOutage'
  OBVIOUS
<1>3. CheckOK(g, st, ch, o)
  <2>1. CASE st = "off"
    BY <2>1 DEF CheckOK, Walking
  <2>2. CASE st # "off"
    BY <1>2, <2>2 DEF ChecksOK
  <2>3. QED
    BY <2>1, <2>2
<1>4. CheckOK(g, st, ch, o)'
  BY <1>3, ZoneKept
<1>5. QED
  BY <1>2, <1>4

\* A check that is joined.
LEMMA JoinKeeps ==
  ASSUME TakeoverInv, NEW h \in HostSet, JoinOne(h)
  PROVE  TakeoverInv'
<1>0. TakeoverTypeOK /\ tkZone \in Zones
  BY DEF TakeoverInv, TakeoverTypeOK
<1>1. /\ tkPhase = "check" /\ tkStage[h] \in Verdict /\ tkStage[h] # "off" /\ tkDone' = tkDone + 1
      /\ UNCHANGED <<tkZone, tkHosts, tkCut, tkFrom, tkChain, tkClient, tkOutage>>
  BY DEF JoinOne, tkList, Verdict
<1>2. /\ tkHosts \in Seq(HostSet) /\ Len(tkHosts) \in Nat
      /\ \A k \in 1..Len(tkHosts) : tkHosts[k] \in HostSet /\ tkHosts[k] \in Range(tkHosts)
      /\ tkFrom \in Nat /\ tkFrom >= 1 /\ tkFrom <= Len(tkHosts) + 1 /\ tkDone \in Nat
      /\ IsFiniteSet(Active) /\ Cardinality(Active) \in Nat
  BY <1>0, ListFacts
<1>3. h \in Active /\ tkDone + Cardinality(Active) = tkFrom - 1 /\ Cardinality(Active) # 0
  <2>1. h \in Active
    BY <1>1 DEF Active
  <2>2. QED
    BY <1>1, <1>2, <2>1, FS_EmptySet DEF TakeoverInv, Counted
<1>4. tkDone' \in 0..Len(tkHosts)
  BY <1>1, <1>2, <1>3
<1>5. PICK k \in 1..(tkFrom - 1) : tkHosts[k] = h
  BY <1>1 DEF TakeoverInv, ActiveStarted
<1>6. h \in Range(tkHosts)
  BY <1>2, <1>5
<1>7. tkFound' \in {tkFound, tkFound \cup {h}}
  BY DEF JoinOne
<1>8. tkFound' \subseteq Range(tkHosts) /\ tkFound \subseteq tkFound'
  BY <1>0, <1>6, <1>7 DEF TakeoverTypeOK
<1>9. /\ tkStage' \in [HostSet -> Walking \cup Verdict \cup {"off"}] /\ tkStage'[h] = "off"
      /\ \A g \in HostSet : tkStage'[g] \in {"off", tkStage[g]}
  <2>1. tkStage' \in {[tkStage EXCEPT ![h] = "off"], NoTasks}
    BY DEF JoinOne
  <2>2. QED
    BY <1>0, <2>1 DEF NoTasks, TakeoverTypeOK
<1>10. tkPhase' \in {"check", "gone"}
  BY DEF JoinOne
<1>11. TakeoverTypeOK'
  BY <1>0, <1>1, <1>4, <1>8, <1>9, <1>10 DEF TakeoverTypeOK
<1>12. ListInjective' /\ ActiveStarted'
  BY <1>1, <1>9 DEF TakeoverInv, ListInjective, ActiveStarted
<1>13. ChecksOK'
  BY <1>1, <1>9, ChecksStay DEF TakeoverInv
<1>14. FoundTakeable'
  <2>1. ASSUME NEW g \in tkFound' PROVE Takeable(g)
    <3>1. CASE g \in tkFound
      BY <3>1 DEF TakeoverInv, FoundTakeable
    <3>2. CASE g \notin tkFound
      <4>1. g = h /\ tkStage[h] \in {"dangling", "unclaimed"}
        BY <2>1, <3>2 DEF JoinOne
      <4>2. CheckOK(h, tkStage[h], tkChain[h], tkOutage)
        BY DEF TakeoverInv, ChecksOK
      <4>3. QED
        BY <4>1, <4>2 DEF CheckOK
    <3>3. QED
      BY <3>1, <3>2
  <2>2. \A g : Takeable(g)' <=> Takeable(g)
    BY <1>1, ZoneKept
  <2>3. QED
    BY <2>1, <2>2 DEF FoundTakeable
<1>15. NothingYet' /\ AllTaken'
  BY <1>10 DEF NothingYet, AllTaken
<1>16. CASE tkPhase' = "gone"
  <2>1. Counted' /\ EndedFound'
    BY <1>16 DEF Counted, EndedFound
  <2>2. QED
    BY <1>11, <1>12, <1>13, <1>14, <1>15, <2>1 DEF TakeoverInv
<1>17. CASE tkPhase' = "check"
  <2>1. tkStage' = [tkStage EXCEPT ![h] = "off"]
        /\ (tkStage[h] \in {"dangling", "unclaimed"} => h \in tkFound')
    BY <1>17 DEF JoinOne
  <2>2. Active' = Active \ {h}
    BY <1>0, <2>1 DEF Active, TakeoverTypeOK
  <2>3. Cardinality(Active') = Cardinality(Active) - 1
    BY <1>2, <1>3, <2>2, FS_RemoveElement
  <2>4. Counted'
    <3>1. tkDone' + Cardinality(Active') = tkFrom - 1
      BY <1>1, <1>2, <1>3, <2>3
    <3>2. QED
      BY <1>1, <3>1 DEF Counted
  <2>5. EndedFound'
    <3>1. \A j \in 1..(tkFrom - 1) : tkHosts[j] \in HostSet
      BY <1>2
    <3>2. SUFFICES ASSUME tkOutage = 0, NEW j \in 1..(tkFrom - 1), tkStage'[tkHosts[j]] = "off",
                          LeftOpen(tkHosts[j])'
                   PROVE  tkHosts[j] \in tkFound'
      BY <1>1 DEF EndedFound
    <3>3. PICK g \in HostSet : g = tkHosts[j]
      BY <3>1
    <3>4. LeftOpen(g)
      <4>1. LeftOpen(g)'
        BY <1>1, <3>2, <3>3
      <4>2. QED
        BY <1>1, <4>1, ZoneKept
    <3>5. CASE g = h
      <4>1. CheckOK(h, tkStage[h], tkChain[h], tkOutage)
        BY DEF TakeoverInv, ChecksOK
      <4>2. tkStage[h] \in {"dangling", "unclaimed"}
        BY <1>1, <3>2, <3>4, <3>5, <4>1 DEF CheckOK, Verdict
      <4>3. QED
        BY <2>1, <3>3, <3>5, <4>2
    <3>6. CASE g # h
      <4>1. tkStage[g] = "off"
        BY <1>0, <2>1, <3>2, <3>3, <3>6 DEF TakeoverTypeOK
      <4>2. g \in tkFound
        BY <1>1, <3>2, <3>3, <3>4, <4>1 DEF TakeoverInv, EndedFound
      <4>3. QED
        BY <1>8, <3>3, <4>2
    <3>7. QED
      BY <3>5, <3>6
  <2>6. QED
    BY <1>11, <1>12, <1>13, <1>14, <1>15, <2>4, <2>5 DEF TakeoverInv
<1>18. QED
  BY <1>10, <1>16, <1>17
\* The next chunk: the hosts at the places from tkFrom on.
LEMMA ChunkFacts ==
  ASSUME TakeoverInv
  PROVE  /\ IsFiniteSet(NextChunk) /\ NextChunk \subseteq HostSet /\ Cardinality(NextChunk) \in Nat
         /\ NextChunk = {} <=> tkFrom = Len(tkHosts) + 1
         /\ \E n \in Nat : /\ n = tkFrom + Cardinality(NextChunk) /\ n <= Len(tkHosts) + 1
                           /\ \A k \in tkFrom..(n - 1) : tkHosts[k] \in NextChunk
                           /\ \A h \in NextChunk : \E k \in 1..(n - 1) : tkHosts[k] = h
<1>1. /\ Len(tkHosts) \in Nat /\ tkFrom \in Nat /\ tkFrom >= 1 /\ tkFrom <= Len(tkHosts) + 1
      /\ \A k \in 1..Len(tkHosts) : tkHosts[k] \in HostSet
  BY ListFacts DEF TakeoverInv
<1>2. TkTasks \in Nat \ {0}
  BY TakeoverAssumption
<1>3. PICK m \in Int : m = IF Len(tkHosts) < tkFrom + TkTasks - 1 THEN Len(tkHosts)
                           ELSE tkFrom + TkTasks - 1
  BY <1>1, <1>2
<1>4. m <= Len(tkHosts) /\ m + 1 >= tkFrom /\ (m + 1 = tkFrom <=> tkFrom = Len(tkHosts) + 1)
  BY <1>1, <1>2, <1>3
<1>5. {k \in 1..Len(tkHosts) : k >= tkFrom /\ k < tkFrom + TkTasks} = tkFrom..m
  BY <1>1, <1>2, <1>3
<1>6. NextChunk = {tkHosts[i] : i \in tkFrom..m}
  BY <1>5 DEF NextChunk
<1>7. IsFiniteSet(tkFrom..m) /\ Cardinality(tkFrom..m) = m + 1 - tkFrom
  <2>0. PICK f \in Int : f = tkFrom
    BY <1>1
  <2>1. IsFiniteSet(f..m) /\ Cardinality(f..m) = IF f > m THEN 0 ELSE m - f + 1
    BY FS_Interval
  <2>2. CASE tkFrom > m
    BY <1>1, <1>4, <2>0, <2>1, <2>2
  <2>3. CASE ~ (tkFrom > m)
    BY <1>1, <1>4, <2>0, <2>1, <2>3
  <2>4. QED
    BY <2>2, <2>3
<1>8. IsFiniteSet(NextChunk) /\ Cardinality(NextChunk) = m + 1 - tkFrom
  <2>1. PICK f : f = [i \in tkFrom..m |-> tkHosts[i]]
    OBVIOUS
  <2>2. f \in [tkFrom..m -> NextChunk] /\ \A i \in tkFrom..m : f[i] = tkHosts[i]
    BY <1>6, <2>1
  <2>3. \A i, j \in tkFrom..m : f[i] = f[j] => i = j
    <3>1. \A i \in tkFrom..m : i \in 1..Len(tkHosts)
      BY <1>1, <1>4
    <3>2. QED
      BY <2>2, <3>1 DEF TakeoverInv, ListInjective
  <2>4. \A h \in NextChunk : \E i \in tkFrom..m : f[i] = h
    BY <1>6, <2>2
  <2>5. f \in Bijection(tkFrom..m, NextChunk)
    BY <2>2, <2>3, <2>4 DEF Bijection, Injection, Surjection, IsInjective
  <2>6. QED
    BY <1>7, <2>5, FS_Bijection DEF ExistsBijection
<1>9. Cardinality(NextChunk) \in Nat /\ tkFrom + Cardinality(NextChunk) - 1 = m
  BY <1>1, <1>4, <1>8
<1>10. NextChunk \subseteq HostSet
  BY <1>1, <1>4, <1>6
<1>11. NextChunk = {} <=> tkFrom = Len(tkHosts) + 1
  <2>1. NextChunk = {} <=> Cardinality(NextChunk) = 0
    BY <1>8, FS_EmptySet
  <2>2. QED
    BY <1>1, <1>4, <1>8, <2>1
<1>12. \A h \in NextChunk : \E k \in 1..m : tkHosts[k] = h
  <2>1. \A k \in tkFrom..m : k \in 1..m
    BY <1>1
  <2>2. QED
    BY <1>6, <2>1
<1>13. PICK n \in Nat : n = m + 1
  BY <1>1, <1>4
<1>14. /\ n = tkFrom + Cardinality(NextChunk) /\ n <= Len(tkHosts) + 1 /\ n - 1 = m
  BY <1>1, <1>4, <1>8, <1>13
<1>15. /\ \A k \in tkFrom..(n - 1) : tkHosts[k] \in NextChunk
       /\ \A h \in NextChunk : \E k \in 1..(n - 1) : tkHosts[k] = h
  BY <1>6, <1>12, <1>14
<1>16. QED
  BY <1>8, <1>9, <1>10, <1>11, <1>14, <1>15

LEMMA SpawnKeeps ==
  ASSUME TakeoverInv, SpawnChunk
  PROVE  TakeoverInv'
<1>0. TakeoverTypeOK /\ tkZone \in Zones
  BY DEF TakeoverInv, TakeoverTypeOK
<1>1. PICK n \in Nat : /\ n = tkFrom + Cardinality(NextChunk) /\ n <= Len(tkHosts) + 1
                       /\ \A k \in tkFrom..(n - 1) : tkHosts[k] \in NextChunk
                       /\ \A h \in NextChunk : \E k \in 1..(n - 1) : tkHosts[k] = h
  BY ChunkFacts
<1>C. PICK C : C = NextChunk
  OBVIOUS
<1>2. /\ tkPhase \in {"listed", "check"} /\ tkStage = NoTasks /\ tkPhase' = "check" /\ tkFrom' = n
      /\ tkStage' = [h \in HostSet |-> IF h \in C THEN "walk" ELSE "off"]
      /\ tkChain' = [h \in HostSet |-> <<>>]
      /\ UNCHANGED <<tkZone, tkHosts, tkCut, tkDone, tkFound, tkClient, tkOutage>>
  BY <1>1, <1>C DEF SpawnChunk, tkList
<1>3. /\ IsFiniteSet(C) /\ C \subseteq HostSet /\ Cardinality(C) \in Nat /\ n = tkFrom + Cardinality(C)
      /\ n <= Len(tkHosts) + 1
      /\ \A k \in tkFrom..(n - 1) : tkHosts[k] \in C
      /\ \A h \in C : \E k \in 1..(n - 1) : tkHosts[k] = h
  BY <1>1, <1>C, ChunkFacts
<1>4. /\ Len(tkHosts) \in Nat /\ tkFrom \in Nat /\ tkFrom >= 1 /\ tkDone \in Nat
      /\ \A k \in 1..Len(tkHosts) : tkHosts[k] \in HostSet
  BY <1>0, ListFacts
<1>5. Active = {} /\ Cardinality(Active) = 0 /\ Active' = C
  <2>1. Active = {}
    BY <1>2 DEF Active, NoTasks
  <2>2. Active' = C
    BY <1>2, <1>3 DEF Active
  <2>3. QED
    BY <2>1, <2>2, FS_EmptySet
<1>6. tkDone = tkFrom - 1
  BY <1>2, <1>4, <1>5 DEF TakeoverInv, Counted
<1>7. n \in 1..(Len(tkHosts) + 1)
  BY <1>3, <1>4
<1>8. TakeoverTypeOK'
  <2>0. <<>> \in Seq(DnsName) /\ Len(<<>>) = 0 /\ MaxHops \in Nat
    BY TakeoverAssumption
  <2>1. tkStage' \in [HostSet -> Walking \cup Verdict \cup {"off"}]
    BY <1>2 DEF Walking
  <2>2. tkChain' \in [HostSet -> Seq(DnsName)] /\ \A h \in HostSet : Len(tkChain'[h]) <= MaxHops
    BY <1>2, <2>0
  <2>3. QED
    BY <1>0, <1>2, <1>7, <2>1, <2>2 DEF TakeoverTypeOK
<1>9. ListInjective' /\ ActiveStarted'
  <2>1. ListInjective'
    BY <1>2 DEF TakeoverInv, ListInjective
  <2>2. \A h \in HostSet : tkStage'[h] # "off" => h \in C
    BY <1>2
  <2>3. QED
    BY <1>2, <1>3, <2>1, <2>2 DEF ActiveStarted
<1>10. ChecksOK'
  <2>1. SUFFICES ASSUME NEW g \in HostSet PROVE CheckOK(g, tkStage[g], tkChain[g], tkOutage)'
    BY DEF ChecksOK
  <2>2. PICK st, ch, o : st = tkStage'[g] /\ ch = tkChain'[g] /\ o = tkOutage'
    OBVIOUS
  <2>3. ch = <<>> /\ st \in {"walk", "off"}
    BY <1>2, <2>2
  <2>4. IsWalk(g, ch)
    <3>1. ch \in Seq(DnsName) /\ Len(ch) = 0
      BY <2>3
    <3>2. At(g, ch) = g
      BY <2>3 DEF At
    <3>3. QED
      BY <3>1, <3>2 DEF IsWalk
  <2>5. Len(ch) < MaxHops
    BY <2>3, TakeoverAssumption
  <2>6. CheckOK(g, st, ch, o)
    BY <2>3, <2>4, <2>5 DEF CheckOK
  <2>7. CheckOK(g, st, ch, o)'
    BY <1>2, <2>6, ZoneKept
  <2>8. QED
    BY <2>2, <2>7
<1>11. FoundTakeable'
  BY <1>2, ZoneKept DEF TakeoverInv, FoundTakeable
<1>12. NothingYet' /\ AllTaken'
  BY <1>2 DEF NothingYet, AllTaken
<1>13. Counted'
  <2>1. tkDone' + Cardinality(Active') = tkFrom' - 1
    BY <1>2, <1>3, <1>4, <1>5, <1>6
  <2>2. QED
    BY <2>1 DEF Counted
<1>14. EndedFound'
  <2>1. SUFFICES ASSUME tkOutage = 0, NEW j \in 1..(n - 1), tkStage'[tkHosts[j]] = "off",
                        LeftOpen(tkHosts[j])'
                 PROVE  tkHosts[j] \in tkFound
    BY <1>2 DEF EndedFound
  <2>2. j \in 1..Len(tkHosts)
    BY <1>3, <1>4
  <2>3. PICK g \in HostSet : g = tkHosts[j]
    BY <1>4, <2>2
  <2>4. g \notin C
    BY <1>2, <2>1, <2>3
  <2>5. j \in 1..(tkFrom - 1)
    BY <1>3, <1>4, <2>3, <2>4
  <2>6. LeftOpen(g)
    <3>1. LeftOpen(g)'
      BY <1>2, <2>1, <2>3
    <3>2. QED
      BY <1>2, <3>1, ZoneKept
  <2>7. tkStage[g] = "off"
    BY <1>2 DEF NoTasks
  <2>8. QED
    BY <1>2, <2>1, <2>3, <2>5, <2>6, <2>7 DEF TakeoverInv, EndedFound
<1>15. QED
  BY <1>8, <1>9, <1>10, <1>11, <1>12, <1>13, <1>14 DEF TakeoverInv
\* The list is sorted out of the hosts asked for, no host twice, and is no longer
\* than what was given.
LEMMA ListKeeps ==
  ASSUME TakeoverInv, ListHosts
  PROVE  TakeoverInv'
<1>0. TakeoverTypeOK /\ tkZone \in Zones /\ tkPhase = "start"
  BY DEF TakeoverInv, TakeoverTypeOK, ListHosts
<1>1. /\ UNCHANGED <<tkZone, tkFrom, tkStage, tkChain, tkDone, tkFound, tkClient, tkOutage>>
      /\ tkPhase' \in {"listed", "gone"}
  BY DEF ListHosts, tkTasks
<1>2. tkFrom = 1 /\ tkDone = 0 /\ tkFound = {} /\ tkStage = NoTasks
  BY <1>0 DEF TakeoverInv, NothingYet
<1>3. PICK asked \in SUBSET HostSet : TakeList(asked)
  BY DEF ListHosts
<1>4. PICK sorted \in SetToSeqs(asked) :
         /\ tkHosts' = SubSeq(sorted, 1, IF Len(sorted) < MaxHosts THEN Len(sorted) ELSE MaxHosts)
         /\ tkCut' = IF Len(sorted) > MaxHosts THEN Len(sorted) - MaxHosts ELSE 0
  BY <1>3 DEF TakeList
<1>5. /\ Host \in Seq(DnsName) /\ Len(Host) \in Nat /\ MaxHosts \in Nat
      /\ IsFiniteSet(HostSet) /\ IsFiniteSet(asked)
      /\ Cardinality(asked) \in Nat /\ Cardinality(HostSet) \in Nat
      /\ Cardinality(asked) <= Cardinality(HostSet)
  <2>1. IsFiniteSet(HostSet)
    BY <1>0, ZoneFacts
  <2>2. QED
    BY <2>1, FS_Subset, FS_CardinalityType, TakeoverAssumption
<1>6. Cardinality(HostSet) <= Len(Host)
  <2>1. PICK L \in Nat : L = Len(Host)
    BY <1>5
  <2>2. Host \in Surjection(1..L, HostSet)
    BY <1>5, <2>1 DEF Surjection, HostSet, Range
  <2>3. IsFiniteSet(1..L) /\ Cardinality(1..L) = L
    BY FS_Interval
  <2>4. QED
    BY <2>1, <2>2, <2>3, FS_Surjection
<1>7. PICK n \in Nat : n = Cardinality(asked)
  BY <1>5
<1>8. /\ sorted \in [1..n -> asked] /\ \A i, j \in 1..n : i # j => sorted[i] # sorted[j]
  BY <1>4, <1>7 DEF SetToSeqs
<1>9. sorted \in Seq(HostSet) /\ Len(sorted) = n /\ n <= Len(Host)
  BY <1>3, <1>5, <1>6, <1>7, <1>8
<1>10. PICK m \in Nat : m = IF n < MaxHosts THEN n ELSE MaxHosts
  BY <1>5
<1>11. m <= n /\ m <= MaxHosts
  BY <1>5, <1>10
<1>12. /\ tkHosts' \in Seq(HostSet) /\ Len(tkHosts') = m
       /\ \A k \in 1..m : tkHosts'[k] = sorted[k] /\ k \in 1..n
  BY <1>4, <1>9, <1>10, <1>11
<1>13. tkCut' \in 0..Len(Host)
  BY <1>4, <1>5, <1>9
<1>14. TakeoverTypeOK'
  <2>1. /\ 1 \in 1..(m + 1) /\ 0 \in 0..m
    OBVIOUS
  <2>2. tkFound' \subseteq Range(tkHosts')
    BY <1>1, <1>2
  <2>3. QED
    BY <1>0, <1>1, <1>2, <1>11, <1>12, <1>13, <2>1, <2>2 DEF TakeoverTypeOK
<1>15. Active = {} /\ Active' = {} /\ Cardinality(Active') = 0
  <2>1. Active = {} /\ Active' = {}
    BY <1>1, <1>2 DEF Active, NoTasks
  <2>2. QED
    BY <2>1, FS_EmptySet
<1>16. ListInjective'
  BY <1>8, <1>12 DEF ListInjective
<1>17. ActiveStarted'
  BY <1>15 DEF ActiveStarted, Active
<1>18. ChecksOK'
  BY <1>1, ChecksStay DEF TakeoverInv
<1>19. FoundTakeable' /\ NothingYet' /\ AllTaken'
  BY <1>1, <1>2 DEF FoundTakeable, NothingYet, AllTaken
<1>20. Counted'
  BY <1>1, <1>2, <1>15 DEF Counted
<1>21. EndedFound'
  BY <1>1, <1>2 DEF EndedFound
<1>22. QED
  BY <1>14, <1>16, <1>17, <1>18, <1>19, <1>20, <1>21 DEF TakeoverInv

\* A refusal, the end, and a client that goes.
LEMMA PhaseKeeps ==
  ASSUME TakeoverInv, tkClient' \in BOOLEAN,
         UNCHANGED <<tkZone, tkHosts, tkCut, tkFrom, tkStage, tkChain, tkDone, tkFound, tkOutage>>,
         \/ tkPhase' \in {tkPhase, "error", "gone"}
         \/ /\ tkPhase \in {"listed", "check"} /\ tkPhase' = "done"
            /\ tkStage = NoTasks /\ NextChunk = {}
  PROVE  TakeoverInv'
<1>1. TakeoverTypeOK'
  BY DEF TakeoverInv, TakeoverTypeOK
<1>2. Active' = Active
  BY DEF Active
<1>3. ListInjective' /\ ActiveStarted'
  BY DEF TakeoverInv, ListInjective, ActiveStarted
<1>4. ChecksOK'
  BY ChecksStay DEF TakeoverInv
<1>5. FoundTakeable'
  BY ZoneKept DEF TakeoverInv, FoundTakeable
<1>6. NothingYet'
  BY DEF TakeoverInv, NothingYet
<1>7. Counted'
  BY <1>2 DEF TakeoverInv, Counted
<1>8. AllTaken'
  BY ChunkFacts DEF TakeoverInv, AllTaken
<1>9. EndedFound'
  <2>1. \A k \in 1..(tkFrom - 1) : LeftOpen(tkHosts[k])' => LeftOpen(tkHosts[k])
    <3>1. SUFFICES ASSUME NEW k \in 1..(tkFrom - 1), LeftOpen(tkHosts[k])' PROVE LeftOpen(tkHosts[k])
      OBVIOUS
    <3>2. PICK g : g = tkHosts[k]
      OBVIOUS
    <3>3. LeftOpen(g)'
      BY <3>1, <3>2
    <3>4. LeftOpen(g)
      BY <3>3, ZoneKept
    <3>5. QED
      BY <3>2, <3>4
  <2>2. tkPhase' \in {"listed", "check", "done"} => tkPhase \in {"listed", "check", "done"}
    OBVIOUS
  <2>3. QED
    BY <2>1, <2>2 DEF TakeoverInv, EndedFound
<1>10. QED
  BY <1>1, <1>3, <1>4, <1>5, <1>6, <1>7, <1>8, <1>9 DEF TakeoverInv

LEMMA TakeoverStepInv == TakeoverInv /\ [TakeoverNext]_tkVars => TakeoverInv'
<1> SUFFICES ASSUME TakeoverInv, TakeoverNext \/ UNCHANGED tkVars PROVE TakeoverInv'
  OBVIOUS
<1>1. tkClient \in BOOLEAN
  BY DEF TakeoverInv, TakeoverTypeOK
<1>2. CASE TakeoverRefused
  <2>1. tkClient' \in BOOLEAN
    BY <1>1, <1>2 DEF TakeoverRefused
  <2>2. QED
    BY <1>2, <2>1, PhaseKeeps DEF TakeoverRefused, tkList, tkTasks
<1>3. CASE FinishTakeover
  <2>1. tkClient' \in BOOLEAN
    BY <1>1, <1>3 DEF FinishTakeover
  <2>2. QED
    BY <1>3, <2>1, PhaseKeeps DEF FinishTakeover, tkList, tkTasks
<1>4. CASE ClientGoes
  <2>1. tkClient' \in BOOLEAN
    BY <1>4 DEF ClientGoes
  <2>2. UNCHANGED <<tkZone, tkPhase, tkHosts, tkCut, tkFrom, tkStage, tkChain, tkDone, tkFound, tkOutage>>
    BY <1>4 DEF ClientGoes, tkList, tkTasks
  <2>3. QED
    BY <2>1, <2>2, PhaseKeeps
<1>5. CASE UNCHANGED tkVars
  <2>1. tkClient' \in BOOLEAN
    BY <1>1, <1>5 DEF tkVars
  <2>2. UNCHANGED <<tkZone, tkPhase, tkHosts, tkCut, tkFrom, tkStage, tkChain, tkDone, tkFound, tkOutage>>
    BY <1>5 DEF tkVars, tkList, tkTasks
  <2>3. QED
    BY <2>1, <2>2, PhaseKeeps
<1>6. CASE ListHosts \/ SpawnChunk
  BY <1>6, ListKeeps, SpawnKeeps
<1>7. ASSUME NEW h \in HostSet, CnameLookup(h) \/ Resolve(h) \/ FetchPage(h) PROVE TakeoverInv'
  <2>1. PICK st2, ch2, o2 : Moved(h, st2, ch2, o2)
    BY <1>7, LookupEffect, ResolveEffect, FetchEffect
  <2>2. QED
    BY <2>1, CheckKeeps
<1>8. ASSUME NEW h \in HostSet, JoinOne(h) PROVE TakeoverInv'
  BY <1>8, JoinKeeps
<1>9. QED
  BY <1>2, <1>3, <1>4, <1>5, <1>6, <1>7, <1>8 DEF TakeoverNext, TakeoverStep

LEMMA TakeoverInvSafe == TakeoverInv => TakeoverBacked /\ TakeoverCovers
<1> SUFFICES ASSUME TakeoverInv PROVE TakeoverBacked /\ TakeoverCovers
  OBVIOUS
<1>1. TakeoverBacked
  BY DEF TakeoverInv, FoundTakeable, Takeable, TakeoverBacked
<1>2. ASSUME tkPhase = "done", tkOutage = 0
      PROVE  /\ tkDone = Len(tkHosts)
             /\ \A h \in Range(tkHosts) : LeftOpen(h) => h \in tkFound
  <2>1. tkStage = NoTasks /\ tkFrom = Len(tkHosts) + 1
    BY <1>2 DEF TakeoverInv, AllTaken
  <2>2. /\ Len(tkHosts) \in Nat /\ tkDone \in Nat
        /\ \A k \in 1..Len(tkHosts) : tkHosts[k] \in HostSet
        /\ \A h \in Range(tkHosts) : \E k \in 1..Len(tkHosts) : tkHosts[k] = h
    BY ListFacts DEF TakeoverInv
  <2>3. Cardinality(Active) = 0
    <3>1. Active = {}
      BY <2>1 DEF Active, NoTasks
    <3>2. QED
      BY <3>1, FS_EmptySet
  <2>4. tkDone = Len(tkHosts)
    BY <1>2, <2>1, <2>2, <2>3 DEF TakeoverInv, Counted
  <2>5. ASSUME NEW h \in Range(tkHosts), LeftOpen(h) PROVE h \in tkFound
    <3>1. PICK k \in 1..Len(tkHosts) : tkHosts[k] = h
      BY <2>2
    <3>2. k \in 1..(tkFrom - 1) /\ tkStage[h] = "off"
      BY <2>1, <2>2, <3>1 DEF NoTasks
    <3>3. QED
      BY <1>2, <2>5, <3>1, <3>2 DEF TakeoverInv, EndedFound
  <2>6. QED
    BY <2>4, <2>5
<1>3. TakeoverCovers
  BY <1>2 DEF TakeoverCovers, LeftOpen
<1>4. QED
  BY <1>1, <1>3

\* In every run of a takeover check, for any zone, any list of hosts and any
\* number of tasks and hops: whatever lookups fail, a finding is of a host that
\* can be taken over; and when every lookup was answered, a run that is done has
\* counted each of its hosts and reported each that is open.
THEOREM TakeoverSafe == TakeoverSpec => [](TakeoverTypeOK /\ TakeoverBacked /\ TakeoverCovers)
<1>1. TakeoverInv => TakeoverTypeOK
  BY DEF TakeoverInv
<1>2. QED
  BY <1>1, TakeoverInitInv, TakeoverStepInv, TakeoverInvSafe, PTL DEF TakeoverSpec
-----------------------------------------------------------------------------
(* The active checks: the order of the loops *)

Classes == {"inventory", "ratelimit", "cors", "baseline", "sqli", "cmdi", "ssrf", "xss", "lfi",
            "ssti", "crlf", "nosql", "redirect", "typebase", "type", "massassign", "mined",
            "field", "schema", "suggestion", "dos", "batching", "sensitive", "bfla",
            "argument"}

\* A list of checks: a sample comes before the checks that compare with it.
GoodList(s) ==
    /\ s \in Seq(Classes)
    /\ \A i \in 1..Len(s) : s[i] \in Classes /\ (s[i] = "sqli" => i = 2 /\ s[1] = "baseline")

LEMMA GoodLists ==
  /\ GoodList(<<"inventory", "ratelimit", "cors">>)
  /\ GoodList(<<"baseline", "sqli", "cmdi", "ssrf", "xss", "lfi", "ssti", "crlf", "nosql", "redirect">>)
  /\ GoodList(<<"typebase">>) /\ GoodList(<<"type">>) /\ GoodList(<<"massassign">>)
  /\ GoodList(<<"mined", "field">>) /\ GoodList(<<"schema", "suggestion", "dos", "batching", "sensitive">>)
  /\ GoodList(<<"bfla">>) /\ GoodList(<<"argument">>)
<1>1. GoodList(<<"inventory", "ratelimit", "cors">>)
  <2>1. PICK s : s = <<"inventory", "ratelimit", "cors">>
    OBVIOUS
  <2>2. s \in Seq(Classes) /\ Len(s) = 3 /\ s[1] = "inventory" /\ s[2] = "ratelimit" /\ s[3] = "cors"
    BY <2>1 DEF Classes
  <2>3. QED
    BY <2>1, <2>2 DEF GoodList
<1>2. GoodList(<<"baseline", "sqli", "cmdi", "ssrf", "xss", "lfi", "ssti", "crlf", "nosql", "redirect">>)
  <2>1. PICK s : s = <<"baseline", "sqli", "cmdi", "ssrf", "xss", "lfi", "ssti", "crlf", "nosql", "redirect">>
    OBVIOUS
  <2>2. /\ s \in Seq(Classes) /\ Len(s) = 10 /\ s[1] = "baseline" /\ s[2] = "sqli" /\ s[3] = "cmdi"
        /\ s[4] = "ssrf" /\ s[5] = "xss" /\ s[6] = "lfi" /\ s[7] = "ssti" /\ s[8] = "crlf"
        /\ s[9] = "nosql" /\ s[10] = "redirect"
    BY <2>1 DEF Classes
  <2>3. \A i \in 1..10 : s[i] = "sqli" => i = 2
    BY <2>2
  <2>4. QED
    BY <2>1, <2>2, <2>3 DEF GoodList
<1>3. GoodList(<<"typebase">>) /\ GoodList(<<"type">>) /\ GoodList(<<"massassign">>)
      /\ GoodList(<<"bfla">>) /\ GoodList(<<"argument">>)
  <2>1. ASSUME NEW x \in Classes, x # "sqli" PROVE GoodList(<<x>>)
    <3>1. <<x>> \in Seq(Classes) /\ Len(<<x>>) = 1 /\ <<x>>[1] = x
      OBVIOUS
    <3>2. QED
      BY <2>1, <3>1 DEF GoodList
  <2>2. QED
    BY <2>1 DEF Classes
<1>4. GoodList(<<"mined", "field">>)
  <2>1. PICK s : s = <<"mined", "field">>
    OBVIOUS
  <2>2. s \in Seq(Classes) /\ Len(s) = 2 /\ s[1] = "mined" /\ s[2] = "field"
    BY <2>1 DEF Classes
  <2>3. QED
    BY <2>1, <2>2 DEF GoodList
<1>5. GoodList(<<"schema", "suggestion", "dos", "batching", "sensitive">>)
  <2>1. PICK s : s = <<"schema", "suggestion", "dos", "batching", "sensitive">>
    OBVIOUS
  <2>2. /\ s \in Seq(Classes) /\ Len(s) = 5 /\ s[1] = "schema" /\ s[2] = "suggestion" /\ s[3] = "dos"
        /\ s[4] = "batching" /\ s[5] = "sensitive"
    BY <2>1 DEF Classes
  <2>3. QED
    BY <2>1, <2>2 DEF GoodList
<1>6. QED
  BY <1>1, <1>2, <1>3, <1>4, <1>5

LEMMA PlanFacts ==
  ASSUME NEW mode \in CfMode
  PROVE  Len(Plans[mode]) \in Nat /\ \A part \in 1..Len(Plans[mode]) : GoodList(Plans[mode][part].classes)
<1>1. CASE mode = "inject"
  <2>1. Plans[mode] = InjectPlan
    BY <1>1 DEF Plans
  <2>2. Len(InjectPlan) = 2 /\ GoodList(InjectPlan[1].classes) /\ GoodList(InjectPlan[2].classes)
    BY GoodLists DEF InjectPlan, Part
  <2>3. QED
    BY <2>1, <2>2
<1>2. CASE mode = "fuzz"
  <2>1. Plans[mode] = FuzzPlan
    BY <1>2 DEF Plans
  <2>2. /\ Len(FuzzPlan) = 3 /\ GoodList(FuzzPlan[1].classes) /\ GoodList(FuzzPlan[2].classes)
        /\ GoodList(FuzzPlan[3].classes)
    BY GoodLists DEF FuzzPlan, Part
  <2>3. QED
    BY <2>1, <2>2
<1>3. CASE mode = "discover"
  <2>1. Plans[mode] = DiscoverPlan
    BY <1>3 DEF Plans
  <2>2. Len(DiscoverPlan) = 1 /\ GoodList(DiscoverPlan[1].classes)
    BY GoodLists DEF DiscoverPlan, Part
  <2>3. QED
    BY <2>1, <2>2
<1>4. CASE mode = "graphql"
  <2>1. Plans[mode] = GraphqlPlan
    BY <1>4 DEF Plans
  <2>2. /\ Len(GraphqlPlan) = 3 /\ GoodList(GraphqlPlan[1].classes) /\ GoodList(GraphqlPlan[2].classes)
        /\ GoodList(GraphqlPlan[3].classes)
    BY GoodLists DEF GraphqlPlan, Part
  <2>3. QED
    BY <2>1, <2>2
<1>5. QED
  BY <1>1, <1>2, <1>3, <1>4 DEF CfMode

Position == [ep : Nat, part : Nat, site : Nat, check : Nat]

\* What it takes to be a slot of the loops.
IsSlot(mode, k) ==
    /\ k \in Position
    /\ k.ep \in 1..Len(TakenBy(mode)) /\ k.part \in 1..Len(Plans[mode])
    /\ k.site \in 1..Len(Spots(mode, k.ep, k.part))
    /\ k.check \in 1..Len(Plans[mode][k.part].classes)

LEMMA TakenFacts ==
  ASSUME NEW mode \in CfMode
  PROVE  Len(TakenBy(mode)) \in Nat /\ Len(TakenBy(mode)) <= Len(Endpoints) /\ Len(Endpoints) \in Nat
<1>1. PICK n \in Nat : n = IF mode = "graphql" THEN 1 ELSE MaxEndpoints
  BY ConfirmAssumption
<1>2. Endpoints \in Seq(DOMAIN SitesOf) /\ Len(Endpoints) \in Nat
  BY ConfirmAssumption
<1>3. PICK m \in Nat : m = IF Len(Endpoints) < n THEN Len(Endpoints) ELSE n
  BY <1>2
<1>4. TakenBy(mode) = SubSeq(Endpoints, 1, m) /\ m <= Len(Endpoints)
  BY <1>1, <1>2, <1>3 DEF TakenBy, FirstOf
<1>5. QED
  BY <1>2, <1>3, <1>4

LEMMA SlotFacts ==
  ASSUME NEW mode \in CfMode
  PROVE  \A k : k \in Slots[mode] <=> IsSlot(mode, k)
<1>1. PICK n \in Nat : n = Len(TakenBy(mode))
  BY TakenFacts
<1>2. PICK m \in Nat : m = Len(Plans[mode])
  BY PlanFacts
<1>3. Slots[mode] = UNION {SlotsOf(mode, i, part) : i \in 1..n, part \in 1..m}
  BY <1>1, <1>2 DEF Slots
<1>4. ASSUME NEW k \in Slots[mode] PROVE IsSlot(mode, k)
  <2>1. PICK i \in 1..n, part \in 1..m : k \in SlotsOf(mode, i, part)
    BY <1>3, <1>4
  <2>2. PICK site \in 1..Len(Spots(mode, i, part)), check \in 1..Len(Plans[mode][part].classes) :
           k = Slot(i, part, site, check)
    BY <2>1 DEF SlotsOf
  <2>3. k.ep = i /\ k.part = part /\ k.site = site /\ k.check = check
    BY <2>2 DEF Slot
  <2>4. k \in Position
    BY <2>2 DEF Slot, Position
  <2>5. QED
    BY <1>1, <1>2, <2>3, <2>4 DEF IsSlot
<1>5. ASSUME NEW k, IsSlot(mode, k) PROVE k \in Slots[mode]
  <2>1. k = Slot(k.ep, k.part, k.site, k.check)
    BY <1>5 DEF IsSlot, Position, Slot
  <2>2. k \in SlotsOf(mode, k.ep, k.part)
    BY <1>5, <2>1 DEF IsSlot, SlotsOf
  <2>3. QED
    BY <1>1, <1>2, <1>3, <1>5, <2>2 DEF IsSlot
<1>6. QED
  BY <1>4, <1>5

LEMMA InOrder ==
  /\ \A k, l \in Position : k = l \/ Precedes(k, l) \/ Precedes(l, k)
  /\ \A k, l, r \in Position : Precedes(k, l) /\ Precedes(l, r) => Precedes(k, r)
  /\ \A k \in Position : ~ Precedes(k, k)
<1>1. ASSUME NEW k \in Position, NEW l \in Position, ~ Precedes(k, l), ~ Precedes(l, k) PROVE k = l
  <2>1. k.ep = l.ep /\ k.part = l.part /\ k.site = l.site /\ k.check = l.check
    BY <1>1 DEF Position, Precedes
  <2>2. QED
    BY <2>1 DEF Position
<1>2. ASSUME NEW k \in Position, NEW l \in Position, NEW r \in Position, Precedes(k, l), Precedes(l, r)
      PROVE  Precedes(k, r)
  BY <1>2 DEF Position, Precedes
<1>3. \A k \in Position : ~ Precedes(k, k)
  BY DEF Position, Precedes
<1>4. QED
  BY <1>1, <1>2, <1>3

-----------------------------------------------------------------------------
(* The active checks: what an attempt asks for *)

Expects == {"hit", "clean", "plain", "alone", "any"}

\* The last of an attempt's requests shows the sign, unless something else does.
Reveals(steps, i) == steps[i].expect \in {"hit", "alone"}
\* A place with quirks does not pass it without being open.
QuirkProof(class, signal, steps) ==
    \/ OddlyShown(signal) = {}
    \/ \E i \in 1..Len(steps) : steps[i].expect \in {"clean", "alone"}
    \/ AlwaysShown(signal) = OddlyShown(signal) /\ \E i \in 1..Len(steps) : steps[i].expect = "plain"
    \/ class \in {"type", "mined"} /\ signal = "error"
    \/ class = "nosql" /\ signal = "size"
\* One answer that is not the target's own does not pass it.
NoiseProof(class, signal, steps) ==
    \/ class \in OneAnswer \/ signal = "proof"
    \/ \E i, j \in 1..Len(steps) : i # j /\ steps[i].expect = "hit" /\ steps[j].expect = "hit"

GoodStep(class, signal, step) ==
    /\ step.expect \in Expects /\ step.missing \in {"ok", "next", "end"} /\ step.other \in {"next", "end"}
    /\ step.expect = "any" => class = "baseline"
    /\ class = "baseline" => step.expect = "any"
    /\ class = "typebase" => step.expect = "plain"
    /\ step.other = "end" => class \in {"xss"} \cup Samples \/ step.expect \in {"clean", "plain"}
    /\ signal = "proof" => step.missing = "next"

GoodAttempt(class, at) ==
    /\ Len(at.steps) \in Nat \ {0}
    /\ \A i \in 1..Len(at.steps) : GoodStep(class, at.signal, at.steps[i])
    /\ class \notin Samples => \E i \in 1..Len(at.steps) : Reveals(at.steps, i)
    /\ class \notin Samples => QuirkProof(class, at.signal, at.steps) /\ NoiseProof(class, at.signal, at.steps)
    /\ at.signal = "proof" => Len(at.steps) = 1
    /\ class = "xss" => at.signal = "marker"
    /\ class = "schema" => at.signal = "status"
    /\ class = "typebase" => at.signal = "error"

LEMMA ControlledIsGood ==
  ASSUME NEW class \in {"sqli", "cmdi"}, NEW signal \in {"error", "delay"}
  PROVE  GoodAttempt(class, Controlled(signal))
<1>1. PICK at : at = Controlled(signal)
  OBVIOUS
<1>2. PICK s : s = at.steps
  OBVIOUS
<1>3. at.signal = signal /\ Len(s) = 3 /\ 1 \in 1..Len(s) /\ 3 \in 1..Len(s)
        /\ s[1].expect = "hit" /\ s[1].missing = "next" /\ s[1].other = "next"
        /\ s[2].expect = "clean" /\ s[2].missing = "next" /\ s[2].other = "next"
        /\ s[3].expect = "hit" /\ s[3].missing = "next" /\ s[3].other = "next"
  BY <1>1, <1>2 DEF Attempt, Step, Hit, Clean, Controlled
<1>4. \A i \in 1..Len(s) : i = 1 \/ i = 2 \/ i = 3
  BY <1>3
<1>5. \A i \in 1..Len(s) : GoodStep(class, signal, s[i])
  <2>1. GoodStep(class, signal, s[1])
    BY <1>3 DEF GoodStep, Expects, Samples
  <2>2. GoodStep(class, signal, s[2])
    BY <1>3 DEF GoodStep, Expects, Samples
  <2>3. GoodStep(class, signal, s[3])
    BY <1>3 DEF GoodStep, Expects, Samples
  <2>4. QED
    BY <1>4, <2>1, <2>2, <2>3
<1>6. \E i \in 1..Len(s) : Reveals(s, i)
  <2>1. 3 \in 1..Len(s)
    BY <1>3
  <2>2. QED
    BY <1>3, <2>1 DEF Reveals
<1>7. QuirkProof(class, signal, s)
  <2>1. 2 \in 1..Len(s)
    BY <1>3
  <2>2. QED
    BY <1>3, <2>1 DEF QuirkProof, OddlyShown, AlwaysShown
<1>8. NoiseProof(class, signal, s)
  <2>1. 1 \in 1..Len(s) /\ 3 \in 1..Len(s)
    BY <1>3
  <2>2. QED
    BY <1>3, <2>1 DEF NoiseProof
<1>9. GoodAttempt(class, at)
  BY <1>2, <1>3, <1>5, <1>6, <1>7, <1>8 DEF GoodAttempt
<1>10. QED
  BY <1>1, <1>9

LEMMA BalancedIsGood ==
  ASSUME NEW class, class = "sqli", NEW signal, signal = "error"
  PROVE  GoodAttempt(class, Attempt(signal, <<Hit, Clean, Clean, Hit>>))
<1>1. PICK at : at = Attempt(signal, <<Hit, Clean, Clean, Hit>>)
  OBVIOUS
<1>2. PICK s : s = at.steps
  OBVIOUS
<1>3. at.signal = signal /\ Len(s) = 4 /\ 1 \in 1..Len(s) /\ 4 \in 1..Len(s)
        /\ s[1].expect = "hit" /\ s[1].missing = "next" /\ s[1].other = "next"
        /\ s[2].expect = "clean" /\ s[2].missing = "next" /\ s[2].other = "next"
        /\ s[3].expect = "clean" /\ s[3].missing = "next" /\ s[3].other = "next"
        /\ s[4].expect = "hit" /\ s[4].missing = "next" /\ s[4].other = "next"
  BY <1>1, <1>2 DEF Attempt, Step, Hit, Clean
<1>4. \A i \in 1..Len(s) : i = 1 \/ i = 2 \/ i = 3 \/ i = 4
  BY <1>3
<1>5. \A i \in 1..Len(s) : GoodStep(class, signal, s[i])
  <2>1. GoodStep(class, signal, s[1])
    BY <1>3 DEF GoodStep, Expects, Samples
  <2>2. GoodStep(class, signal, s[2])
    BY <1>3 DEF GoodStep, Expects, Samples
  <2>3. GoodStep(class, signal, s[3])
    BY <1>3 DEF GoodStep, Expects, Samples
  <2>4. GoodStep(class, signal, s[4])
    BY <1>3 DEF GoodStep, Expects, Samples
  <2>5. QED
    BY <1>4, <2>1, <2>2, <2>3, <2>4
<1>6. \E i \in 1..Len(s) : Reveals(s, i)
  <2>1. 4 \in 1..Len(s)
    BY <1>3
  <2>2. QED
    BY <1>3, <2>1 DEF Reveals
<1>7. QuirkProof(class, signal, s)
  <2>1. 2 \in 1..Len(s)
    BY <1>3
  <2>2. QED
    BY <1>3, <2>1 DEF QuirkProof, OddlyShown, AlwaysShown
<1>8. NoiseProof(class, signal, s)
  <2>1. 1 \in 1..Len(s) /\ 4 \in 1..Len(s)
    BY <1>3
  <2>2. QED
    BY <1>3, <2>1 DEF NoiseProof
<1>9. GoodAttempt(class, at)
  BY <1>2, <1>3, <1>5, <1>6, <1>7, <1>8 DEF GoodAttempt
<1>10. QED
  BY <1>1, <1>9

LEMMA MeasuredIsGood ==
  ASSUME NEW class, class = "sqli", NEW signal, signal = "size"
  PROVE  GoodAttempt(class, Attempt(signal, <<Step("plain", "ok", "next"), Hit, Hit>>))
<1>1. PICK at : at = Attempt(signal, <<Step("plain", "ok", "next"), Hit, Hit>>)
  OBVIOUS
<1>2. PICK s : s = at.steps
  OBVIOUS
<1>3. at.signal = signal /\ Len(s) = 3 /\ 1 \in 1..Len(s) /\ 3 \in 1..Len(s)
        /\ s[1].expect = "plain" /\ s[1].missing = "ok" /\ s[1].other = "next"
        /\ s[2].expect = "hit" /\ s[2].missing = "next" /\ s[2].other = "next"
        /\ s[3].expect = "hit" /\ s[3].missing = "next" /\ s[3].other = "next"
  BY <1>1, <1>2 DEF Attempt, Step, Hit, Clean
<1>4. \A i \in 1..Len(s) : i = 1 \/ i = 2 \/ i = 3
  BY <1>3
<1>5. \A i \in 1..Len(s) : GoodStep(class, signal, s[i])
  <2>1. GoodStep(class, signal, s[1])
    BY <1>3 DEF GoodStep, Expects, Samples
  <2>2. GoodStep(class, signal, s[2])
    BY <1>3 DEF GoodStep, Expects, Samples
  <2>3. GoodStep(class, signal, s[3])
    BY <1>3 DEF GoodStep, Expects, Samples
  <2>4. QED
    BY <1>4, <2>1, <2>2, <2>3
<1>6. \E i \in 1..Len(s) : Reveals(s, i)
  <2>1. 3 \in 1..Len(s)
    BY <1>3
  <2>2. QED
    BY <1>3, <2>1 DEF Reveals
<1>7. QuirkProof(class, signal, s)
  <2>1. 1 \in 1..Len(s)
    BY <1>3
  <2>2. QED
    BY <1>3, <2>1 DEF QuirkProof, OddlyShown, AlwaysShown
<1>8. NoiseProof(class, signal, s)
  <2>1. 2 \in 1..Len(s) /\ 3 \in 1..Len(s)
    BY <1>3
  <2>2. QED
    BY <1>3, <2>1 DEF NoiseProof
<1>9. GoodAttempt(class, at)
  BY <1>2, <1>3, <1>5, <1>6, <1>7, <1>8 DEF GoodAttempt
<1>10. QED
  BY <1>1, <1>9

LEMMA ProofIsGood ==
  ASSUME NEW class \in {"cmdi", "ssrf", "argument"}, NEW signal, signal = "proof"
  PROVE  GoodAttempt(class, Attempt(signal, <<Hit>>))
<1>1. PICK at : at = Attempt(signal, <<Hit>>)
  OBVIOUS
<1>2. PICK s : s = at.steps
  OBVIOUS
<1>3. at.signal = signal /\ Len(s) = 1 /\ 1 \in 1..Len(s)
        /\ s[1].expect = "hit" /\ s[1].missing = "next" /\ s[1].other = "next"
  BY <1>1, <1>2 DEF Attempt, Step, Hit, Clean
<1>4. \A i \in 1..Len(s) : i = 1
  BY <1>3
<1>5. \A i \in 1..Len(s) : GoodStep(class, signal, s[i])
  <2>1. GoodStep(class, signal, s[1])
    BY <1>3 DEF GoodStep, Expects, Samples
  <2>2. QED
    BY <1>4, <2>1
<1>6. \E i \in 1..Len(s) : Reveals(s, i)
  <2>1. 1 \in 1..Len(s)
    BY <1>3
  <2>2. QED
    BY <1>3, <2>1 DEF Reveals
<1>7. QuirkProof(class, signal, s)
  BY DEF QuirkProof, OddlyShown
<1>8. NoiseProof(class, signal, s)
  BY DEF NoiseProof, OneAnswer
<1>9. GoodAttempt(class, at)
  BY <1>2, <1>3, <1>5, <1>6, <1>7, <1>8 DEF GoodAttempt
<1>10. QED
  BY <1>1, <1>9

LEMMA ReflectedIsGood ==
  ASSUME NEW class, class = "xss", NEW signal, signal = "marker"
  PROVE  GoodAttempt(class, Attempt(signal, <<Step("hit", "end", "end"), Hit, Hit>>))
<1>1. PICK at : at = Attempt(signal, <<Step("hit", "end", "end"), Hit, Hit>>)
  OBVIOUS
<1>2. PICK s : s = at.steps
  OBVIOUS
<1>3. at.signal = signal /\ Len(s) = 3 /\ 1 \in 1..Len(s) /\ 3 \in 1..Len(s)
        /\ s[1].expect = "hit" /\ s[1].missing = "end" /\ s[1].other = "end"
        /\ s[2].expect = "hit" /\ s[2].missing = "next" /\ s[2].other = "next"
        /\ s[3].expect = "hit" /\ s[3].missing = "next" /\ s[3].other = "next"
  BY <1>1, <1>2 DEF Attempt, Step, Hit, Clean
<1>4. \A i \in 1..Len(s) : i = 1 \/ i = 2 \/ i = 3
  BY <1>3
<1>5. \A i \in 1..Len(s) : GoodStep(class, signal, s[i])
  <2>1. GoodStep(class, signal, s[1])
    BY <1>3 DEF GoodStep, Expects, Samples
  <2>2. GoodStep(class, signal, s[2])
    BY <1>3 DEF GoodStep, Expects, Samples
  <2>3. GoodStep(class, signal, s[3])
    BY <1>3 DEF GoodStep, Expects, Samples
  <2>4. QED
    BY <1>4, <2>1, <2>2, <2>3
<1>6. \E i \in 1..Len(s) : Reveals(s, i)
  <2>1. 3 \in 1..Len(s)
    BY <1>3
  <2>2. QED
    BY <1>3, <2>1 DEF Reveals
<1>7. QuirkProof(class, signal, s)
  BY DEF QuirkProof, OddlyShown
<1>8. NoiseProof(class, signal, s)
  <2>1. 1 \in 1..Len(s) /\ 3 \in 1..Len(s)
    BY <1>3
  <2>2. QED
    BY <1>3, <2>1 DEF NoiseProof
<1>9. GoodAttempt(class, at)
  BY <1>2, <1>3, <1>5, <1>6, <1>7, <1>8 DEF GoodAttempt
<1>10. QED
  BY <1>1, <1>9

LEMMA RepeatedIsGood ==
  ASSUME NEW class, NEW signal,
         \/ class \in {"xss", "crlf", "redirect", "cors"} /\ signal = "marker"
         \/ class = "nosql" /\ signal = "size"
         \/ class = "type" /\ signal = "error"
  PROVE  GoodAttempt(class, Twice(signal))
<1>1. PICK at : at = Twice(signal)
  OBVIOUS
<1>2. PICK s : s = at.steps
  OBVIOUS
<1>3. at.signal = signal /\ Len(s) = 2 /\ 1 \in 1..Len(s) /\ 2 \in 1..Len(s)
        /\ s[1].expect = "hit" /\ s[1].missing = "next" /\ s[1].other = "next"
        /\ s[2].expect = "hit" /\ s[2].missing = "next" /\ s[2].other = "next"
  BY <1>1, <1>2 DEF Attempt, Step, Hit, Clean, Twice
<1>4. \A i \in 1..Len(s) : i = 1 \/ i = 2
  BY <1>3
<1>5. \A i \in 1..Len(s) : GoodStep(class, signal, s[i])
  <2>1. GoodStep(class, signal, s[1])
    BY <1>3 DEF GoodStep, Expects, Samples
  <2>2. GoodStep(class, signal, s[2])
    BY <1>3 DEF GoodStep, Expects, Samples
  <2>3. QED
    BY <1>4, <2>1, <2>2
<1>6. \E i \in 1..Len(s) : Reveals(s, i)
  <2>1. 2 \in 1..Len(s)
    BY <1>3
  <2>2. QED
    BY <1>3, <2>1 DEF Reveals
<1>7. QuirkProof(class, signal, s)
  BY DEF QuirkProof, OddlyShown
<1>8. NoiseProof(class, signal, s)
  <2>1. 1 \in 1..Len(s) /\ 2 \in 1..Len(s)
    BY <1>3
  <2>2. QED
    BY <1>3, <2>1 DEF NoiseProof
<1>9. GoodAttempt(class, at)
  BY <1>2, <1>3, <1>5, <1>6, <1>7, <1>8 DEF GoodAttempt
<1>10. QED
  BY <1>1, <1>9

LEMMA InsistedIsGood ==
  ASSUME NEW class \in {"lfi", "ssti"}, NEW signal, signal = "marker"
  PROVE  GoodAttempt(class, Attempt(signal, <<Insist, Insist>>))
<1>1. PICK at : at = Attempt(signal, <<Insist, Insist>>)
  OBVIOUS
<1>2. PICK s : s = at.steps
  OBVIOUS
<1>3. at.signal = signal /\ Len(s) = 2 /\ 1 \in 1..Len(s) /\ 2 \in 1..Len(s)
        /\ s[1].expect = "hit" /\ s[1].missing = "end" /\ s[1].other = "next"
        /\ s[2].expect = "hit" /\ s[2].missing = "end" /\ s[2].other = "next"
  BY <1>1, <1>2 DEF Attempt, Step, Hit, Clean, Insist
<1>4. \A i \in 1..Len(s) : i = 1 \/ i = 2
  BY <1>3
<1>5. \A i \in 1..Len(s) : GoodStep(class, signal, s[i])
  <2>1. GoodStep(class, signal, s[1])
    BY <1>3 DEF GoodStep, Expects, Samples
  <2>2. GoodStep(class, signal, s[2])
    BY <1>3 DEF GoodStep, Expects, Samples
  <2>3. QED
    BY <1>4, <2>1, <2>2
<1>6. \E i \in 1..Len(s) : Reveals(s, i)
  <2>1. 2 \in 1..Len(s)
    BY <1>3
  <2>2. QED
    BY <1>3, <2>1 DEF Reveals
<1>7. QuirkProof(class, signal, s)
  BY DEF QuirkProof, OddlyShown
<1>8. NoiseProof(class, signal, s)
  <2>1. 1 \in 1..Len(s) /\ 2 \in 1..Len(s)
    BY <1>3
  <2>2. QED
    BY <1>3, <2>1 DEF NoiseProof
<1>9. GoodAttempt(class, at)
  BY <1>2, <1>3, <1>5, <1>6, <1>7, <1>8 DEF GoodAttempt
<1>10. QED
  BY <1>1, <1>9

LEMMA AnsweredIsGood ==
  ASSUME NEW class, NEW signal,
         \/ /\ class \in {"inventory", "schema", "suggestion", "dos", "batching", "sensitive", "bfla"}
            /\ signal = "status"
         \/ class = "mined" /\ signal = "error"
  PROVE  GoodAttempt(class, Attempt(signal, <<Hit>>))
<1>1. PICK at : at = Attempt(signal, <<Hit>>)
  OBVIOUS
<1>2. PICK s : s = at.steps
  OBVIOUS
<1>3. at.signal = signal /\ Len(s) = 1 /\ 1 \in 1..Len(s)
        /\ s[1].expect = "hit" /\ s[1].missing = "next" /\ s[1].other = "next"
  BY <1>1, <1>2 DEF Attempt, Step, Hit, Clean
<1>4. \A i \in 1..Len(s) : i = 1
  BY <1>3
<1>5. \A i \in 1..Len(s) : GoodStep(class, signal, s[i])
  <2>1. GoodStep(class, signal, s[1])
    BY <1>3 DEF GoodStep, Expects, Samples
  <2>2. QED
    BY <1>4, <2>1
<1>6. \E i \in 1..Len(s) : Reveals(s, i)
  <2>1. 1 \in 1..Len(s)
    BY <1>3
  <2>2. QED
    BY <1>3, <2>1 DEF Reveals
<1>7. QuirkProof(class, signal, s)
  BY DEF QuirkProof, OddlyShown
<1>8. NoiseProof(class, signal, s)
  BY DEF NoiseProof, OneAnswer
<1>9. GoodAttempt(class, at)
  BY <1>2, <1>3, <1>5, <1>6, <1>7, <1>8 DEF GoodAttempt
<1>10. QED
  BY <1>1, <1>9

LEMMA BurstIsGood ==
  ASSUME NEW class, class = "ratelimit", NEW signal, signal = "status"
  PROVE  GoodAttempt(class, Attempt(signal, [i \in 1..4 |-> Step("hit", "ok", "next")]))
<1>1. PICK at : at = Attempt(signal, [i \in 1..4 |-> Step("hit", "ok", "next")])
  OBVIOUS
<1>2. PICK s : s = at.steps
  OBVIOUS
<1>3. at.signal = signal /\ Len(s) = 4 /\ 1 \in 1..Len(s) /\ 4 \in 1..Len(s)
        /\ s[1].expect = "hit" /\ s[1].missing = "ok" /\ s[1].other = "next"
        /\ s[2].expect = "hit" /\ s[2].missing = "ok" /\ s[2].other = "next"
        /\ s[3].expect = "hit" /\ s[3].missing = "ok" /\ s[3].other = "next"
        /\ s[4].expect = "hit" /\ s[4].missing = "ok" /\ s[4].other = "next"
  BY <1>1, <1>2 DEF Attempt, Step, Hit, Clean
<1>4. \A i \in 1..Len(s) : i = 1 \/ i = 2 \/ i = 3 \/ i = 4
  BY <1>3
<1>5. \A i \in 1..Len(s) : GoodStep(class, signal, s[i])
  <2>1. GoodStep(class, signal, s[1])
    BY <1>3 DEF GoodStep, Expects, Samples
  <2>2. GoodStep(class, signal, s[2])
    BY <1>3 DEF GoodStep, Expects, Samples
  <2>3. GoodStep(class, signal, s[3])
    BY <1>3 DEF GoodStep, Expects, Samples
  <2>4. GoodStep(class, signal, s[4])
    BY <1>3 DEF GoodStep, Expects, Samples
  <2>5. QED
    BY <1>4, <2>1, <2>2, <2>3, <2>4
<1>6. \E i \in 1..Len(s) : Reveals(s, i)
  <2>1. 4 \in 1..Len(s)
    BY <1>3
  <2>2. QED
    BY <1>3, <2>1 DEF Reveals
<1>7. QuirkProof(class, signal, s)
  BY DEF QuirkProof, OddlyShown
<1>8. NoiseProof(class, signal, s)
  <2>1. 1 \in 1..Len(s) /\ 4 \in 1..Len(s)
    BY <1>3
  <2>2. QED
    BY <1>3, <2>1 DEF NoiseProof
<1>9. GoodAttempt(class, at)
  BY <1>2, <1>3, <1>5, <1>6, <1>7, <1>8 DEF GoodAttempt
<1>10. QED
  BY <1>1, <1>9

LEMMA AssignedIsGood ==
  ASSUME NEW class, class = "massassign", NEW signal, signal = "echo"
  PROVE  GoodAttempt(class, Attempt(signal, <<Step("alone", "next", "next")>>))
<1>1. PICK at : at = Attempt(signal, <<Step("alone", "next", "next")>>)
  OBVIOUS
<1>2. PICK s : s = at.steps
  OBVIOUS
<1>3. at.signal = signal /\ Len(s) = 1 /\ 1 \in 1..Len(s)
        /\ s[1].expect = "alone" /\ s[1].missing = "next" /\ s[1].other = "next"
  BY <1>1, <1>2 DEF Attempt, Step, Hit, Clean
<1>4. \A i \in 1..Len(s) : i = 1
  BY <1>3
<1>5. \A i \in 1..Len(s) : GoodStep(class, signal, s[i])
  <2>1. GoodStep(class, signal, s[1])
    BY <1>3 DEF GoodStep, Expects, Samples
  <2>2. QED
    BY <1>4, <2>1
<1>6. \E i \in 1..Len(s) : Reveals(s, i)
  <2>1. 1 \in 1..Len(s)
    BY <1>3
  <2>2. QED
    BY <1>3, <2>1 DEF Reveals
<1>7. QuirkProof(class, signal, s)
  <2>1. 1 \in 1..Len(s)
    BY <1>3
  <2>2. QED
    BY <1>3, <2>1 DEF QuirkProof, OddlyShown, AlwaysShown
<1>8. NoiseProof(class, signal, s)
  BY DEF NoiseProof, OneAnswer
<1>9. GoodAttempt(class, at)
  BY <1>2, <1>3, <1>5, <1>6, <1>7, <1>8 DEF GoodAttempt
<1>10. QED
  BY <1>1, <1>9

LEMMA CalibratedIsGood ==
  ASSUME NEW class, class = "field", NEW signal, signal = "size"
  PROVE  GoodAttempt(class, Attempt(signal, <<Step("clean", "end", "end"), Step("clean", "end", "end"), Hit, Hit>>))
<1>1. PICK at : at = Attempt(signal, <<Step("clean", "end", "end"), Step("clean", "end", "end"), Hit, Hit>>)
  OBVIOUS
<1>2. PICK s : s = at.steps
  OBVIOUS
<1>3. at.signal = signal /\ Len(s) = 4 /\ 1 \in 1..Len(s) /\ 4 \in 1..Len(s)
        /\ s[1].expect = "clean" /\ s[1].missing = "end" /\ s[1].other = "end"
        /\ s[2].expect = "clean" /\ s[2].missing = "end" /\ s[2].other = "end"
        /\ s[3].expect = "hit" /\ s[3].missing = "next" /\ s[3].other = "next"
        /\ s[4].expect = "hit" /\ s[4].missing = "next" /\ s[4].other = "next"
  BY <1>1, <1>2 DEF Attempt, Step, Hit, Clean
<1>4. \A i \in 1..Len(s) : i = 1 \/ i = 2 \/ i = 3 \/ i = 4
  BY <1>3
<1>5. \A i \in 1..Len(s) : GoodStep(class, signal, s[i])
  <2>1. GoodStep(class, signal, s[1])
    BY <1>3 DEF GoodStep, Expects, Samples
  <2>2. GoodStep(class, signal, s[2])
    BY <1>3 DEF GoodStep, Expects, Samples
  <2>3. GoodStep(class, signal, s[3])
    BY <1>3 DEF GoodStep, Expects, Samples
  <2>4. GoodStep(class, signal, s[4])
    BY <1>3 DEF GoodStep, Expects, Samples
  <2>5. QED
    BY <1>4, <2>1, <2>2, <2>3, <2>4
<1>6. \E i \in 1..Len(s) : Reveals(s, i)
  <2>1. 4 \in 1..Len(s)
    BY <1>3
  <2>2. QED
    BY <1>3, <2>1 DEF Reveals
<1>7. QuirkProof(class, signal, s)
  <2>1. 1 \in 1..Len(s)
    BY <1>3
  <2>2. QED
    BY <1>3, <2>1 DEF QuirkProof, OddlyShown, AlwaysShown
<1>8. NoiseProof(class, signal, s)
  <2>1. 3 \in 1..Len(s) /\ 4 \in 1..Len(s)
    BY <1>3
  <2>2. QED
    BY <1>3, <2>1 DEF NoiseProof
<1>9. GoodAttempt(class, at)
  BY <1>2, <1>3, <1>5, <1>6, <1>7, <1>8 DEF GoodAttempt
<1>10. QED
  BY <1>1, <1>9

LEMMA ArguedIsGood ==
  ASSUME NEW class, class = "argument", NEW signal, signal = "error"
  PROVE  GoodAttempt(class, Attempt(signal, <<Step("plain", "ok", "next"), Hit, Clean>>))
<1>1. PICK at : at = Attempt(signal, <<Step("plain", "ok", "next"), Hit, Clean>>)
  OBVIOUS
<1>2. PICK s : s = at.steps
  OBVIOUS
<1>3. at.signal = signal /\ Len(s) = 3 /\ 1 \in 1..Len(s) /\ 3 \in 1..Len(s)
        /\ s[1].expect = "plain" /\ s[1].missing = "ok" /\ s[1].other = "next"
        /\ s[2].expect = "hit" /\ s[2].missing = "next" /\ s[2].other = "next"
        /\ s[3].expect = "clean" /\ s[3].missing = "next" /\ s[3].other = "next"
  BY <1>1, <1>2 DEF Attempt, Step, Hit, Clean
<1>4. \A i \in 1..Len(s) : i = 1 \/ i = 2 \/ i = 3
  BY <1>3
<1>5. \A i \in 1..Len(s) : GoodStep(class, signal, s[i])
  <2>1. GoodStep(class, signal, s[1])
    BY <1>3 DEF GoodStep, Expects, Samples
  <2>2. GoodStep(class, signal, s[2])
    BY <1>3 DEF GoodStep, Expects, Samples
  <2>3. GoodStep(class, signal, s[3])
    BY <1>3 DEF GoodStep, Expects, Samples
  <2>4. QED
    BY <1>4, <2>1, <2>2, <2>3
<1>6. \E i \in 1..Len(s) : Reveals(s, i)
  <2>1. 2 \in 1..Len(s)
    BY <1>3
  <2>2. QED
    BY <1>3, <2>1 DEF Reveals
<1>7. QuirkProof(class, signal, s)
  <2>1. 3 \in 1..Len(s)
    BY <1>3
  <2>2. QED
    BY <1>3, <2>1 DEF QuirkProof, OddlyShown, AlwaysShown
<1>8. NoiseProof(class, signal, s)
  BY DEF NoiseProof, OneAnswer
<1>9. GoodAttempt(class, at)
  BY <1>2, <1>3, <1>5, <1>6, <1>7, <1>8 DEF GoodAttempt
<1>10. QED
  BY <1>1, <1>9

LEMMA SampledIsGood ==
  ASSUME NEW class, class = "baseline", NEW signal, signal = "error"
  PROVE  GoodAttempt(class, Attempt(signal, <<Step("any", "end", "end")>>))
<1>1. PICK at : at = Attempt(signal, <<Step("any", "end", "end")>>)
  OBVIOUS
<1>2. PICK s : s = at.steps
  OBVIOUS
<1>3. at.signal = signal /\ Len(s) = 1 /\ 1 \in 1..Len(s)
        /\ s[1].expect = "any" /\ s[1].missing = "end" /\ s[1].other = "end"
  BY <1>1, <1>2 DEF Attempt, Step, Hit, Clean
<1>4. \A i \in 1..Len(s) : i = 1
  BY <1>3
<1>5. \A i \in 1..Len(s) : GoodStep(class, signal, s[i])
  <2>1. GoodStep(class, signal, s[1])
    BY <1>3 DEF GoodStep, Expects, Samples
  <2>2. QED
    BY <1>4, <2>1
<1>6. GoodAttempt(class, at)
  BY <1>2, <1>3, <1>5 DEF GoodAttempt, Samples
<1>7. QED
  BY <1>1, <1>6

LEMMA TypedIsGood ==
  ASSUME NEW class, class = "typebase", NEW signal, signal = "error"
  PROVE  GoodAttempt(class, Attempt(signal, <<Step("plain", "end", "end")>>))
<1>1. PICK at : at = Attempt(signal, <<Step("plain", "end", "end")>>)
  OBVIOUS
<1>2. PICK s : s = at.steps
  OBVIOUS
<1>3. at.signal = signal /\ Len(s) = 1 /\ 1 \in 1..Len(s)
        /\ s[1].expect = "plain" /\ s[1].missing = "end" /\ s[1].other = "end"
  BY <1>1, <1>2 DEF Attempt, Step, Hit, Clean
<1>4. \A i \in 1..Len(s) : i = 1
  BY <1>3
<1>5. \A i \in 1..Len(s) : GoodStep(class, signal, s[i])
  <2>1. GoodStep(class, signal, s[1])
    BY <1>3 DEF GoodStep, Expects, Samples
  <2>2. QED
    BY <1>4, <2>1
<1>6. GoodAttempt(class, at)
  BY <1>2, <1>3, <1>5 DEF GoodAttempt, Samples
<1>7. QED
  BY <1>1, <1>6
\* A check is a list of such attempts.
GoodTries(class, s) == Len(s) \in Nat /\ \A t \in 1..Len(s) : GoodAttempt(class, s[t])
GoodCheck(class, s) ==
    /\ GoodTries(class, s)
    /\ UseOast \/ class # "ssrf" => Len(s) # 0

LEMMA OneAttempt ==
  ASSUME NEW class, NEW x, GoodAttempt(class, x)
  PROVE  GoodCheck(class, <<x>>)
<1>1. PICK s : s = <<x>>
  OBVIOUS
<1>2. Len(s) = 1 /\ s[1] = x
  BY <1>1
<1>3. GoodCheck(class, s)
  BY <1>2 DEF GoodCheck, GoodTries
<1>4. QED
  BY <1>1, <1>3

LEMMA TwoAttempts ==
  ASSUME NEW class, NEW x, NEW y, GoodAttempt(class, x), GoodAttempt(class, y)
  PROVE  GoodCheck(class, <<x, y>>)
<1>1. PICK s : s = <<x, y>>
  OBVIOUS
<1>2. Len(s) = 2 /\ s[1] = x /\ s[2] = y
  BY <1>1
<1>3. \A t \in 1..Len(s) : t = 1 \/ t = 2
  BY <1>2
<1>4. GoodCheck(class, s)
  BY <1>2, <1>3 DEF GoodCheck, GoodTries
<1>5. QED
  BY <1>1, <1>4

LEMMA ThreeAttempts ==
  ASSUME NEW class, NEW x, NEW y, NEW z, GoodAttempt(class, x), GoodAttempt(class, y), GoodAttempt(class, z)
  PROVE  GoodCheck(class, <<x, y, z>>)
<1>1. PICK s : s = <<x, y, z>>
  OBVIOUS
<1>2. Len(s) = 3 /\ s[1] = x /\ s[2] = y /\ s[3] = z
  BY <1>1
<1>3. \A t \in 1..Len(s) : t = 1 \/ t = 2 \/ t = 3
  BY <1>2
<1>4. GoodCheck(class, s)
  BY <1>2, <1>3 DEF GoodCheck, GoodTries
<1>5. QED
  BY <1>1, <1>4

LEMMA MoreAttempts ==
  ASSUME NEW class, NEW S, NEW s \in Seq(S), NEW r \in Seq(S),
         GoodCheck(class, s), GoodTries(class, r)
  PROVE  GoodCheck(class, s \o r)
<1>1. PICK v : v = s \o r
  OBVIOUS
<1>2. /\ Len(s) \in Nat /\ Len(r) \in Nat /\ Len(v) = Len(s) + Len(r)
      /\ \A t \in 1..Len(s) : v[t] = s[t]
      /\ \A t \in 1..Len(v) : t > Len(s) => v[t] = r[t - Len(s)]
  BY <1>1
<1>3. ASSUME NEW t \in 1..Len(v) PROVE GoodAttempt(class, v[t])
  <2>1. CASE t <= Len(s)
    BY <1>2, <2>1 DEF GoodCheck, GoodTries
  <2>2. CASE t > Len(s)
    <3>1. t - Len(s) \in 1..Len(r)
      BY <1>2, <2>2
    <3>2. QED
      BY <1>2, <2>2, <3>1 DEF GoodCheck, GoodTries
  <2>3. QED
    BY <1>2, <2>1, <2>2
<1>4. GoodCheck(class, v)
  BY <1>2, <1>3 DEF GoodCheck, GoodTries
<1>5. QED
  BY <1>1, <1>4

LEMMA SqliIsGood == GoodCheck("sqli", ProbeSqli)
<1>1. PICK x, y, z, v : /\ x = Controlled("error") /\ y = Attempt("error", <<Hit, Clean, Clean, Hit>>)
                        /\ z = Attempt("size", <<Step("plain", "ok", "next"), Hit, Hit>>)
                        /\ v = Controlled("delay")
  OBVIOUS
<1>2. GoodAttempt("sqli", x) /\ GoodAttempt("sqli", v)
  BY <1>1, ControlledIsGood
<1>3. GoodAttempt("sqli", y)
  BY <1>1, BalancedIsGood
<1>4. GoodAttempt("sqli", z)
  BY <1>1, MeasuredIsGood
<1>5. PICK s : s = <<x, y, z, v>>
  OBVIOUS
<1>6. s = ProbeSqli
  BY <1>1, <1>5 DEF ProbeSqli
<1>7. Len(s) = 4 /\ s[1] = x /\ s[2] = y /\ s[3] = z /\ s[4] = v
  BY <1>5
<1>8. \A t \in 1..Len(s) : t = 1 \/ t = 2 \/ t = 3 \/ t = 4
  BY <1>7
<1>9. GoodCheck("sqli", s)
  BY <1>2, <1>3, <1>4, <1>7, <1>8 DEF GoodCheck, GoodTries
<1>10. QED
  BY <1>6, <1>9

LEMMA CalledBackIsGood ==
  /\ GoodCheck("cmdi", ProbeCmdi) /\ GoodCheck("ssrf", ProbeSsrf)
  /\ GoodCheck("argument", ProbeFieldInjection)
<1>1. PICK x : x = Attempt("proof", <<Hit>>)
  OBVIOUS
<1>2. GoodAttempt("cmdi", x) /\ GoodAttempt("ssrf", x) /\ GoodAttempt("argument", x)
  BY <1>1, ProofIsGood
<1>3. PICK y : y = Controlled("delay")
  OBVIOUS
<1>4. GoodAttempt("cmdi", y)
  BY <1>3, ControlledIsGood
<1>5. PICK z : z = Attempt("error", <<Step("plain", "ok", "next"), Hit, Clean>>)
  OBVIOUS
<1>6. GoodAttempt("argument", z)
  BY <1>5, ArguedIsGood
<1>7. PICK S : S = {x, y, z}
  OBVIOUS
<1>8. PICK r : r = CalledBack
  OBVIOUS
<1>9. r \in Seq(S) /\ \A class \in {"cmdi", "ssrf", "argument"} : GoodTries(class, r)
  <2>1. CASE UseOast
    <3>1. r = <<x>>
      BY <1>1, <1>8, <2>1 DEF CalledBack
    <3>2. r \in Seq(S)
      BY <1>7, <3>1
    <3>3. QED
      BY <1>2, <3>1, <3>2, OneAttempt DEF GoodCheck
  <2>2. CASE ~ UseOast
    <3>1. r = <<>>
      BY <1>8, <2>2 DEF CalledBack
    <3>2. r \in Seq(S) /\ Len(r) = 0
      BY <3>1
    <3>3. QED
      BY <3>2 DEF GoodTries
  <2>3. QED
    BY <2>1, <2>2
<1>10. GoodCheck("ssrf", ProbeSsrf)
  <2>1. UseOast => Len(r) # 0
    BY <1>8 DEF CalledBack
  <2>2. QED
    BY <1>8, <1>9, <2>1 DEF ProbeSsrf, GoodCheck
<1>11. GoodCheck("argument", ProbeFieldInjection)
  <2>1. <<z>> \in Seq(S) /\ GoodCheck("argument", <<z>>)
    BY <1>6, <1>7, OneAttempt
  <2>2. GoodCheck("argument", <<z>> \o r)
    BY <1>9, <2>1, MoreAttempts
  <2>3. QED
    BY <1>5, <1>8, <2>2 DEF ProbeFieldInjection
<1>12. GoodCheck("cmdi", ProbeCmdi)
  <2>1. <<x>> \in Seq(S) /\ GoodCheck("cmdi", <<x>>) /\ <<y>> \in Seq(S) /\ GoodTries("cmdi", <<y>>)
    BY <1>2, <1>4, <1>7, OneAttempt DEF GoodCheck
  <2>2. GoodCheck("cmdi", <<x>> \o r) /\ <<x>> \o r \in Seq(S)
    <3>1. <<x>> \o r \in Seq(S)
      BY <1>9, <2>1
    <3>2. GoodTries("cmdi", r)
      BY <1>9
    <3>3. QED
      BY <1>9, <2>1, <3>1, <3>2, MoreAttempts
  <2>3. GoodCheck("cmdi", <<x>> \o r \o <<y>>)
    BY <2>1, <2>2, MoreAttempts
  <2>4. QED
    BY <1>1, <1>3, <1>8, <2>3 DEF ProbeCmdi
<1>13. QED
  BY <1>10, <1>11, <1>12

LEMMA ChecksAreGood ==
  ASSUME NEW class \in Classes
  PROVE  GoodCheck(class, AttemptsOf(class))
<1>1. CASE class \in {"sqli", "cmdi", "ssrf", "argument"}
  BY <1>1, SqliIsGood, CalledBackIsGood DEF AttemptsOf
<1>2. CASE class = "xss"
  <2>1. /\ GoodAttempt("xss", Attempt("marker", <<Step("hit", "end", "end"), Hit, Hit>>))
        /\ GoodAttempt("xss", Twice("marker"))
    BY ReflectedIsGood, RepeatedIsGood
  <2>2. GoodCheck("xss", ProbeXss)
    BY <2>1, TwoAttempts DEF ProbeXss
  <2>3. QED
    BY <1>2, <2>2 DEF AttemptsOf
<1>3. CASE class \in {"lfi", "ssti"}
  <2>1. GoodAttempt(class, Attempt("marker", <<Insist, Insist>>))
    BY <1>3, InsistedIsGood
  <2>2. GoodCheck(class, ProbeLfi)
    BY <2>1, TwoAttempts DEF ProbeLfi
  <2>3. QED
    BY <1>3, <2>2 DEF AttemptsOf, ProbeSsti
<1>4. CASE class \in {"crlf", "redirect"}
  <2>1. GoodAttempt(class, Twice("marker"))
    BY <1>4, RepeatedIsGood
  <2>2. GoodCheck(class, <<Twice("marker"), Twice("marker")>>)
    BY <2>1, TwoAttempts
  <2>3. QED
    BY <1>4, <2>2 DEF AttemptsOf, ProbeCrlf, ProbeOpenRedirect
<1>5. CASE class = "type"
  <2>1. GoodAttempt(class, Twice("error"))
    BY <1>5, RepeatedIsGood
  <2>2. GoodCheck(class, <<Twice("error"), Twice("error")>>)
    BY <2>1, TwoAttempts
  <2>3. QED
    BY <1>5, <2>2 DEF AttemptsOf, ProbeTypefuzz
<1>6. CASE class = "nosql"
  <2>1. GoodAttempt(class, Twice("size"))
    BY <1>6, RepeatedIsGood
  <2>2. QED
    BY <1>6, <2>1, OneAttempt DEF AttemptsOf, ProbeNosql
<1>7. CASE class = "cors"
  <2>1. GoodAttempt(class, Twice("marker"))
    BY <1>7, RepeatedIsGood
  <2>2. QED
    BY <1>7, <2>1, OneAttempt DEF AttemptsOf, ProbeCors
<1>8. CASE class \in {"inventory", "schema", "suggestion", "dos", "batching", "sensitive", "bfla"}
  <2>1. GoodAttempt(class, Attempt("status", <<Hit>>))
    BY <1>8, AnsweredIsGood
  <2>2. GoodCheck(class, <<Attempt("status", <<Hit>>)>>)
    BY <2>1, OneAttempt
  <2>3. QED
    BY <1>8, <2>2 DEF AttemptsOf, ProbeInventory, OneDocument
<1>9. CASE class = "mined"
  <2>1. GoodAttempt(class, Attempt("error", <<Hit>>))
    BY <1>9, AnsweredIsGood
  <2>2. QED
    BY <1>9, <2>1, OneAttempt DEF AttemptsOf, MineFields
<1>10. CASE class = "ratelimit"
  <2>1. GoodAttempt(class, Attempt("status", [i \in 1..4 |-> Step("hit", "ok", "next")]))
    BY <1>10, BurstIsGood
  <2>2. QED
    BY <1>10, <2>1, OneAttempt DEF AttemptsOf, ProbeRatelimit
<1>11. CASE class = "massassign"
  <2>1. GoodAttempt(class, Attempt("echo", <<Step("alone", "next", "next")>>))
    BY <1>11, AssignedIsGood
  <2>2. QED
    BY <1>11, <2>1, OneAttempt DEF AttemptsOf, ProbeMassassign
<1>12. CASE class = "field"
  <2>1. GoodAttempt(class, Attempt("size", <<Step("clean", "end", "end"), Step("clean", "end", "end"), Hit, Hit>>))
    BY <1>12, CalibratedIsGood
  <2>2. QED
    BY <1>12, <2>1, OneAttempt DEF AttemptsOf, BruteFields
<1>13. CASE class = "baseline"
  <2>1. GoodAttempt(class, Attempt("error", <<Step("any", "end", "end")>>))
    BY <1>13, SampledIsGood
  <2>2. QED
    BY <1>13, <2>1, OneAttempt DEF AttemptsOf, SiteBaseline
<1>14. CASE class = "typebase"
  <2>1. GoodAttempt(class, Attempt("error", <<Step("plain", "end", "end")>>))
    BY <1>14, TypedIsGood
  <2>2. QED
    BY <1>14, <2>1, OneAttempt DEF AttemptsOf, TypeBaseline
<1>15. QED
  BY <1>1, <1>2, <1>3, <1>4, <1>5, <1>6, <1>7, <1>8, <1>9, <1>10, <1>11, <1>12, <1>13, <1>14
     DEF Classes
-----------------------------------------------------------------------------
(* The active checks: what the answers so far say of a place *)

\* Shows, OpenTo, Quirky and Natural of a given target.
ShowsIn(tg, item, signal, expect) ==
    LET fault  == <<item.class, signal>> \in tg[item.on].open
        quirks == tg[item.on].quirks
        odd    == quirks \cap OddlyShown(signal) # {}
    IN CASE expect = "hit"   -> fault \/ odd
         [] expect = "clean" -> ~ odd
         [] expect = "plain" -> quirks \cap AlwaysShown(signal) = {}
         [] expect = "alone" -> fault /\ ~ odd
         [] expect = "any"   -> TRUE
OpenIn(tg, place, class) == \E sign \in Sought(class) : <<class, sign>> \in tg[place].open
QuirkyIn(tg, place) == tg[place].quirks # {}
NaturalIn(tg, place, class) ==
    \/ class \in {"type", "mined"} /\ tg[place].quirks \cap {"fragile", "broken"} # {}
    \/ class = "nosql" /\ "wobbly" \in tg[place].quirks

LEMMA OfTarget ==
  /\ \A item, signal, expect : Shows(item, signal, expect) <=> ShowsIn(cfTarget, item, signal, expect)
  /\ \A place, class : OpenTo(place, class) <=> OpenIn(cfTarget, place, class)
  /\ \A place : Quirky(place) <=> QuirkyIn(cfTarget, place)
<1>1. \A item, signal, expect : Shows(item, signal, expect) <=> ShowsIn(cfTarget, item, signal, expect)
  BY DEF Shows, ShowsIn
<1>2. \A place, class : OpenTo(place, class) <=> OpenIn(cfTarget, place, class)
  BY DEF OpenTo, OpenIn
<1>3. \A place : Quirky(place) <=> QuirkyIn(cfTarget, place)
  BY DEF Quirky, QuirkyIn
<1>4. QED
  BY <1>1, <1>2, <1>3

\* A place without quirks shows what it is open to, and nothing else.
LEMMA Plainly ==
  ASSUME NEW tg, NEW item, NEW signal, NEW expect \in Expects, ~ QuirkyIn(tg, item.on)
  PROVE  /\ expect \in {"hit", "alone"} =>
               (ShowsIn(tg, item, signal, expect) <=> <<item.class, signal>> \in tg[item.on].open)
         /\ expect \in {"clean", "plain", "any"} => ShowsIn(tg, item, signal, expect)
<1>1. tg[item.on].quirks = {}
  BY DEF QuirkyIn
<1>2. CASE expect \in {"hit", "alone"}
  BY <1>1, <1>2 DEF ShowsIn
<1>3. CASE expect \in {"clean", "plain", "any"}
  BY <1>1, <1>3 DEF ShowsIn
<1>4. QED
  BY <1>2, <1>3 DEF Expects

\* A check whose place looked steady for once, or that reports on one answer when
\* one was not the target's, has nothing to show.
Excused(item, noise, lucky) ==
    [on |-> item.on, class |-> item.class] \in lucky \/ (item.class \in OneAnswer /\ noise > 0)

\* The steps before the r-th of attempt t were as expected, but for the noise, and
\* the attempts before it failed on a place without quirks for want of their sign.
Gathered(tg, item, t, r, noise, lucky) ==
    LET at == AttemptsOf(item.class)[t]
        seen(i) == ShowsIn(tg, item, at.signal, at.steps[i].expect)
    IN /\ ~ Excused(item, noise, lucky) =>
             /\ noise = 0 => \A i \in 1..(r - 1) : seen(i)
             /\ noise <= 1 => \A i, j \in 1..(r - 1) : i # j => seen(i) \/ seen(j)
             /\ at.signal = "proof" => \A i \in 1..(r - 1) : seen(i)
       /\ noise = 0 /\ ~ QuirkyIn(tg, item.on) /\ item.class \notin Samples =>
             \A i \in 1..(t - 1) : <<item.class, AttemptsOf(item.class)[i].signal>> \notin tg[item.on].open

\* What an answer that was as expected says.
Agreed(tg, item, t, r, noise, after, lucky) ==
    LET at == AttemptsOf(item.class)[t]
        seen == ShowsIn(tg, item, at.signal, at.steps[r].expect)
    IN /\ after \in {noise, noise + 1}
       /\ ~ Excused(item, after, lucky) => (after = noise => seen) /\ (at.signal = "proof" => seen)

\* What one that was not says, when it was the target's own.
Refused(tg, item, t, r, how) ==
    LET at == AttemptsOf(item.class)[t]
    IN /\ ~ ShowsIn(tg, item, at.signal, at.steps[r].expect)
       /\ at.steps[r].expect # "any"
       /\ how = at.steps[r].other

LEMMA GatheredMore ==
  ASSUME NEW tg, NEW item, NEW t \in Nat \ {0}, NEW r \in Nat \ {0}, NEW noise \in Nat, NEW after \in Nat,
         NEW lucky, NEW luckier, lucky \subseteq luckier,
         Gathered(tg, item, t, r, noise, lucky), Agreed(tg, item, t, r, noise, after, luckier)
  PROVE  Gathered(tg, item, t, r + 1, after, luckier)
<1> DEFINE at == AttemptsOf(item.class)[t]
           seen(i) == ShowsIn(tg, item, at.signal, at.steps[i].expect)
           past(i) == <<item.class, AttemptsOf(item.class)[i].signal>> \notin tg[item.on].open
<1>1. after = noise \/ after = noise + 1
  BY DEF Agreed
<1>2. Excused(item, noise, lucky) => Excused(item, after, luckier)
  BY <1>1 DEF Excused
<1>3. /\ ~ Excused(item, noise, lucky) =>
             /\ noise = 0 => \A i \in 1..(r - 1) : seen(i)
             /\ noise <= 1 => \A i, j \in 1..(r - 1) : i # j => seen(i) \/ seen(j)
             /\ at.signal = "proof" => \A i \in 1..(r - 1) : seen(i)
      /\ noise = 0 /\ ~ QuirkyIn(tg, item.on) /\ item.class \notin Samples => \A i \in 1..(t - 1) : past(i)
  BY DEF Gathered
<1>4. ~ Excused(item, after, luckier) => (after = noise => seen(r)) /\ (at.signal = "proof" => seen(r))
  BY DEF Agreed
<1> HIDE DEF seen, past
<1>5. \A i \in 1..r : i = r \/ i \in 1..(r - 1)
  OBVIOUS
<1>6. /\ after = 0 => noise = 0 /\ after = noise
      /\ after <= 1 => noise <= 1 /\ (after = noise \/ noise = 0)
  BY <1>1
<1>7. ASSUME ~ Excused(item, after, luckier)
      PROVE  /\ after = 0 => \A i \in 1..r : seen(i)
             /\ after <= 1 => \A i, j \in 1..r : i # j => seen(i) \/ seen(j)
             /\ at.signal = "proof" => \A i \in 1..r : seen(i)
  <2>1. /\ noise = 0 => \A i \in 1..(r - 1) : seen(i)
        /\ noise <= 1 => \A i, j \in 1..(r - 1) : i # j => seen(i) \/ seen(j)
        /\ at.signal = "proof" => \A i \in 1..(r - 1) : seen(i)
        /\ after = noise => seen(r)
        /\ at.signal = "proof" => seen(r)
    BY <1>2, <1>3, <1>4, <1>7
  <2>2. after = 0 => \A i \in 1..r : seen(i)
    BY <1>5, <1>6, <2>1
  <2>3. ASSUME after <= 1, NEW i \in 1..r, NEW j \in 1..r, i # j PROVE seen(i) \/ seen(j)
    BY <1>5, <1>6, <2>1, <2>3
  <2>4. at.signal = "proof" => \A i \in 1..r : seen(i)
    BY <1>5, <2>1
  <2>5. QED
    BY <2>2, <2>3, <2>4
<1>8. after = 0 /\ ~ QuirkyIn(tg, item.on) /\ item.class \notin Samples => \A i \in 1..(t - 1) : past(i)
  BY <1>3, <1>6
<1>9. (r + 1) - 1 = r
  OBVIOUS
<1> USE DEF seen, past
<1>10. QED
  BY <1>7, <1>8, <1>9 DEF Gathered

\* An attempt that failed says that its sign is not there.
LEMMA SignIsMissing ==
  ASSUME NEW tg, NEW item, NEW t \in 1..Len(AttemptsOf(item.class)), item.class \in Classes \ Samples,
         NEW r \in 1..Len(AttemptsOf(item.class)[t].steps), NEW how,
         Refused(tg, item, t, r, how), ~ QuirkyIn(tg, item.on)
  PROVE  /\ <<item.class, AttemptsOf(item.class)[t].signal>> \notin tg[item.on].open
         /\ how = "end" => item.class = "xss"
<1>1. PICK at : at = AttemptsOf(item.class)[t]
  OBVIOUS
<1>2. GoodAttempt(item.class, at)
  BY <1>1, ChecksAreGood DEF GoodCheck, GoodTries
<1>3. PICK step : step = at.steps[r]
  OBVIOUS
<1>4. GoodStep(item.class, at.signal, step)
  BY <1>1, <1>2, <1>3 DEF GoodAttempt
<1>5. ~ ShowsIn(tg, item, at.signal, step.expect) /\ how = step.other
  BY <1>1, <1>3 DEF Refused
<1>6. step.expect \in Expects
  BY <1>4 DEF GoodStep
<1>7. step.expect \in {"hit", "alone"} /\ <<item.class, at.signal>> \notin tg[item.on].open
  BY <1>5, <1>6, Plainly DEF Expects
<1>8. how = "end" => item.class = "xss"
  BY <1>4, <1>5, <1>7 DEF GoodStep
<1>9. QED
  BY <1>1, <1>7, <1>8

LEMMA GatheredNext ==
  ASSUME NEW tg, NEW item, NEW t \in 1..Len(AttemptsOf(item.class)), NEW r, NEW noise \in Nat, NEW after \in Nat,
         NEW lucky, NEW luckier, Gathered(tg, item, t, r, noise, lucky), after = 0 => noise = 0,
         after = 0 /\ ~ QuirkyIn(tg, item.on) /\ item.class \notin Samples =>
            <<item.class, AttemptsOf(item.class)[t].signal>> \notin tg[item.on].open
  PROVE  Gathered(tg, item, t + 1, 1, after, luckier)
<1> DEFINE past(i) == <<item.class, AttemptsOf(item.class)[i].signal>> \notin tg[item.on].open
<1>1. noise = 0 /\ ~ QuirkyIn(tg, item.on) /\ item.class \notin Samples => \A i \in 1..(t - 1) : past(i)
  BY DEF Gathered
<1>2. after = 0 /\ ~ QuirkyIn(tg, item.on) /\ item.class \notin Samples => past(t)
  OBVIOUS
<1> HIDE DEF past
<1>3. t \in Nat /\ (t + 1) - 1 = t /\ 1..(1 - 1) = {} /\ \A i \in 1..t : i = t \/ i \in 1..(t - 1)
  OBVIOUS
<1>4. after = 0 /\ ~ QuirkyIn(tg, item.on) /\ item.class \notin Samples => \A i \in 1..t : past(i)
  BY <1>1, <1>2, <1>3
<1> USE DEF past
<1>5. QED
  BY <1>3, <1>4 DEF Gathered

LEMMA GatheredFirst ==
  ASSUME NEW tg, NEW item, NEW noise, NEW lucky
  PROVE  Gathered(tg, item, 1, 1, noise, lucky)
<1>1. 1..(1 - 1) = {}
  OBVIOUS
<1>2. QED
  BY <1>1 DEF Gathered

\* A check that gave up says that its place is not open to it.
LEMMA NotOpen ==
  ASSUME NEW tg, NEW item, NEW t \in 1..Len(AttemptsOf(item.class)), item.class \in Classes \ Samples,
         NEW r \in 1..Len(AttemptsOf(item.class)[t].steps), NEW how,
         NEW lucky, Gathered(tg, item, t, r, 0, lucky), Refused(tg, item, t, r, how), ~ QuirkyIn(tg, item.on),
         t = Len(AttemptsOf(item.class)) \/ how = "end"
  PROVE  ~ OpenIn(tg, item.on, item.class)
<1> DEFINE s == AttemptsOf(item.class)
           absent(i) == <<item.class, s[i].signal>> \notin tg[item.on].open
<1>1. absent(t) /\ (how = "end" => item.class = "xss")
  BY SignIsMissing
<1>2. \A i \in 1..(t - 1) : absent(i)
  BY DEF Gathered
<1>3. GoodTries(item.class, s)
  BY ChecksAreGood DEF GoodCheck
<1>4. \A i \in 1..Len(s) : GoodAttempt(item.class, s[i])
  BY <1>3 DEF GoodTries
<1>5. ASSUME NEW i \in 1..Len(s) PROVE absent(i)
  <2>1. CASE how = "end"
    <3>1. s[i].signal = "marker" /\ s[t].signal = "marker"
      BY <1>1, <1>4, <2>1 DEF GoodAttempt
    <3>2. QED
      BY <1>1, <3>1
  <2>2. CASE t = Len(s)
    <3>1. i = t \/ i \in 1..(t - 1)
      BY <1>3, <2>2 DEF GoodTries
    <3>2. QED
      BY <1>1, <1>2, <3>1
  <2>3. QED
    BY <2>1, <2>2
<1>6. QED
  BY <1>5 DEF OpenIn, Sought
\* A check that confirmed its sign says that its place is open to it, or is as if
\* it were: two answers of one place are not both wrong, and a place that shows
\* the sign to anyone fails the control.
LEMMA Backing ==
  ASSUME NEW tg, NEW item, NEW t \in 1..Len(AttemptsOf(item.class)), item.class \in Classes \ Samples,
         NEW noise \in Nat, NEW lucky, [on |-> item.on, class |-> item.class] \notin lucky,
         Gathered(tg, item, t, Len(AttemptsOf(item.class)[t].steps) + 1, noise, lucky),
         noise = 0 \/ (noise = 1 /\ ~ QuirkyIn(tg, item.on) /\ item.class \notin OneAnswer)
  PROVE  OpenIn(tg, item.on, item.class) \/ NaturalIn(tg, item.on, item.class)
<1> DEFINE at == AttemptsOf(item.class)[t]
           n == Len(at.steps)
           seen(i) == ShowsIn(tg, item, at.signal, at.steps[i].expect)
           fault == <<item.class, at.signal>> \in tg[item.on].open
<1>1. GoodAttempt(item.class, at)
  BY ChecksAreGood DEF GoodCheck, GoodTries
<1>2. n \in Nat /\ (n + 1) - 1 = n
  BY <1>1 DEF GoodAttempt
<1>3. /\ noise = 0 => \A i \in 1..n : seen(i)
      /\ noise <= 1 => \A i, j \in 1..n : i # j => seen(i) \/ seen(j)
      /\ at.signal = "proof" => \A i \in 1..n : seen(i)
  <2>1. ~ Excused(item, noise, lucky)
    BY DEF Excused
  <2>2. QED
    BY <1>2, <2>1 DEF Gathered
<1>4. \A i \in 1..n : at.steps[i].expect \in Expects
  BY <1>1 DEF GoodAttempt, GoodStep
<1>5. fault => OpenIn(tg, item.on, item.class)
  BY DEF OpenIn, Sought
<1>6. PICK i \in 1..n : Reveals(at.steps, i)
  BY <1>1 DEF GoodAttempt
<1>7. QuirkProof(item.class, at.signal, at.steps) /\ NoiseProof(item.class, at.signal, at.steps)
  BY <1>1 DEF GoodAttempt
<1>8. CASE ~ QuirkyIn(tg, item.on)
  <2>1. \A j \in 1..n : at.steps[j].expect \in {"hit", "alone"} /\ seen(j) => fault
    BY <1>4, <1>8, Plainly
  <2>2. CASE noise = 0 \/ at.signal = "proof"
    BY <1>3, <1>5, <1>6, <2>1, <2>2 DEF Reveals
  <2>3. CASE noise = 1 /\ item.class \notin OneAnswer /\ at.signal # "proof"
    <3>1. PICK k, l \in 1..n : k # l /\ at.steps[k].expect = "hit" /\ at.steps[l].expect = "hit"
      BY <1>7, <2>3 DEF NoiseProof
    <3>2. seen(k) \/ seen(l)
      BY <1>3, <2>3, <3>1
    <3>3. QED
      BY <1>5, <2>1, <3>1, <3>2
  <2>4. QED
    BY <2>2, <2>3
<1>9. CASE QuirkyIn(tg, item.on)
  <2>1. \A j \in 1..n : seen(j)
    BY <1>3, <1>9
  <2>2. PICK odd : odd = tg[item.on].quirks \cap OddlyShown(at.signal)
    OBVIOUS
  <2>3. /\ at.steps[i].expect = "hit" => fault \/ odd # {}
        /\ at.steps[i].expect = "alone" => fault
    BY <2>1, <2>2 DEF ShowsIn
  <2>4. CASE odd = {}
    BY <1>5, <1>6, <2>3, <2>4 DEF Reveals
  <2>5. CASE odd # {}
    <3>1. OddlyShown(at.signal) # {}
      BY <2>2, <2>5
    <3>2. ASSUME NEW j \in 1..n, at.steps[j].expect \in {"clean", "alone"} PROVE FALSE
      BY <2>1, <2>2, <2>5, <3>2 DEF ShowsIn
    <3>3. ASSUME NEW j \in 1..n, at.steps[j].expect = "plain", AlwaysShown(at.signal) = OddlyShown(at.signal)
          PROVE  FALSE
      BY <2>1, <2>2, <2>5, <3>3 DEF ShowsIn
    <3>4. \/ item.class \in {"type", "mined"} /\ at.signal = "error"
          \/ item.class = "nosql" /\ at.signal = "size"
      BY <1>7, <3>1, <3>2, <3>3 DEF QuirkProof
    <3>5. QED
      BY <2>2, <2>5, <3>4 DEF NaturalIn, OddlyShown
  <2>6. QED
    BY <2>4, <2>5
<1>10. QED
  BY <1>8, <1>9

\* The samples and the schema that are missing although every answer was the
\* target's own.
LEMMA GateShut ==
  ASSUME NEW tg, NEW item, NEW t \in 1..Len(AttemptsOf(item.class)), item.class \in Classes \cap Gates,
         NEW r \in 1..Len(AttemptsOf(item.class)[t].steps), NEW how, Refused(tg, item, t, r, how)
  PROVE  \/ item.class = "typebase" /\ QuirkyIn(tg, item.on)
         \/ item.class = "schema" /\ ~ OpenIn(tg, item.on, "schema")
<1>1. PICK at : at = AttemptsOf(item.class)[t]
  OBVIOUS
<1>2. PICK step : step = at.steps[r]
  OBVIOUS
<1>3. GoodTries(item.class, AttemptsOf(item.class))
  BY ChecksAreGood DEF GoodCheck
<1>4. GoodAttempt(item.class, at)
  BY <1>1, <1>3 DEF GoodTries
<1>5. GoodStep(item.class, at.signal, step)
  BY <1>1, <1>2, <1>4 DEF GoodAttempt
<1>6. ~ ShowsIn(tg, item, at.signal, step.expect) /\ step.expect # "any"
  BY <1>1, <1>2 DEF Refused
<1>7. CASE item.class = "baseline"
  BY <1>5, <1>6, <1>7 DEF GoodStep
<1>8. CASE item.class = "typebase"
  <2>1. step.expect = "plain"
    BY <1>5, <1>8 DEF GoodStep
  <2>2. QED
    BY <1>6, <1>8, <2>1 DEF ShowsIn, QuirkyIn
<1>9. CASE item.class = "schema"
  <2>1. at.signal = "status" /\ step.expect \in Expects
    BY <1>4, <1>5, <1>9 DEF GoodAttempt, GoodStep
  <2>2. OddlyShown("status") = {} /\ AlwaysShown("status") = {}
    BY DEF OddlyShown, AlwaysShown
  <2>3. <<"schema", "status">> \notin tg[item.on].open
    BY <1>6, <1>9, <2>1, <2>2 DEF ShowsIn, Expects
  <2>4. \A i \in 1..Len(AttemptsOf("schema")) : AttemptsOf("schema")[i].signal = "status"
    BY <1>3, <1>9 DEF GoodTries, GoodAttempt
  <2>5. QED
    BY <1>9, <2>3, <2>4 DEF OpenIn, Sought
<1>10. QED
  BY <1>7, <1>8, <1>9 DEF Gates

-----------------------------------------------------------------------------
(* The active checks: what is given up, and why *)

\* A reason for a group or a family to be past: the check at a slot before.
Reason(tg, found, x, p) ==
    \/ x.class \in OncePerKey /\ Suits(x) /\ p = SeenKey(x)
    \/ EndsPlace(x) /\ p = x.group /\ [on |-> x.on, class |-> x.class] \in found
    \/ x.class = "typebase" /\ p = x.group /\ QuirkyIn(tg, x.on)
    \/ x.class = "schema" /\ p = x.group /\ ~ OpenIn(tg, x.on, "schema")
PastIn(mode, tg, at, past, found) ==
    \A p \in past : \E k \in Slots[mode] : Precedes(k, at) /\ Reason(tg, found, ItemAt(mode, k), p)

\* Shadowed and Due of a given target.
ShadowedIn(mode, tg, found, k) ==
    LET item == ItemAt(mode, k)
        earlier == {ItemAt(mode, l) : l \in {r \in Slots[mode] : Precedes(r, k)}}
    IN \/ \E f \in found : EndsPlace(f) /\ f.on = item.on
       \/ \E x \in earlier : /\ item.class \in OncePerKey /\ x.class = item.class
                             /\ Suits(x) /\ SeenKey(x) = SeenKey(item)
       \/ \E x \in earlier : /\ x.group = item.group
                             /\ \/ x.class = "typebase" /\ QuirkyIn(tg, x.on)
                                \/ x.class = "schema" /\ ~ OpenIn(tg, x.on, "schema")
DueIn(tg, item) ==
    /\ OpenIn(tg, item.on, item.class) /\ ~ QuirkyIn(tg, item.on)
    /\ Suits(item) /\ item.class \notin Samples

\* What a group and a family are called, and what an item of a slot is.
LEMMA ItemFacts ==
  ASSUME NEW mode \in CfMode, NEW k \in Slots[mode], NEW x, x = ItemAt(mode, k)
  PROVE  /\ x.class \in Classes /\ x.class = Plans[mode][k.part].classes[k.check]
         /\ x.group = GroupOf(k, x.class)
         /\ x.on = Spots(mode, k.ep, k.part)[k.site]
<1>1. IsSlot(mode, k)
  BY SlotFacts
<1>2. GoodList(Plans[mode][k.part].classes)
  BY <1>1, PlanFacts DEF IsSlot
<1>3. Plans[mode][k.part].classes[k.check] \in Classes
  BY <1>1, <1>2 DEF IsSlot, GoodList
<1>4. QED
  BY <1>3 DEF ItemAt

LEMMA Names ==
  ASSUME NEW k, NEW l, NEW class, NEW x
  PROVE  /\ x.class \in OncePerKey => SeenKey(x) # GroupOf(k, class)
         /\ class \in Stops \cup {"mined"} /\ GroupOf(k, class) = GroupOf(l, x.class) =>
               k.ep = l.ep /\ k.part = l.part /\ k.site = l.site
<1>1. SeenKey(x)[1] = x.class
  BY DEF SeenKey
<1>2. GroupOf(k, class)[1] \in {"type", "schema", "site"}
  BY DEF GroupOf
<1>3. "type" \notin OncePerKey /\ "schema" \notin OncePerKey /\ "site" \notin OncePerKey
  BY DEF OncePerKey
<1>4. ASSUME class \in Stops \cup {"mined"}, GroupOf(k, class) = GroupOf(l, x.class)
      PROVE  k.ep = l.ep /\ k.part = l.part /\ k.site = l.site
  <2>1. GroupOf(k, class) = <<"site", k.ep, k.part, k.site>>
    BY <1>4 DEF GroupOf, Stops
  <2>2. GroupOf(l, x.class) = <<"site", l.ep, l.part, l.site>>
    <3>1. GroupOf(l, x.class)[1] = "site"
      BY <1>4, <2>1
    <3>2. QED
      BY <3>1 DEF GroupOf
  <2>3. PICK g : g = GroupOf(k, class)
    OBVIOUS
  <2>4. g[2] = k.ep /\ g[3] = k.part /\ g[4] = k.site
    BY <2>1, <2>3
  <2>5. g[2] = l.ep /\ g[3] = l.part /\ g[4] = l.site
    BY <1>4, <2>2, <2>3
  <2>6. QED
    BY <2>4, <2>5
<1>5. QED
  BY <1>1, <1>2, <1>3, <1>4

\* A check that is passed over although it is due has a reason.
LEMMA PassedOver ==
  ASSUME NEW mode \in CfMode, NEW k \in Slots[mode], NEW tg, NEW past, NEW found, NEW item,
         item = ItemAt(mode, k), PastIn(mode, tg, k, past, found), Suits(item),
         item.group \in past \/ (item.class \in OncePerKey /\ SeenKey(item) \in past)
  PROVE  ShadowedIn(mode, tg, found, k)
<1> DEFINE earlier == {ItemAt(mode, l) : l \in {r \in Slots[mode] : Precedes(r, k)}}
<1>0. /\ item.class \in Classes /\ item.group = GroupOf(k, item.class)
      /\ item.on = Spots(mode, k.ep, k.part)[k.site]
  BY ItemFacts
<1>1. CASE item.group \in past
  <2>1. PICK l \in Slots[mode] : Precedes(l, k) /\ Reason(tg, found, ItemAt(mode, l), item.group)
    BY <1>1 DEF PastIn
  <2>2. PICK x : x = ItemAt(mode, l)
    OBVIOUS
  <2>3. x.class \in Classes /\ x.group = GroupOf(l, x.class) /\ x.on = Spots(mode, l.ep, l.part)[l.site]
    BY <2>2, ItemFacts
  <2>4. x \in earlier
    BY <2>1, <2>2
  <2>5. ~ (x.class \in OncePerKey /\ item.group = SeenKey(x))
    BY <1>0, Names
  <2>6. CASE EndsPlace(x) /\ item.group = x.group /\ [on |-> x.on, class |-> x.class] \in found
    <3>0. x.class \in Stops \cup {"mined"} /\ GroupOf(l, x.class) = GroupOf(k, item.class)
      BY <1>0, <2>3, <2>6 DEF EndsPlace
    <3>1. l.ep = k.ep /\ l.part = k.part /\ l.site = k.site
      BY <3>0, Names, Zenon
    <3>2. x.on = item.on
      BY <1>0, <2>3, <3>1
    <3>3. PICK f \in found : f = [on |-> x.on, class |-> x.class]
      BY <2>6
    <3>4. f.class = x.class /\ f.on = x.on
      BY <3>3
    <3>5. EndsPlace(f) /\ f.on = item.on
      BY <2>6, <3>2, <3>4 DEF EndsPlace
    <3>6. QED
      BY <3>5 DEF ShadowedIn
  <2>7. CASE \/ x.class = "typebase" /\ item.group = x.group /\ QuirkyIn(tg, x.on)
             \/ x.class = "schema" /\ item.group = x.group /\ ~ OpenIn(tg, x.on, "schema")
    BY <2>4, <2>7 DEF ShadowedIn
  <2>8. QED
    BY <2>1, <2>2, <2>5, <2>6, <2>7 DEF Reason
<1>2. CASE item.class \in OncePerKey /\ SeenKey(item) \in past
  <2>1. PICK l \in Slots[mode] : Precedes(l, k) /\ Reason(tg, found, ItemAt(mode, l), SeenKey(item))
    BY <1>2 DEF PastIn
  <2>2. PICK x : x = ItemAt(mode, l)
    OBVIOUS
  <2>3. x.group = GroupOf(l, x.class)
    BY <2>2, ItemFacts
  <2>4. x \in earlier
    BY <2>1, <2>2
  <2>5. SeenKey(item) # x.group
    BY <1>2, <2>3, Names
  <2>6. Suits(x) /\ SeenKey(item) = SeenKey(x)
    BY <2>1, <2>2, <2>5 DEF Reason
  <2>7. x.class = item.class
    BY <2>6 DEF SeenKey
  <2>8. QED
    BY <1>2, <2>4, <2>6, <2>7 DEF ShadowedIn
<1>3. QED
  BY <1>1, <1>2
-----------------------------------------------------------------------------
(* The active checks: how the loops go on *)

LEMMA PositionFacts ==
  ASSUME NEW mode \in CfMode
  PROVE  /\ Slots[mode] \cup {Start, End} \subseteq Position
         /\ Start \notin Slots[mode] /\ End \notin Slots[mode] /\ Start # End
         /\ \A k \in Slots[mode] : ~ Precedes(k, Start) /\ Precedes(k, End)
         /\ ~ Precedes(End, Start) /\ Precedes(Start, End)
<1>1. /\ Len(TakenBy(mode)) \in Nat /\ Len(Endpoints) \in Nat /\ Len(TakenBy(mode)) <= Len(Endpoints)
  BY TakenFacts
<1>2. /\ Start \in Position /\ Start.ep = 0 /\ Start.part = 0 /\ Start.site = 0 /\ Start.check = 0
      /\ End \in Position /\ End.ep = Len(Endpoints) + 1
      /\ End.part = 0 /\ End.site = 0 /\ End.check = 0
  BY <1>1 DEF Start, End, Slot, Position
<1>3. \A k \in Slots[mode] : k \in Position /\ k.ep \in 1..Len(TakenBy(mode))
  BY SlotFacts DEF IsSlot
<1>4. QED
  BY <1>1, <1>2, <1>3 DEF Precedes, Position

\* The slot that the loops go to from another.
NextTo(mode, at, l) ==
    /\ l \in Slots[mode] \cup {End} /\ Precedes(at, l)
    /\ \A k \in Slots[mode] : Precedes(k, at) => Precedes(k, l)
    /\ \A k \in Slots[mode] : Precedes(k, l) => k = at \/ Precedes(k, at)

LEMMA NextFacts ==
  ASSUME cfMode \in CfMode, cfAt \in Slots[cfMode] \cup {Start, End}, NextItem
  PROVE  NextTo(cfMode, cfAt, cfAt') /\ cfTry' = 1 /\ cfReq' = 1
<1>1. PICK mode \in CfMode : mode = cfMode
  OBVIOUS
<1>2. PICK at \in Slots[mode] \cup {Start, End} : at = cfAt
  BY <1>1
<1>3. PICK l \in Slots[mode] \cup {End} :
         /\ Precedes(at, l)
         /\ \A r \in Slots[mode] \cup {End} : Precedes(at, r) => ~ Precedes(r, l)
         /\ cfAt' = l /\ cfTry' = 1 /\ cfReq' = 1
  BY <1>1, <1>2 DEF NextItem, GoTo
<1>4. Slots[mode] \cup {Start, End} \subseteq Position
  BY PositionFacts
<1>5. at \in Position /\ l \in Position /\ \A k \in Slots[mode] : k \in Position
  BY <1>4
<1>6. ASSUME NEW k \in Slots[mode], Precedes(k, at) PROVE Precedes(k, l)
  BY <1>3, <1>5, <1>6, InOrder
<1>7. ASSUME NEW k \in Slots[mode], Precedes(k, l) PROVE k = at \/ Precedes(k, at)
  <2>1. ~ Precedes(at, k)
    BY <1>3, <1>7
  <2>2. QED
    BY <1>5, <2>1, InOrder
<1>8. QED
  BY <1>1, <1>2, <1>3, <1>6, <1>7 DEF NextTo

\* The check of a site's errors comes right after its baseline.
LEMMA AfterBaseline ==
  ASSUME NEW mode \in CfMode, NEW at \in Slots[mode] \cup {Start, End}, NEW l \in Slots[mode],
         NextTo(mode, at, l), NEW y, y = ItemAt(mode, l), y.class = "sqli"
  PROVE  /\ at \in Slots[mode]
         /\ \A x : x = ItemAt(mode, at) => x.class = "baseline" /\ x.group = y.group /\ x.on = y.on
<1>1. IsSlot(mode, l)
  BY SlotFacts
<1>2. PICK list : list = Plans[mode][l.part].classes
  OBVIOUS
<1>3. GoodList(list)
  BY <1>1, <1>2, PlanFacts DEF IsSlot
<1>4. y.class = list[l.check] /\ y.group = GroupOf(l, y.class) /\ y.on = Spots(mode, l.ep, l.part)[l.site]
  BY <1>2, ItemFacts
<1>5. l.check = 2 /\ list[1] = "baseline" /\ 2 \in 1..Len(list) /\ Len(list) \in Nat
  BY <1>1, <1>2, <1>3, <1>4 DEF IsSlot, GoodList
<1>6. PICK k : k = Slot(l.ep, l.part, l.site, 1)
  OBVIOUS
<1>7. k.ep = l.ep /\ k.part = l.part /\ k.site = l.site /\ k.check = 1 /\ k \in Position
  BY <1>1, <1>6 DEF Slot, Position, IsSlot
<1>8. 1 \in 1..Len(list)
  BY <1>5
<1>9. IsSlot(mode, k)
  BY <1>1, <1>2, <1>7, <1>8 DEF IsSlot
<1>10. k \in Slots[mode]
  BY <1>9, SlotFacts
<1>11. Precedes(k, l)
  BY <1>1, <1>5, <1>7 DEF Precedes, IsSlot, Position
<1>12. k = at \/ Precedes(k, at)
  BY <1>10, <1>11 DEF NextTo
<1>13. Precedes(at, l) /\ at \in Position /\ l \in Position
  BY PositionFacts DEF NextTo
<1>14. k = at
  <2>1. ASSUME Precedes(k, at) PROVE FALSE
    BY <1>5, <1>7, <1>13, <2>1 DEF Precedes, Position
  <2>2. QED
    BY <1>12, <2>1
<1>15. ASSUME NEW x, x = ItemAt(mode, at)
       PROVE  x.class = "baseline" /\ x.group = y.group /\ x.on = y.on
  <2>1. /\ x.class = Plans[mode][k.part].classes[k.check] /\ x.group = GroupOf(k, x.class)
        /\ x.on = Spots(mode, k.ep, k.part)[k.site]
    BY <1>10, <1>14, <1>15, ItemFacts
  <2>2. x.class = "baseline" /\ x.on = y.on
    BY <1>2, <1>4, <1>5, <1>7, <2>1
  <2>3. x.group = <<"site", l.ep, l.part, l.site>>
    BY <1>7, <2>1, <2>2 DEF GroupOf
  <2>4. y.group = <<"site", l.ep, l.part, l.site>>
    BY <1>4 DEF GroupOf
  <2>5. QED
    BY <2>2, <2>3, <2>4
<1>16. QED
  BY <1>10, <1>14, <1>15

\* What is past has a reason further on as well.
LEMMA PastMoves ==
  ASSUME NEW mode \in CfMode, NEW at, NEW l, NEW tg, NEW past, NEW past2, NEW found, NEW found2,
         NextTo(mode, at, l), PastIn(mode, tg, at, past, found), found \subseteq found2,
         \A p \in past2 : p \in past \/ (at \in Slots[mode] /\ Reason(tg, found2, ItemAt(mode, at), p))
  PROVE  PastIn(mode, tg, l, past2, found2)
<1>1. SUFFICES ASSUME NEW p \in past2
      PROVE  \E k \in Slots[mode] : Precedes(k, l) /\ Reason(tg, found2, ItemAt(mode, k), p)
  BY DEF PastIn
<1>2. CASE p \in past
  <2>1. PICK k \in Slots[mode] : Precedes(k, at) /\ Reason(tg, found, ItemAt(mode, k), p)
    BY <1>2 DEF PastIn
  <2>2. Reason(tg, found2, ItemAt(mode, k), p)
    BY <2>1 DEF Reason
  <2>3. Precedes(k, l)
    BY <2>1 DEF NextTo
  <2>4. QED
    BY <2>2, <2>3
<1>3. CASE at \in Slots[mode] /\ Reason(tg, found2, ItemAt(mode, at), p)
  BY <1>3 DEF NextTo
<1>4. QED
  BY <1>2, <1>3

\* A place that is due was told, or its check was given up for a reason.
Settles(mode, tg, found, told, k) ==
    LET item == ItemAt(mode, k)
    IN DueIn(tg, item) => [on |-> item.on, class |-> item.class] \in told \/ ShadowedIn(mode, tg, found, k)
DealtIn(mode, tg, at, found, told) ==
    \A k \in Slots[mode] : Precedes(k, at) => Settles(mode, tg, found, told, k)

LEMMA DealtMoves ==
  ASSUME NEW mode \in CfMode, NEW at, NEW l, NEW tg, NEW found, NEW found2, NEW told, NEW told2,
         NextTo(mode, at, l), DealtIn(mode, tg, at, found, told), found \subseteq found2, told \subseteq told2,
         at \in Slots[mode] => Settles(mode, tg, found2, told2, at)
  PROVE  DealtIn(mode, tg, l, found2, told2)
<1>1. SUFFICES ASSUME NEW k \in Slots[mode], Precedes(k, l) PROVE Settles(mode, tg, found2, told2, k)
  BY DEF DealtIn
<1>2. k = at \/ Precedes(k, at)
  BY <1>1 DEF NextTo
<1>3. CASE Precedes(k, at)
  <2>1. Settles(mode, tg, found, told, k)
    BY <1>3 DEF DealtIn
  <2>2. ShadowedIn(mode, tg, found, k) => ShadowedIn(mode, tg, found2, k)
    BY DEF ShadowedIn
  <2>3. QED
    BY <2>1, <2>2 DEF Settles
<1>4. QED
  BY <1>2, <1>3
-----------------------------------------------------------------------------
(* The active checks: the invariant *)

\* The attempt and the request at hand are ones of the check.
Standing(item, t, r) ==
    Len(AttemptsOf(item.class)) # 0 =>
        t \in 1..Len(AttemptsOf(item.class)) /\ r \in 1..Len(AttemptsOf(item.class)[t].steps)
AtHand(mode, tg, at, t, r, noise, lucky) ==
    at \in Slots[mode] => Standing(ItemAt(mode, at), t, r) /\ Gathered(tg, ItemAt(mode, at), t, r, noise, lucky)
\* A site that is taken for dirty is.
DirtyIn(mode, tg, at, past) ==
    LET item == ItemAt(mode, at)
    IN at \in Slots[mode] /\ item.class = "sqli" =>
           item.group \in past \/ "broken" \in tg[item.on].quirks
BackedFor(tg, f, noise, lucky) ==
    \/ OpenIn(tg, f.on, f.class) \/ NaturalIn(tg, f.on, f.class)
    \/ noise + (IF QuirkyIn(tg, f.on) THEN 1 ELSE 0) > 1
    \/ f.class \in OneAnswer /\ noise > 0
    \/ f \in lucky

Report(mode, k) == [on |-> ItemAt(mode, k).on, class |-> ItemAt(mode, k).class]

\* Nothing but the check at hand gets lucky.
LuckGrows ==
    /\ cfLucky \subseteq cfLucky'
    /\ \A f \in cfLucky' : f \in cfLucky \/ (cfAt \in Slots[cfMode] /\ f = Report(cfMode, cfAt))

ConfirmInv ==
    /\ ConfirmTypeOK
    /\ cfPhase \in {"start", "failed"} => cfAt = Start
    /\ cfPhase = "run" => cfAt # Start
    /\ cfPhase = "done" => cfAt = End
    /\ AtHand(cfMode, cfTarget, cfAt, cfTry, cfReq, cfNoise, cfLucky)
    /\ cfNoise = 0 => PastIn(cfMode, cfTarget, cfAt, cfPast, cfFound)
    /\ cfNoise = 0 /\ cfDirty => DirtyIn(cfMode, cfTarget, cfAt, cfPast)
    /\ cfNoise = 0 /\ cfClient => DealtIn(cfMode, cfTarget, cfAt, cfFound, cfTold)
    /\ \A f \in cfFound : BackedFor(cfTarget, f, cfNoise, cfLucky)

\* A finding that is backed stays so.
LEMMA BackedStays ==
  ASSUME NEW tg, NEW f, NEW noise \in Nat, NEW after \in Nat, noise <= after,
         NEW lucky, NEW luckier, lucky \subseteq luckier, BackedFor(tg, f, noise, lucky)
  PROVE  BackedFor(tg, f, after, luckier)
BY DEF BackedFor

LEMMA FreshAtHand ==
  ASSUME NEW mode \in CfMode, NEW tg, NEW at, NEW noise, NEW lucky
  PROVE  AtHand(mode, tg, at, 1, 1, noise, lucky)
<1>1. SUFFICES ASSUME at \in Slots[mode] PROVE Standing(ItemAt(mode, at), 1, 1)
  BY GatheredFirst DEF AtHand
<1>2. PICK item : item = ItemAt(mode, at)
  OBVIOUS
<1>3. item.class \in Classes
  BY <1>1, <1>2, ItemFacts
<1>4. GoodTries(item.class, AttemptsOf(item.class))
  BY <1>3, ChecksAreGood DEF GoodCheck
<1>5. ASSUME Len(AttemptsOf(item.class)) # 0
      PROVE  1 \in 1..Len(AttemptsOf(item.class)) /\ 1 \in 1..Len(AttemptsOf(item.class)[1].steps)
  <2>1. 1 \in 1..Len(AttemptsOf(item.class))
    BY <1>4, <1>5 DEF GoodTries
  <2>2. GoodAttempt(item.class, AttemptsOf(item.class)[1])
    BY <1>4, <2>1 DEF GoodTries
  <2>3. QED
    BY <2>1, <2>2 DEF GoodAttempt
<1>6. QED
  BY <1>2, <1>5 DEF Standing

\* A step that stays at the check at hand.
LEMMA Staying ==
  ASSUME ConfirmInv, cfAt \in Slots[cfMode], cfPhase = "run",
         UNCHANGED <<cfRequest, cfPhase, cfAt, cfPast, cfFound, cfTold, cfClient>>,
         cfTry' \in Nat \ {0}, cfReq' \in Nat \ {0}, cfNoise' \in cfNoise..MaxNoise, LuckGrows,
         AtHand(cfMode, cfTarget, cfAt, cfTry', cfReq', cfNoise', cfLucky'),
         cfDirty' \in BOOLEAN, ItemAt(cfMode, cfAt).class = "baseline" \/ cfDirty' = cfDirty
  PROVE  ConfirmInv'
<1>1. /\ cfMode' = cfMode /\ cfTarget' = cfTarget /\ cfPhase' = cfPhase /\ cfAt' = cfAt /\ cfPast' = cfPast
      /\ cfFound' = cfFound /\ cfTold' = cfTold
  BY DEF cfRequest
<1>2. cfClient' = cfClient
  OBVIOUS
<1>3. cfNoise \in 0..MaxNoise /\ MaxNoise \in Nat
  BY ConfirmAssumption DEF ConfirmInv, ConfirmTypeOK
<1>4. cfNoise' \in 0..MaxNoise /\ cfNoise <= cfNoise' /\ (cfNoise' = 0 => cfNoise = 0)
  BY <1>3
<1>5. ConfirmTypeOK'
  <2>1. \A f \in cfFound' \cup cfLucky' : \E k \in Slots[cfMode] : f = Report(cfMode, k)
    BY <1>1 DEF ConfirmInv, ConfirmTypeOK, Report, LuckGrows
  <2>2. QED
    BY <1>1, <1>2, <1>4, <2>1 DEF ConfirmInv, ConfirmTypeOK, Report
<1>6. cfNoise' = 0 /\ cfDirty' => DirtyIn(cfMode, cfTarget, cfAt, cfPast)
  <2>1. CASE ItemAt(cfMode, cfAt).class = "baseline"
    BY <2>1 DEF DirtyIn
  <2>2. CASE cfDirty' = cfDirty
    BY <1>4, <2>2 DEF ConfirmInv
  <2>3. QED
    BY <2>1, <2>2
<1>7. \A f \in cfFound : BackedFor(cfTarget, f, cfNoise', cfLucky')
  BY <1>3, <1>4, BackedStays DEF ConfirmInv, LuckGrows
<1>8. cfNoise' = 0 => PastIn(cfMode, cfTarget, cfAt, cfPast, cfFound)
  BY <1>4 DEF ConfirmInv
<1>9. cfNoise' = 0 /\ cfClient => DealtIn(cfMode, cfTarget, cfAt, cfFound, cfTold)
  BY <1>4 DEF ConfirmInv
<1>10. QED
  BY <1>1, <1>2, <1>5, <1>6, <1>7, <1>8, <1>9 DEF ConfirmInv

\* A step that goes on with the next check.
LEMMA Leaving ==
  ASSUME ConfirmInv, cfAt \in Slots[cfMode] \cup {Start}, cfPhase' = "run", NextItem,
         UNCHANGED <<cfRequest, cfClient>>,
         cfNoise' \in cfNoise..MaxNoise, cfDirty' \in BOOLEAN, LuckGrows,
         cfFound \subseteq cfFound', cfTold \subseteq cfTold', cfTold' \subseteq cfFound',
         \A f \in cfFound' : f \in cfFound \/ (cfAt \in Slots[cfMode] /\ f = Report(cfMode, cfAt)
                                               /\ BackedFor(cfTarget, f, cfNoise', cfLucky')),
         cfNoise' = 0 => \A p \in cfPast' :
             p \in cfPast \/ (cfAt \in Slots[cfMode] /\ Reason(cfTarget, cfFound', ItemAt(cfMode, cfAt), p)),
         cfNoise' = 0 /\ cfClient /\ cfAt \in Slots[cfMode] => Settles(cfMode, cfTarget, cfFound', cfTold', cfAt),
         cfNoise' = 0 /\ cfDirty' /\ cfAt \in Slots[cfMode] /\ ItemAt(cfMode, cfAt).class = "baseline" =>
             \/ ItemAt(cfMode, cfAt).group \in cfPast'
             \/ "broken" \in cfTarget[ItemAt(cfMode, cfAt).on].quirks
  PROVE  ConfirmInv'
<1>1. cfMode' = cfMode /\ cfTarget' = cfTarget
  BY DEF cfRequest
<1>2. cfClient' = cfClient
  OBVIOUS
<1>3. cfNoise \in 0..MaxNoise /\ MaxNoise \in Nat /\ cfMode \in CfMode /\ cfTarget \in Targets
  BY ConfirmAssumption DEF ConfirmInv, ConfirmTypeOK
<1>4. cfNoise' \in 0..MaxNoise /\ cfNoise <= cfNoise' /\ (cfNoise' = 0 => cfNoise = 0)
  BY <1>3
<1>5. NextTo(cfMode, cfAt, cfAt') /\ cfTry' = 1 /\ cfReq' = 1
  BY <1>3, NextFacts
<1>6. cfAt' \in Slots[cfMode] \cup {End} /\ cfAt' # Start
  BY <1>3, <1>5, PositionFacts DEF NextTo
<1>7. ConfirmTypeOK'
  <2>1. \A f \in cfFound' \cup cfLucky' : \E k \in Slots[cfMode] : f = Report(cfMode, k)
    BY DEF ConfirmInv, ConfirmTypeOK, Report, LuckGrows
  <2>2. cfClient' \in BOOLEAN
    BY <1>2 DEF ConfirmInv, ConfirmTypeOK
  <2>3. QED
    BY <1>1, <1>3, <1>4, <1>5, <1>6, <2>1, <2>2 DEF ConfirmTypeOK, Report
<1>8. AtHand(cfMode, cfTarget, cfAt', cfTry', cfReq', cfNoise', cfLucky')
  BY <1>3, <1>5, FreshAtHand
<1>9. cfNoise' = 0 => PastIn(cfMode, cfTarget, cfAt', cfPast', cfFound')
  <2>1. ASSUME cfNoise' = 0 PROVE PastIn(cfMode, cfTarget, cfAt', cfPast', cfFound')
    <3>1. PastIn(cfMode, cfTarget, cfAt, cfPast, cfFound)
      BY <1>4, <2>1 DEF ConfirmInv
    <3>2. QED
      BY <1>3, <1>5, <2>1, <3>1, PastMoves
  <2>2. QED
    BY <2>1
<1>10. ASSUME cfNoise' = 0, cfDirty' PROVE DirtyIn(cfMode, cfTarget, cfAt', cfPast')
  <2>1. PICK l : l = cfAt'
    OBVIOUS
  <2>2. SUFFICES ASSUME l \in Slots[cfMode], ItemAt(cfMode, l).class = "sqli"
        PROVE  \/ ItemAt(cfMode, l).group \in cfPast'
               \/ "broken" \in cfTarget[ItemAt(cfMode, l).on].quirks
    BY <2>1 DEF DirtyIn
  <2>3. /\ cfAt \in Slots[cfMode]
        /\ ItemAt(cfMode, cfAt).class = "baseline"
        /\ ItemAt(cfMode, cfAt).group = ItemAt(cfMode, l).group
        /\ ItemAt(cfMode, cfAt).on = ItemAt(cfMode, l).on
    BY <1>3, <1>5, <2>1, <2>2, AfterBaseline
  <2>4. QED
    BY <1>10, <2>3
<1>11. ASSUME cfNoise' = 0, cfClient PROVE DealtIn(cfMode, cfTarget, cfAt', cfFound', cfTold')
  <2>1. DealtIn(cfMode, cfTarget, cfAt, cfFound, cfTold)
    BY <1>4, <1>11 DEF ConfirmInv
  <2>2. QED
    BY <1>3, <1>5, <1>11, <2>1, DealtMoves
<1>12. \A f \in cfFound' : BackedFor(cfTarget, f, cfNoise', cfLucky')
  BY <1>3, <1>4, BackedStays DEF ConfirmInv, LuckGrows
<1>13. QED
  BY <1>1, <1>2, <1>6, <1>7, <1>8, <1>9, <1>10, <1>11, <1>12 DEF ConfirmInv
-----------------------------------------------------------------------------
(* The active checks: the actions *)

\* The check at hand, where one runs.
LEMMA InCheck ==
  ASSUME ConfirmInv, Checking
  PROVE  /\ cfMode \in CfMode /\ cfAt \in Slots[cfMode] /\ cfPhase = "run"
         /\ Current = ItemAt(cfMode, cfAt) /\ Attempts = AttemptsOf(Current.class)
         /\ Current.class \in Classes
         /\ cfNoise \in 0..MaxNoise /\ MaxNoise \in Nat
         /\ Gathered(cfTarget, Current, cfTry, cfReq, cfNoise, cfLucky)
         /\ Suits(Current) => /\ cfTry \in 1..Len(Attempts)
                              /\ cfReq \in 1..Len(Attempts[cfTry].steps)
                              /\ GoodAttempt(Current.class, Attempts[cfTry])
<1>1. cfMode \in CfMode /\ cfAt \in Slots[cfMode] /\ cfPhase = "run"
  BY DEF ConfirmInv, ConfirmTypeOK, Checking
<1>2. Current = ItemAt(cfMode, cfAt) /\ Attempts = AttemptsOf(Current.class)
  BY DEF Current, Attempts
<1>3. Current.class \in Classes
  BY <1>1, <1>2, ItemFacts
<1>4. cfNoise \in 0..MaxNoise /\ MaxNoise \in Nat
  BY ConfirmAssumption DEF ConfirmInv, ConfirmTypeOK
<1>5. Gathered(cfTarget, Current, cfTry, cfReq, cfNoise, cfLucky) /\ Standing(Current, cfTry, cfReq)
  BY <1>1, <1>2 DEF ConfirmInv, AtHand
<1>6. ASSUME Suits(Current)
      PROVE  /\ cfTry \in 1..Len(Attempts) /\ cfReq \in 1..Len(Attempts[cfTry].steps)
             /\ GoodAttempt(Current.class, Attempts[cfTry])
  <2>1. PICK item : item = Current
    OBVIOUS
  <2>2. item.class = "ssrf" => UseOast
    BY <1>6, <2>1 DEF Suits
  <2>3. GoodCheck(item.class, AttemptsOf(item.class))
    BY <1>3, <2>1, ChecksAreGood
  <2>4. Len(AttemptsOf(item.class)) # 0
    BY <2>2, <2>3 DEF GoodCheck
  <2>5. cfTry \in 1..Len(Attempts) /\ cfReq \in 1..Len(Attempts[cfTry].steps)
    BY <1>2, <1>5, <2>1, <2>4 DEF Standing
  <2>6. QED
    BY <1>2, <2>1, <2>3, <2>5 DEF GoodCheck, GoodTries
<1>7. QED
  BY <1>1, <1>2, <1>3, <1>4, <1>5, <1>6

\* What a request and its answer, or a look at the schema, do.
StepGoes(how) ==
    /\ Proceed(how)
    /\ cfNoise' \in cfNoise..MaxNoise
    /\ LuckGrows
    /\ how = "ok" => Agreed(cfTarget, Current, cfTry, cfReq, cfNoise, cfNoise', cfLucky')
    /\ how # "ok" /\ cfNoise' = 0 =>
          \/ Refused(cfTarget, Current, cfTry, cfReq, how)
          \/ QuirkyIn(cfTarget, Current.on) /\ Current.class \notin Gates
    /\ cfDirty' \in BOOLEAN
    /\ Current.class # "baseline" => cfDirty' = cfDirty
    /\ Current.class = "baseline" /\ cfNoise' = 0 /\ cfDirty' => "broken" \in cfTarget[Current.on].quirks

\* Only a place with quirks is unsteady, and none that a gate or a proof asks about.
LEMMA UnsteadyFacts ==
  ASSUME NEW at, at = Attempts[cfTry], GoodAttempt(Current.class, at), Unsteady
  PROVE  QuirkyIn(cfTarget, Current.on) /\ at.signal # "proof" /\ Current.class \notin {"typebase", "schema"}
<1>1. OddlyShown(at.signal) \cap {"wobbly", "slow"} # {} /\ cfTarget[Current.on].quirks # {}
  BY DEF Unsteady
<1>2. at.signal \notin {"proof", "error", "status"}
  BY <1>1 DEF OddlyShown
<1>3. QED
  BY <1>1, <1>2 DEF QuirkyIn, GoodAttempt

LEMMA SendOutcome ==
  ASSUME ConfirmInv, Send
  PROVE  \E how \in {"ok", "next", "end"} : StepGoes(how)
<1>1. Checking /\ Applies(Current) /\ Suits(Current)
  BY DEF Send, Applies
<1>2. /\ Attempts = AttemptsOf(Current.class)
      /\ cfNoise \in 0..MaxNoise /\ MaxNoise \in Nat
      /\ cfTry \in 1..Len(Attempts) /\ cfReq \in 1..Len(Attempts[cfTry].steps)
      /\ GoodAttempt(Current.class, Attempts[cfTry])
      /\ cfAt \in Slots[cfMode] /\ Current = ItemAt(cfMode, cfAt)
  BY <1>1, InCheck
<1>3. PICK at : at = Attempts[cfTry]
  OBVIOUS
<1>4. PICK step : step = at.steps[cfReq]
  OBVIOUS
<1>5. CurrentStep = step /\ GoodStep(Current.class, at.signal, step)
  BY <1>2, <1>3, <1>4 DEF CurrentStep, GoodAttempt
<1>6. AsExpected <=> ShowsIn(cfTarget, Current, at.signal, step.expect)
  BY <1>3, <1>5, OfTarget DEF AsExpected
<1>7. step.expect = "any" => AsExpected
  BY <1>6 DEF ShowsIn
<1>8. /\ step.missing \in {"ok", "next", "end"} /\ step.other \in {"next", "end"}
      /\ at.signal = "proof" => step.missing = "next"
      /\ Current.class = "baseline" => step.expect = "any"
  BY <1>5 DEF GoodStep
<1>9. PICK answer \in {"own", "wrong", "none"}, varied \in BOOLEAN :
           /\ answer # "own" => cfNoise < MaxNoise
           /\ answer = "wrong" => AsExpected \/ at.signal # "proof"
           /\ varied => answer = "own" /\ Unsteady
           /\ cfNoise' = IF answer = "own" THEN cfNoise ELSE cfNoise + 1
           /\ cfLucky' = cfLucky \cup IF varied /\ ~ AsExpected THEN {FindingAtHand} ELSE {}
           /\ Proceed(IF answer = "none" THEN step.missing
                      ELSE IF (AsExpected <=> answer = "own" /\ ~ varied) \/ step.expect = "any"
                      THEN "ok" ELSE step.other)
           /\ cfDirty' = IF Current.class # "baseline" THEN cfDirty
                         ELSE "broken" \in cfTarget[Current.on].quirks <=> answer = "own"
  BY <1>3, <1>5 DEF Send
<1>10. PICK how : how = IF answer = "none" THEN step.missing
                        ELSE IF (AsExpected <=> answer = "own" /\ ~ varied) \/ step.expect = "any"
                        THEN "ok" ELSE step.other
  OBVIOUS
<1>11. how \in {"ok", "next", "end"} /\ Proceed(how)
  BY <1>8, <1>9, <1>10
<1>12. cfNoise' \in {cfNoise, cfNoise + 1} /\ cfNoise' \in cfNoise..MaxNoise
  BY <1>2, <1>9
<1>13. cfNoise' = cfNoise \/ cfNoise' = 0 => answer = "own"
  BY <1>2, <1>9
<1>14. FindingAtHand = Report(cfMode, cfAt) /\ FindingAtHand = [on |-> Current.on, class |-> Current.class]
  BY <1>2 DEF FindingAtHand, Report
<1>15. LuckGrows
  <2>1. cfLucky' = cfLucky \/ cfLucky' = cfLucky \cup {FindingAtHand}
    BY <1>9
  <2>2. QED
    BY <1>2, <1>14, <2>1 DEF LuckGrows
<1>16. varied => /\ QuirkyIn(cfTarget, Current.on) /\ at.signal # "proof"
                 /\ Current.class \notin {"typebase", "schema"} /\ answer = "own"
  BY <1>2, <1>3, <1>9, UnsteadyFacts
<1>17. ASSUME how = "ok" PROVE Agreed(cfTarget, Current, cfTry, cfReq, cfNoise, cfNoise', cfLucky')
  <2>1. answer = "own" /\ ~ varied => AsExpected
    BY <1>7, <1>8, <1>10, <1>17
  <2>2. at.signal = "proof" => AsExpected
    BY <1>7, <1>8, <1>9, <1>10, <1>16, <1>17, <2>1
  <2>3. varied /\ ~ AsExpected => Excused(Current, cfNoise', cfLucky')
    BY <1>9, <1>14 DEF Excused
  <2>4. cfNoise' = cfNoise => AsExpected \/ Excused(Current, cfNoise', cfLucky')
    BY <1>13, <2>1, <2>3
  <2>5. QED
    BY <1>2, <1>3, <1>4, <1>6, <1>12, <2>2, <2>4 DEF Agreed
<1>18. ASSUME how # "ok", cfNoise' = 0
       PROVE  \/ Refused(cfTarget, Current, cfTry, cfReq, how)
              \/ QuirkyIn(cfTarget, Current.on) /\ Current.class \notin Gates
  <2>1. answer = "own" /\ step.expect # "any" /\ how = step.other
    BY <1>10, <1>13, <1>18
  <2>2. CASE varied
    BY <1>8, <1>16, <2>1, <2>2 DEF Gates
  <2>3. CASE ~ varied
    <3>1. ~ AsExpected
      BY <1>10, <1>18, <2>1, <2>3
    <3>2. QED
      BY <1>2, <1>3, <1>4, <1>6, <2>1, <3>1 DEF Refused
  <2>4. QED
    BY <2>2, <2>3
<1>19. /\ Current.class # "baseline" => cfDirty' = cfDirty
       /\ Current.class = "baseline" => cfDirty' = ("broken" \in cfTarget[Current.on].quirks <=> answer = "own")
  BY <1>9
<1>20. cfDirty' \in BOOLEAN
  <2>1. cfDirty \in BOOLEAN
    BY DEF ConfirmInv, ConfirmTypeOK
  <2>2. CASE Current.class # "baseline"
    BY <1>19, <2>1, <2>2
  <2>3. CASE Current.class = "baseline"
    BY <1>19, <2>3
  <2>4. QED
    BY <2>2, <2>3
<1>21. Current.class = "baseline" /\ cfNoise' = 0 /\ cfDirty' => "broken" \in cfTarget[Current.on].quirks
  BY <1>13, <1>19
<1>22. StepGoes(how)
  BY <1>11, <1>12, <1>15, <1>17, <1>18, <1>19, <1>20, <1>21 DEF StepGoes
<1>23. QED
  BY <1>11, <1>22

LEMMA ReadOutcome ==
  ASSUME ConfirmInv, ReadSchema
  PROVE  \E how \in {"ok", "next", "end"} : StepGoes(how)
<1>1. Checking /\ Applies(Current) /\ Suits(Current) /\ Current.class = "sensitive"
  BY DEF ReadSchema, Applies
<1>2. /\ Attempts = AttemptsOf(Current.class)
      /\ cfNoise \in 0..MaxNoise /\ MaxNoise \in Nat
      /\ cfTry \in 1..Len(Attempts) /\ cfReq \in 1..Len(Attempts[cfTry].steps)
      /\ GoodAttempt(Current.class, Attempts[cfTry])
      /\ cfAt \in Slots[cfMode] /\ Current = ItemAt(cfMode, cfAt)
  BY <1>1, InCheck
<1>3. PICK at : at = Attempts[cfTry]
  OBVIOUS
<1>4. PICK step : step = at.steps[cfReq]
  OBVIOUS
<1>5. CurrentStep = step /\ GoodStep(Current.class, at.signal, step)
  BY <1>2, <1>3, <1>4 DEF CurrentStep, GoodAttempt
<1>6. AsExpected <=> ShowsIn(cfTarget, Current, at.signal, step.expect)
  BY <1>3, <1>5, OfTarget DEF AsExpected
<1>7. step.other \in {"next", "end"} /\ step.expect # "any"
  BY <1>1, <1>5 DEF GoodStep
<1>8. PICK named \in BOOLEAN : /\ (named <=> AsExpected) \/ cfNoise > 0
                               /\ Proceed(IF named THEN "ok" ELSE step.other)
  BY <1>5 DEF ReadSchema
<1>9. PICK how : how = IF named THEN "ok" ELSE step.other
  OBVIOUS
<1>10. how \in {"ok", "next", "end"} /\ Proceed(how)
  BY <1>7, <1>8, <1>9
<1>11. cfNoise' = cfNoise /\ cfLucky' = cfLucky
  BY DEF ReadSchema
<1>12. cfNoise' \in cfNoise..MaxNoise /\ cfNoise' \in {cfNoise, cfNoise + 1} /\ LuckGrows
  BY <1>2, <1>11 DEF LuckGrows
<1>13. cfDirty' = cfDirty /\ cfDirty' \in BOOLEAN
  BY DEF ReadSchema, ConfirmInv, ConfirmTypeOK
<1>14. ASSUME how = "ok" PROVE Agreed(cfTarget, Current, cfTry, cfReq, cfNoise, cfNoise', cfLucky')
  <2>1. AsExpected \/ cfNoise > 0
    BY <1>7, <1>8, <1>9, <1>14
  <2>2. cfNoise > 0 => Excused(Current, cfNoise', cfLucky')
    BY <1>1, <1>11 DEF Excused, OneAnswer
  <2>3. QED
    BY <1>2, <1>3, <1>4, <1>6, <1>12, <2>1, <2>2 DEF Agreed
<1>15. ASSUME how # "ok", cfNoise' = 0 PROVE Refused(cfTarget, Current, cfTry, cfReq, how)
  <2>1. ~ AsExpected /\ how = step.other
    BY <1>2, <1>8, <1>9, <1>11, <1>15
  <2>2. QED
    BY <1>2, <1>3, <1>4, <1>6, <1>7, <2>1 DEF Refused
<1>16. StepGoes(how)
  BY <1>1, <1>10, <1>12, <1>13, <1>14, <1>15 DEF StepGoes
<1>17. QED
  BY <1>10, <1>16

\* What an early end of a check does.
LEMMA GivingUp ==
  ASSUME ConfirmInv, Checking, Applies(Current), GiveUp,
         UNCHANGED <<cfRequest, cfPhase, cfClient>>,
         cfNoise' \in cfNoise..MaxNoise, cfDirty' \in BOOLEAN, LuckGrows,
         cfNoise' = 0 /\ Current.class \in Gates =>
            \/ Current.class = "typebase" /\ QuirkyIn(cfTarget, Current.on)
            \/ Current.class = "schema" /\ ~ OpenIn(cfTarget, Current.on, "schema"),
         cfNoise' = 0 => ~ DueIn(cfTarget, Current),
         cfNoise' = 0 /\ cfDirty' /\ Current.class = "baseline" => "broken" \in cfTarget[Current.on].quirks
  PROVE  ConfirmInv'
<1>1. /\ cfMode \in CfMode /\ cfAt \in Slots[cfMode] /\ cfPhase = "run"
      /\ Current = ItemAt(cfMode, cfAt) /\ Suits(Current)
  BY InCheck DEF Applies
<1>2. NextItem /\ cfFound' = cfFound /\ cfTold' = cfTold /\ cfPhase' = "run"
  BY <1>1 DEF GiveUp
<1>3. cfTold \subseteq cfFound
  BY DEF ConfirmInv, ConfirmTypeOK
<1>4. ASSUME cfNoise' = 0, NEW p \in cfPast', p \notin cfPast PROVE Reason(cfTarget, cfFound', Current, p)
  <2>1. cfPast' = cfPast
        \cup (IF Current.class \in OncePerKey THEN {SeenKey(Current)} ELSE {})
        \cup (IF Current.class \in Gates THEN {Current.group} ELSE {})
    BY DEF GiveUp, LeaveBehind
  <2>2. \/ Current.class \in OncePerKey /\ p = SeenKey(Current)
        \/ Current.class \in Gates /\ p = Current.group
    BY <1>4, <2>1
  <2>3. QED
    BY <1>1, <1>4, <2>2 DEF Reason
<1>5. cfNoise' = 0 => Settles(cfMode, cfTarget, cfFound', cfTold', cfAt)
  BY <1>1 DEF Settles
<1>6. QED
  BY <1>1, <1>2, <1>3, <1>4, <1>5, Leaving

LEMMA PassOverKeeps ==
  ASSUME ConfirmInv, PassOver
  PROVE  ConfirmInv'
<1>1. Checking /\ ~ Applies(Current) /\ NextItem
  BY DEF PassOver
<1>2. /\ cfMode \in CfMode /\ cfAt \in Slots[cfMode] /\ cfPhase = "run"
      /\ Current = ItemAt(cfMode, cfAt) /\ Current.class \in Classes
      /\ cfNoise \in 0..MaxNoise /\ MaxNoise \in Nat
  BY <1>1, InCheck
<1>3. /\ UNCHANGED <<cfRequest, cfPhase, cfPast, cfFound, cfTold, cfNoise, cfLucky>>
      /\ cfClient' = cfClient /\ cfDirty' = cfDirty
  BY DEF PassOver
<1>4. cfTold \subseteq cfFound /\ cfDirty' \in BOOLEAN
  BY <1>3 DEF ConfirmInv, ConfirmTypeOK
<1>5. cfNoise' \in cfNoise..MaxNoise
  BY <1>2, <1>3
<1>6. ASSUME cfNoise' = 0 PROVE Settles(cfMode, cfTarget, cfFound, cfTold, cfAt)
  <2>1. PastIn(cfMode, cfTarget, cfAt, cfPast, cfFound)
    BY <1>3, <1>6 DEF ConfirmInv
  <2>2. ASSUME DueIn(cfTarget, Current) PROVE ShadowedIn(cfMode, cfTarget, cfFound, cfAt)
    <3>1. Suits(Current)
      BY <2>2 DEF DueIn
    <3>2. Current.group \in cfPast \/ (Current.class \in OncePerKey /\ SeenKey(Current) \in cfPast)
      BY <1>1, <3>1 DEF Applies
    <3>3. QED
      BY <1>2, <2>1, <3>1, <3>2, PassedOver
  <2>3. QED
    BY <1>2, <2>2 DEF Settles
<1>7. Current.class = "baseline" => Current.group \in cfPast
  <2>1. ASSUME Current.class = "baseline" PROVE Current.group \in cfPast
    <3>1. Suits(Current)
      BY <2>1 DEF Suits
    <3>2. Current.class \notin OncePerKey
      BY <2>1 DEF OncePerKey
    <3>3. QED
      BY <1>1, <3>1, <3>2 DEF Applies
  <2>2. QED
    BY <2>1
<1>8. cfPhase' = "run" /\ UNCHANGED <<cfRequest, cfClient>> /\ LuckGrows
  BY <1>2, <1>3 DEF LuckGrows
<1>9. QED
  BY <1>1, <1>2, <1>3, <1>4, <1>5, <1>6, <1>7, <1>8, Leaving
\* The next attempt, or the end of the check, after one that failed.
LEMMA TryingNext ==
  ASSUME ConfirmInv, Checking, Applies(Current), TryNext,
         UNCHANGED <<cfRequest, cfPhase, cfClient>>,
         cfNoise' \in cfNoise..MaxNoise, cfDirty' \in BOOLEAN, LuckGrows,
         Current.class = "baseline" \/ cfDirty' = cfDirty,
         cfNoise' = 0 /\ ~ QuirkyIn(cfTarget, Current.on) /\ Current.class \notin Samples =>
            <<Current.class, Attempts[cfTry].signal>> \notin cfTarget[Current.on].open,
         cfTry # Len(Attempts)
  PROVE  ConfirmInv'
<1>1. /\ cfMode \in CfMode /\ cfAt \in Slots[cfMode] /\ cfPhase = "run"
      /\ Current = ItemAt(cfMode, cfAt) /\ Attempts = AttemptsOf(Current.class) /\ Current.class \in Classes
      /\ cfNoise \in 0..MaxNoise /\ MaxNoise \in Nat
      /\ Gathered(cfTarget, Current, cfTry, cfReq, cfNoise, cfLucky)
      /\ cfTry \in 1..Len(Attempts)
  BY InCheck DEF Applies
<1>2. /\ cfAt' = cfAt /\ cfTry' = cfTry + 1 /\ cfReq' = 1
      /\ UNCHANGED <<cfPast, cfFound, cfTold>>
  BY DEF TryNext, GoTo
<1>3. PICK item : item = Current
  OBVIOUS
<1>4. GoodTries(item.class, AttemptsOf(item.class))
  BY <1>1, <1>3, ChecksAreGood DEF GoodCheck
<1>5. cfTry \in Nat /\ cfTry + 1 \in 1..Len(AttemptsOf(item.class)) /\ cfTry + 1 \in Nat \ {0}
  BY <1>1, <1>3, <1>4 DEF GoodTries
<1>6. GoodAttempt(item.class, AttemptsOf(item.class)[cfTry + 1])
  BY <1>4, <1>5 DEF GoodTries
<1>7. 1 \in 1..Len(AttemptsOf(item.class)[cfTry + 1].steps)
  BY <1>6 DEF GoodAttempt
<1>8. cfNoise \in Nat /\ cfNoise' \in Nat /\ (cfNoise' = 0 => cfNoise = 0)
  BY <1>1
<1>9. Gathered(cfTarget, item, cfTry + 1, 1, cfNoise', cfLucky')
  <2>1. PICK t \in 1..Len(AttemptsOf(item.class)) : t = cfTry
    BY <1>1, <1>3
  <2>2. PICK r : r = cfReq
    OBVIOUS
  <2>3. PICK after \in Nat : after = cfNoise'
    BY <1>8
  <2>4. Gathered(cfTarget, item, t, r, cfNoise, cfLucky)
    BY <1>1, <1>3, <2>1, <2>2
  <2>5. after = 0 /\ ~ QuirkyIn(cfTarget, item.on) /\ item.class \notin Samples =>
            <<item.class, AttemptsOf(item.class)[t].signal>> \notin cfTarget[item.on].open
    BY <1>1, <1>3, <2>1, <2>3
  <2>6. QED
    BY <1>8, <2>1, <2>3, <2>4, <2>5, GatheredNext
<1>10. AtHand(cfMode, cfTarget, cfAt, cfTry', cfReq', cfNoise', cfLucky')
  BY <1>1, <1>2, <1>3, <1>5, <1>7, <1>9 DEF AtHand, Standing
<1>11. UNCHANGED <<cfRequest, cfPhase, cfAt, cfPast, cfFound, cfTold, cfClient>>
  BY <1>2
<1>12. cfTry' \in Nat \ {0} /\ cfReq' \in Nat \ {0}
  BY <1>2, <1>5
<1>13. QED
  BY <1>1, <1>10, <1>11, <1>12, Staying

LEMMA SkipErrorsKeeps ==
  ASSUME ConfirmInv, SkipErrors
  PROVE  ConfirmInv'
<1>1. Checking /\ Applies(Current) /\ OutOfQuestion /\ TryNext
  BY DEF SkipErrors
<1>2. UNCHANGED <<cfRequest, cfPhase, cfClient>> /\ cfDirty' = cfDirty /\ cfNoise' = cfNoise /\ LuckGrows
  BY DEF SkipErrors, LuckGrows
<1>3. /\ cfMode \in CfMode /\ cfAt \in Slots[cfMode]
      /\ Current = ItemAt(cfMode, cfAt)
      /\ cfNoise \in 0..MaxNoise /\ MaxNoise \in Nat
  BY <1>1, InCheck
<1>4. Current.class = "sqli" /\ cfDirty
  BY <1>1 DEF OutOfQuestion
<1>5. Current.group \notin cfPast
  BY <1>1 DEF Applies
<1>6. cfNoise = 0 => "broken" \in cfTarget[Current.on].quirks
  BY <1>3, <1>4, <1>5 DEF ConfirmInv, DirtyIn
<1>7. cfNoise' = 0 => QuirkyIn(cfTarget, Current.on) /\ ~ DueIn(cfTarget, Current)
  BY <1>2, <1>6 DEF QuirkyIn, DueIn
<1>8. cfNoise' \in cfNoise..MaxNoise
  BY <1>2, <1>3
<1>9. cfDirty' \in BOOLEAN
  BY <1>2 DEF ConfirmInv, ConfirmTypeOK
<1>10. CASE cfTry = Len(Attempts)
  <2>1. GiveUp
    BY <1>1, <1>10 DEF TryNext
  <2>2. Current.class \notin Gates /\ Current.class # "baseline"
    BY <1>4 DEF Gates
  <2>3. QED
    BY <1>1, <1>2, <1>7, <1>8, <1>9, <2>1, <2>2, GivingUp
<1>11. CASE cfTry # Len(Attempts)
  BY <1>1, <1>2, <1>7, <1>8, <1>9, <1>11, TryingNext
<1>12. QED
  BY <1>10, <1>11

\* A request whose answer is not as expected.
LEMMA RefusedKeeps ==
  ASSUME ConfirmInv, Checking, Applies(Current), NEW how \in {"next", "end"}, Proceed(how),
         UNCHANGED <<cfRequest, cfPhase, cfClient>>,
         cfNoise' \in cfNoise..MaxNoise, cfDirty' \in BOOLEAN, LuckGrows,
         cfNoise' = 0 => \/ Refused(cfTarget, Current, cfTry, cfReq, how)
                         \/ QuirkyIn(cfTarget, Current.on) /\ Current.class \notin Gates,
         Current.class # "baseline" => cfDirty' = cfDirty,
         Current.class = "baseline" /\ cfNoise' = 0 /\ cfDirty' => "broken" \in cfTarget[Current.on].quirks
  PROVE  ConfirmInv'
<1>1. /\ cfMode \in CfMode /\ cfAt \in Slots[cfMode]
      /\ Current = ItemAt(cfMode, cfAt) /\ Attempts = AttemptsOf(Current.class) /\ Current.class \in Classes
      /\ cfNoise \in 0..MaxNoise /\ MaxNoise \in Nat
      /\ Gathered(cfTarget, Current, cfTry, cfReq, cfNoise, cfLucky)
      /\ cfTry \in 1..Len(Attempts) /\ cfReq \in 1..Len(Attempts[cfTry].steps)
  BY InCheck DEF Applies
<1>2. PICK item : item = Current
  OBVIOUS
<1>3. PICK t : t = cfTry
  OBVIOUS
<1>4. PICK r : r = cfReq
  OBVIOUS
<1>5. /\ item.class \in Classes
      /\ t \in 1..Len(AttemptsOf(item.class)) /\ r \in 1..Len(AttemptsOf(item.class)[t].steps)
      /\ Gathered(cfTarget, item, t, r, cfNoise, cfLucky)
      /\ cfNoise' = 0 => \/ Refused(cfTarget, item, t, r, how)
                         \/ QuirkyIn(cfTarget, item.on) /\ item.class \notin Gates
      /\ cfNoise' = 0 => cfNoise = 0
  BY <1>1, <1>2, <1>3, <1>4
<1>6. ASSUME cfNoise' = 0, ~ QuirkyIn(cfTarget, item.on), item.class \notin Samples
      PROVE  <<item.class, AttemptsOf(item.class)[t].signal>> \notin cfTarget[item.on].open
  BY <1>5, <1>6, SignIsMissing
<1>7. CASE how = "next" /\ cfTry # Len(Attempts)
  <2>1. TryNext
    BY <1>7 DEF Proceed
  <2>2. QED
    BY <1>1, <1>2, <1>3, <1>6, <1>7, <2>1, TryingNext
<1>8. CASE how = "end" \/ cfTry = Len(Attempts)
  <2>1. GiveUp
    BY <1>8 DEF Proceed, TryNext
  <2>2. ASSUME cfNoise' = 0, item.class \in Gates
        PROVE  \/ item.class = "typebase" /\ QuirkyIn(cfTarget, item.on)
               \/ item.class = "schema" /\ ~ OpenIn(cfTarget, item.on, "schema")
    BY <1>5, <2>2, GateShut
  <2>3. ASSUME cfNoise' = 0, DueIn(cfTarget, item) PROVE FALSE
    <3>1. ~ QuirkyIn(cfTarget, item.on) /\ item.class \notin Samples
      BY <2>3 DEF DueIn
    <3>2. t = Len(AttemptsOf(item.class)) \/ how = "end"
      BY <1>1, <1>2, <1>3, <1>8
    <3>3. Gathered(cfTarget, item, t, r, 0, cfLucky)
      BY <1>5, <2>3
    <3>4. ~ OpenIn(cfTarget, item.on, item.class)
      BY <1>5, <2>3, <3>1, <3>2, <3>3, NotOpen
    <3>5. QED
      BY <2>3, <3>4 DEF DueIn
  <2>4. QED
    BY <1>2, <2>1, <2>2, <2>3, GivingUp
<1>9. QED
  BY <1>7, <1>8

\* A request whose answer is as expected.
LEMMA AgreedKeeps ==
  ASSUME ConfirmInv, Checking, Applies(Current), Matched,
         UNCHANGED <<cfRequest, cfPhase, cfClient>>,
         cfNoise' \in cfNoise..MaxNoise, cfDirty' \in BOOLEAN, LuckGrows,
         Agreed(cfTarget, Current, cfTry, cfReq, cfNoise, cfNoise', cfLucky'),
         Current.class # "baseline" => cfDirty' = cfDirty,
         Current.class = "baseline" /\ cfNoise' = 0 /\ cfDirty' => "broken" \in cfTarget[Current.on].quirks
  PROVE  ConfirmInv'
<1>1. /\ cfMode \in CfMode /\ cfAt \in Slots[cfMode] /\ cfPhase = "run"
      /\ Current = ItemAt(cfMode, cfAt) /\ Attempts = AttemptsOf(Current.class) /\ Current.class \in Classes
      /\ cfNoise \in 0..MaxNoise /\ MaxNoise \in Nat
      /\ Gathered(cfTarget, Current, cfTry, cfReq, cfNoise, cfLucky) /\ Suits(Current)
      /\ cfTry \in 1..Len(Attempts) /\ cfReq \in 1..Len(Attempts[cfTry].steps)
      /\ GoodAttempt(Current.class, Attempts[cfTry])
  BY InCheck DEF Applies
<1>2. PICK item : item = Current
  OBVIOUS
<1>3. PICK t : t = cfTry
  OBVIOUS
<1>4. PICK r : r = cfReq
  OBVIOUS
<1>5. PICK n \in Nat : n = Len(AttemptsOf(item.class)[t].steps)
  BY <1>1, <1>2, <1>3 DEF GoodAttempt
<1>6. PICK after \in Nat : after = cfNoise'
  BY <1>1
<1>7. /\ item.class \in Classes /\ Len(AttemptsOf(item.class)) \in Nat
      /\ t \in 1..Len(AttemptsOf(item.class)) /\ r \in 1..n /\ t \in Nat \ {0} /\ r \in Nat \ {0}
      /\ cfNoise \in Nat
      /\ Gathered(cfTarget, item, t, r, cfNoise, cfLucky) /\ Agreed(cfTarget, item, t, r, cfNoise, after, cfLucky')
  <2>1. Len(AttemptsOf(item.class)) \in Nat
    BY <1>1, <1>2, ChecksAreGood DEF GoodCheck, GoodTries
  <2>2. QED
    BY <1>1, <1>2, <1>3, <1>4, <1>5, <1>6, <2>1
<1>8. Gathered(cfTarget, item, t, r + 1, after, cfLucky')
  BY <1>7, GatheredMore DEF LuckGrows
<1>9. CASE r < n
  <2>1. /\ cfAt' = cfAt /\ cfTry' = cfTry /\ cfReq' = cfReq + 1
        /\ UNCHANGED <<cfPast, cfFound, cfTold>>
    BY <1>1, <1>2, <1>3, <1>4, <1>5, <1>9 DEF Matched, GoTo
  <2>2. r + 1 \in 1..n /\ r + 1 \in Nat \ {0}
    BY <1>7, <1>9
  <2>3. AtHand(cfMode, cfTarget, cfAt, cfTry', cfReq', cfNoise', cfLucky')
    BY <1>1, <1>2, <1>3, <1>4, <1>5, <1>6, <1>7, <1>8, <2>1, <2>2 DEF AtHand, Standing
  <2>4. UNCHANGED <<cfRequest, cfPhase, cfAt, cfPast, cfFound, cfTold, cfClient>>
    BY <2>1
  <2>5. cfTry' \in Nat \ {0} /\ cfReq' \in Nat \ {0}
    BY <1>3, <1>4, <1>7, <2>1, <2>2
  <2>6. QED
    BY <1>1, <2>3, <2>4, <2>5, Staying
<1>10. CASE r = n
  <2>1. NextItem /\ LeaveBehind(TRUE) /\ ReportFinding
    <3>1. ~ (cfReq < Len(Attempts[cfTry].steps))
      BY <1>1, <1>2, <1>3, <1>4, <1>5, <1>10
    <3>2. QED
      BY <3>1, Zenon DEF Matched
  <2>2. PICK f : f = [on |-> item.on, class |-> item.class]
    OBVIOUS
  <2>3. PICK new : new = IF item.class \in Samples THEN {} ELSE {f}
    OBVIOUS
  <2>4. cfFound' = cfFound \cup new /\ (cfTold' = cfTold \/ cfTold' = cfTold \cup new)
        /\ (cfClient => cfTold' = cfTold \cup new)
    BY <1>2, <2>1, <2>2, <2>3 DEF ReportFinding, FindingAtHand
  <2>5. cfTold \subseteq cfFound
    BY DEF ConfirmInv, ConfirmTypeOK
  <2>6. f = Report(cfMode, cfAt) /\ f.on = item.on /\ f.class = item.class
    BY <1>1, <1>2, <2>2 DEF Report
  <2>7. item.class \notin Samples => BackedFor(cfTarget, f, after, cfLucky')
    <3>1. SUFFICES ASSUME item.class \notin Samples,
                          ~ (after + (IF QuirkyIn(cfTarget, item.on) THEN 1 ELSE 0) > 1),
                          ~ (item.class \in OneAnswer /\ after > 0), f \notin cfLucky'
          PROVE  OpenIn(cfTarget, item.on, item.class) \/ NaturalIn(cfTarget, item.on, item.class)
      BY <2>6 DEF BackedFor
    <3>2. after = 0 \/ (after = 1 /\ ~ QuirkyIn(cfTarget, item.on) /\ item.class \notin OneAnswer)
      BY <3>1
    <3>3. Gathered(cfTarget, item, t, Len(AttemptsOf(item.class)[t].steps) + 1, after, cfLucky')
      BY <1>5, <1>8, <1>10
    <3>4. QED
      BY <1>7, <2>2, <3>1, <3>2, <3>3, Backing
  <2>8. ASSUME NEW p \in cfPast', p \notin cfPast PROVE Reason(cfTarget, cfFound', item, p)
    <3>1. cfPast' = cfPast
          \cup (IF item.class \in OncePerKey THEN {SeenKey(item)} ELSE {})
          \cup (IF EndsPlace(item) THEN {item.group} ELSE {})
      BY <1>2, <2>1 DEF LeaveBehind
    <3>2. \/ item.class \in OncePerKey /\ p = SeenKey(item)
          \/ EndsPlace(item) /\ p = item.group
      BY <2>8, <3>1
    <3>3. EndsPlace(item) => f \in cfFound'
      BY <2>3, <2>4 DEF EndsPlace, Stops, Samples
    <3>4. QED
      BY <1>1, <1>2, <2>2, <3>2, <3>3 DEF Reason
  <2>9. cfClient => Settles(cfMode, cfTarget, cfFound', cfTold', cfAt)
    <3>1. cfClient /\ item.class \notin Samples => f \in cfTold'
      BY <2>3, <2>4
    <3>2. QED
      BY <1>1, <1>2, <2>2, <3>1 DEF Settles, DueIn
  <2>10. /\ cfFound \subseteq cfFound' /\ cfTold \subseteq cfTold' /\ cfTold' \subseteq cfFound'
         /\ \A g \in cfFound' : g \in cfFound \/ (g = f /\ item.class \notin Samples)
    BY <2>3, <2>4, <2>5
  <2>11. cfPhase' = "run" /\ UNCHANGED <<cfRequest, cfClient>>
    BY <1>1
  <2>12. \A g \in cfFound' : g \in cfFound \/ (cfAt \in Slots[cfMode] /\ g = Report(cfMode, cfAt)
                                               /\ BackedFor(cfTarget, g, cfNoise', cfLucky'))
    BY <1>1, <1>6, <2>6, <2>7, <2>10
  <2>13. QED
    BY <1>1, <1>2, <2>1, <2>8, <2>9, <2>10, <2>11, <2>12, Leaving
<1>11. QED
  BY <1>7, <1>9, <1>10

LEMMA SendKeeps ==
  ASSUME ConfirmInv, Send \/ ReadSchema
  PROVE  ConfirmInv'
<1>1. Checking /\ Applies(Current)
  BY DEF Send, ReadSchema
<1>2. UNCHANGED <<cfRequest, cfPhase, cfClient>>
  BY DEF Send, ReadSchema
<1>3. PICK how \in {"ok", "next", "end"} : StepGoes(how)
  BY SendOutcome, ReadOutcome
<1>4. CASE how = "ok"
  <2>1. Matched
    BY <1>3, <1>4 DEF StepGoes, Proceed
  <2>2. QED
    BY <1>1, <1>2, <1>3, <1>4, <2>1, AgreedKeeps DEF StepGoes
<1>5. CASE how # "ok"
  BY <1>1, <1>2, <1>3, <1>5, RefusedKeeps DEF StepGoes
<1>6. QED
  BY <1>4, <1>5

LEMMA ConfirmInitInv == ConfirmInit => ConfirmInv
<1> SUFFICES ASSUME ConfirmInit PROVE ConfirmInv
  OBVIOUS
<1>1. /\ cfMode \in CfMode /\ cfTarget \in Targets /\ cfPhase = "start" /\ cfAt = Start /\ cfTry = 1 /\ cfReq = 1
      /\ cfPast = {} /\ cfFound = {} /\ cfTold = {} /\ cfNoise = 0 /\ cfLucky = {}
  BY DEF ConfirmInit
<1>2. ~ cfDirty /\ cfDirty \in BOOLEAN /\ cfClient \in BOOLEAN
  BY DEF ConfirmInit
<1>3. Start \notin Slots[cfMode] /\ \A k \in Slots[cfMode] : ~ Precedes(k, Start)
  BY <1>1, PositionFacts
<1>4. ConfirmTypeOK
  BY <1>1, <1>2, ConfirmAssumption DEF ConfirmTypeOK
<1>5. /\ AtHand(cfMode, cfTarget, cfAt, cfTry, cfReq, cfNoise, cfLucky)
      /\ PastIn(cfMode, cfTarget, cfAt, cfPast, cfFound)
      /\ DealtIn(cfMode, cfTarget, cfAt, cfFound, cfTold)
  BY <1>1, <1>3 DEF AtHand, PastIn, DealtIn
<1>6. QED
  BY <1>1, <1>2, <1>4, <1>5 DEF ConfirmInv

LEMMA BeginKeeps ==
  ASSUME ConfirmInv, BeginConfirm
  PROVE  ConfirmInv'
<1>1. /\ cfPhase = "start" /\ UNCHANGED <<cfRequest, cfPast, cfFound, cfTold, cfNoise, cfLucky>>
      /\ cfDirty' = cfDirty /\ cfClient' = cfClient
  BY DEF BeginConfirm
<1>2. cfAt = Start /\ cfMode \in CfMode /\ cfNoise \in 0..MaxNoise /\ MaxNoise \in Nat /\ cfTold \subseteq cfFound
  BY <1>1, ConfirmAssumption DEF ConfirmInv, ConfirmTypeOK
<1>3. Start \notin Slots[cfMode]
  BY <1>2, PositionFacts
<1>4. CASE cfPhase' = "failed" /\ UNCHANGED cfItemVars
  <2>1. cfAt' = cfAt /\ cfTry' = cfTry /\ cfReq' = cfReq /\ cfMode' = cfMode /\ cfTarget' = cfTarget
    BY <1>1, <1>4 DEF cfItemVars, cfRequest
  <2>2. ConfirmTypeOK'
    BY <1>1, <1>4, <2>1 DEF ConfirmInv, ConfirmTypeOK
  <2>3. QED
    BY <1>1, <1>2, <1>4, <2>1, <2>2 DEF ConfirmInv
<1>5. CASE cfPhase' = "run" /\ NextItem
  <2>1. cfNoise' \in cfNoise..MaxNoise
    BY <1>1, <1>2
  <2>2. cfDirty' \in BOOLEAN
    BY <1>1 DEF ConfirmInv, ConfirmTypeOK
  <2>3. UNCHANGED <<cfRequest, cfClient>> /\ LuckGrows
    BY <1>1 DEF LuckGrows
  <2>4. cfFound' = cfFound /\ cfTold' = cfTold /\ cfPast' = cfPast
    BY <1>1
  <2>5. QED
    BY <1>2, <1>3, <1>5, <2>1, <2>2, <2>3, <2>4, Leaving
<1>6. QED
  BY <1>4, <1>5 DEF BeginConfirm

LEMMA ConfirmStepInv == ConfirmInv /\ [ConfirmNext]_cfVars => ConfirmInv'
<1> SUFFICES ASSUME ConfirmInv, [ConfirmNext]_cfVars PROVE ConfirmInv'
  OBVIOUS
<1>1. CASE FinishConfirm
  <2>1. /\ cfMode' = cfMode /\ cfTarget' = cfTarget /\ cfAt' = cfAt /\ cfTry' = cfTry /\ cfReq' = cfReq
        /\ cfPast' = cfPast /\ cfFound' = cfFound /\ cfTold' = cfTold /\ cfNoise' = cfNoise /\ cfLucky' = cfLucky
        /\ cfPhase' = "done" /\ cfAt = End
    BY <1>1 DEF FinishConfirm, cfRequest, cfItemVars
  <2>2. cfDirty' = cfDirty /\ cfClient' = cfClient
    BY <1>1 DEF FinishConfirm
  <2>3. ConfirmTypeOK'
    BY <2>1, <2>2 DEF ConfirmInv, ConfirmTypeOK
  <2>4. QED
    BY <2>1, <2>2, <2>3 DEF ConfirmInv
<1>2. CASE ClientHangsUp
  <2>1. /\ cfMode' = cfMode /\ cfTarget' = cfTarget /\ cfAt' = cfAt /\ cfTry' = cfTry /\ cfReq' = cfReq
        /\ cfPast' = cfPast /\ cfFound' = cfFound /\ cfTold' = cfTold /\ cfNoise' = cfNoise /\ cfLucky' = cfLucky
        /\ cfPhase' = cfPhase
    BY <1>2 DEF ClientHangsUp, cfRequest, cfItemVars
  <2>2. cfDirty' = cfDirty /\ ~ cfClient' /\ cfClient' \in BOOLEAN
    BY <1>2 DEF ClientHangsUp
  <2>3. ConfirmTypeOK'
    BY <2>1, <2>2 DEF ConfirmInv, ConfirmTypeOK
  <2>4. QED
    BY <2>1, <2>2, <2>3 DEF ConfirmInv
<1>3. CASE UNCHANGED cfVars
  <2>1. /\ cfMode' = cfMode /\ cfTarget' = cfTarget /\ cfAt' = cfAt /\ cfTry' = cfTry /\ cfReq' = cfReq
        /\ cfPast' = cfPast /\ cfFound' = cfFound /\ cfTold' = cfTold /\ cfNoise' = cfNoise /\ cfLucky' = cfLucky
        /\ cfPhase' = cfPhase
    BY <1>3 DEF cfVars, cfRequest, cfItemVars
  <2>2. cfDirty' = cfDirty /\ cfClient' = cfClient
    BY <1>3 DEF cfVars
  <2>3. ConfirmTypeOK'
    BY <2>1, <2>2 DEF ConfirmInv, ConfirmTypeOK
  <2>4. QED
    BY <2>1, <2>2, <2>3 DEF ConfirmInv
<1>4. QED
  BY <1>1, <1>2, <1>3, BeginKeeps, PassOverKeeps, SendKeeps, SkipErrorsKeeps DEF ConfirmNext, ConfirmStep

LEMMA ConfirmInvSafe == ConfirmInv => ConfirmBacked /\ ConfirmCovers
<1> SUFFICES ASSUME ConfirmInv PROVE ConfirmBacked /\ ConfirmCovers
  OBVIOUS
<1>1. cfMode \in CfMode /\ cfNoise \in Nat
  BY DEF ConfirmInv, ConfirmTypeOK
<1>2. ConfirmBacked
  <2>1. SUFFICES ASSUME NEW f \in cfFound
        PROVE  \/ OpenTo(f.on, f.class) \/ Natural(f)
               \/ cfNoise + (IF Quirky(f.on) THEN 1 ELSE 0) > 1
               \/ f.class \in OneAnswer /\ cfNoise > 0
               \/ f \in cfLucky
    BY DEF ConfirmBacked
  <2>2. BackedFor(cfTarget, f, cfNoise, cfLucky)
    BY DEF ConfirmInv
  <2>3. Natural(f) <=> NaturalIn(cfTarget, f.on, f.class)
    BY DEF Natural, NaturalIn
  <2>4. QED
    BY <2>2, <2>3, OfTarget DEF BackedFor
<1>3. ConfirmCovers
  <2>1. SUFFICES ASSUME cfPhase = "done", cfNoise = 0, cfClient, NEW k \in Slots[cfMode],
                        NEW item, item = ItemAt(cfMode, k), Due(item)
        PROVE  [on |-> item.on, class |-> item.class] \in cfTold \/ Shadowed(k)
    BY DEF ConfirmCovers
  <2>2. DealtIn(cfMode, cfTarget, End, cfFound, cfTold)
    BY <2>1 DEF ConfirmInv
  <2>3. Precedes(k, End)
    BY <1>1, <2>1, PositionFacts
  <2>4. Settles(cfMode, cfTarget, cfFound, cfTold, k)
    BY <2>1, <2>2, <2>3 DEF DealtIn
  <2>5. DueIn(cfTarget, item)
    BY <2>1, OfTarget DEF Due, DueIn
  <2>6. ShadowedIn(cfMode, cfTarget, cfFound, k) => Shadowed(k)
    BY OfTarget DEF ShadowedIn, Shadowed
  <2>7. QED
    BY <2>1, <2>4, <2>5, <2>6 DEF Settles
<1>4. QED
  BY <1>2, <1>3

\* In every run of the active checks, for any endpoints, sites and targets and any
\* number of wrong or missing answers: what is reported is there, or more than one
\* thing was misleading, or a control fell on a moment an unsteady place looked
\* steady; and when every answer was the target's own and the client
\* read to the end, what is there was told, or its check was given up for a graver
\* finding, for another of its family, or for want of what it rests on
\* (inject.rs, fuzz.rs, discover.rs, graphql.rs).
THEOREM ConfirmSafe == ConfirmSpec => [](ConfirmTypeOK /\ ConfirmBacked /\ ConfirmCovers)
<1>1. ConfirmInv => ConfirmTypeOK
  BY DEF ConfirmInv
<1>2. QED
  BY <1>1, ConfirmInitInv, ConfirmStepInv, ConfirmInvSafe, PTL DEF ConfirmSpec
-----------------------------------------------------------------------------
(* The shared pace *)

\* The chunks that have counted enough outcomes and not yet reset the counter.
Resetting == {k \in Chunk : pcAt[k] = "reset"}

WindowOK == pcWindow \in Seq(ProbeClass) /\ Len(pcWindow) <= WindowCap
ControlOK ==
    /\ pcConc \in Unit..(MaxConc * Unit) /\ pcHold \in 0..MaxDelay
    /\ pcDelay \in 0..Greatest(MaxDelay, BaseDelay) /\ pcTasks \in 1..MaxConc
    /\ pcDir \in [Chunk -> Directive]
PlacesOK ==
    /\ pcAt \in [Chunk -> {"observe", "reset", "stats", "tick", "delay", "tasks"}]
    /\ pcSaw \in [Chunk -> Health] /\ pcSick \in 0..MaxSick
\* The counter runs past TickEvery only by the chunks that are about to reset it.
SinceOK == pcSince \in Nat /\ pcSince <= TickEvery - 1 + Cardinality(Resetting)

PaceInv == WindowOK /\ ControlOK /\ PlacesOK /\ SinceOK /\ pcSlow \in BOOLEAN

LEMMA FullPace == MaxConc * Unit \in Nat /\ Unit <= MaxConc * Unit
<1>1. Unit \in Nat /\ Unit > 0 /\ MaxConc \in Nat /\ MaxConc >= 1
  BY PaceAssumption
<1>2. PICK n \in Nat : MaxConc = n + 1
  <2>1. MaxConc - 1 \in Nat /\ MaxConc = (MaxConc - 1) + 1
    BY <1>1
  <2>2. QED
    BY <2>1
<1>3. MaxConc * Unit = n * Unit + Unit /\ n * Unit \in Nat
  BY <1>1, <1>2
<1>4. QED
  BY <1>1, <1>3

LEMMA ResettingCount == IsFiniteSet(Resetting) /\ Cardinality(Resetting) \in Nat
                        /\ Cardinality(Resetting) <= Cardinality(Chunk) /\ Cardinality(Chunk) \in Nat
<1>1. Resetting \subseteq Chunk /\ IsFiniteSet(Chunk)
  BY PaceAssumption DEF Resetting
<1>2. QED
  BY <1>1, FS_Subset, FS_CardinalityType

LEMMA PaceInvType == PaceInv => PaceTypeOK
<1> SUFFICES ASSUME PaceInv PROVE PaceTypeOK
  OBVIOUS
<1>1. Range(pcWindow) \subseteq ProbeClass /\ Len(pcWindow) <= WindowCap
  BY DEF PaceInv, WindowOK, Range
<1>2. pcSince \in 0..(TickEvery + Cardinality(Chunk))
  <2>1. TickEvery \in Nat
    BY PaceAssumption
  <2>2. QED
    BY <2>1, ResettingCount DEF PaceInv, SinceOK
<1>3. QED
  BY <1>1, <1>2 DEF PaceInv, ControlOK, PlacesOK, PaceTypeOK

LEMMA PaceInitInv == PaceInit => PaceInv
<1> SUFFICES ASSUME PaceInit PROVE PaceInv
  OBVIOUS
<1>1. /\ WindowCap \in Nat /\ TickEvery \in Nat /\ TickEvery >= 1 /\ MaxSick \in Nat /\ MaxDelay \in Nat
      /\ BaseDelay \in Nat /\ MaxConc \in Nat /\ MaxConc >= 1 /\ Unit \in Nat
  BY PaceAssumption
<1>2. <<>> \in Seq(ProbeClass) /\ Len(<<>>) = 0
  OBVIOUS
<1>3. WindowOK
  BY <1>1, <1>2 DEF PaceInit, WindowOK
<1>4. PlacesOK
  BY <1>1 DEF PaceInit, PlacesOK, Health
<1>5. SinceOK
  BY <1>1, ResettingCount DEF PaceInit, SinceOK
<1>6. pcSlow \in BOOLEAN
  BY DEF PaceInit
<1>7. ControlOK
  <2>1. pcConc \in Unit..(MaxConc * Unit)
    <3>1. PICK M \in Nat : M = MaxConc * Unit /\ Unit <= M
      BY FullPace
    <3>2. pcConc \in {Unit, M}
      BY <3>1 DEF PaceInit
    <3>3. pcConc \in Unit..M
      BY <1>1, <3>1, <3>2
    <3>4. QED
      BY <3>1, <3>3
  <2>2. pcHold \in 0..MaxDelay /\ pcDelay \in 0..Greatest(MaxDelay, BaseDelay) /\ pcTasks \in 1..MaxConc
    BY <1>1 DEF PaceInit, Least, Greatest
  <2>3. pcDir \in [Chunk -> Directive]
    BY <1>1 DEF PaceInit, Directive
  <2>4. QED
    BY <2>1, <2>2, <2>3 DEF ControlOK
<1>8. QED
  BY <1>3, <1>4, <1>5, <1>6, <1>7 DEF PaceInv

\* The limits of the controller.
LEMMA WithinPace == ASSUME NEW n \in Int PROVE Within(n) \in Unit..(MaxConc * Unit)
<1>1. PICK M \in Nat : M = MaxConc * Unit /\ Unit <= M
  BY FullPace
<1>2. Unit \in Nat
  BY PaceAssumption
<1>3. Within(n) = Greatest(Unit, Least(n, M))
  BY <1>1 DEF Within
<1>4. Greatest(Unit, Least(n, M)) \in Unit..M
  BY <1>1, <1>2 DEF Greatest, Least
<1>5. QED
  BY <1>1, <1>3, <1>4

LEMMA RoundedPace == ASSUME NEW n \in Nat PROVE Rounded(n) \in 1..MaxConc
<1>1. Unit \in Nat /\ Unit > 0 /\ MaxConc \in Nat /\ MaxConc >= 1
  BY PaceAssumption
<1>2. Unit \div 2 \in Nat
  BY <1>1
<1>3. PICK m \in Nat : m = n + Unit \div 2
  BY <1>2
<1>4. m \div Unit \in Int
  BY <1>1, <1>3
<1>5. PICK x \in Int : x = (n + Unit \div 2) \div Unit
  BY <1>3, <1>4
<1>6. Greatest(1, Least(x, MaxConc)) \in 1..MaxConc
  BY <1>1, <1>5 DEF Greatest, Least
<1>7. QED
  BY <1>5, <1>6 DEF Rounded

LEMMA WindowKept ==
  ASSUME WindowOK, NEW class \in ProbeClass
  PROVE  Recorded(class) \in Seq(ProbeClass) /\ Len(Recorded(class)) <= WindowCap
<1>1. WindowCap \in Nat /\ WindowCap >= 1
  BY PaceAssumption
<1>2. CASE Len(pcWindow) < WindowCap
  BY <1>1, <1>2 DEF WindowOK, Recorded
<1>3. CASE ~ (Len(pcWindow) < WindowCap)
  <2>1. pcWindow \in Seq(ProbeClass) /\ Len(pcWindow) = WindowCap /\ pcWindow # <<>>
    BY <1>1, <1>3 DEF WindowOK
  <2>2. Tail(pcWindow) \in Seq(ProbeClass) /\ Len(Tail(pcWindow)) = WindowCap - 1
    BY <1>1, <2>1
  <2>3. QED
    BY <1>1, <1>3, <2>2 DEF Recorded
<1>4. QED
  BY <1>2, <1>3

LEMMA PaceStepInv == PaceInv /\ [PaceNext]_pcVars => PaceInv'
<1> SUFFICES ASSUME PaceInv, [PaceNext]_pcVars PROVE PaceInv'
  OBVIOUS
<1>1. /\ TickEvery \in Nat /\ TickEvery >= 1 /\ MaxSick \in Nat /\ MaxDelay \in Nat /\ BaseDelay \in Nat
      /\ MaxConc \in Nat /\ MaxConc >= 1 /\ Unit \in Nat /\ Unit > 0 /\ DelayStep \in Nat /\ DelayRelief \in Nat
  BY PaceAssumption
<1>2. WindowOK /\ ControlOK /\ PlacesOK /\ SinceOK
  BY DEF PaceInv
<1>3. CASE UNCHANGED pcVars
  <2>1. pcSlow' = pcSlow
    BY <1>3 DEF pcVars, pcControl
  <2>2. WindowOK' /\ ControlOK' /\ PlacesOK' /\ SinceOK'
    BY <1>2, <1>3 DEF pcVars, pcControl, pcShown, WindowOK, ControlOK, PlacesOK, SinceOK, Resetting
  <2>3. QED
    BY <2>1, <2>2 DEF PaceInv
<1>4. ASSUME NEW k \in Chunk, NEW class \in ProbeClass, Observe(k, class) PROVE PaceInv'
  <2>1. pcSlow' = pcSlow
    BY <1>4 DEF Observe, pcControl
  <2>2. WindowOK'
    BY <1>2, <1>4, WindowKept DEF Observe, WindowOK
  <2>3. ControlOK'
    BY <1>2, <1>4 DEF Observe, ControlOK, pcControl, pcShown
  <2>4. pcAt' = [pcAt EXCEPT ![k] = IF pcSince + 1 >= TickEvery THEN "reset" ELSE "observe"]
        /\ pcAt[k] = "observe" /\ pcAt \in [Chunk -> {"observe", "reset", "stats", "tick", "delay", "tasks"}]
    BY <1>2, <1>4 DEF Observe, InObserve, PlacesOK
  <2>5. pcSick' \in 0..MaxSick
    BY <1>1, <1>2, <1>4 DEF Observe, PlacesOK
  <2>6. PlacesOK'
    BY <1>2, <1>4, <2>4, <2>5 DEF Observe, PlacesOK
  <2>7. SinceOK'
    <3>1. pcSince' = pcSince + 1 /\ pcSince \in Nat
      BY <1>2, <1>4 DEF Observe, SinceOK
    <3>2. Cardinality(Resetting) \in Nat /\ IsFiniteSet(Resetting)
      BY ResettingCount
    <3>3. CASE pcSince + 1 >= TickEvery
      <4>1. Resetting' = Resetting \cup {k} /\ k \notin Resetting
        BY <2>4, <3>3 DEF Resetting
      <4>2. Cardinality(Resetting') = Cardinality(Resetting) + 1
        BY <3>2, <4>1, FS_AddElement
      <4>3. QED
        BY <1>1, <1>2, <3>1, <3>2, <4>2 DEF SinceOK
    <3>4. CASE ~ (pcSince + 1 >= TickEvery)
      <4>1. Resetting' = Resetting
        BY <2>4, <3>4 DEF Resetting
      <4>2. Cardinality(Resetting') = Cardinality(Resetting)
        BY <4>1
      <4>3. QED
        BY <1>1, <3>1, <3>2, <3>4, <4>2 DEF SinceOK
    <3>5. QED
      BY <3>3, <3>4
  <2>8. QED
    BY <2>1, <2>2, <2>3, <2>6, <2>7 DEF PaceInv
<1>5. ASSUME NEW k \in Chunk, ResetCount(k) PROVE PaceInv'
  <2>1. pcSlow' = pcSlow
    BY <1>5 DEF ResetCount, pcControl
  <2>2. WindowOK' /\ ControlOK'
    BY <1>2, <1>5 DEF ResetCount, WindowOK, ControlOK, pcControl, pcShown
  <2>3. PlacesOK'
    BY <1>2, <1>5 DEF ResetCount, InObserve, PlacesOK
  <2>4. SinceOK'
    <3>1. Cardinality(Resetting') \in Nat
      <4>1. Resetting' \subseteq Chunk /\ IsFiniteSet(Chunk)
        BY PaceAssumption DEF Resetting
      <4>2. QED
        BY <4>1, FS_Subset, FS_CardinalityType
    <3>2. QED
      BY <1>1, <1>5, <3>1 DEF ResetCount, SinceOK
  <2>5. QED
    BY <2>1, <2>2, <2>3, <2>4 DEF PaceInv
\* The other steps touch neither the window nor the counter.
<1>6. ASSUME NEW k \in Chunk, Snapshot(k) \/ TickPace(k) \/ PublishDelay(k) \/ PublishTasks(k)
      PROVE  WindowOK' /\ SinceOK'
             /\ pcAt' \in [Chunk -> {"observe", "reset", "stats", "tick", "delay", "tasks"}]
  <2>1. \E p, q \in {"observe", "stats", "tick", "delay", "tasks"} :
          pcAt[k] = p /\ pcAt' = [pcAt EXCEPT ![k] = q]
    BY <1>6 DEF Snapshot, TickPace, PublishDelay, PublishTasks, InObserve
  <2>2. Resetting' = Resetting
    BY <1>2, <2>1 DEF Resetting, PlacesOK
  <2>3. pcSince' = pcSince /\ pcWindow' = pcWindow
    BY <1>6 DEF Snapshot, TickPace, PublishDelay, PublishTasks
  <2>4. SinceOK' /\ WindowOK'
    BY <1>2, <2>2, <2>3 DEF SinceOK, WindowOK
  <2>5. QED
    BY <1>2, <2>1, <2>4 DEF PlacesOK
<1>7. ASSUME NEW k \in Chunk, Snapshot(k) PROVE PaceInv'
  <2>1. pcSlow' = pcSlow
    BY <1>7 DEF Snapshot, pcControl
  <2>2. Score \in Health
    BY DEF Score, Health
  <2>3. PlacesOK'
    BY <1>2, <1>6, <1>7, <2>2 DEF Snapshot, PlacesOK
  <2>4. ControlOK'
    BY <1>2, <1>7 DEF Snapshot, ControlOK, pcControl, pcShown
  <2>5. QED
    BY <1>6, <1>7, <2>1, <2>3, <2>4 DEF PaceInv
<1>8. ASSUME NEW k \in Chunk, PublishDelay(k) \/ PublishTasks(k) PROVE PaceInv'
  <2>1. pcSlow' = pcSlow
    BY <1>8 DEF PublishDelay, PublishTasks, pcControl
  <2>2. PlacesOK'
    BY <1>2, <1>6, <1>8 DEF PublishDelay, PublishTasks, PlacesOK
  <2>3. pcDir[k].tasks \in 1..MaxConc /\ pcDir[k].delay \in 0..MaxDelay
    BY <1>2 DEF ControlOK, Directive
  <2>4. pcDir[k].delay \in 0..Greatest(MaxDelay, BaseDelay)
    BY <1>1, <2>3 DEF Greatest
  <2>5. ControlOK'
    BY <1>2, <1>8, <2>3, <2>4 DEF PublishDelay, PublishTasks, ControlOK, pcControl
  <2>6. QED
    BY <1>6, <1>8, <2>1, <2>2, <2>5 DEF PaceInv
<1>9. ASSUME NEW k \in Chunk, TickPace(k) PROVE PaceInv'
  <2>1. PICK M \in Nat : M = MaxConc * Unit /\ Unit <= M
    BY FullPace
  <2>2. pcConc \in Nat /\ pcHold \in 0..MaxDelay /\ pcConc \in Unit..(MaxConc * Unit)
    <3>1. pcConc \in Unit..M
      BY <1>2, <2>1 DEF ControlOK
    <3>2. QED
      BY <1>1, <1>2, <2>1, <3>1 DEF ControlOK
  <2>3. Faster[1] \in Int
    <3>1. (pcConc * 3) \div 2 \in Int /\ pcConc + Unit \in Int
      BY <1>1, <2>2
    <3>2. QED
      BY <3>1 DEF Faster
  <2>4. pcConc \div 2 \in Int
    BY <2>2
  <2>5. pcConc' \in Unit..(MaxConc * Unit) /\ pcHold' \in 0..MaxDelay
    <3>1. CASE pcSaw[k] = "healthy"
      <4>1. pcConc' = Within(Faster[1]) /\ pcHold' = Greatest(0, pcHold - DelayRelief)
        BY <1>9, <3>1 DEF TickPace
      <4>2. pcHold' \in 0..MaxDelay
        BY <1>1, <2>2, <4>1 DEF Greatest
      <4>3. QED
        BY <2>3, <4>1, <4>2, WithinPace
    <3>2. CASE pcSaw[k] = "stressed"
      <4>1. pcConc' = Within(pcConc \div 2) /\ pcHold' = Least(pcHold + DelayStep, MaxDelay)
        BY <1>9, <3>2 DEF TickPace
      <4>2. pcHold' \in 0..MaxDelay
        BY <1>1, <2>2, <4>1 DEF Least
      <4>3. QED
        BY <2>4, <4>1, <4>2, WithinPace
    <3>3. CASE pcSaw[k] \notin {"healthy", "stressed"}
      BY <1>9, <2>2, <3>3 DEF TickPace, pcControl
    <3>4. QED
      BY <3>1, <3>2, <3>3
  <2>6. Faster[2] \in BOOLEAN
    <3>1. PICK n : n = (pcConc * 3) \div 2
      OBVIOUS
    <3>2. (2 * n < MaxConc * Unit) \in BOOLEAN /\ FALSE \in BOOLEAN
      OBVIOUS
    <3>3. CASE pcSlow
      <4>1. Faster = <<n, 2 * n < MaxConc * Unit>>
        BY <3>1, <3>3 DEF Faster
      <4>2. QED
        BY <3>2, <4>1
    <3>4. CASE ~ pcSlow
      <4>1. Faster = <<pcConc + Unit, FALSE>>
        BY <3>4 DEF Faster
      <4>2. QED
        BY <4>1
    <3>5. QED
      BY <3>3, <3>4
  <2>7. pcSlow' \in BOOLEAN
    BY <1>9, <2>6 DEF TickPace, pcControl, PaceInv
  <2>8. pcDir' \in [Chunk -> Directive]
    <3>1. pcConc' \in Nat
      <4>1. pcConc' \in Unit..M
        BY <2>1, <2>5
      <4>2. QED
        BY <1>1, <2>1, <4>1
    <3>2. [tasks |-> Rounded(pcConc'), delay |-> pcHold'] \in Directive
      BY <2>5, <3>1, RoundedPace DEF Directive
    <3>3. QED
      BY <1>2, <1>9, <3>2 DEF TickPace, ControlOK
  <2>9. ControlOK'
    BY <1>2, <1>9, <2>5, <2>8 DEF TickPace, ControlOK, pcShown
  <2>10. PlacesOK'
    BY <1>2, <1>6, <1>9 DEF TickPace, PlacesOK
  <2>11. QED
    BY <1>6, <1>9, <2>7, <2>9, <2>10 DEF PaceInv
<1>10. QED
  BY <1>3, <1>4, <1>5, <1>7, <1>8, <1>9 DEF PaceNext, ObserveStep
=============================================================================
