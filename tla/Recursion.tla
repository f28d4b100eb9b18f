----------------------------- MODULE Recursion -----------------------------
(***************************************************************************)
(* The recursion of two operation handlers of the node agent: content      *)
(* discovery re-runs its wordlist in every directory it finds, subdomain   *)
(* enumeration in every subdomain it finds.  Each level is one stream of   *)
(* an engine daemon, which may be unreachable, may report an error, and    *)
(* may die in the middle of the stream; a halt stops the handler.          *)
(*                                                                         *)
(* A level sends one result per word, and one more for a subdomain that a  *)
(* passive source names.  What it finds is given by Tree.                  *)
(***************************************************************************)
EXTENDS Integers, FiniteSets, Sequences, SequencesExt

CONSTANTS
    Place,        \* URLs or domains
    Root,         \* the target of the operation
    Tree,         \* what a level finds in a place: Place -> set of places
    Enterable,    \* looks_like_directory
    RecurseDepth, \* recurse_depth, 0 without recursion
    ChunkLines,   \* words of level 0 of a content discovery
    FullLines     \* words of every other level

ASSUME RecursionAssumption ==
    /\ Root \in Place /\ Enterable \subseteq Place
    /\ Tree \in [Place -> SUBSET (Place \ {Root})]
    /\ RecurseDepth \in Nat
    /\ ChunkLines \in Nat \ {0} /\ FullLines \in Nat \ {0}
    /\ \A p \in Place : IsFiniteSet(Tree[p]) /\ Cardinality(Tree[p]) <= FullLines
    /\ Cardinality(Tree[Root]) <= ChunkLines

VARIABLES
    rcOp,        \* the operation: [enum, depthFirst, given, passive]
    rcFrontier,  \* queue of <<place, depth>>
    rcVisited,
    rcLevel,     \* the level being streamed: [place, depth, left, found]
    rcPhase,     \* "next", "stream" or how the handler ended
    rcDone, rcTotal,   \* probes_done and probes_total, words_done and words_total
    rcOut,       \* results published
    rcRead,      \* history: levels, as <<place, depth>>, read to their done event
    rcCut        \* history: levels whose stream ended early

rcVars == <<rcOp, rcFrontier, rcVisited, rcLevel, rcPhase, rcDone, rcTotal, rcOut, rcRead, rcCut>>

NoLevel == [place |-> Root, depth |-> 0, left |-> 0, found |-> {}]

\* A subdomain enumeration has one order and counts its wordlist itself; only it
\* has passive sources.  A content discovery may name its number of words.
Operation ==
    {o \in [enum : BOOLEAN, depthFirst : BOOLEAN, given : BOOLEAN, passive : BOOLEAN] :
        IF o.enum THEN ~ o.depthFirst /\ o.given ELSE ~ o.passive}

Lines(depth) == IF depth = 0 /\ ~ rcOp.enum THEN ChunkLines ELSE FullLines
Results(depth) == Lines(depth) + IF rcOp.passive THEN 1 ELSE 0
CanEnter(p) == rcOp.enum \/ p \in Enterable

RecursionTypeOK ==
    /\ rcOp \in Operation
    /\ rcFrontier \in Seq(Place \X (0..RecurseDepth))
    /\ rcVisited \subseteq Place
    /\ rcLevel \in [place : Place, depth : 0..RecurseDepth, left : Nat, found : SUBSET Place]
    /\ rcPhase \in {"next", "stream", "completed", "unreachable", "cancelled"}
    /\ rcDone \in Nat /\ rcTotal \in Nat
    /\ rcOut \subseteq Place
    /\ rcRead \cup rcCut \subseteq Place \X (0..RecurseDepth)

RecursionInit ==
    /\ rcOp \in Operation
    /\ rcFrontier = <<<<Root, 0>>>>
    /\ rcVisited = {Root}
    /\ rcLevel = NoLevel
    /\ rcPhase = "next"
    /\ rcDone = 0 /\ rcTotal = IF rcOp.given /\ ~ rcOp.enum THEN ChunkLines ELSE 0
    /\ rcOut = {} /\ rcRead = {} /\ rcCut = {}

-----------------------------------------------------------------------------
Larger(a, b) == IF a > b THEN a ELSE b

\* The next place: connect, send the request, take the ack with its count.  An
\* enumeration added the words of a deeper level when it queued it.
StartLevel ==
    LET p == Head(rcFrontier)[1] d == Head(rcFrontier)[2] IN
    /\ rcPhase = "next" /\ rcFrontier # <<>>
    /\ rcFrontier' = Tail(rcFrontier)
    /\ rcLevel' = [place |-> p, depth |-> d, left |-> Results(d), found |-> Tree[p]]
    /\ rcTotal' = IF ~ rcOp.enum THEN Larger(rcTotal, Results(d))
                  ELSE rcTotal + IF d = 0 THEN Results(d) ELSE 0
    /\ rcPhase' = "stream"
    /\ UNCHANGED <<rcOp, rcVisited, rcDone, rcOut, rcRead, rcCut>>

\* The daemon does not accept the connection: the handler gives up.
Unreachable ==
    /\ rcPhase = "next" /\ rcFrontier # <<>>
    /\ rcPhase' = "unreachable"
    /\ UNCHANGED <<rcOp, rcFrontier, rcVisited, rcLevel, rcDone, rcTotal, rcOut, rcRead, rcCut>>

MayEnter(p) == rcLevel.depth < RecurseDepth /\ CanEnter(p) /\ p \notin rcVisited

\* Mutant: the total does not grow with the frontier.
ResultFoundFlat(p) ==
    /\ rcPhase = "stream" /\ p \in rcLevel.found
    /\ rcLevel' = [rcLevel EXCEPT !.left = @ - 1, !.found = @ \ {p}]
    /\ rcDone' = rcDone + 1
    /\ rcOut' = rcOut \cup {p}
    /\ IF MayEnter(p)
       THEN /\ rcVisited' = rcVisited \cup {p}
            /\ rcFrontier' = Append(rcFrontier, <<p, rcLevel.depth + 1>>)
       ELSE UNCHANGED <<rcVisited, rcFrontier>>
    /\ UNCHANGED <<rcOp, rcTotal, rcPhase, rcRead, rcCut>>

\* A find is published; a new place is queued, and its words are added to the
\* total, of which nothing is known without a line count.
ResultFound(p) ==
    /\ rcPhase = "stream" /\ p \in rcLevel.found
    /\ rcLevel' = [rcLevel EXCEPT !.left = @ - 1, !.found = @ \ {p}]
    /\ rcDone' = rcDone + 1
    /\ rcOut' = rcOut \cup {p}
    /\ IF MayEnter(p)
       THEN LET next == <<p, rcLevel.depth + 1>> IN
            /\ rcVisited' = rcVisited \cup {p}
            /\ rcTotal' = rcTotal + IF rcOp.given THEN FullLines ELSE 0
            /\ rcFrontier' = IF rcOp.depthFirst THEN <<next>> \o rcFrontier
                             ELSE Append(rcFrontier, next)
       ELSE UNCHANGED <<rcVisited, rcTotal, rcFrontier>>
    /\ UNCHANGED <<rcOp, rcPhase, rcRead, rcCut>>

\* A word without a find.
ResultOther ==
    /\ rcPhase = "stream" /\ rcLevel.left > Cardinality(rcLevel.found)
    /\ rcLevel' = [rcLevel EXCEPT !.left = @ - 1]
    /\ rcDone' = rcDone + 1
    /\ UNCHANGED <<rcOp, rcFrontier, rcVisited, rcPhase, rcTotal, rcOut, rcRead, rcCut>>

\* The done event.
LevelDone ==
    /\ rcPhase = "stream" /\ rcLevel.left = 0
    /\ rcPhase' = "next"
    /\ rcRead' = rcRead \cup {<<rcLevel.place, rcLevel.depth>>}
    /\ rcLevel' = NoLevel
    /\ UNCHANGED <<rcOp, rcFrontier, rcVisited, rcDone, rcTotal, rcOut, rcCut>>

\* An error event, or the stream ends without a done event: the level is left as
\* if it were complete.
LevelCut ==
    /\ rcPhase = "stream"
    /\ rcPhase' = "next"
    /\ rcCut' = rcCut \cup {<<rcLevel.place, rcLevel.depth>>}
    /\ rcLevel' = NoLevel
    /\ UNCHANGED <<rcOp, rcFrontier, rcVisited, rcDone, rcTotal, rcOut, rcRead>>

\* The halt is seen at the next line of the stream: nothing is marked done.
SeeHalt ==
    /\ rcPhase = "stream"
    /\ rcPhase' = "cancelled"
    /\ UNCHANGED <<rcOp, rcFrontier, rcVisited, rcLevel, rcDone, rcTotal, rcOut, rcRead, rcCut>>

\* Mutant: the operation completes with the first level.
CompleteEarly ==
    /\ rcPhase = "next" /\ rcCut \cup rcRead # {}
    /\ rcPhase' = "completed"
    /\ rcDone' = rcTotal
    /\ UNCHANGED <<rcOp, rcFrontier, rcVisited, rcLevel, rcTotal, rcOut, rcRead, rcCut>>

\* The frontier is drained: completion, and the progress is set to the total.
Complete ==
    /\ rcPhase = "next" /\ rcFrontier = <<>>
    /\ rcPhase' = "completed"
    /\ rcDone' = rcTotal
    /\ UNCHANGED <<rcOp, rcFrontier, rcVisited, rcLevel, rcTotal, rcOut, rcRead, rcCut>>

-----------------------------------------------------------------------------
\* What the handler does while the engine serves it.
RecursionStep ==
    \/ StartLevel \/ ResultOther \/ LevelDone \/ Complete
    \/ \E p \in Place : ResultFound(p)

RecursionNext == RecursionStep \/ Unreachable \/ LevelCut \/ SeeHalt

RecursionSpec == RecursionInit /\ [][RecursionNext]_rcVars

-----------------------------------------------------------------------------
(* Properties *)

\* A completed operation looked at the whole tree it found, breadth or depth
\* first: all a level found is published, and what it found above the last level
\* and can be entered had a level of its own.  Only engines cut levels short.
RecursionCovers ==
    rcPhase = "completed" =>
        \A l \in rcRead :
            /\ Tree[l[1]] \subseteq rcOut
            /\ l[2] < RecurseDepth =>
                 \A p \in {q \in Tree[l[1]] : CanEnter(q)} : \E m \in rcRead \cup rcCut : m[1] = p

\* The progress never runs ahead of the total that was announced, however many
\* places were queued, as long as the operation names its number of words and
\* has no passive source: the total of a deeper enumeration has only its words.
ProgressWithinTotal == rcOp.given /\ ~ rcOp.passive => rcDone <= rcTotal
=============================================================================
