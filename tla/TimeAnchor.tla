------------------------------ MODULE TimeAnchor ------------------------------
(***************************************************************************)
(* EnclaveTimeAnchorService: the window of time assertions, one for each   *)
(* node, and the median anchor computed from it.  Times are small numbers; *)
(* a median of an even number of times is the mean of two, so medians and  *)
(* distances are kept doubled.                                             *)
(***************************************************************************)
EXTENDS Naturals, Integers, Sequences, FiniteSets, FiniteSetsExt

CONSTANTS
    Clock,          \* nodes that assert times: numbers, for their order
    Time,           \* times asserted
    Honest,         \* the nodes whose clocks are right
    WindowMaxSize, DriftThreshold, RequiredMin

ASSUME TimeAnchorAssumption ==
    /\ Clock \subseteq Nat /\ IsFiniteSet(Clock) /\ Honest \subseteq Clock
    /\ Time \subseteq Nat
    /\ WindowMaxSize \in Nat \ {0} /\ DriftThreshold \in Nat /\ RequiredMin \in Nat \ {0}

VARIABLES
    window,     \* assertions: from the nodes in the window to their times
    heard       \* history: nodes that ever asserted a time

anchorVars == <<window, heard>>

TimeAnchorInit == window = <<>> /\ heard = {}

Without(w, n) == [m \in DOMAIN w \ {n} |-> w[m]]
With(w, n, t) == [m \in DOMAIN w \cup {n} |-> IF m = n THEN t ELSE w[m]]

\* Mutant of MakeRoom: a full window is emptied.
MakeRoomClear == IF Cardinality(DOMAIN window) >= WindowMaxSize THEN <<>> ELSE window

\* A full window loses its smallest node id, whoever the new assertion is from.
MakeRoom ==
    IF Cardinality(DOMAIN window) >= WindowMaxSize
    THEN Without(window, Min(DOMAIN window)) ELSE window

\* ingestAssertion of a signed assertion that is not expired.
IngestAssertion(n, t) ==
    /\ window' = With(MakeRoom, n, t)
    /\ heard' = heard \cup {n}

\* Mutant of MedianOfSorted: the middle is taken one too far on.
MedianOfSortedHigh(sorted) ==
    LET mid == Len(sorted) \div 2 IN
    IF mid = 0 THEN 2 * sorted[1] ELSE sorted[mid] + sorted[mid + 1]

\* medianOfSorted, doubled.
MedianOfSorted(sorted) ==
    LET mid == Len(sorted) \div 2 IN
    IF Len(sorted) % 2 = 0 THEN sorted[mid] + sorted[mid + 1] ELSE 2 * sorted[mid + 1]

Distance(a, b) == IF a >= b THEN a - b ELSE b - a

\* The times of nodes ns, sorted: at place k is the time that fewer than k of them
\* are below and at least k of them reach up to.
Sorted(ns) ==
    [k \in 1..Cardinality(ns) |->
        CHOOSE t \in {window[n] : n \in ns} :
            /\ Cardinality({n \in ns : window[n] < t}) < k
            /\ Cardinality({n \in ns : window[n] <= t}) >= k]

Included ==
    {n \in DOMAIN window :
        Distance(2 * window[n], MedianOfSorted(Sorted(DOMAIN window))) <= 2 * DriftThreshold}

\* computeMedianAnchor: is there an anchor, and which (doubled).
HasAnchor == DOMAIN window # {} /\ Cardinality(Included) >= RequiredMin
Anchor == MedianOfSorted(Sorted(Included))

TimeAnchorNext == \E n \in Clock, t \in Time : IngestAssertion(n, t)

TimeAnchorSpec == TimeAnchorInit /\ [][TimeAnchorNext]_anchorVars

-----------------------------------------------------------------------------
(* Properties *)

\* While nodes with right clocks (within the allowed drift of each other) are
\* the majority of the window and enough for a quorum, there is an anchor, and
\* it lies between two of their times: the others move it no further, however
\* far off they are and whether or not they are filtered.  (computeMedianAnchor)
AnchorIsHonest ==
    LET good == Honest \cap DOMAIN window
        times == {window[n] : n \in good}
    IN  /\ 2 * Cardinality(good) > Cardinality(DOMAIN window)
        /\ Cardinality(good) >= RequiredMin
        /\ Max(times) - Min(times) <= DriftThreshold
        => HasAnchor /\ 2 * Min(times) <= Anchor /\ Anchor <= 2 * Max(times)

\* A full window loses one assertion at a time: it holds all nodes heard, or
\* all its places but one.  A node that repeats itself costs another node its
\* place and not more.  (ingestAssertion)
WindowStaysFull ==
    LET size == Cardinality(DOMAIN window) IN
    /\ size <= WindowMaxSize
    /\ size >= Min({Cardinality(heard), WindowMaxSize - 1})
=============================================================================
