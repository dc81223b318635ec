---------------------------- MODULE ClusterProofs ----------------------------
(***************************************************************************)
(* Proofs about the cluster of enclave nodes: its members                  *)
(* (ClusterMembership), the blocks and snapshots a node that fell behind   *)
(* applies (CatchUp) and the window of time assertions (TimeAnchor), which *)
(* have no state in common.  They hold for any cluster, any limits and any *)
(* sequence of requests.                                                   *)
(***************************************************************************)
EXTENDS ClusterMembership, CatchUp, TimeAnchor, Induction, FiniteSetTheorems, TLAPS

-----------------------------------------------------------------------------
(* Members *)

\* Proposals and their ids.
ProposalState == [open : BOOLEAN, approvals : 0..MaxCount, approved : BOOLEAN]
ProposalId == Member \X (0..MaxClock)

\* A proposal starts without approvals.
LEMMA ProposalFacts ==
    /\ NoProposal \in ProposalState /\ NewProposal \in ProposalState
    /\ ~NoProposal.approved /\ ~NewProposal.approved
    /\ NoProposal.approvals = 0 /\ NewProposal.approvals = 0
<1>1. 0 \in 0..MaxCount
    BY MembershipAssumption
<1>. QED  BY <1>1 DEF NoProposal, NewProposal, ProposalState

\* The active nodes can be counted.
LEMMA VoterCount == Cardinality(ActiveNodes) \in Nat
<1>1. IsFiniteSet(ActiveNodes)
    BY MembershipAssumption, FS_Subset DEF ActiveNodes
<1>. QED  BY <1>1, FS_CardinalityType

\* Approval is decided one way or the other.
LEMMA ApprovesBoolean ==
    ASSUME NEW approvals \in Nat, NEW voters \in Nat
    PROVE  Approves(approvals, voters) \in BOOLEAN
<1>1. CASE voters = 0
    BY <1>1 DEF Approves
<1>2. CASE voters # 0
    BY <1>2 DEF Approves
<1>. QED  BY <1>1, <1>2

\* With no voter or with some, a passing proposal has an approval.
LEMMA ApprovalNeeded ==
    ASSUME NEW approvals \in Nat, NEW voters \in Nat, Approves(approvals, voters)
    PROVE  approvals > 0
BY DEF Approves

\* The proposal after a vote.
Voted(p, approve) ==
    IF approve THEN [p EXCEPT !.approvals = @ + 1] ELSE p

\* A vote only adds approvals, and approves a proposal only when it passes.
LEMMA VotedFacts ==
    ASSUME NEW p \in ProposalState, NEW approve \in BOOLEAN, NEW passes \in BOOLEAN,
           Voted(p, approve).approvals <= MaxCount
    PROVE  LET q == Voted(p, approve)
               r == [q EXCEPT !.approved = @ \/ passes]
           IN  /\ q.approvals \in Nat /\ r \in ProposalState
               /\ r.approvals = q.approvals /\ q.approvals >= p.approvals
               /\ r.approved <=> p.approved \/ passes
<1>1. CASE approve
    <2>1. Voted(p, approve) =
            [open |-> p.open, approvals |-> p.approvals + 1, approved |-> p.approved]
        BY <1>1 DEF Voted, ProposalState
    <2>. QED  BY <2>1, MembershipAssumption DEF ProposalState
<1>2. CASE ~approve
    BY <1>2, MembershipAssumption DEF Voted, ProposalState
<1>. QED  BY <1>1, <1>2
-----------------------------------------------------------------------------
(* The invariant *)

\* A node that is not registered has no failures on record.
UnknownIsClean == \A n \in Member : status[n] = "UNKNOWN" => failures[n] = 0

\* The inductive invariant of the members.
MembershipInv ==
    MembershipTypeOK /\ UnknownIsClean /\ SuspicionMatchesCount /\ EvictionHasApproval

\* The invariant holds at first.
LEMMA InitMembership == MembershipInit => MembershipInv
<1>. SUFFICES ASSUME MembershipInit PROVE MembershipInv
    OBVIOUS
<1>. USE MembershipAssumption, ProposalFacts
<1>1. MembershipTypeOK
    <2>1. proposals \in [ProposalId -> ProposalState]
        BY DEF MembershipInit, ProposalId
    <2>2. status \in [Member -> NodeStatus] /\ failures \in [Member -> 0..MaxCount]
        BY DEF MembershipInit, NodeStatus
    <2>. QED  BY <2>1, <2>2 DEF MembershipInit, MembershipTypeOK, ProposalId, ProposalState
<1>2. UnknownIsClean /\ SuspicionMatchesCount
    BY DEF MembershipInit, UnknownIsClean, SuspicionMatchesCount
<1>3. EvictionHasApproval
    BY DEF MembershipInit, EvictionHasApproval
<1>. QED  BY <1>1, <1>2, <1>3 DEF MembershipInv

\* The steps on the status and the failures of one node.
LEMMA NodeStepKeeps ==
    ASSUME MembershipInv, NEW n \in Member,
           RegisterNode(n) \/ UpdateHeartbeat(n) \/ RecordFailure(n)
    PROVE  MembershipInv'
<1>. USE MembershipAssumption DEF MembershipInv
<1>1. CASE RegisterNode(n)
    <2>1. MembershipTypeOK'
        BY <1>1 DEF RegisterNode, MembershipTypeOK, NodeStatus
    <2>2. UnknownIsClean' /\ SuspicionMatchesCount'
        BY <1>1 DEF RegisterNode, MembershipTypeOK, UnknownIsClean,
                    SuspicionMatchesCount, ActiveNodes
    <2>3. EvictionHasApproval'
        BY <1>1 DEF RegisterNode, MembershipTypeOK, EvictionHasApproval
    <2>. QED  BY <2>1, <2>2, <2>3
<1>2. CASE UpdateHeartbeat(n)
    <2>1. MembershipTypeOK'
        BY <1>2 DEF UpdateHeartbeat, MembershipTypeOK, NodeStatus
    <2>2. UnknownIsClean' /\ SuspicionMatchesCount'
        BY <1>2 DEF UpdateHeartbeat, MembershipTypeOK, UnknownIsClean,
                    SuspicionMatchesCount, ActiveNodes
    <2>3. EvictionHasApproval'
        BY <1>2 DEF UpdateHeartbeat, MembershipTypeOK, EvictionHasApproval
    <2>. QED  BY <2>1, <2>2, <2>3
<1>3. CASE RecordFailure(n)
    <2>1. MembershipTypeOK'
        BY <1>3 DEF RecordFailure, MembershipTypeOK, NodeStatus
    <2>2. UnknownIsClean' /\ SuspicionMatchesCount'
        BY <1>3 DEF RecordFailure, MembershipTypeOK, UnknownIsClean,
                    SuspicionMatchesCount, ActiveNodes
    <2>3. EvictionHasApproval'
        BY <1>3 DEF RecordFailure, MembershipTypeOK, EvictionHasApproval
    <2>. QED  BY <2>1, <2>2, <2>3
<1>. QED  BY <1>1, <1>2, <1>3

\* Proposing an eviction keeps the invariant.
LEMMA ProposeKeeps ==
    ASSUME MembershipInv, NEW n \in Member, ProposeNodeEviction(n)
    PROVE  MembershipInv'
<1>. USE MembershipAssumption, ProposalFacts DEF MembershipInv
<1>0. <<n, clock>> \in ProposalId /\ proposals \in [ProposalId -> ProposalState]
    BY DEF MembershipTypeOK, ProposalId, ProposalState
<1>1. proposals' \in [ProposalId -> ProposalState]
    BY <1>0 DEF ProposeNodeEviction
<1>2. MembershipTypeOK'
    BY <1>1 DEF ProposeNodeEviction, MembershipTypeOK, ProposalId, ProposalState
<1>3. UnknownIsClean' /\ SuspicionMatchesCount'
    BY DEF ProposeNodeEviction, UnknownIsClean, SuspicionMatchesCount, ActiveNodes
<1>4. \A id \in ProposalId : proposals'[id].approved => proposals'[id].approvals > 0
    BY <1>0 DEF ProposeNodeEviction, EvictionHasApproval
<1>5. ASSUME NEW m \in Member, status'[m] = "EVICTED"
      PROVE  \E k \in 0..MaxClock : proposals'[<<m, k>>].approved
    <2>1. m # n
        BY <1>5 DEF ProposeNodeEviction
    <2>2. PICK k \in 0..MaxClock : proposals[<<m, k>>].approved
        BY <1>5 DEF ProposeNodeEviction, EvictionHasApproval
    <2>. QED  BY <1>0, <2>1, <2>2 DEF ProposeNodeEviction, ProposalId
<1>. QED  BY <1>1, <1>2, <1>3, <1>4, <1>5 DEF EvictionHasApproval

\* Evicting a node changes nothing about failures, and an approved proposal for
\* it keeps EvictionHasApproval.
LEMMA EvictKeeps ==
    ASSUME MembershipInv, NEW n \in Member, Evict(n), UNCHANGED failures
    PROVE  /\ status' \in [Member -> NodeStatus]
           /\ \A m \in Member : m # n => status'[m] = status[m]
           /\ UnknownIsClean' /\ SuspicionMatchesCount'
<1>. USE DEF MembershipInv
<1>1. /\ status' \in [Member -> NodeStatus] /\ status'[n] = "EVICTED"
      /\ \A m \in Member : m # n => status'[m] = status[m]
    BY DEF Evict, MembershipTypeOK, NodeStatus
<1>2. UnknownIsClean' /\ SuspicionMatchesCount'
    BY <1>1 DEF UnknownIsClean, SuspicionMatchesCount, ActiveNodes
<1>. QED  BY <1>1, <1>2

\* Finalizing an eviction keeps it.
LEMMA FinalizeKeeps ==
    ASSUME MembershipInv, NEW id \in DOMAIN proposals, FinalizeEviction(id)
    PROVE  MembershipInv'
<1>. USE DEF MembershipInv
<1>1. id = <<id[1], id[2]>> /\ id[1] \in Member /\ id[2] \in 0..MaxClock
    BY DEF MembershipTypeOK
<1>2. Evict(id[1]) /\ UNCHANGED failures /\ UNCHANGED proposals
    BY DEF FinalizeEviction
<1>3. /\ status' \in [Member -> NodeStatus]
      /\ \A m \in Member : m # id[1] => status'[m] = status[m]
      /\ UnknownIsClean' /\ SuspicionMatchesCount'
    BY <1>1, <1>2, EvictKeeps
<1>4. MembershipTypeOK'
    BY <1>3 DEF FinalizeEviction, MembershipTypeOK
<1>5. EvictionHasApproval'
    <2>1. ASSUME NEW m \in Member, status'[m] = "EVICTED"
          PROVE  \E k \in 0..MaxClock : proposals'[<<m, k>>].approved
        <3>1. CASE m = id[1]
            BY <1>1, <1>2, <3>1 DEF FinalizeEviction
        <3>2. CASE m # id[1]
            BY <1>2, <1>3, <2>1, <3>2 DEF EvictionHasApproval
        <3>. QED  BY <3>1, <3>2
    <2>2. \A i \in DOMAIN proposals' : proposals'[i].approved => proposals'[i].approvals > 0
        BY <1>2 DEF EvictionHasApproval
    <2>. QED  BY <2>1, <2>2 DEF EvictionHasApproval
<1>. QED  BY <1>3, <1>4, <1>5

\* A vote keeps it, one that evicts included.
LEMMA VoteKeeps ==
    ASSUME MembershipInv, NEW id \in DOMAIN proposals, NEW approve \in BOOLEAN,
           VoteEviction(id, approve)
    PROVE  MembershipInv'
<1>. DEFINE q == Voted(proposals[id], approve)
            passes == Approves(q.approvals, Cardinality(ActiveNodes))
            r == [q EXCEPT !.approved = @ \/ passes]
<1>. USE DEF MembershipInv
<1>1. /\ id = <<id[1], id[2]>> /\ id[1] \in Member /\ id[2] \in 0..MaxClock
      /\ id \in ProposalId
      /\ proposals \in [ProposalId -> ProposalState] /\ proposals[id] \in ProposalState
    BY DEF MembershipTypeOK, ProposalId, ProposalState
<1>2. /\ q.approvals <= MaxCount
      /\ proposals' = [proposals EXCEPT ![id] = r]
      /\ IF passes THEN Evict(id[1]) ELSE UNCHANGED status
      /\ UNCHANGED <<failures, clock, leader, currentTerm>>
    BY DEF VoteEviction, Voted
<1>3. passes \in BOOLEAN
    <2>1. q.approvals \in Nat
        BY <1>1, <1>2, VotedFacts
    <2>. QED  BY <2>1, VoterCount, ApprovesBoolean
<1>4. /\ q.approvals \in Nat /\ r \in ProposalState
      /\ r.approvals = q.approvals /\ q.approvals >= proposals[id].approvals
      /\ r.approved <=> proposals[id].approved \/ passes
    BY <1>1, <1>2, <1>3, VotedFacts
<1>5. passes => r.approvals > 0
    BY <1>4, VoterCount, ApprovalNeeded
<1>. HIDE DEF q, passes, r
<1>6. /\ proposals' \in [ProposalId -> ProposalState] /\ proposals'[id] = r
      /\ \A i \in ProposalId : i # id => proposals'[i] = proposals[i]
    BY <1>1, <1>2, <1>4
<1>7. /\ status' \in [Member -> NodeStatus]
      /\ \A m \in Member : m # id[1] \/ ~passes => status'[m] = status[m]
      /\ UnknownIsClean' /\ SuspicionMatchesCount'
    <2>1. CASE passes
        BY <1>1, <1>2, <2>1, EvictKeeps
    <2>2. CASE ~passes
        BY <1>2, <2>2 DEF MembershipTypeOK, UnknownIsClean, SuspicionMatchesCount, ActiveNodes
    <2>. QED  BY <2>1, <2>2
<1>8. MembershipTypeOK'
    BY <1>2, <1>6, <1>7 DEF MembershipTypeOK, ProposalId, ProposalState
<1>9. \A i \in ProposalId : proposals[i].approved => proposals'[i].approved
    BY <1>4, <1>6
<1>10. \A i \in ProposalId : proposals'[i].approved => proposals'[i].approvals > 0
    <2>1. r.approved => r.approvals > 0
        BY <1>1, <1>4, <1>5 DEF EvictionHasApproval, ProposalState
    <2>. QED  BY <1>1, <1>6, <2>1 DEF EvictionHasApproval
<1>11. ASSUME NEW m \in Member, status'[m] = "EVICTED"
       PROVE  \E k \in 0..MaxClock : proposals'[<<m, k>>].approved
    <2>1. CASE m = id[1] /\ passes
        BY <1>1, <1>4, <1>6, <2>1
    <2>2. CASE m # id[1] \/ ~passes
        <3>1. status[m] = "EVICTED"
            BY <1>7, <1>11, <2>2
        <3>2. PICK k \in 0..MaxClock : proposals[<<m, k>>].approved
            BY <3>1 DEF EvictionHasApproval
        <3>. QED  BY <1>9, <3>2 DEF ProposalId
    <2>. QED  BY <2>1, <2>2
<1>12. EvictionHasApproval'
    BY <1>6, <1>10, <1>11 DEF EvictionHasApproval
<1>. QED  BY <1>7, <1>8, <1>12

\* Every step keeps the invariant of the members.
LEMMA NextMembership == MembershipInv /\ [MembershipNext]_membershipVars => MembershipInv'
<1>. SUFFICES ASSUME MembershipInv, [MembershipNext]_membershipVars PROVE MembershipInv'
    OBVIOUS
<1>1. ASSUME NEW n \in Member, RegisterNode(n) \/ UpdateHeartbeat(n) \/ RecordFailure(n)
      PROVE  MembershipInv'
    BY <1>1, NodeStepKeeps
<1>2. ASSUME NEW n \in Member, ProposeNodeEviction(n)
      PROVE  MembershipInv'
    BY <1>2, ProposeKeeps
<1>3. ASSUME NEW id \in DOMAIN proposals,
             FinalizeEviction(id) \/ \E approve \in BOOLEAN : VoteEviction(id, approve)
      PROVE  MembershipInv'
    BY <1>3, FinalizeKeeps, VoteKeeps
<1>4. CASE (\E n \in Member : SetLeader(n)) \/ ClockTicks \/ UNCHANGED membershipVars
    <2>1. MembershipTypeOK'
        BY <1>4, MembershipAssumption
        DEF SetLeader, ClockTicks, membershipVars, MembershipInv, MembershipTypeOK
    <2>2. UNCHANGED <<status, failures, proposals>>
        BY <1>4 DEF SetLeader, ClockTicks, membershipVars
    <2>. QED  BY <2>1, <2>2 DEF MembershipInv, UnknownIsClean, SuspicionMatchesCount,
                                 EvictionHasApproval, ActiveNodes
<1>. QED  BY <1>1, <1>2, <1>3, <1>4 DEF MembershipNext

\* The state stays well formed through every order of requests.
THEOREM MembershipTypeCorrect == MembershipSpec => []MembershipTypeOK
<1>1. MembershipInv => MembershipTypeOK
    BY DEF MembershipInv
<1>. QED  BY <1>1, InitMembership, NextMembership, PTL DEF MembershipSpec

\* Suspicion and failure count never come apart, so a suspected node is never
\* counted among the voters: for every cluster and every failure limit.
THEOREM SuspicionIsCounted == MembershipSpec => []SuspicionMatchesCount
<1>1. MembershipInv => SuspicionMatchesCount
    BY DEF MembershipInv
<1>. QED  BY <1>1, InitMembership, NextMembership, PTL DEF MembershipSpec

\* Nobody is evicted without an approving vote, the division by the number of
\* active nodes included when there is none.
THEOREM EvictionIsApproved == MembershipSpec => []EvictionHasApproval
<1>1. MembershipInv => EvictionHasApproval
    BY DEF MembershipInv
<1>. QED  BY <1>1, InitMembership, NextMembership, PTL DEF MembershipSpec

-----------------------------------------------------------------------------
(* The window of time assertions *)

\* Places of the window that are taken.
Size == Cardinality(DOMAIN window)

\* The smaller of two numbers is one of them.
LEMMA MinOfTwo ==
    ASSUME NEW a \in Int, NEW b \in Int
    PROVE  Min({a, b}) = IF a <= b THEN a ELSE b
<1>. DEFINE m == IF a <= b THEN a ELSE b
<1>1. m \in {a, b} /\ \A y \in {a, b} : m <= y
    OBVIOUS
<1>2. \A x \in {a, b} : (\A y \in {a, b} : x <= y) => x = m
    OBVIOUS
<1>. HIDE DEF m
<1>3. Min({a, b}) = m
    BY <1>1, <1>2 DEF Min
<1>. QED  BY <1>3 DEF m

\* A set of numbers that is not empty has a smallest one.
LEMMA MinIsMember ==
    ASSUME NEW S \in SUBSET Nat, S # {}
    PROVE  Min(S) \in S
<1>1. \E x \in S : \A y \in S : x <= y
    BY LeastNatural
<1>. QED  BY <1>1 DEF Min

\* The inductive invariant of the window.  It names no minimum, so that each
\* alternative can be followed through a step.
AnchorInv ==
    /\ DOMAIN window \subseteq heard /\ heard \subseteq Clock
    /\ Size <= WindowMaxSize
    /\ Size >= Cardinality(heard) \/ Size >= WindowMaxSize - 1

\* The sets of nodes are finite, and grow by one node at most.
LEMMA ClockSets ==
    ASSUME NEW S \in SUBSET Clock, NEW n \in Clock
    PROVE  /\ IsFiniteSet(S) /\ Cardinality(S) \in Nat
           /\ n \in S => S \cup {n} = S
           /\ n \notin S => Cardinality(S \cup {n}) = Cardinality(S) + 1
           /\ n \in S => Cardinality(S \ {n}) = Cardinality(S) - 1
<1>1. IsFiniteSet(S)
    BY TimeAnchorAssumption, FS_Subset
<1>2. n \notin S => Cardinality(S \cup {n}) = Cardinality(S) + 1
    BY <1>1, FS_AddElement
<1>3. n \in S => Cardinality(S \ {n}) = Cardinality(S) - 1
    BY <1>1, FS_RemoveElement
<1>. QED  BY <1>1, <1>2, <1>3, FS_CardinalityType

\* Every assertion keeps the window's invariant: a full window loses one node and
\* gains one at most.
LEMMA AnchorStep == AnchorInv /\ [TimeAnchorNext]_anchorVars => AnchorInv'
<1>. SUFFICES ASSUME AnchorInv, [TimeAnchorNext]_anchorVars
              PROVE  AnchorInv'
    OBVIOUS
<1>. DEFINE D == DOMAIN window
            W == WindowMaxSize
            h == Cardinality(heard)
            k == Cardinality(D)
<1>0. /\ D \in SUBSET Clock /\ heard \in SUBSET Clock /\ D \subseteq heard
      /\ Clock \subseteq Nat /\ W \in Nat \ {0}
      /\ k <= W /\ (k >= h \/ k >= W - 1)
    BY TimeAnchorAssumption DEF AnchorInv, Size
<1>1. ASSUME NEW n \in Clock, NEW t \in Time, IngestAssertion(n, t)
      PROVE  AnchorInv'
    <2>. DEFINE E == DOMAIN MakeRoom
    <2>1. (DOMAIN window)' = E \cup {n} /\ heard' = heard \cup {n}
        BY <1>1 DEF IngestAssertion, With
    <2>2. k \in Nat /\ h \in Nat
        BY <1>0, <1>1, ClockSets
    <2>. HIDE DEF D
    <2>3. CASE k < W
        <3>1. E = D
            BY <1>0, <2>2, <2>3 DEF MakeRoom, D
        <3>2. CASE n \in D
            <4>1. (DOMAIN window)' = D /\ heard' = heard
                BY <1>0, <2>1, <3>1, <3>2
            <4>. QED  BY <1>0, <4>1 DEF AnchorInv, Size
        <3>3. CASE n \notin D
            <4>. DEFINE hh == Cardinality(heard \cup {n})
            <4>1. Cardinality(D \cup {n}) = k + 1
                BY <1>0, <3>3, ClockSets
            <4>2. hh = h \/ hh = h + 1
                BY <1>0, ClockSets
            <4>3. /\ (DOMAIN window)' = D \cup {n} /\ heard' = heard \cup {n}
                  /\ D \cup {n} \subseteq heard \cup {n} /\ heard \cup {n} \subseteq Clock
                BY <1>0, <2>1, <3>1
            <4>. HIDE DEF hh, k, h
            <4>4. k + 1 <= W /\ (k + 1 >= hh \/ k + 1 >= W - 1)
                BY <1>0, <2>2, <2>3, <4>2
            <4>. QED  BY <4>1, <4>3, <4>4 DEF AnchorInv, Size, hh
        <3>. QED  BY <3>2, <3>3
    <2>4. CASE k >= W
        <3>. DEFINE m == Min(D)
        <3>1. D # {}
            <4>1. k # 0
                BY <1>0, <2>2, <2>4
            <4>. QED  BY <4>1, FS_EmptySet
        <3>2. m \in D /\ m \in Clock
            BY <1>0, <3>1, MinIsMember
        <3>3. E = D \ {m}
            BY <2>4 DEF MakeRoom, Without, D
        <3>. HIDE DEF E, m
        <3>4. k = W /\ Cardinality(E) = W - 1 /\ E \in SUBSET Clock
            <4>1. Cardinality(D \ {m}) = k - 1
                BY <1>0, <3>2, ClockSets
            <4>2. k = W
                <5>. HIDE DEF k
                <5>. QED  BY <1>0, <2>2, <2>4
            <4>3. E \in SUBSET Clock
                BY <1>0, <3>3
            <4>. QED  BY <3>3, <4>1, <4>2, <4>3
        <3>5. Cardinality(E \cup {n}) \in {W - 1, W}
            <4>1. CASE n \in E
                BY <3>4, <4>1, ClockSets
            <4>2. CASE n \notin E
                <5>1. Cardinality(E \cup {n}) = Cardinality(E) + 1
                    BY <3>4, <4>2, ClockSets
                <5>. QED  BY <1>0, <3>4, <5>1
            <4>. QED  BY <4>1, <4>2
        <3>6. E \cup {n} \subseteq heard \cup {n} /\ heard \cup {n} \subseteq Clock
            BY <1>0, <3>3
        <3>7. Cardinality(E \cup {n}) <= W /\ Cardinality(E \cup {n}) >= W - 1
            BY <1>0, <3>5
        <3>. QED  BY <2>1, <3>6, <3>7 DEF AnchorInv, Size
    <2>. QED  BY <1>0, <2>2, <2>3, <2>4
<1>2. CASE UNCHANGED anchorVars
    BY <1>2 DEF anchorVars, AnchorInv, Size
<1>. QED  BY <1>1, <1>2 DEF TimeAnchorNext

\* The window holds every node heard or all its places but one, for any set of
\* clocks and any size of the window.
THEOREM WindowIsKeptFull == TimeAnchorSpec => []WindowStaysFull
<1>1. TimeAnchorInit => AnchorInv
    <2>. SUFFICES ASSUME TimeAnchorInit PROVE AnchorInv
        OBVIOUS
    <2>1. DOMAIN window = {} /\ heard = {} /\ Cardinality({}) = 0
        BY FS_EmptySet DEF TimeAnchorInit
    <2>. QED  BY <2>1, TimeAnchorAssumption DEF AnchorInv, Size
<1>2. AnchorInv => WindowStaysFull
    <2>. SUFFICES ASSUME AnchorInv PROVE WindowStaysFull
        OBVIOUS
    <2>. DEFINE h == Cardinality(heard)
                v == WindowMaxSize - 1
    <2>1. IsFiniteSet(heard) /\ IsFiniteSet(DOMAIN window)
        BY TimeAnchorAssumption, FS_Subset DEF AnchorInv
    <2>2. h \in Nat /\ Size \in Nat /\ v \in Nat
        BY <2>1, TimeAnchorAssumption, FS_CardinalityType DEF Size
    <2>3. Min({h, v}) = IF h <= v THEN h ELSE v
        BY <2>2, MinOfTwo
    <2>4. Size >= Min({h, v})
        <3>1. Size >= h \/ Size >= v
            BY DEF AnchorInv
        <3>. HIDE DEF h, v
        <3>. QED  BY <2>2, <2>3, <3>1
    <2>. QED  BY <2>4 DEF WindowStaysFull, AnchorInv, Size
<1>. QED  BY <1>1, <1>2, AnchorStep, PTL DEF TimeAnchorSpec

-----------------------------------------------------------------------------
(* The median anchor *)

\* A finite set of numbers that is not empty has a largest one.
LEMMA MaxIsMember ==
    ASSUME NEW S \in SUBSET Nat, IsFiniteSet(S), S # {}
    PROVE  Max(S) \in S /\ \A n \in S : n <= Max(S)
<1>. DEFINE Top(s, m) == m \in s /\ \A n \in s : n <= m
            T == {s \in SUBSET S : s # {} => \E m \in s : Top(s, m)}
<1>1. {} \in T
    OBVIOUS
<1>2. ASSUME NEW s \in SUBSET S, s # {}, \A x \in s : s \ {x} \in T
      PROVE  s \in T
    <2>1. PICK x \in s : TRUE
        BY <1>2
    <2>2. CASE s = {x}
        <3>1. Top(s, x)
            BY <2>2
        <3>. QED  BY <3>1, <2>1
    <2>3. CASE s # {x}
        <3>1. s \ {x} \in T /\ s \ {x} # {}
            BY <1>2, <2>1, <2>3
        <3>2. PICK m \in s \ {x} : Top(s \ {x}, m)
            BY <3>1
        <3>3. m \in Nat /\ x \in Nat
            BY <2>1, <3>2
        <3>4. Top(s, m) \/ Top(s, x)
            BY <2>1, <3>2, <3>3
        <3>. QED  BY <2>1, <3>2, <3>4
    <2>. QED  BY <2>2, <2>3
<1>. HIDE DEF T
<1>3. S \in T
    BY <1>1, <1>2, FiniteSetInduction
<1>4. \E m \in S : \A n \in S : m >= n
    BY <1>3 DEF T
<1>5. Max(S) \in S /\ \A n \in S : Max(S) >= n
    BY <1>4 DEF Max
<1>. QED  BY <1>5

\* The nodes of ns whose time in w is before t, and not after t.
Before(w, ns, t) == {n \in ns : w[n] < t}
UpTo(w, ns, t) == {n \in ns : w[n] <= t}

\* Time t is the one at place k when the times of ns are sorted.
AtPlace(w, ns, k, t) ==
    /\ t \in {w[n] : n \in ns}
    /\ Cardinality(Before(w, ns, t)) < k
    /\ Cardinality(UpTo(w, ns, t)) >= k

\* Finitely many nodes, each with a time.
Times(w, ns) == IsFiniteSet(ns) /\ \A n \in ns : w[n] \in Nat

\* The sets of nodes that are compared with a time are finite.
LEMMA RankSets ==
    ASSUME NEW w, NEW ns, Times(w, ns), NEW t \in Nat
    PROVE  /\ Before(w, ns, t) \in SUBSET ns /\ UpTo(w, ns, t) \in SUBSET ns
           /\ Cardinality(ns) \in Nat
           /\ Cardinality(Before(w, ns, t)) \in Nat /\ Cardinality(UpTo(w, ns, t)) \in Nat
<1>1. Before(w, ns, t) \in SUBSET ns /\ UpTo(w, ns, t) \in SUBSET ns
    BY DEF Before, UpTo
<1>. QED  BY <1>1, SizeFacts, FS_CardinalityType DEF Times

\* The times of a set of nodes are a finite set of numbers.
LEMMA TimesFinite ==
    ASSUME NEW w, NEW ns, Times(w, ns)
    PROVE  IsFiniteSet({w[n] : n \in ns}) /\ {w[n] : n \in ns} \in SUBSET Nat
<1>. DEFINE f == [n \in ns |-> w[n]]
<1>1. {w[n] : n \in ns} \in SUBSET Nat
    BY DEF Times
<1>2. f \in Surjection(ns, {w[n] : n \in ns})
    BY DEF Surjection
<1>3. IsFiniteSet({w[n] : n \in ns})
    BY <1>2, FS_Surjection DEF Times
<1>. QED  BY <1>1, <1>3

\* Sorting places a time everywhere.
LEMMA PlaceFilled ==
    ASSUME NEW w, NEW ns, Times(w, ns), NEW k \in 1..Cardinality(ns)
    PROVE  \E t \in {w[n] : n \in ns} : AtPlace(w, ns, k, t)
<1>. DEFINE T == {t \in Nat : Cardinality(UpTo(w, ns, t)) >= k}
            top == Max({w[n] : n \in ns})
<1>0. Cardinality(ns) \in Nat /\ k \in Nat /\ k >= 1 /\ k <= Cardinality(ns)
    BY RankSets
<1>1. top \in T
    <2>1. ns # {}
        BY <1>0, FS_EmptySet
    <2>2. {w[n] : n \in ns} # {}
        BY <2>1
    <2>3. top \in Nat /\ \A n \in ns : w[n] <= top
        BY <2>2, TimesFinite, MaxIsMember
    <2>. HIDE DEF top
    <2>4. UpTo(w, ns, top) = ns
        BY <2>3 DEF UpTo
    <2>. QED  BY <1>0, <2>3, <2>4
<1>2. PICK t \in T : \A u \in T : t <= u
    BY <1>1, LeastNatural
<1>3. Cardinality(Before(w, ns, t)) < k
    <2>1. CASE t = 0
        <3>1. Before(w, ns, t) = {}
            BY <2>1 DEF Before, Times
        <3>. QED  BY <1>0, <3>1, FS_EmptySet
    <2>2. CASE t # 0
        <3>1. t - 1 \in Nat /\ ~(t <= t - 1)
            BY <1>2, <2>2
        <3>2. UpTo(w, ns, t - 1) = Before(w, ns, t)
            BY <1>2, <3>1 DEF Before, UpTo, Times
        <3>3. ~(Cardinality(UpTo(w, ns, t - 1)) >= k)
            BY <1>2, <3>1
        <3>4. Cardinality(Before(w, ns, t)) \in Nat
            BY <1>2, RankSets
        <3>. QED  BY <1>0, <3>2, <3>3, <3>4
    <2>. QED  BY <2>1, <2>2
<1>4. t \in {w[n] : n \in ns}
    <2>. SUFFICES ASSUME \A n \in ns : w[n] # t
                  PROVE  FALSE
        OBVIOUS
    <2>1. UpTo(w, ns, t) = Before(w, ns, t)
        BY <1>2 DEF Before, UpTo, Times
    <2>2. Cardinality(Before(w, ns, t)) \in Nat
        BY <1>2, RankSets
    <2>. QED  BY <1>0, <1>2, <1>3, <2>1, <2>2
<1>. QED  BY <1>2, <1>3, <1>4 DEF AtPlace

\* When the times of a set good of the nodes ns lie from lo to hi, the time at
\* place k is below lo only if the good ones have their places after k, and above
\* hi only if they have them before k.
LEMMA PlaceBetween ==
    ASSUME NEW w, NEW ns, Times(w, ns), NEW k \in 1..Cardinality(ns),
           NEW t, AtPlace(w, ns, k, t),
           NEW good \in SUBSET ns, NEW lo \in Nat, NEW hi \in Nat,
           \A n \in good : lo <= w[n] /\ w[n] <= hi
    PROVE  /\ t \in Nat
           /\ t < lo => Cardinality(good) + k <= Cardinality(ns)
           /\ t > hi => Cardinality(good) < k
<1>1. /\ t \in Nat /\ t \in {w[n] : n \in ns}
      /\ Cardinality(Before(w, ns, t)) < k /\ Cardinality(UpTo(w, ns, t)) >= k
    BY DEF AtPlace, Times
<1>2. /\ IsFiniteSet(ns) /\ IsFiniteSet(good) /\ Cardinality(good) \in Nat
      /\ Cardinality(ns) \in Nat /\ k \in Nat
    BY SizeFacts, RankSets, <1>1 DEF Times
<1>3. ASSUME t < lo
      PROVE  Cardinality(good) + k <= Cardinality(ns)
    <2>. DEFINE u == UpTo(w, ns, t)
    <2>1. u \in SUBSET ns /\ u \cap good = {} /\ u \cup good \in SUBSET ns
        <3>1. \A n \in good : w[n] \in Nat /\ ~(w[n] <= t)
            BY <1>1, <1>3 DEF Times
        <3>. QED  BY <3>1 DEF UpTo
    <2>2. IsFiniteSet(u) /\ Cardinality(u) \in Nat
        BY <2>1, SizeFacts DEF Times
    <2>. HIDE DEF u
    <2>3. Cardinality(u \cup good) = Cardinality(u) + Cardinality(good)
        <3>1. Cardinality(u \cap good) = 0
            BY <2>1, FS_EmptySet
        <3>2. Cardinality(u \cup good) = Cardinality(u) + Cardinality(good) - Cardinality(u \cap good)
            BY <1>2, <2>2, FS_Union
        <3>. QED  BY <1>2, <2>2, <3>1, <3>2
    <2>4. Cardinality(u \cup good) <= Cardinality(ns)
        BY <2>1, SizeFacts DEF Times
    <2>5. Cardinality(u) >= k
        BY <1>1 DEF u
    <2>. QED  BY <1>2, <2>2, <2>3, <2>4, <2>5
<1>4. ASSUME t > hi
      PROVE  Cardinality(good) < k
    <2>1. good \in SUBSET Before(w, ns, t) /\ IsFiniteSet(Before(w, ns, t))
        <3>1. \A n \in good : w[n] < t
            BY <1>1, <1>4 DEF Times
        <3>2. IsFiniteSet(Before(w, ns, t))
            BY <1>1, RankSets, SizeFacts DEF Times
        <3>. QED  BY <3>1, <3>2 DEF Before
    <2>2. Cardinality(good) <= Cardinality(Before(w, ns, t))
        BY <2>1, SizeFacts
    <2>3. Cardinality(Before(w, ns, t)) \in Nat
        BY <1>1, RankSets
    <2>. QED  BY <1>1, <1>2, <2>2, <2>3
<1>. QED  BY <1>1, <1>3, <1>4

\* Sorted holds at each place the time of that place.
LEMMA SortedPlaces ==
    ASSUME NEW ns, Times(window, ns)
    PROVE  /\ Len(Sorted(ns)) = Cardinality(ns)
           /\ \A k \in 1..Cardinality(ns) : AtPlace(window, ns, k, Sorted(ns)[k])
<1>0. Cardinality(ns) \in Nat
    BY FS_CardinalityType DEF Times
<1>1. Len(Sorted(ns)) = Cardinality(ns)
    BY <1>0 DEF Sorted
<1>2. ASSUME NEW k \in 1..Cardinality(ns)
      PROVE  AtPlace(window, ns, k, Sorted(ns)[k])
    <2>. DEFINE V == {window[n] : n \in ns}
                P(t) == /\ Cardinality({n \in ns : window[n] < t}) < k
                        /\ Cardinality({n \in ns : window[n] <= t}) >= k
                c == CHOOSE t \in V : P(t)
    <2>1. Sorted(ns)[k] = c
        BY <1>0 DEF Sorted
    <2>2. \E t \in V : P(t)
        <3>1. PICK t \in V : AtPlace(window, ns, k, t)
            BY PlaceFilled
        <3>2. P(t)
            BY <3>1 DEF AtPlace, Before, UpTo
        <3>. QED  BY <3>2
    <2>3. c \in V /\ P(c)
        <3>. HIDE DEF V, P
        <3>. QED  BY <2>2, Zenon
    <2>. HIDE DEF c
    <2>. QED  BY <2>1, <2>3 DEF AtPlace, Before, UpTo
<1>. QED  BY <1>1, <1>2

\* The median of nodes ns lies between two bounds that hold for most of them.
LEMMA MedianBetween ==
    ASSUME NEW ns, Times(window, ns), NEW good \in SUBSET ns,
           2 * Cardinality(good) > Cardinality(ns),
           NEW lo \in Nat, NEW hi \in Nat,
           \A n \in good : lo <= window[n] /\ window[n] <= hi
    PROVE  /\ MedianOfSorted(Sorted(ns)) \in Nat
           /\ 2 * lo <= MedianOfSorted(Sorted(ns)) /\ MedianOfSorted(Sorted(ns)) <= 2 * hi
<1>. DEFINE c == Cardinality(ns)
            g == Cardinality(good)
            s == Sorted(ns)
            mid == c \div 2
<1>1. c \in Nat /\ g \in Nat /\ g <= c /\ 2 * g > c
    BY SizeFacts, FS_CardinalityType DEF Times
<1>2. Len(s) = c
    BY SortedPlaces
<1>3. \A k \in 1..c : s[k] \in Nat /\ (s[k] < lo => g + k <= c) /\ (s[k] > hi => g < k)
    <2>. TAKE k \in 1..c
    <2>1. AtPlace(window, ns, k, s[k])
        BY SortedPlaces
    <2>. HIDE DEF s
    <2>. QED  BY <2>1, PlaceBetween
<1>4. MedianOfSorted(s) = IF c % 2 = 0 THEN s[mid] + s[mid + 1] ELSE 2 * s[mid + 1]
    BY <1>2 DEF MedianOfSorted
<1>. HIDE DEF c, g, s
<1>5. mid \in Nat /\ (c = 2 * mid \/ c = 2 * mid + 1) /\ (c % 2 = 0 <=> c = 2 * mid)
    BY <1>1
<1>. HIDE DEF mid
<1>6. CASE c = 2 * mid
    <2>1. mid \in 1..c /\ mid + 1 \in 1..c
        BY <1>1, <1>5, <1>6
    <2>2. /\ s[mid] \in Nat /\ s[mid + 1] \in Nat
          /\ lo <= s[mid] /\ lo <= s[mid + 1] /\ s[mid] <= hi /\ s[mid + 1] <= hi
        BY <1>1, <1>3, <1>5, <1>6, <2>1
    <2>3. MedianOfSorted(s) = s[mid] + s[mid + 1]
        BY <1>4, <1>5, <1>6
    <2>. QED  BY <2>2, <2>3 DEF s
<1>7. CASE c = 2 * mid + 1
    <2>1. mid + 1 \in 1..c
        BY <1>1, <1>5, <1>7
    <2>2. s[mid + 1] \in Nat /\ lo <= s[mid + 1] /\ s[mid + 1] <= hi
        BY <1>1, <1>3, <1>5, <1>7, <2>1
    <2>3. MedianOfSorted(s) = 2 * s[mid + 1]
        BY <1>4, <1>5, <1>7
    <2>. QED  BY <2>2, <2>3 DEF s
<1>. QED  BY <1>5, <1>6, <1>7

\* The times in the window are numbers, and its nodes are clocks of the cluster.
WindowTyped == DOMAIN window \subseteq Clock /\ \A n \in DOMAIN window : window[n] \in Nat

\* The least and the greatest time of nodes that have any.
LEMMA Extremes ==
    ASSUME NEW w, NEW ns, Times(w, ns), ns # {}
    PROVE  LET times == {w[n] : n \in ns} IN
           /\ Min(times) \in Nat /\ Max(times) \in Nat
           /\ \A n \in ns : Min(times) <= w[n] /\ w[n] <= Max(times)
<1>. DEFINE times == {w[n] : n \in ns}
<1>1. times \in SUBSET Nat /\ IsFiniteSet(times) /\ \A n \in ns : w[n] \in times
    BY TimesFinite
<1>2. times # {}
    <2>. HIDE DEF times
    <2>. QED  BY <1>1
<1>. HIDE DEF times
<1>3. Max(times) \in times /\ \A m \in times : m <= Max(times)
    BY <1>1, <1>2, MaxIsMember
<1>4. Min(times) \in times /\ \A m \in times : Min(times) <= m
    <2>1. \E x \in times : \A y \in times : x <= y
        BY <1>1, <1>2, LeastNatural
    <2>. QED  BY <2>1 DEF Min
<1>5. /\ Min(times) \in Nat /\ Max(times) \in Nat
      /\ \A n \in ns : Min(times) <= w[n] /\ w[n] <= Max(times)
    BY <1>1, <1>3, <1>4
<1>. QED  BY <1>5 DEF times

\* A window of times, most of them right, has an anchor between the right ones:
\* the first median lies between them, so that all of them are kept, and they
\* are most of those kept.
LEMMA AnchorIsHonestNow == WindowTyped => AnchorIsHonest
<1>. DEFINE D == DOMAIN window
            good == Honest \cap D
            lo == Min({window[n] : n \in good})
            hi == Max({window[n] : n \in good})
            med == MedianOfSorted(Sorted(D))
            g == Cardinality(good)
<1>. SUFFICES ASSUME WindowTyped,
                     2 * g > Cardinality(D), g >= RequiredMin, hi - lo <= DriftThreshold
              PROVE  HasAnchor /\ 2 * lo <= Anchor /\ Anchor <= 2 * hi
    BY DEF AnchorIsHonest
<1>1. IsFiniteSet(D) /\ Times(window, D) /\ good \in SUBSET D
    BY TimeAnchorAssumption, FS_Subset DEF WindowTyped, Times
<1>2. g \in Nat /\ Cardinality(D) \in Nat /\ IsFiniteSet(good) /\ Times(window, good)
    <2>1. IsFiniteSet(good) /\ g \in Nat
        BY <1>1, SizeFacts
    <2>. QED  BY <1>1, <2>1, FS_CardinalityType DEF Times
<1>3. good # {} /\ D # {}
    <2>1. g # 0
        BY <1>2, TimeAnchorAssumption
    <2>2. good # {}
        BY <2>1, FS_EmptySet
    <2>. QED  BY <1>1, <2>2
<1>4. lo \in Nat /\ hi \in Nat /\ \A n \in good : lo <= window[n] /\ window[n] <= hi
    BY <1>2, <1>3, Extremes
<1>. HIDE DEF lo, hi
<1>5. med \in Nat /\ 2 * lo <= med /\ med <= 2 * hi
    BY <1>1, <1>4, MedianBetween
<1>6. good \in SUBSET Included
    <2>. SUFFICES ASSUME NEW n \in good
                  PROVE  n \in D /\ Distance(2 * window[n], med) <= 2 * DriftThreshold
        BY DEF Included
    <2>1. n \in D /\ window[n] \in Nat /\ lo <= window[n] /\ window[n] <= hi
        BY <1>1, <1>4 DEF Times
    <2>. HIDE DEF med
    <2>2. Distance(2 * window[n], med) <= 2 * (hi - lo)
        BY <1>4, <1>5, <2>1 DEF Distance
    <2>3. Distance(2 * window[n], med) \in Int
        BY <1>5, <2>1 DEF Distance
    <2>4. 2 * (hi - lo) <= 2 * DriftThreshold /\ DriftThreshold \in Nat
        BY <1>4, TimeAnchorAssumption
    <2>. QED  BY <1>4, <2>1, <2>2, <2>3, <2>4
<1>. DEFINE I == Included
<1>7. I \in SUBSET D /\ IsFiniteSet(I) /\ Times(window, I)
    <2>1. I \in SUBSET D
        BY DEF Included
    <2>. HIDE DEF I
    <2>. QED  BY <1>1, <2>1, SizeFacts DEF Times
<1>8. Cardinality(I) \in Nat /\ Cardinality(I) <= Cardinality(D) /\ g <= Cardinality(I)
    <2>. HIDE DEF I
    <2>1. Cardinality(I) <= Cardinality(D) /\ Cardinality(I) \in Nat
        BY <1>1, <1>7, SizeFacts
    <2>2. good \in SUBSET I
        BY <1>6 DEF I
    <2>3. g <= Cardinality(I)
        BY <1>7, <2>2, SizeFacts
    <2>. QED  BY <2>1, <2>3
<1>9. HasAnchor
    <2>1. Cardinality(I) >= RequiredMin
        BY <1>2, <1>8, TimeAnchorAssumption
    <2>. QED  BY <1>3, <2>1 DEF HasAnchor
<1>10. 2 * lo <= Anchor /\ Anchor <= 2 * hi
    <2>1. 2 * g > Cardinality(I)
        BY <1>2, <1>8
    <2>. HIDE DEF I
    <2>2. 2 * lo <= MedianOfSorted(Sorted(I)) /\ MedianOfSorted(Sorted(I)) <= 2 * hi
        <3>1. good \in SUBSET I
            BY <1>6 DEF I
        <3>. HIDE DEF good
        <3>. QED  BY <1>4, <1>7, <2>1, <3>1, MedianBetween DEF g
    <2>. QED  BY <2>2 DEF Anchor, I
<1>. QED  BY <1>9, <1>10

\* Whatever the other clocks assert, and in whatever order assertions arrive and
\* push each other out, a window with a majority of right clocks has an anchor
\* between two of their times.
THEOREM AnchorsAreHonest == TimeAnchorSpec => []AnchorIsHonest
<1>1. TimeAnchorInit => WindowTyped
    BY DEF TimeAnchorInit, WindowTyped
<1>2. WindowTyped /\ [TimeAnchorNext]_anchorVars => WindowTyped'
    <2>. SUFFICES ASSUME WindowTyped, [TimeAnchorNext]_anchorVars
                  PROVE  WindowTyped'
        OBVIOUS
    <2>1. ASSUME NEW n \in Clock, NEW t \in Time, IngestAssertion(n, t)
          PROVE  WindowTyped'
        <3>1. DOMAIN MakeRoom \subseteq Clock /\ \A m \in DOMAIN MakeRoom : MakeRoom[m] \in Nat
            BY DEF MakeRoom, Without, WindowTyped
        <3>2. window' = With(MakeRoom, n, t) /\ t \in Nat
            BY <2>1, TimeAnchorAssumption DEF IngestAssertion
        <3>. QED  BY <3>1, <3>2 DEF With, WindowTyped
    <2>2. CASE UNCHANGED anchorVars
        BY <2>2 DEF anchorVars, WindowTyped
    <2>. QED  BY <2>1, <2>2 DEF TimeAnchorNext
<1>. QED  BY <1>1, <1>2, AnchorIsHonestNow, PTL DEF TimeAnchorSpec

-----------------------------------------------------------------------------
(* Catching up *)

Indices == {b.index : b \in appliedBlocks}

\* The type of a node that catches up.
CatchUpTypeOK ==
    /\ appliedBlocks \subseteq Block /\ IsFiniteSet(appliedBlocks)
    /\ localIndex \in Nat /\ lastHash \in Hash
    /\ trail \in Seq(Block \cup Snapshot)

\* The indices of a reconciliation's blocks are a piece of the numbers, each once.
IndicesInLine ==
    /\ IsFiniteSet(Indices) /\ Cardinality(Indices) = Cardinality(appliedBlocks)
    /\ appliedBlocks # {} => \E lo, hi \in Nat : lo <= hi /\ Indices = lo..hi

\* What was applied forms a chain, at whose end lastHash is.
Linked(t, last) ==
    /\ last = IF t = <<>> THEN Genesis ELSE HashOf(t[Len(t)])
    /\ \A k \in DOMAIN t : "previous" \in DOMAIN t[k] =>
        t[k].previous = IF k = 1 THEN Genesis ELSE HashOf(t[k - 1])

\* The inductive invariant of catching up.
CatchUpInv == CatchUpTypeOK /\ IndicesInLine /\ Linked(trail, lastHash)

\* The least and the greatest number of an interval are its ends.
LEMMA EndsOfInterval ==
    ASSUME NEW lo \in Nat, NEW hi \in Nat, lo <= hi
    PROVE  Min(lo..hi) = lo /\ Max(lo..hi) = hi
<1>1. lo \in lo..hi /\ hi \in lo..hi
    OBVIOUS
<1>2. Min(lo..hi) = lo
    BY <1>1 DEF Min
<1>3. Max(lo..hi) = hi
    BY <1>1 DEF Max
<1>. QED  BY <1>2, <1>3

\* What blocks and snapshots consist of, and how they are told apart.
LEMMA BlockFacts ==
    /\ \A b \in Block : /\ DOMAIN b = {"index", "previous", "hash"} /\ HashOf(b) = b.hash
                        /\ b.index \in Nat \ {0} /\ b.hash \in Hash
    /\ \A s \in Snapshot : /\ DOMAIN s = {"latestIndex", "root", "signers"} /\ HashOf(s) = s.root
                           /\ s.latestIndex \in Nat /\ s.root \in Hash
<1>1. \A b \in Block : DOMAIN b = {"index", "previous", "hash"}
    BY DEF Block
<1>2. \A s \in Snapshot : DOMAIN s = {"latestIndex", "root", "signers"}
    BY DEF Snapshot
<1>3. \A b \in Block : b.index \in Nat \ {0} /\ b.hash \in Hash
    BY CatchUpAssumption DEF Block, BlockIndex, Hash
<1>4. \A s \in Snapshot : s.latestIndex \in Nat /\ s.root \in Hash
    BY CatchUpAssumption DEF Snapshot, BlockIndex, Hash
<1>. QED  BY <1>1, <1>2, <1>3, <1>4 DEF HashOf

\* A block or a snapshot x added to a chain, if a block follows its end.
LEMMA LinkAdded ==
    ASSUME NEW t \in Seq(Block \cup Snapshot), NEW last, Linked(t, last),
           NEW x \in Block \cup Snapshot, x \in Block => x.previous = last
    PROVE  Append(t, x) \in Seq(Block \cup Snapshot) /\ Linked(Append(t, x), HashOf(x))
<1>. DEFINE n == Len(t)
            u == Append(t, x)
<1>1. /\ n \in Nat /\ u \in Seq(Block \cup Snapshot) /\ Len(u) = n + 1 /\ u[n + 1] = x
      /\ DOMAIN t = 1..n /\ DOMAIN u = 1..(n + 1) /\ \A k \in 1..n : u[k] = t[k]
      /\ (t = <<>> <=> n = 0) /\ u # <<>>
    OBVIOUS
<1>. HIDE DEF u
<1>2. HashOf(x) = IF u = <<>> THEN Genesis ELSE HashOf(u[Len(u)])
    BY <1>1
<1>3. ASSUME NEW k \in DOMAIN u, "previous" \in DOMAIN u[k]
      PROVE  u[k].previous = IF k = 1 THEN Genesis ELSE HashOf(u[k - 1])
    <2>1. CASE k = n + 1
        <3>1. x \in Block
            BY <1>1, <1>3, <2>1, BlockFacts
        <3>2. x.previous = last /\ u[k] = x
            BY <1>1, <2>1, <3>1
        <3>3. CASE n = 0
            BY <1>1, <2>1, <3>2, <3>3 DEF Linked
        <3>4. CASE n # 0
            <4>1. n \in 1..n /\ k - 1 = n /\ k # 1 /\ t # <<>>
                BY <1>1, <2>1, <3>4
            <4>2. u[k - 1] = t[n] /\ last = HashOf(t[n])
                BY <1>1, <4>1 DEF Linked
            <4>. QED  BY <3>2, <4>1, <4>2
        <3>. QED  BY <3>3, <3>4
    <2>2. CASE k # n + 1
        <3>1. k \in 1..n /\ u[k] = t[k]
            BY <1>1, <1>3, <2>2
        <3>2. t[k].previous = IF k = 1 THEN Genesis ELSE HashOf(t[k - 1])
            BY <1>1, <1>3, <3>1 DEF Linked
        <3>3. k # 1 => u[k - 1] = t[k - 1]
            BY <1>1, <3>1
        <3>. QED  BY <3>1, <3>2, <3>3
    <2>. QED  BY <2>1, <2>2
<1>4. Linked(u, HashOf(x))
    BY <1>2, <1>3 DEF Linked
<1>. QED  BY <1>1, <1>4 DEF u

\* An accepted block's index is the next one.
LEMMA NextIndex ==
    ASSUME CatchUpInv, NEW b \in Block, Follows(b)
    PROVE  /\ b.index \notin Indices
           /\ \E lo, hi \in Nat : lo <= hi /\ Indices \cup {b.index} = lo..hi
<1>0. b.index \in Nat
    BY BlockFacts
<1>1. CASE appliedBlocks = {}
    <2>1. Indices = {}
        BY <1>1 DEF Indices
    <2>2. {b.index} = b.index .. b.index
        BY <1>0
    <2>. QED  BY <1>0, <2>1, <2>2
<1>2. CASE appliedBlocks # {}
    <2>1. PICK lo, hi \in Nat : lo <= hi /\ Indices = lo..hi
        BY <1>2 DEF CatchUpInv, IndicesInLine
    <2>2. b.index = hi + 1
        BY <1>2, <2>1, EndsOfInterval DEF Follows, ExpectedIndex, Indices
    <2>3. b.index \notin Indices /\ Indices \cup {b.index} = lo..(hi + 1)
        BY <2>1, <2>2
    <2>4. hi + 1 \in Nat /\ lo <= hi + 1
        BY <2>1
    <2>. QED  BY <2>1, <2>3, <2>4
<1>. QED  BY <1>1, <1>2

\* Every block, snapshot and reconciliation keeps the invariant.
LEMMA CatchUpStep == CatchUpInv /\ [CatchUpNext]_catchUpVars => CatchUpInv'
<1>. SUFFICES ASSUME CatchUpInv, [CatchUpNext]_catchUpVars
              PROVE  CatchUpInv'
    OBVIOUS
<1>0. CatchUpTypeOK /\ IndicesInLine /\ Linked(trail, lastHash)
    BY DEF CatchUpInv
<1>1. ASSUME NEW i \in 0..MaxIndex, BeginReconciliation(i)
      PROVE  CatchUpInv'
    <2>1. appliedBlocks' = {} /\ localIndex' \in Nat /\ UNCHANGED <<lastHash, trail>>
        BY <1>1, CatchUpAssumption DEF BeginReconciliation
    <2>2. Indices' = {} /\ IsFiniteSet({})
        BY <2>1, FS_EmptySet DEF Indices
    <2>3. CatchUpTypeOK' /\ IndicesInLine'
        BY <1>0, <2>1, <2>2 DEF CatchUpTypeOK, IndicesInLine
    <2>4. Linked(trail, lastHash)'
        BY <1>0, <2>1
    <2>. QED  BY <2>3, <2>4 DEF CatchUpInv
<1>2. ASSUME NEW b \in Block, ApplyCatchUpBlock(b)
      PROVE  CatchUpInv'
    <2>1. /\ Follows(b) /\ appliedBlocks' = appliedBlocks \cup {b} /\ lastHash' = b.hash
          /\ trail' = Append(trail, b) /\ UNCHANGED localIndex /\ b.previous = lastHash
        BY <1>2 DEF ApplyCatchUpBlock, Follows
    <2>2. Append(trail, b) \in Seq(Block \cup Snapshot) /\ Linked(Append(trail, b), HashOf(b))
        BY <1>0, <2>1, LinkAdded DEF CatchUpTypeOK
    <2>3. /\ b.index \notin Indices
          /\ \E lo, hi \in Nat : lo <= hi /\ Indices \cup {b.index} = lo..hi
        BY <2>1, NextIndex
    <2>4. Indices' = Indices \cup {b.index} /\ b \notin appliedBlocks
        BY <2>1, <2>3 DEF Indices
    <2>5. /\ IsFiniteSet(appliedBlocks \cup {b}) /\ IsFiniteSet(Indices \cup {b.index})
          /\ Cardinality(appliedBlocks \cup {b}) = Cardinality(appliedBlocks) + 1
          /\ Cardinality(Indices \cup {b.index}) = Cardinality(Indices) + 1
        BY <1>0, <2>3, <2>4, FS_AddElement DEF CatchUpTypeOK, IndicesInLine
    <2>6. CatchUpTypeOK'
        BY <1>0, <2>1, <2>2, <2>5, BlockFacts DEF CatchUpTypeOK
    <2>7. IndicesInLine'
        BY <1>0, <2>1, <2>3, <2>4, <2>5 DEF IndicesInLine
    <2>8. Linked(trail, lastHash)'
        BY <2>1, <2>2, BlockFacts
    <2>. QED  BY <2>6, <2>7, <2>8 DEF CatchUpInv
<1>3. ASSUME NEW s \in Snapshot, ApplySnapshot(s)
      PROVE  CatchUpInv'
    <2>1. /\ lastHash' = s.root /\ localIndex' = s.latestIndex
          /\ trail' = Append(trail, s) /\ UNCHANGED appliedBlocks
        BY <1>3 DEF ApplySnapshot
    <2>2. s \notin Block
        BY BlockFacts
    <2>3. Append(trail, s) \in Seq(Block \cup Snapshot) /\ Linked(Append(trail, s), HashOf(s))
        BY <1>0, <2>2, LinkAdded DEF CatchUpTypeOK
    <2>4. CatchUpTypeOK'
        BY <1>0, <2>1, <2>3, BlockFacts DEF CatchUpTypeOK
    <2>5. IndicesInLine'
        BY <1>0, <2>1 DEF IndicesInLine, Indices
    <2>6. Linked(trail, lastHash)'
        BY <2>1, <2>3, BlockFacts
    <2>. QED  BY <2>4, <2>5, <2>6 DEF CatchUpInv
<1>4. CASE CreateSnapshot \/ CompleteReconciliation \/ UNCHANGED catchUpVars
    <2>1. UNCHANGED <<localIndex, appliedBlocks, lastHash, trail>>
        BY <1>4 DEF CreateSnapshot, CompleteReconciliation, catchUpVars
    <2>2. CatchUpTypeOK' /\ IndicesInLine'
        BY <1>0, <2>1 DEF CatchUpTypeOK, IndicesInLine, Indices
    <2>3. Linked(trail, lastHash)'
        BY <1>0, <2>1
    <2>. QED  BY <2>2, <2>3 DEF CatchUpInv
<1>. QED  BY <1>1, <1>2, <1>3, <1>4 DEF CatchUpNext

\* Whatever was applied is one hash chain from the genesis block and the blocks of
\* one reconciliation are consecutive, for any blocks, snapshots and requests.
THEOREM ChainIsUnbroken == CatchUpSpec => []ChainUnbroken
<1>1. CatchUpInit => CatchUpInv
    <2>. SUFFICES ASSUME CatchUpInit PROVE CatchUpInv
        OBVIOUS
    <2>1. Indices = {} /\ IsFiniteSet({}) /\ appliedBlocks = {}
        BY FS_EmptySet DEF CatchUpInit, Indices
    <2>. QED  BY <2>1 DEF CatchUpInit, CatchUpInv, CatchUpTypeOK, IndicesInLine, Linked, Hash
<1>2. CatchUpInv => ChainUnbroken
    <2>. SUFFICES ASSUME CatchUpInv PROVE ChainUnbroken
        OBVIOUS
    <2>1. /\ lastHash = IF trail = <<>> THEN Genesis ELSE HashOf(Last(trail))
          /\ \A k \in DOMAIN trail : "previous" \in DOMAIN trail[k] =>
                trail[k].previous = IF k = 1 THEN Genesis ELSE HashOf(trail[k - 1])
        BY DEF CatchUpInv, Linked, Last
    <2>2. Cardinality(Indices) = Cardinality(appliedBlocks)
        BY DEF CatchUpInv, IndicesInLine
    <2>3. ASSUME Indices # {}
          PROVE  Indices = Min(Indices)..Max(Indices)
        <3>1. appliedBlocks # {}
            BY <2>3 DEF Indices
        <3>2. PICK lo, hi \in Nat : lo <= hi /\ Indices = lo..hi
            BY <3>1 DEF CatchUpInv, IndicesInLine
        <3>. QED  BY <3>2, EndsOfInterval
    <2>. QED  BY <2>1, <2>2, <2>3 DEF ChainUnbroken, Indices
<1>. QED  BY <1>1, <1>2, CatchUpStep, PTL DEF CatchUpSpec
=============================================================================
