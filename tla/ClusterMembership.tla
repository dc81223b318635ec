-------------------------- MODULE ClusterMembership --------------------------
(***************************************************************************)
(* ClusterMembershipManager: what one node believes of the others, from    *)
(* registrations, heartbeats, failure reports and eviction votes that      *)
(* arrive in any order.  Every method is synchronous.                      *)
(*                                                                         *)
(* A proposal's id is made of its target and the millisecond it was made   *)
(* in; all votes are entered under the local node id, so a proposal keeps  *)
(* how many there are and not whose they are.                              *)
(***************************************************************************)
EXTENDS Naturals, Integers, FiniteSets

CONSTANTS
    Member,          \* node ids
    Local,           \* localNodeId
    MaxFailureCount, \* config.maxFailureCount
    MaxClock,        \* bound: milliseconds that pass
    MaxCount,        \* bound: failure reports in a row and approvals of a proposal
    MaxTerm          \* bound: leader changes

ASSUME MembershipAssumption ==
    /\ IsFiniteSet(Member) /\ Local \in Member
    /\ MaxFailureCount \in Nat \ {0} /\ MaxCount \in Nat /\ MaxClock \in Nat /\ MaxTerm \in Nat

NodeStatus == {"UNKNOWN", "JOINING", "ACTIVE", "SUSPECTED", "EVICTED"}

VARIABLES
    status,     \* nodes: UNKNOWN is a node that is not in the map
    failures,   \* failureCount of each node
    proposals,  \* evictionProposals, by <<target, millisecond>>
    clock,      \* Date.now(), as far as proposal ids tell milliseconds apart
    leader, currentTerm

membershipVars == <<status, failures, proposals, clock, leader, currentTerm>>

NoProposal == [open |-> FALSE, approvals |-> 0, approved |-> FALSE]
NewProposal == [open |-> TRUE, approvals |-> 0, approved |-> FALSE]

\* The map after initializeLocalNode.
MembershipInit ==
    /\ status = [n \in Member |-> IF n = Local THEN "ACTIVE" ELSE "UNKNOWN"]
    /\ failures = [n \in Member |-> 0]
    /\ proposals = [id \in Member \X (0..MaxClock) |-> NoProposal]
    /\ clock = 0
    /\ leader = Local /\ currentTerm = 0

RegisterNode(n) ==
    /\ status[n] = "UNKNOWN"
    /\ status' = [status EXCEPT ![n] = "JOINING"]
    /\ UNCHANGED <<failures, proposals, clock, leader, currentTerm>>

\* Mutant of UpdateHeartbeat: the failure count survives the heartbeat.
UpdateHeartbeatStatusOnly(n) ==
    /\ status[n] # "UNKNOWN"
    /\ status' = [status EXCEPT ![n] = IF @ = "SUSPECTED" THEN "ACTIVE" ELSE @]
    /\ UNCHANGED <<failures, proposals, clock, leader, currentTerm>>

UpdateHeartbeat(n) ==
    /\ status[n] # "UNKNOWN"
    /\ failures' = [failures EXCEPT ![n] = 0]
    /\ status' = [status EXCEPT ![n] = IF @ = "SUSPECTED" THEN "ACTIVE" ELSE @]
    /\ UNCHANGED <<proposals, clock, leader, currentTerm>>

\* The status is overwritten whatever it was, EVICTED too.
RecordFailure(n) ==
    /\ status[n] # "UNKNOWN" /\ failures[n] < MaxCount
    /\ failures' = [failures EXCEPT ![n] = @ + 1]
    /\ status' = [status EXCEPT ![n] =
                    IF failures'[n] >= MaxFailureCount THEN "SUSPECTED" ELSE @]
    /\ UNCHANGED <<proposals, clock, leader, currentTerm>>

\* A second proposal in the same millisecond replaces the first.
ProposeNodeEviction(n) ==
    /\ status[n] \notin {"UNKNOWN", "EVICTED"}
    /\ proposals' = [proposals EXCEPT ![<<n, clock>>] = NewProposal]
    /\ UNCHANGED <<status, failures, clock, leader, currentTerm>>

ActiveNodes == {n \in Member : status[n] \in {"ACTIVE", "JOINING"}}

\* Mutant of Approves: cross-multiplied, which differs when nobody is active.
ApprovesMultiplied(approvals, voters) == 100 * approvals >= 67 * voters

\* approvals / voters >= 0.67, where x / 0 is Infinity and 0 / 0 is NaN.
Approves(approvals, voters) ==
    IF voters = 0 THEN approvals > 0 ELSE 100 * approvals >= 67 * voters

Evict(n) == status' = [status EXCEPT ![n] = "EVICTED"]

\* voteEviction: the ratio is tested after a rejection as well; the list of
\* rejections is never read.
VoteEviction(id, approve) ==
    LET p == proposals[id]
        q == IF approve THEN [p EXCEPT !.approvals = @ + 1] ELSE p
        passes == Approves(q.approvals, Cardinality(ActiveNodes))
    IN  /\ p.open /\ q.approvals <= MaxCount
        /\ proposals' = [proposals EXCEPT ![id] = [q EXCEPT !.approved = @ \/ passes]]
        /\ IF passes THEN Evict(id[1]) ELSE UNCHANGED status
        /\ UNCHANGED <<failures, clock, leader, currentTerm>>

FinalizeEviction(id) ==
    /\ proposals[id].approved
    /\ Evict(id[1])
    /\ UNCHANGED <<failures, proposals, clock, leader, currentTerm>>

SetLeader(n) ==
    /\ currentTerm < MaxTerm
    /\ leader' = n /\ currentTerm' = currentTerm + 1
    /\ UNCHANGED <<status, failures, proposals, clock>>

ClockTicks ==
    /\ clock < MaxClock /\ clock' = clock + 1
    /\ UNCHANGED <<status, failures, proposals, leader, currentTerm>>

MembershipNext ==
    \/ \E n \in Member :
        \/ RegisterNode(n) \/ UpdateHeartbeat(n) \/ RecordFailure(n)
        \/ ProposeNodeEviction(n) \/ SetLeader(n)
    \/ \E id \in DOMAIN proposals :
        FinalizeEviction(id) \/ \E approve \in BOOLEAN : VoteEviction(id, approve)
    \/ ClockTicks

MembershipSpec == MembershipInit /\ [][MembershipNext]_membershipVars

-----------------------------------------------------------------------------
(* Properties *)

MembershipTypeOK ==
    /\ status \in [Member -> NodeStatus]
    /\ failures \in [Member -> 0..MaxCount]
    /\ proposals \in [Member \X (0..MaxClock) ->
        [open : BOOLEAN, approvals : 0..MaxCount, approved : BOOLEAN]]
    /\ clock \in 0..MaxClock
    /\ leader \in Member /\ currentTerm \in 0..MaxTerm

\* A node is under suspicion only with MaxFailureCount unanswered failure
\* reports behind it, and with that many it is never counted as a voter: late
\* heartbeats, evictions and finalized proposals in any order keep the count
\* and the status together.  (updateHeartbeat, recordFailure, evictNode)
SuspicionMatchesCount ==
    \A n \in Member :
        /\ status[n] = "SUSPECTED" => failures[n] >= MaxFailureCount
        /\ failures[n] >= MaxFailureCount => n \notin ActiveNodes

\* A node is out only while an approved proposal names it, and an approved
\* proposal has an approving vote: rejections alone evict nobody, not even when
\* every node is suspected and there is no voter to divide by.  (voteEviction)
EvictionHasApproval ==
    /\ \A id \in DOMAIN proposals : proposals[id].approved => proposals[id].approvals > 0
    /\ \A n \in Member : status[n] = "EVICTED" =>
        \E k \in 0..MaxClock : proposals[<<n, k>>].approved
=============================================================================
