--------------------------- MODULE MCQuorumCommit ---------------------------
EXTENDS QuorumCommit, TLC

CONSTANTS r1, r2, t1

\* Both records are versions of one escrow; one proposal is out of its
\* window, one names another record than its commitment.
MCTxOf == [r \in Record |-> t1]
MCProposal ==
    {[record |-> r1, commitment |-> r1, term |-> 0, index |-> i,
      validAfter |-> 1, validUntil |-> 2, anchor |-> 1] : i \in 1..2}
    \cup {[record |-> r2, commitment |-> r2, term |-> 0, index |-> 2,
           validAfter |-> 1, validUntil |-> 2, anchor |-> 3],
          [record |-> r2, commitment |-> r1, term |-> 0, index |-> 1,
           validAfter |-> 1, validUntil |-> 2, anchor |-> 1]}
\* A share for the second slot that no route here issued.
MCOtherShare == {Share(Self, 0, 2)}
\* Payloads of every node or of one, for the cluster size size.
Made(size, nodes, index) ==
    [size |-> size, f |-> FaultBound(size), threshold |-> 2 * FaultBound(size) + 1,
     listed |-> Cardinality(nodes), shares |-> {Share(n, 0, index) : n \in nodes}]
Body(term, size, pay) == [term |-> term, clusterSize |-> size, payload |-> pay]
\* Bodies that are complete for a slot, in a cluster of four and of one; without
\* a bft part; with a stale term, a later term, another size, too few nodes, and
\* a size below zero.
MCRequest ==
    {Body(0, 4, Made(4, Node, i)) : i \in 1..2} \cup {Body(0, 1, Made(1, {Self}, 1))}
    \cup {Body(0, 0, Made(4, Node, 1)), Body(-1, 4, Made(4, Node, 1)),
          Body(1, 4, Made(4, Node, 1)), Body(0, 1, Made(4, Node, 1)),
          Body(0, 4, Made(4, {Self}, 1)), Body(0, -5, Made(-5, {}, 1)), Body(0, 2, Made(2, Node, 2))}
\* The peers are interchangeable.
Symmetry == Permutations(Node \ {Self})
=============================================================================
