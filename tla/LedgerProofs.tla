---------------------------- MODULE LedgerProofs ----------------------------
(***************************************************************************)
(* What an auditor is given of the ledger: the root                        *)
(* (EnclaveMerkleAccumulator, GET /audit/ledger-root) and inclusion proofs *)
(* with direction markers, checked by ZkInclusionVerifier without the leaf *)
(* index (POST /audit/verify-inclusion).  Every request builds its own     *)
(* accumulator from the rows of one read, so its cache is never used.      *)
(***************************************************************************)
EXTENDS MerkleTree

CONSTANTS
    TxId,    \* transaction ids
    Body,    \* what else of a record enters its leaf hash
    TimeLock, \* validAfterMs and validUntilMs, which do not
    Leaf,    \* contents of leaves that need not have different ids
    MaxLeaves \* bound: leaves of such a ledger

\* The domain tags are no contents.
ASSUME LedgerProofsAssumption == "empty" \notin Body \cup Leaf

VARIABLES
    rows,    \* the records of the ledger
    held,    \* the root an auditor fetched last; history: the rows then
    leaves   \* leaves of a ledger under external edits, ids repeated or not

proofVars == <<rows, held, leaves>>

\* EscrowRecord
Row == [id : TxId, body : Body, timeLock : TimeLock]

Leaves(records) == [i \in DOMAIN records |-> LeafHash(records[i])]

Hash(x) == <<x>>

LedgerProofsInit ==
    /\ rows = <<>> /\ leaves = <<>>
    /\ held = [root |-> EmptyRoot, rows |-> <<>>]

-----------------------------------------------------------------------------
(* Proofs with markers *)

\* Mutant of Markers: the position is not halved on the way up.
MarkersFlat(proof) ==
    [k \in DOMAIN proof.siblings |-> IF proof.leafIndex % 2 = 1 THEN "R" ELSE "L"]

\* getInclusionProof: "R" where the hash so far is the right child.
Markers(proof) ==
    [k \in DOMAIN proof.siblings |->
        IF Position(proof.leafIndex, Len(proof.siblings))[k - 1] % 2 = 1 THEN "R" ELSE "L"]

GetInclusionProof(lvs, i) ==
    LET proof == GetProof(lvs, i - 1)
    IN  [siblings |-> proof.siblings, leftRight |-> Markers(proof)]

\* ZkInclusionVerifier.verify: the root computed from leaf, siblings, markers.
ComputedRoot(leafHash, proof) ==
    LET hash[k \in 0..Len(proof.siblings)] ==
            IF k = 0 THEN leafHash
            ELSE IF proof.leftRight[k] = "R"
                 THEN Node(proof.siblings[k], hash[k - 1])
                 ELSE Node(hash[k - 1], proof.siblings[k])
    IN  hash[Len(proof.siblings)]

ZkVerify(leafHash, root, proof) ==
    /\ Len(proof.siblings) = Len(proof.leftRight)
    /\ ComputedRoot(leafHash, proof) = root

\* POST /audit/verify-inclusion for the i-th record: proof and root of one read.
VerifyInclusion(records, i) ==
    ZkVerify(LeafHash(records[i]), LedgerRoot(records), GetInclusionProof(Leaves(records), i))

\* GET /verify-proof/:transactionId for the i-th record, for the client to check.
VerifyProofRoute(records, i) ==
    [leafHash |-> LeafHash(records[i]), proof |-> GetProof(Leaves(records), i - 1),
     root |-> LedgerRoot(records)]

-----------------------------------------------------------------------------
(* Steps *)

\* DatabaseService.saveRecord: in place where the id is known, else at the end.
SaveRow(record) ==
    /\ rows' = IF \E i \in DOMAIN rows : rows[i].id = record.id
               THEN [i \in DOMAIN rows |-> IF rows[i].id = record.id THEN record ELSE rows[i]]
               ELSE Append(rows, record)
    /\ UNCHANGED <<held, leaves>>

\* getRootHash of a fresh accumulator.
GetRootHash(records) == LedgerRoot(records)

\* GET /audit/ledger-root.
FetchRoot ==
    /\ held' = [root |-> GetRootHash(rows), rows |-> rows]
    /\ UNCHANGED <<rows, leaves>>

\* Any ledger, leaf by leaf (with the audited one empty).
AddLeaf(x) ==
    /\ rows = <<>> /\ Len(leaves) < MaxLeaves
    /\ leaves' = Append(leaves, Hash(x))
    /\ UNCHANGED <<rows, held>>

LedgerProofsNext ==
    \/ FetchRoot
    \/ leaves = <<>> /\ \E record \in Row : SaveRow(record)
    \/ \E x \in Leaf : AddLeaf(x)

LedgerProofsSpec == LedgerProofsInit /\ [][LedgerProofsNext]_proofVars

-----------------------------------------------------------------------------
(* Properties *)

Hashes == {Hash(x) : x \in Leaf}

\* Whether the index is used (verifyProof) or only the markers made from it
\* (ZkInclusionVerifier), the proof for a leaf leads from that leaf, and from no
\* other leaf hash, to the root of the constructor, at every index, odd layers
\* and repeated leaves included.
ProofsDecide ==
    \A i \in DOMAIN leaves, x \in Hashes :
        /\ VerifyProof(x, GetProof(leaves, i - 1)) = TreeRoot(leaves) <=> x = leaves[i]
        /\ ZkVerify(x, TreeRoot(leaves), GetInclusionProof(leaves, i)) <=> x = leaves[i]

\* Root and leaf count, which is what a checkpoint holds, determine the ledger,
\* and two prefixes of a ledger share a root only if they end in the same leaf:
\* with unique transaction ids the prefix that a heal looks for is unique.
RootBindsLeaves ==
    /\ \A other \in [DOMAIN leaves -> Hashes] :
        TreeRoot(other) = TreeRoot(leaves) => other = leaves
    /\ \A m, n \in 0..Len(leaves) :
        m < n /\ TreeRoot(SubSeq(leaves, 1, m)) = TreeRoot(SubSeq(leaves, 1, n)) =>
            m > 0 /\ leaves[m] = leaves[n]

\* What the ledger says apart from the time-lock windows of its rows.
Contents(records) ==
    [i \in DOMAIN records |-> [id |-> records[i].id, body |-> records[i].body]]

\* Both proof routes vouch for every record of the ledger, and against a root
\* fetched earlier (by an auditor, or by LedgerAuditor as its checkpoint) their
\* proofs verify exactly while the ledger has the same contents as then: rows
\* appended and rows updated in place both show, for every record.  The time-lock
\* window of a row is the one thing that may change without notice.
HeldRootPinsContents ==
    \A i \in DOMAIN rows :
        LET answer == VerifyProofRoute(rows, i)
            same   == Contents(held.rows) = Contents(rows)
        IN
        /\ VerifyInclusion(rows, i)
        /\ VerifyProof(answer.leafHash, answer.proof) = answer.root
        /\ VerifyProof(answer.leafHash, answer.proof) = held.root <=> same
        /\ ZkVerify(answer.leafHash, held.root, GetInclusionProof(Leaves(rows), i)) <=> same
=============================================================================
