----------------------------- MODULE MerkleTree -----------------------------
(***************************************************************************)
(* The "duplicate last" Merkle tree of src/src/services/merkle.  A hash is *)
(* modelled by its preimage, written in prefix form as a sequence of       *)
(* tokens: hash equality is equality of preimages (no collisions), and the *)
(* domain tags of the code are the tokens "node" and "empty".              *)
(***************************************************************************)
EXTENDS Integers, Sequences

EmptyRoot == <<"empty">>

Node(left, right) == <<"node">> \o left \o right

\* Mutant of NextLayer: an odd last node is replaced by padding.
NextLayerPads(layer) ==
    [i \in 1..(Len(layer) + 1) \div 2 |->
        IF 2 * i <= Len(layer) THEN Node(layer[2 * i - 1], layer[2 * i])
        ELSE EmptyRoot]

\* One pass of the loop in the constructor.
NextLayer(layer) ==
    [i \in 1..(Len(layer) + 1) \div 2 |->
        Node(layer[2 * i - 1],
             IF 2 * i <= Len(layer) THEN layer[2 * i] ELSE layer[2 * i - 1])]

\* The layers that the loop may build: layers[0] are the leaves.
Built(leaves) ==
    LET layer[k \in 0..Len(leaves)] ==
            IF k = 0 THEN leaves ELSE NextLayer(layer[k - 1])
    IN  layer

\* The passes of the loop, while there is more than one node.
Height(built) ==
    CHOOSE h \in DOMAIN built :
        Len(built[h]) <= 1 /\ \A k \in 0..(h - 1) : Len(built[k]) > 1

TreeRoot(leaves) ==
    LET built == Built(leaves) IN
    IF leaves = <<>> THEN EmptyRoot ELSE built[Height(built)][1]

\* idx on the way up from a 0-based leaf index.
Position(leafIndex, height) ==
    LET idx[level \in 0..height] ==
            IF level = 0 THEN leafIndex ELSE idx[level - 1] \div 2
    IN  idx

\* The other child, or the node itself where it has no sibling.
Sibling(layer, idx) ==
    LET sib == IF idx % 2 = 1 THEN idx - 1 ELSE idx + 1
    IN  IF sib < Len(layer) THEN layer[sib + 1] ELSE layer[idx + 1]

\* getProof: the siblings from the leaves upwards.
GetProof(leaves, leafIndex) ==
    LET built  == Built(leaves)
        height == Height(built)
        idx    == Position(leafIndex, height)
    IN  [leafIndex |-> leafIndex,
         siblings |-> [k \in 1..height |-> Sibling(built[k - 1], idx[k - 1])]]

\* verifyProof: the root that a leaf and its siblings hash to.
VerifyProof(leafHash, proof) ==
    LET idx == Position(proof.leafIndex, Len(proof.siblings))
        hash[k \in 0..Len(proof.siblings)] ==
            IF k = 0 THEN leafHash
            ELSE IF idx[k - 1] % 2 = 1
                 THEN Node(proof.siblings[k], hash[k - 1])
                 ELSE Node(hash[k - 1], proof.siblings[k])
    IN  hash[Len(proof.siblings)]

\* Mutant of LeafHash: the transaction alone is hashed.
LeafHashIdOnly(record) == <<record.id>>

\* escrowRecordLeafHash: the time-lock window is not part of the leaf.
LeafHash(record) == <<record.id, record.body>>

\* buildMerkleForLedger
LedgerRoot(records) == TreeRoot([i \in DOMAIN records |-> LeafHash(records[i])])
=============================================================================
