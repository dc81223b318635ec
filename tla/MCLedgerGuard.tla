--------------------------- MODULE MCLedgerGuard ---------------------------
(* LedgerGuard with the real Merkle tree as its root function. *)
EXTENDS LedgerGuard, MerkleTree, TLC

MCRootHash == {LedgerRoot(s) : s \in Ledger}

Symmetry == Permutations(TxId) \cup Permutations(Body) \cup Permutations(RequestId)
            \cup Permutations(Slot) \cup Permutations(Admin)
=============================================================================
