------------------------------ MODULE MCChecks ------------------------------
(***************************************************************************)
(* What stands between the outside and the ledger of a node: the officers' *)
(* signatures, the anti-DoS puzzles, the proofs handed to auditors and the *)
(* checkpoints of the compactor.  They have no state in common: each is    *)
(* explored with the others at rest.                                       *)
(***************************************************************************)
EXTENDS RecoveryQuorum, ClientPuzzle, LedgerProofs, MerkleCompactor, TLC

\* Officers are interchangeable, and so are clients and transaction ids; there is
\* one stranger.
Symmetry == Permutations(Officers) \cup Permutations(Client) \cup Permutations(TxId)

ChecksInit == Init /\ PuzzleInit /\ LedgerProofsInit /\ CompactorInit

ChecksNext ==
    \/ /\ PuzzleInit /\ LedgerProofsInit /\ CompactorInit
       /\ Next /\ UNCHANGED <<puzzleVars, proofVars, compactorVars>>
    \/ /\ Init /\ LedgerProofsInit /\ CompactorInit
       /\ PuzzleNext /\ UNCHANGED <<vars, proofVars, compactorVars>>
    \/ /\ Init /\ PuzzleInit /\ CompactorInit
       /\ LedgerProofsNext /\ UNCHANGED <<vars, puzzleVars, compactorVars>>
    \/ /\ Init /\ PuzzleInit /\ LedgerProofsInit
       /\ CompactorNext /\ UNCHANGED <<vars, puzzleVars, proofVars>>

ChecksSpec == ChecksInit /\ [][ChecksNext]_<<vars, puzzleVars, proofVars, compactorVars>>
=============================================================================
