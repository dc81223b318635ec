------------------------- MODULE MCEscrowLifecycle -------------------------
EXTENDS EscrowLifecycle, TLC

Symmetry == Permutations(Worker) \cup Permutations(Tx)
=============================================================================
