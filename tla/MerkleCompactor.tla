--------------------------- MODULE MerkleCompactor ---------------------------
(***************************************************************************)
(* MerkleCompactor: checkpoints of an active tree, and the pruning of old  *)
(* ones, by request or when a checkpoint finds too many.  The content of   *)
(* the trees plays no part in it: a tree is the number of its leaves.      *)
(***************************************************************************)
EXTENDS Integers, FiniteSets

CONSTANTS
    MaxHistoricalDepth, MinCheckpointInterval, PreserveRecentLeaves,
    MaxTreeLeaves,  \* bound: leaves added
    MaxCheckpoint   \* bound: checkpoint indices

ASSUME CompactorAssumption ==
    /\ {MaxHistoricalDepth, MinCheckpointInterval} \subseteq Nat \ {0}
    /\ {PreserveRecentLeaves, MaxTreeLeaves, MaxCheckpoint} \subseteq Nat

VARIABLES
    activeLeaves,      \* leaves of activeTree, 0 while there is none
    historicalTrees,   \* checkpoint index -> leaves, 0 where there is no entry
    currentCheckpoint,
    taken              \* history: the checkpoints taken and not pruned since

compactorVars == <<activeLeaves, historicalTrees, currentCheckpoint, taken>>

CompactorInit ==
    /\ activeLeaves = 0 /\ currentCheckpoint = 0
    /\ historicalTrees = [i \in 0..MaxCheckpoint |-> 0]
    /\ taken = [i \in 0..MaxCheckpoint |-> 0]

Stored(trees) == {i \in 0..MaxCheckpoint : trees[i] # 0}

Least(a, b) == IF a <= b THEN a ELSE b

\* addLeaf: a tree with one leaf more.
AddTreeLeaf ==
    /\ activeLeaves < MaxTreeLeaves
    /\ activeLeaves' = activeLeaves + 1
    /\ UNCHANGED <<historicalTrees, currentCheckpoint, taken>>

\* pruneHistoricalTree refuses an index that is not beyond the checkpoint.
Prunes(index, current) == index > current

\* Mutant of TargetIndex: the oldest index that is kept becomes the checkpoint.
TargetIndexOldest(index, current) ==
    Least(index, current + MinCheckpointInterval) - PreserveRecentLeaves

TargetIndex(index, current) == Least(index, current + MinCheckpointInterval)

Pruned(trees, target) ==
    [i \in DOMAIN trees |-> IF i >= target - PreserveRecentLeaves THEN trees[i] ELSE 0]

\* pruneHistoricalTree as trees and checkpoint after it.
AfterPrune(trees, current, index) ==
    IF Prunes(index, current)
    THEN LET target == TargetIndex(index, current)
         IN  [trees |-> Pruned(trees, target), checkpoint |-> target]
    ELSE [trees |-> trees, checkpoint |-> current]

PruneHistoricalTree(index) ==
    LET after == AfterPrune(historicalTrees, currentCheckpoint, index) IN
    /\ historicalTrees' = after.trees
    /\ currentCheckpoint' = after.checkpoint
    /\ taken' = [i \in DOMAIN taken |-> IF after.trees[i] # 0 THEN taken[i] ELSE 0]
    /\ UNCHANGED activeLeaves

\* createCheckpoint, with the pruning it starts when there are too many.
CreateCheckpoint ==
    /\ activeLeaves > 0 /\ currentCheckpoint < MaxCheckpoint
    /\ LET stored == [historicalTrees EXCEPT ![currentCheckpoint] = activeLeaves]
           next   == currentCheckpoint + 1
           index  == next - MaxHistoricalDepth + MaxHistoricalDepth \div 2
           after  == IF Cardinality(Stored(stored)) > MaxHistoricalDepth
                     THEN AfterPrune(stored, next, index)
                     ELSE [trees |-> stored, checkpoint |-> next]
       IN  /\ historicalTrees' = after.trees
           /\ currentCheckpoint' = after.checkpoint
           /\ taken' = [i \in DOMAIN taken |->
                IF after.trees[i] = 0 THEN 0
                ELSE IF taken[i] = 0 THEN after.trees[i] ELSE taken[i]]
    /\ UNCHANGED activeLeaves

CompactorNext ==
    \/ AddTreeLeaf \/ CreateCheckpoint
    \/ \E index \in 0..MaxCheckpoint : PruneHistoricalTree(index)

CompactorSpec == CompactorInit /\ [][CompactorNext]_compactorVars

-----------------------------------------------------------------------------
(* Properties *)

\* A stored checkpoint is the one first taken under its index: no later
\* checkpoint overwrites it, though pruning moves the index about.
CheckpointsKept == \A i \in Stored(historicalTrees) : historicalTrees[i] = taken[i]
=============================================================================
