------------------------------- MODULE CatchUp -------------------------------
(***************************************************************************)
(* POST /reconciliation/catch-up and /reconciliation/snapshot: a node that *)
(* fell behind begins a reconciliation, applies blocks or a snapshot, and  *)
(* completes it (EnclaveReconciliationEngine, EnclaveSnapshotManager).     *)
(* Each request is one synchronous step; requests arrive late, twice, out  *)
(* of order, or when no reconciliation is under way.                       *)
(*                                                                         *)
(* A block's hash covers its entries and nothing else, so a block is its   *)
(* index, the hash it claims to follow and the hash of its entries; hashes *)
(* are the contents they are taken of.  The target index of a              *)
(* reconciliation is stored and reported, never compared, and left out.    *)
(***************************************************************************)
EXTENDS Naturals, Sequences, FiniteSets, FiniteSetsExt, SequencesExt

CONSTANTS
    Entries,    \* contents of blocks and snapshots
    Genesis,    \* 'GENESIS_BLOCK'
    MaxIndex,   \* bound: indices of blocks, snapshots and the local node
    MaxHistory, \* MAX_SNAPSHOT_HISTORY
    MaxCreated, \* bound: snapshots made
    MaxSteps    \* bound: blocks and snapshots applied

ASSUME CatchUpAssumption ==
    /\ Genesis \notin Entries /\ MaxIndex \in Nat /\ MaxSteps \in Nat /\ MaxCreated \in Nat
    /\ MaxHistory \in Nat \ {0}

Hash == Entries \cup {Genesis}
BlockIndex == 1..MaxIndex
Block == [index : BlockIndex, previous : Hash, hash : Entries]
Snapshot == [latestIndex : BlockIndex, root : Entries, signers : 1..2]

VARIABLES
    reconciling,    \* reconciliationState is set
    localIndex,
    appliedBlocks,  \* blocks of this reconciliation, by index
    lastHash,       \* lastAppliedMerkleHash of the engine, never reset
    created,        \* snapshots this node made: their ids are 1, 2, ...
    snapshots, snapshotHistory, \* the ones it keeps: by id, and oldest first
    trail           \* history: everything applied since the start, in order

catchUpVars == <<reconciling, localIndex, appliedBlocks, lastHash,
                 created, snapshots, snapshotHistory, trail>>
snapshotVars == <<created, snapshots, snapshotHistory>>

CatchUpInit ==
    /\ reconciling = FALSE /\ localIndex = 0
    /\ appliedBlocks = {} /\ lastHash = Genesis
    /\ created = 0 /\ snapshots = {} /\ snapshotHistory = <<>> /\ trail = <<>>

\* BEGIN, also while a reconciliation is under way.
BeginReconciliation(i) ==
    /\ reconciling' = TRUE /\ localIndex' = i
    /\ appliedBlocks' = {}
    /\ UNCHANGED <<lastHash, snapshotVars, trail>>

ExpectedIndex ==
    IF appliedBlocks = {} THEN localIndex + 1
    ELSE Max({b.index : b \in appliedBlocks}) + 1

\* Mutant of Follows: the chain is checked within a reconciliation only.
FollowsOrFirst(b) ==
    /\ b.index = ExpectedIndex
    /\ appliedBlocks = {} \/ b.previous = lastHash

\* The tests of applyCatchUpBlock on a well-formed, signed block.
Follows(b) ==
    /\ b.index = ExpectedIndex
    /\ b.previous = lastHash

ApplyCatchUpBlock(b) ==
    /\ reconciling /\ Follows(b) /\ Len(trail) < MaxSteps
    /\ appliedBlocks' = appliedBlocks \cup {b}
    /\ lastHash' = b.hash
    /\ trail' = Append(trail, b)
    /\ UNCHANGED <<reconciling, localIndex, snapshotVars>>

\* validateSnapshot: the threshold is taken of the very signatures it is
\* compared with, so two of any are enough.
ValidSnapshot(s) ==
    LET twoThirds == (2 * s.signers + 2) \div 3
    IN  s.signers >= Max({2, twoThirds})

\* The index moves, the blocks applied so far stay.
ApplySnapshot(s) ==
    /\ reconciling /\ ValidSnapshot(s) /\ Len(trail) < MaxSteps
    /\ lastHash' = s.root
    /\ localIndex' = s.latestIndex
    /\ trail' = Append(trail, s)
    /\ UNCHANGED <<reconciling, appliedBlocks, snapshotVars>>

\* COMPLETE, wherever the reconciliation stands.
CompleteReconciliation ==
    /\ reconciling /\ reconciling' = FALSE
    /\ UNCHANGED <<localIndex, appliedBlocks, lastHash, snapshotVars, trail>>

\* createSnapshot: at the limit the oldest leaves the history and the map.
CreateSnapshot ==
    LET h == Append(snapshotHistory, created + 1)
        full == Len(h) > MaxHistory
    IN  /\ created < MaxCreated /\ created' = created + 1
        /\ snapshots' = (snapshots \cup {created + 1}) \ (IF full THEN {Head(h)} ELSE {})
        /\ snapshotHistory' = IF full THEN Tail(h) ELSE h
        /\ UNCHANGED <<reconciling, localIndex, appliedBlocks, lastHash, trail>>

CatchUpNext ==
    \/ \E i \in 0..MaxIndex : BeginReconciliation(i)
    \/ \E b \in Block : ApplyCatchUpBlock(b)
    \/ \E s \in Snapshot : ApplySnapshot(s)
    \/ CreateSnapshot
    \/ CompleteReconciliation

CatchUpSpec == CatchUpInit /\ [][CatchUpNext]_catchUpVars

-----------------------------------------------------------------------------
(* Properties *)

HashOf(x) == IF "root" \in DOMAIN x THEN x.root ELSE x.hash

\* Everything ever applied forms one hash chain from the genesis block: each
\* block follows what was applied just before it, across restarted, abandoned
\* and completed reconciliations and the snapshots between them; and the blocks
\* of one reconciliation have consecutive indices, each once: a repeated or
\* reordered request is refused, not applied again.
ChainUnbroken ==
    /\ lastHash = IF trail = <<>> THEN Genesis ELSE HashOf(Last(trail))
    /\ \A k \in DOMAIN trail : "previous" \in DOMAIN trail[k] =>
        trail[k].previous = IF k = 1 THEN Genesis ELSE HashOf(trail[k - 1])
    /\ LET indices == {b.index : b \in appliedBlocks} IN
        /\ Cardinality(indices) = Cardinality(appliedBlocks)
        /\ indices # {} => indices = Min(indices)..Max(indices)
=============================================================================
