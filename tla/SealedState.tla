----------------------------- MODULE SealedState -----------------------------
(***************************************************************************)
(* Sealed blobs and their migration to a new code measurement:             *)
(* EnclaveSealingEngine, EnclaveMigrationManager, the active sealing       *)
(* context of DatabaseService and POST /infrastructure/upgrade-state-      *)
(* enclave.  The route has no await: a migration is one step.              *)
(*                                                                         *)
(* Salt, key, key id and AAD are functions of policy and platform, so a    *)
(* blob is these two; it opens where all three platform ids are its own,   *)
(* whatever the policy.                                                    *)
(***************************************************************************)
EXTENDS Naturals, FiniteSets

CONSTANTS
    Cpu, Signer, Measurement, \* platform ids: cpu, MRSIGNER, MRENCLAVE
    NoBlob,
    MaxBlobs    \* bound: blobs that nodes seal

Policy == {"MRENCLAVE", "MRSIGNER"}
Platform == [cpu : Cpu, mrsigner : Signer, mrenclave : Measurement]
Blob == [policy : Policy, platform : Platform]

ASSUME SealedAssumption == NoBlob \notin Blob /\ MaxBlobs \in Nat

VARIABLES
    context,    \* activeSealingContext, or the environment's before it is set
    blobs,      \* blobs that exist, here or elsewhere
    latest      \* history: the blob the last successful migration returned

sealedVars == <<context, blobs, latest>>

SealedInit ==
    /\ context \in Platform
    /\ blobs = {} /\ latest = NoBlob

SealData(platform, policy) == [policy |-> policy, platform |-> platform]

\* Mutant of Opens: the signer alone decides, under either policy.
OpensBySigner(platform, blob) == blob.platform.mrsigner = platform.mrsigner

\* unsealData under a platform; a blob taken to another cpu does not open.
Opens(platform, blob) == blob.platform = platform

\* A node, this one or another, seals some state.
Seal(platform, policy) ==
    /\ Cardinality(blobs) < MaxBlobs
    /\ blobs' = blobs \cup {SealData(platform, policy)}
    /\ UNCHANGED <<context, latest>>

\* The old blob is opened on this cpu, under the signer and measurement it names.
OldPlatform(blob) == [blob.platform EXCEPT !.cpu = context.cpu]

\* Mutant of NewContext: the node goes on under its old measurement.
NewContextStale(trusted, target) == [context EXCEPT !.mrsigner = trusted]

\* setActiveSealingContext after a migration.
NewContext(trusted, target) ==
    [context EXCEPT !.mrsigner = trusted, !.mrenclave = target]

Reseal(blob, trusted, target) ==
    SealData([cpu |-> context.cpu, mrsigner |-> trusted, mrenclave |-> target], blob.policy)

\* The route with a package whose signature holds; named is its MRSIGNER.
Upgrade(blob, named, trusted, target) ==
    /\ named = trusted /\ blob.platform.mrsigner = trusted
    /\ Opens(OldPlatform(blob), blob)
    /\ latest' = Reseal(blob, trusted, target)
    /\ blobs' = blobs \cup {latest'}
    /\ context' = NewContext(trusted, target)

SealedNext ==
    \/ \E p \in Platform, y \in Policy : Seal(p, y)
    \/ \E b \in blobs, named, trusted \in Signer, target \in Measurement :
        Upgrade(b, named, trusted, target)

SealedSpec == SealedInit /\ [][SealedNext]_sealedVars

-----------------------------------------------------------------------------
(* Properties *)

\* What the last successful migration returned opens under the active context,
\* under the policy it was sealed with before, on the cpu that migrated it;
\* refused migrations in between disturb neither.
LatestBlobOpens == latest # NoBlob => Opens(context, latest)

\* A migration hands no state to another signer or cpu: they never change.
AuthorityStays ==
    [][latest' # latest \/ context' # context =>
        /\ context'.cpu = context.cpu
        /\ \E b \in blobs : /\ b.platform.mrsigner = latest'.platform.mrsigner
                            /\ b.platform.cpu = latest'.platform.cpu
                            /\ b.policy = latest'.policy]_sealedVars
=============================================================================
