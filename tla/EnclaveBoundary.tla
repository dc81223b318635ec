--------------------------- MODULE EnclaveBoundary ---------------------------
(***************************************************************************)
(* The readiness of a node's enclave and what hangs on it: attestation     *)
(* documents (EnclaveProvisioner, AttestationFactory) examined by          *)
(* EnclaveBridgeService for this node, for joining nodes and for receivers *)
(* of secret shares alike, and the signing-key epochs (EnclaveKeyRotator)  *)
(* that rotate only inside a ready enclave.                                *)
(*                                                                         *)
(* All handlers here are synchronous.  A document is what its two          *)
(* measurements are worth: pcr0 and pcr1 equal to the baseline or not.     *)
(***************************************************************************)
EXTENDS Naturals, FiniteSets

CONSTANTS
    Guest,      \* nodes that are provisioned and join
    NoDoc,      \* a request without a document, or with one lacking fields
    LockedTx,   \* time-locked transactions
    MaxEpoch    \* bound: epochs

Document == [pcr0 : BOOLEAN, pcr1 : BOOLEAN]

ASSUME BoundaryAssumption == NoDoc \notin Document /\ MaxEpoch \in Nat \ {0}

VARIABLES
    ready,      \* EnclaveBridgeService.enclaveReady
    documents,  \* the document of each guest
    attestedPeers, \* EnclaveClusterService.peers
    epoch,      \* epochState.epoch; every epoch has keys of its own
    epochOf,    \* epochIndexByTxId, 0 where a transaction is not in it
    refs,       \* referencedUnspentTxIds of each epoch
    deprecated  \* deprecatedEpochs

keyVars == <<epoch, epochOf, refs, deprecated>>
boundaryVars == <<ready, documents, attestedPeers, keyVars>>

BoundaryInit ==
    /\ ready = FALSE
    /\ documents = [g \in Guest |-> NoDoc]
    /\ attestedPeers = {}
    /\ epoch = 1
    /\ epochOf = [t \in LockedTx |-> 0]
    /\ refs = [e \in 1..MaxEpoch |-> {}]
    /\ deprecated = {}

-----------------------------------------------------------------------------
(* Attestation *)

\* The factory signs with the key it puts in, so a document is what it measures.
CreateAttestationDocument(pcr0, pcr1) == [pcr0 |-> pcr0, pcr1 |-> pcr1]

ProvisionNode(g, pcr0, pcr1) ==
    /\ documents' = [documents EXCEPT ![g] = CreateAttestationDocument(pcr0, pcr1)]
    /\ UNCHANGED <<ready, attestedPeers, keyVars>>

Accepted(doc) == doc # NoDoc /\ doc.pcr0

\* verifyEnclaveAttestation: readiness after examining doc, when it was r before.
ReadyAfter(r, doc) == IF doc = NoDoc THEN r ELSE doc.pcr0

Examine(r, doc) == ready' = ReadyAfter(r, doc)

\* POST /enclave/attest.
Attest(doc) ==
    /\ Examine(ready, doc)
    /\ UNCHANGED <<documents, attestedPeers, keyVars>>

\* POST /consensus/register-peer.
RegisterPeerNode(g) ==
    /\ Examine(ready, documents[g])
    /\ attestedPeers' = IF Accepted(documents[g]) THEN attestedPeers \cup {g} ELSE attestedPeers
    /\ UNCHANGED <<documents, keyVars>>

\* POST /infrastructure/join-cluster: sets the readiness first; without an
\* accepted document, or with another configuration, nobody joins.
JoinCluster(g, doc) ==
    /\ Examine(TRUE, doc)
    /\ attestedPeers' = IF Accepted(doc) /\ doc.pcr1 THEN attestedPeers \cup {g} ELSE attestedPeers
    /\ UNCHANGED <<documents, keyVars>>

\* forwardSplitSharesToNewNode: examines the receiver's document.
ForwardShares(g) ==
    /\ ready
    /\ Examine(ready, documents[g])
    /\ UNCHANGED <<documents, attestedPeers, keyVars>>

RevokeEnclaveState ==
    /\ ready' = FALSE
    /\ UNCHANGED <<documents, attestedPeers, keyVars>>

-----------------------------------------------------------------------------
(* Signing-key epochs *)

\* A transaction registered again moves to the current epoch; the epoch it
\* was in keeps its reference.
RegisterUnspent(t) ==
    /\ epochOf' = [epochOf EXCEPT ![t] = epoch]
    /\ refs' = [refs EXCEPT ![epoch] = @ \cup {t}]
    /\ UNCHANGED <<ready, documents, attestedPeers, epoch, deprecated>>

\* Mutant of MarkTxSpent: nothing is collected.
MarkTxSpentKeep(t) ==
    /\ epochOf[t] # 0
    /\ epochOf' = [epochOf EXCEPT ![t] = 0]
    /\ refs' = [refs EXCEPT ![epochOf[t]] = @ \ {t}]
    /\ UNCHANGED <<ready, documents, attestedPeers, epoch, deprecated>>

\* markTxSpent: drops the reference, then the epochs that have none left.
MarkTxSpent(t) ==
    /\ epochOf[t] # 0
    /\ epochOf' = [epochOf EXCEPT ![t] = 0]
    /\ refs' = [refs EXCEPT ![epochOf[t]] = @ \ {t}]
    /\ deprecated' = {e \in deprecated : refs'[e] # {}}
    /\ UNCHANGED <<ready, documents, attestedPeers, epoch>>

\* Mutant of TriggerEpochRotation: one reference is taken for none.
TriggerEpochRotationLossy ==
    /\ ready /\ epoch < MaxEpoch
    /\ epoch' = epoch + 1
    /\ deprecated' = IF Cardinality(refs[epoch]) > 1 THEN deprecated \cup {epoch} ELSE deprecated
    /\ UNCHANGED <<ready, documents, attestedPeers, epochOf, refs>>

TriggerEpochRotation ==
    /\ ready /\ epoch < MaxEpoch
    /\ epoch' = epoch + 1
    /\ deprecated' = IF refs[epoch] # {} THEN deprecated \cup {epoch} ELSE deprecated
    /\ UNCHANGED <<ready, documents, attestedPeers, epochOf, refs>>

BoundaryNext ==
    \/ \E g \in Guest, pcr0, pcr1 \in BOOLEAN : ProvisionNode(g, pcr0, pcr1)
    \/ \E doc \in Document \cup {NoDoc} : Attest(doc)
    \/ \E g \in Guest :
        \/ RegisterPeerNode(g) \/ ForwardShares(g)
        \/ JoinCluster(g, documents[g])
    \/ RevokeEnclaveState
    \/ \E t \in LockedTx : RegisterUnspent(t) \/ MarkTxSpent(t)
    \/ TriggerEpochRotation

BoundarySpec == BoundaryInit /\ [][BoundaryNext]_boundaryVars

-----------------------------------------------------------------------------
(* Properties *)

BoundaryTypeOK ==
    /\ ready \in BOOLEAN
    /\ documents \in [Guest -> Document \cup {NoDoc}]
    /\ attestedPeers \subseteq Guest
    /\ epoch \in 1..MaxEpoch
    /\ epochOf \in [LockedTx -> 0..MaxEpoch]
    /\ refs \in [1..MaxEpoch -> SUBSET LockedTx]
    /\ deprecated \subseteq 1..MaxEpoch

\* getSigningPublicKeysForEpoch finds keys for these epochs.
KeysAvailable == deprecated \cup {epoch}

\* The keys an unspent time-locked transaction was registered under can still
\* be had, whatever was rotated, spent, collected or registered again since.
KeysKept == \A t \in LockedTx : epochOf[t] # 0 => epochOf[t] \in KeysAvailable

\* A past epoch is kept exactly while something refers to it: rotation keeps no
\* empty epoch and spending leaves none behind.  (triggerEpochRotation, markTxSpent)
KeptForCause ==
    \A e \in 1..MaxEpoch : e < epoch => (e \in deprecated <=> refs[e] # {})
=============================================================================
