---------------------------- MODULE EnclaveProofs ----------------------------
(***************************************************************************)
(* Proofs about the enclave's side of the system: the key epochs of        *)
(* EnclaveBoundary, the blobs of SealedState, the shares of ColdRecovery   *)
(* and the connections of VsockBridge, which have no state in common.      *)
(* They hold for any number of transactions, rotations, blobs, platforms,  *)
(* shares and connections.                                                 *)
(***************************************************************************)
EXTENDS EnclaveBoundary, SealedState, ColdRecovery, VsockBridge, Induction,
        FiniteSetTheorems, TLAPS

-----------------------------------------------------------------------------
(* Key epochs *)

\* The first state of the enclave has its type.
LEMMA InitBoundaryType == BoundaryInit => BoundaryTypeOK
<1>. SUFFICES ASSUME BoundaryInit PROVE BoundaryTypeOK
    OBVIOUS
<1>1. ready \in BOOLEAN /\ documents \in [Guest -> Document \cup {NoDoc}]
      /\ attestedPeers \subseteq Guest /\ deprecated \subseteq 1..MaxEpoch
    BY DEF BoundaryInit
<1>2. 1 \in 1..MaxEpoch /\ 0 \in 0..MaxEpoch
    BY BoundaryAssumption
<1>3. epoch \in 1..MaxEpoch /\ epochOf \in [LockedTx -> 0..MaxEpoch]
    BY <1>2 DEF BoundaryInit
<1>4. refs \in [1..MaxEpoch -> SUBSET LockedTx]
    BY DEF BoundaryInit
<1>. QED  BY <1>1, <1>3, <1>4 DEF BoundaryTypeOK

\* An attestation is a document.
LEMMA DocumentType ==
    \A pcr0, pcr1 \in BOOLEAN : CreateAttestationDocument(pcr0, pcr1) \in Document
BY DEF CreateAttestationDocument, Document

\* Examining a document leaves the enclave ready or not.
LEMMA ExamineType ==
    ASSUME NEW r \in BOOLEAN, NEW doc \in Document \cup {NoDoc}
    PROVE  ReadyAfter(r, doc) \in BOOLEAN
<1>1. CASE doc = NoDoc
    BY <1>1 DEF ReadyAfter
<1>2. CASE doc # NoDoc
    BY <1>2 DEF ReadyAfter, Document
<1>. QED  BY <1>1, <1>2

\* The steps that leave the keys alone keep the types of what they change.
LEMMA AttestationType ==
    ASSUME BoundaryTypeOK, NEW g \in Guest,
           \/ \E pcr0, pcr1 \in BOOLEAN : ProvisionNode(g, pcr0, pcr1)
           \/ RegisterPeerNode(g)
           \/ ForwardShares(g)
           \/ JoinCluster(g, documents[g])
    PROVE  BoundaryTypeOK' /\ UNCHANGED keyVars
<1>. USE DEF keyVars
<1>0. documents[g] \in Document \cup {NoDoc} /\ ready \in BOOLEAN
    BY DEF BoundaryTypeOK
<1>1. CASE \E pcr0, pcr1 \in BOOLEAN : ProvisionNode(g, pcr0, pcr1)
    BY <1>1, DocumentType DEF ProvisionNode, BoundaryTypeOK
<1>2. CASE RegisterPeerNode(g)
    BY <1>0, <1>2, ExamineType DEF RegisterPeerNode, Examine, BoundaryTypeOK
<1>3. CASE ForwardShares(g)
    BY <1>0, <1>3, ExamineType DEF ForwardShares, Examine, BoundaryTypeOK
<1>4. CASE JoinCluster(g, documents[g])
    BY <1>0, <1>4, ExamineType DEF JoinCluster, Examine, BoundaryTypeOK
<1>. QED  BY <1>1, <1>2, <1>3, <1>4
-----------------------------------------------------------------------------
(* The invariant *)

\* The index and the references of the epochs agree, and only past epochs are
\* kept.  A transaction registered again leaves a reference behind, so the
\* converse of the first conjunct does not hold.
RefsAgree ==
    /\ \A t \in LockedTx : epochOf[t] # 0 => epochOf[t] <= epoch /\ t \in refs[epochOf[t]]
    /\ \A e \in deprecated : e < epoch

\* The inductive invariant of the epochs.
EpochInv == BoundaryTypeOK /\ RefsAgree /\ KeptForCause

\* The invariant of the epochs holds at first.
LEMMA InitEpoch == BoundaryInit => EpochInv
<1>. SUFFICES ASSUME BoundaryInit PROVE RefsAgree /\ KeptForCause
    BY InitBoundaryType DEF EpochInv
<1>1. RefsAgree
    BY DEF BoundaryInit, RefsAgree
<1>2. KeptForCause
    BY DEF BoundaryInit, KeptForCause
<1>. QED  BY <1>1, <1>2

\* Registering an unspent transaction keeps the invariant.
LEMMA RegisterKeeps ==
    ASSUME EpochInv, NEW t \in LockedTx, RegisterUnspent(t)
    PROVE  EpochInv'
<1>. USE DEF EpochInv
<1>1. BoundaryTypeOK'
    BY BoundaryAssumption DEF BoundaryTypeOK, RegisterUnspent
<1>2. RefsAgree'
    BY BoundaryAssumption DEF BoundaryTypeOK, RegisterUnspent, RefsAgree
<1>3. KeptForCause'
    BY BoundaryAssumption DEF BoundaryTypeOK, RegisterUnspent, KeptForCause
<1>. QED  BY <1>1, <1>2, <1>3

\* Spending one keeps it: the epoch's keys go only with its last transaction.
LEMMA SpendKeeps ==
    ASSUME EpochInv, NEW t \in LockedTx, MarkTxSpent(t)
    PROVE  EpochInv'
<1>. USE DEF EpochInv
<1>0. epochOf[t] \in 1..MaxEpoch
    BY BoundaryAssumption DEF BoundaryTypeOK, MarkTxSpent
<1>1. BoundaryTypeOK'
    <2>1. epochOf' \in [LockedTx -> 0..MaxEpoch]
        BY BoundaryAssumption DEF BoundaryTypeOK, MarkTxSpent
    <2>2. refs' \in [1..MaxEpoch -> SUBSET LockedTx]
        BY <1>0 DEF BoundaryTypeOK, MarkTxSpent
    <2>3. deprecated' \subseteq 1..MaxEpoch
        BY DEF BoundaryTypeOK, MarkTxSpent
    <2>. QED  BY <2>1, <2>2, <2>3 DEF BoundaryTypeOK, MarkTxSpent
<1>2. RefsAgree'
    BY <1>0, BoundaryAssumption DEF BoundaryTypeOK, MarkTxSpent, RefsAgree
<1>3. KeptForCause'
    BY <1>0, BoundaryAssumption DEF BoundaryTypeOK, MarkTxSpent, KeptForCause
<1>. QED  BY <1>1, <1>2, <1>3

\* Rotating the epoch keeps it.
LEMMA RotationKeeps ==
    ASSUME EpochInv, TriggerEpochRotation
    PROVE  EpochInv'
<1>. USE DEF EpochInv
<1>1. BoundaryTypeOK'
    BY BoundaryAssumption DEF BoundaryTypeOK, TriggerEpochRotation
<1>2. RefsAgree'
    BY BoundaryAssumption DEF BoundaryTypeOK, TriggerEpochRotation, RefsAgree
<1>3. KeptForCause'
    BY BoundaryAssumption DEF BoundaryTypeOK, TriggerEpochRotation, KeptForCause, RefsAgree
<1>. QED  BY <1>1, <1>2, <1>3

\* So does a step that leaves the keys alone.
LEMMA QuietKeeps ==
    ASSUME EpochInv, BoundaryTypeOK', UNCHANGED keyVars
    PROVE  EpochInv'
BY DEF EpochInv, keyVars, RefsAgree, KeptForCause

\* Every step keeps the invariant of the epochs.
LEMMA NextEpoch == EpochInv /\ [BoundaryNext]_boundaryVars => EpochInv'
<1>. SUFFICES ASSUME EpochInv, [BoundaryNext]_boundaryVars PROVE EpochInv'
    OBVIOUS
<1>0. BoundaryTypeOK
    BY DEF EpochInv
<1>1. CASE \E g \in Guest : \/ \E pcr0, pcr1 \in BOOLEAN : ProvisionNode(g, pcr0, pcr1)
                            \/ RegisterPeerNode(g) \/ ForwardShares(g)
                            \/ JoinCluster(g, documents[g])
    BY <1>0, <1>1, AttestationType, QuietKeeps
<1>2. CASE \/ \E doc \in Document \cup {NoDoc} : Attest(doc)
           \/ RevokeEnclaveState
    <2>1. BoundaryTypeOK' /\ UNCHANGED keyVars
        BY <1>0, <1>2, ExamineType
        DEF BoundaryTypeOK, Attest, Examine, RevokeEnclaveState, keyVars
    <2>. QED  BY <2>1, QuietKeeps
<1>3. CASE \E t \in LockedTx : RegisterUnspent(t) \/ MarkTxSpent(t)
    BY <1>3, RegisterKeeps, SpendKeeps
<1>4. CASE TriggerEpochRotation
    BY <1>4, RotationKeeps
<1>5. CASE UNCHANGED boundaryVars
    <2>1. BoundaryTypeOK' /\ UNCHANGED keyVars
        BY <1>0, <1>5 DEF BoundaryTypeOK, boundaryVars, keyVars
    <2>. QED  BY <2>1, QuietKeeps
<1>. QED  BY <1>1, <1>2, <1>3, <1>4, <1>5 DEF BoundaryNext

\* However registrations, spendings and rotations follow each other, a past key
\* epoch is kept exactly while something refers to it.
THEOREM EpochsKeptForCause == BoundarySpec => []KeptForCause
<1>1. EpochInv => KeptForCause
    BY DEF EpochInv
<1>. QED  BY <1>1, InitEpoch, NextEpoch, PTL DEF BoundarySpec

\* The keys an unspent transaction was registered under can be had until it is
\* spent: its epoch is the current one or has its reference, and so is kept.
THEOREM UnspentKeysAreKept == BoundarySpec => []KeysKept
<1>1. EpochInv => KeysKept
    BY BoundaryAssumption
    DEF EpochInv, BoundaryTypeOK, RefsAgree, KeptForCause, KeysKept, KeysAvailable
<1>. QED  BY <1>1, InitEpoch, NextEpoch, PTL DEF BoundarySpec

-----------------------------------------------------------------------------
(* Sealed blobs *)

\* The platform ids of the context, of every blob and of the latest one.
SealedTypeOK ==
    /\ context \in Platform
    /\ blobs \subseteq Blob
    /\ latest \in Blob \cup {NoBlob}

\* The inductive invariant of the sealed blobs.
SealedInv == SealedTypeOK /\ LatestBlobOpens

\* What a migration leaves: the blob and the context name the same platform, and
\* a blob that opened on this cpu was sealed on it.
LEMMA UpgradeFacts ==
    ASSUME SealedTypeOK, NEW b \in blobs, NEW named \in Signer, NEW trusted \in Signer,
           NEW target \in Measurement, Upgrade(b, named, trusted, target)
    PROVE  /\ latest' \in Blob /\ context' \in Platform /\ latest'.platform = context'
           /\ blobs' = blobs \cup {latest'}
           /\ context'.cpu = context.cpu /\ context'.mrsigner = trusted
           /\ b.platform.cpu = context.cpu /\ b.platform.mrsigner = trusted
           /\ latest'.policy = b.policy
<1>. DEFINE p == [cpu |-> context.cpu, mrsigner |-> trusted, mrenclave |-> target]
<1>1. /\ context \in Platform /\ b \in Blob /\ b.platform \in Platform /\ b.policy \in Policy
    BY DEF SealedTypeOK, Blob
<1>2. context' = p
    BY <1>1 DEF Upgrade, NewContext, Platform
<1>3. latest' = [policy |-> b.policy, platform |-> p]
    BY DEF Upgrade, Reseal, SealData
<1>4. p \in Platform /\ p.cpu = context.cpu /\ p.mrsigner = trusted
    BY <1>1 DEF Platform
<1>5. b.platform.cpu = context.cpu
    <2>1. b.platform = [b.platform EXCEPT !.cpu = context.cpu]
        BY DEF Upgrade, Opens, OldPlatform
    <2>. QED  BY <1>1, <2>1 DEF Platform
<1>6. blobs' = blobs \cup {latest'} /\ b.platform.mrsigner = trusted
    BY DEF Upgrade
<1>. HIDE DEF p
<1>. QED  BY <1>1, <1>2, <1>3, <1>4, <1>5, <1>6 DEF Blob

\* No step, a refused migration included, parts the latest blob from the context.
LEMMA SealedStep == SealedInv /\ [SealedNext]_sealedVars => SealedInv'
<1>. SUFFICES ASSUME SealedInv, [SealedNext]_sealedVars
              PROVE  SealedInv'
    OBVIOUS
<1>1. ASSUME NEW p \in Platform, NEW y \in Policy, Seal(p, y)
      PROVE  SealedInv'
    <2>1. SealData(p, y) \in Blob
        BY DEF SealData, Blob
    <2>2. blobs' = blobs \cup {SealData(p, y)} /\ UNCHANGED <<context, latest>>
        BY <1>1 DEF Seal
    <2>. QED  BY <2>1, <2>2 DEF SealedInv, SealedTypeOK, LatestBlobOpens, Opens
<1>2. ASSUME NEW b \in blobs, NEW named \in Signer, NEW trusted \in Signer,
             NEW target \in Measurement, Upgrade(b, named, trusted, target)
      PROVE  SealedInv'
    <2>1. /\ latest' \in Blob /\ context' \in Platform /\ latest'.platform = context'
          /\ blobs' = blobs \cup {latest'}
        BY <1>2, UpgradeFacts DEF SealedInv
    <2>. QED  BY <2>1 DEF SealedInv, SealedTypeOK, LatestBlobOpens, Opens
<1>3. CASE UNCHANGED sealedVars
    BY <1>3 DEF sealedVars, SealedInv, SealedTypeOK, LatestBlobOpens, Opens
<1>. QED  BY <1>1, <1>2, <1>3 DEF SealedNext

\* The invariant of the sealed blobs holds throughout.
LEMMA SealedAlways == SealedSpec => []SealedInv
<1>1. SealedInit => SealedInv
    BY DEF SealedInit, SealedInv, SealedTypeOK, LatestBlobOpens
<1>. QED  BY <1>1, SealedStep, PTL DEF SealedSpec

\* What the last successful migration returned opens under the active sealing
\* context, for any platforms and any sequence of seals and migrations.
THEOREM MigratedBlobOpens == SealedSpec => []LatestBlobOpens
BY SealedAlways, PTL DEF SealedInv

\* A migration keeps the cpu, and gives the blob to the signer, cpu and policy of
\* one that was there.
THEOREM AuthorityIsKept == SealedSpec => AuthorityStays
<1>. DEFINE Keeps == latest' # latest \/ context' # context =>
        /\ context'.cpu = context.cpu
        /\ \E b \in blobs : /\ b.platform.mrsigner = latest'.platform.mrsigner
                            /\ b.platform.cpu = latest'.platform.cpu
                            /\ b.policy = latest'.policy
<1>1. SealedInv /\ [SealedNext]_sealedVars => [Keeps]_sealedVars
    <2>. SUFFICES ASSUME SealedInv, SealedNext, latest' # latest \/ context' # context
                  PROVE  /\ context'.cpu = context.cpu
                         /\ \E b \in blobs :
                            /\ b.platform.mrsigner = latest'.platform.mrsigner
                            /\ b.platform.cpu = latest'.platform.cpu
                            /\ b.policy = latest'.policy
        OBVIOUS
    <2>1. PICK b \in blobs, named \in Signer, trusted \in Signer, target \in Measurement :
            Upgrade(b, named, trusted, target)
        BY DEF SealedNext, Seal
    <2>2. /\ latest'.platform = context'
          /\ context'.cpu = context.cpu /\ context'.mrsigner = trusted
          /\ b.platform.cpu = context.cpu /\ b.platform.mrsigner = trusted
          /\ latest'.policy = b.policy
        BY <2>1, UpgradeFacts DEF SealedInv
    <2>. QED  BY <2>2
<1>. QED  BY <1>1, SealedAlways, PTL DEF SealedSpec, AuthorityStays

-----------------------------------------------------------------------------
(* Connections to the host *)

\* The type of the adapter's state.
VsockTypeOK ==
    /\ connections \subseteq Conn /\ timer \subseteq Conn
    /\ state \in [Conn -> {"NONE", "CONNECTING", "CONNECTED", "DISCONNECTED", "ERROR"}]
    /\ socket \in [Conn -> {"none", "connecting", "open", "destroyed", "closed"}]

\* What the map's connections have in common, whether or not a send is due.
InMap(c) ==
    c \in connections => socket[c] # "closed" /\ (state[c] = "CONNECTED" => socket[c] = "open")

\* The inductive invariant of the connections.
VsockInv == VsockTypeOK /\ \A c \in Conn : InMap(c)

\* A listener or a timer of one connection leaves the others alone.
LEMMA OtherConnections ==
    ASSUME VsockInv, NEW c \in Conn,
           \A d \in Conn : d # c =>
                /\ socket'[d] = socket[d] /\ state'[d] = state[d]
                /\ d \in connections' => d \in connections,
           InMap(c)'
    PROVE  \A d \in Conn : InMap(d)'
BY DEF VsockInv, InMap

\* Destroying sockets leaves the others as they are and reopens none.
LEMMA DestroyedType ==
    ASSUME VsockTypeOK, NEW cs
    PROVE  /\ Destroyed(cs) \in [Conn -> {"none", "connecting", "open", "destroyed", "closed"}]
           /\ \A c \in Conn : c \notin cs => Destroyed(cs)[c] = socket[c]
           /\ \A c \in Conn : Destroyed(cs)[c] = "closed" => socket[c] = "closed"
BY DEF VsockTypeOK, Destroyed

\* Every step of a connection keeps the invariant.
LEMMA VsockStep == VsockInv /\ [VsockNext]_vsockVars => VsockInv'
<1>. SUFFICES ASSUME VsockInv, [VsockNext]_vsockVars
              PROVE  VsockInv'
    OBVIOUS
<1>0. VsockTypeOK /\ \A c \in Conn : InMap(c)
    BY DEF VsockInv
<1>1. CASE Start
    BY <1>1 DEF Start, VsockInv, VsockTypeOK, InMap
<1>2. ASSUME NEW cs \in SUBSET Conn, CloseConnections(cs)
      PROVE  VsockInv'
    <2>. DEFINE s == Destroyed(cs)
    <2>1. /\ s \in [Conn -> {"none", "connecting", "open", "destroyed", "closed"}]
          /\ \A c \in Conn : c \notin cs => s[c] = socket[c]
        BY <1>0, DestroyedType
    <2>. HIDE DEF s
    <2>2. /\ socket' = s /\ connections' = connections \ cs /\ timer' = timer
          /\ state' = [c \in Conn |-> IF c \in cs THEN "DISCONNECTED" ELSE state[c]]
        BY <1>2 DEF CloseConnections, s
    <2>3. VsockTypeOK'
        BY <1>0, <2>1, <2>2 DEF VsockTypeOK
    <2>4. \A c \in Conn : InMap(c)'
        BY <1>0, <2>1, <2>2 DEF InMap
    <2>. QED  BY <2>3, <2>4 DEF VsockInv
<1>3. ASSUME Stop \/ \E c \in Conn : Disconnect(c)
      PROVE  VsockInv'
    <2>1. connections \in SUBSET Conn
        BY <1>0 DEF VsockTypeOK
    <2>. QED  BY <1>2, <1>3, <2>1 DEF Stop, Disconnect
<1>4. ASSUME NEW c \in Conn, Connect(c)
      PROVE  VsockInv'
    <2>1. VsockTypeOK'
        BY <1>0, <1>4 DEF Connect, VsockTypeOK
    <2>2. InMap(c)'
        BY <1>0, <1>4 DEF Connect, VsockTypeOK, InMap
    <2>3. \A d \in Conn : d # c =>
            /\ socket'[d] = socket[d] /\ state'[d] = state[d]
            /\ d \in connections' => d \in connections
        BY <1>0, <1>4 DEF Connect, VsockTypeOK
    <2>. QED  BY <2>1, <2>2, <2>3, OtherConnections DEF VsockInv
<1>5. ASSUME NEW c \in Conn, Connected(c)
      PROVE  VsockInv'
    <2>1. VsockTypeOK'
        BY <1>0, <1>5 DEF Connected, VsockTypeOK
    <2>2. InMap(c)'
        BY <1>0, <1>5 DEF Connected, VsockTypeOK, InMap
    <2>3. \A d \in Conn : d # c =>
            /\ socket'[d] = socket[d] /\ state'[d] = state[d]
            /\ d \in connections' => d \in connections
        BY <1>0, <1>5 DEF Connected, VsockTypeOK
    <2>. QED  BY <2>1, <2>2, <2>3, OtherConnections DEF VsockInv
<1>6. ASSUME NEW c \in Conn, Closed(c)
      PROVE  VsockInv'
    <2>1. VsockTypeOK'
        BY <1>0, <1>6 DEF Closed, VsockTypeOK
    <2>2. InMap(c)'
        BY <1>6 DEF Closed, InMap
    <2>3. \A d \in Conn : d # c =>
            /\ socket'[d] = socket[d] /\ state'[d] = state[d]
            /\ d \in connections' => d \in connections
        BY <1>0, <1>6 DEF Closed, VsockTypeOK
    <2>. QED  BY <2>1, <2>2, <2>3, OtherConnections DEF VsockInv
<1>7. ASSUME NEW c \in Conn, Timeout(c)
      PROVE  VsockInv'
    <2>. DEFINE s == Destroyed({c})
    <2>1. /\ s \in [Conn -> {"none", "connecting", "open", "destroyed", "closed"}]
          /\ \A d \in Conn : d # c => s[d] = socket[d]
          /\ s[c] = "closed" => socket[c] = "closed"
        BY <1>0, DestroyedType
    <2>. HIDE DEF s
    <2>2. /\ socket' = s /\ state' = [state EXCEPT ![c] = "ERROR"] /\ timer' = timer \ {c}
          /\ UNCHANGED connections
        BY <1>7 DEF Timeout, s
    <2>3. VsockTypeOK'
        BY <1>0, <2>1, <2>2 DEF VsockTypeOK
    <2>4. InMap(c)'
        BY <1>0, <2>1, <2>2 DEF VsockTypeOK, InMap
    <2>5. \A d \in Conn : d # c =>
            /\ socket'[d] = socket[d] /\ state'[d] = state[d]
            /\ d \in connections' => d \in connections
        BY <1>0, <2>1, <2>2 DEF VsockTypeOK
    <2>. QED  BY <2>3, <2>4, <2>5, OtherConnections DEF VsockInv
<1>8. CASE UNCHANGED vsockVars
    BY <1>8 DEF vsockVars, VsockInv, VsockTypeOK, InMap
<1>. QED  BY <1>1, <1>3, <1>4, <1>5, <1>6, <1>7, <1>8 DEF VsockNext

\* send() writes to open sockets only and closed ones leave the map, whatever the
\* order of connects, closes, timeouts, disconnects and stops of any connections.
THEOREM OnlyOpenSocketsAreUsed == VsockSpec => []OnlyOpenIsUsed
<1>1. VsockInit => VsockInv
    BY DEF VsockInit, VsockInv, VsockTypeOK, InMap
<1>2. VsockInv => OnlyOpenIsUsed
    BY DEF VsockInv, VsockTypeOK, InMap, OnlyOpenIsUsed, Sendable
<1>. QED  BY <1>1, <1>2, VsockStep, PTL DEF VsockSpec

-----------------------------------------------------------------------------
(* Recovery from shares *)

\* The places of usable shares, and the nodes that sent one.
UsableAt(shares) == {i \in DOMAIN shares : Usable(shares[i])}
SendersOf(shares) ==
    {n \in Holder : \E i \in DOMAIN shares : shares[i].nodeId = n /\ Usable(shares[i])}

\* What a share that arrived consists of.
LEMMA ShareTypes ==
    ASSUME NEW shares \in Seq(Share)
    PROVE  \A i \in DOMAIN shares :
               i \in Nat /\ shares[i].nodeId \in Holder /\ shares[i].shareIndex \in Nat
<1>. TAKE i \in DOMAIN shares
<1>1. shares[i] \in Share /\ i \in Nat
    OBVIOUS
<1>2. \A s \in Share : s.nodeId \in Holder /\ s.shareIndex \in Nat
    BY RecoveryAssumption DEF Share
<1>. QED  BY <1>1, <1>2

\* The shares in the map are finitely many, and are usable.
LEMMA DistinctFacts ==
    ASSUME NEW shares \in Seq(Share)
    PROVE  /\ Distinct(shares) \subseteq UsableAt(shares)
           /\ UsableAt(shares) \subseteq 1..Len(shares) /\ Len(shares) \in Nat
           /\ IsFiniteSet(Distinct(shares)) /\ IsFiniteSet(UsableAt(shares))
           /\ Cardinality(Distinct(shares)) \in Nat /\ Cardinality(UsableAt(shares)) \in Nat
<1>1. /\ Distinct(shares) \subseteq UsableAt(shares)
      /\ UsableAt(shares) \subseteq 1..Len(shares) /\ Len(shares) \in Nat
    BY DEF Distinct, UsableAt
<1>2. IsFiniteSet(1..Len(shares))
    BY <1>1, FS_Interval
<1>3. IsFiniteSet(Distinct(shares)) /\ IsFiniteSet(UsableAt(shares))
    BY <1>1, <1>2, FS_Subset
<1>. QED  BY <1>1, <1>3, FS_CardinalityType

\* The map holds one share for every node that sent a usable one.
LEMMA OneShareOfEverySender ==
    ASSUME NEW shares \in Seq(Share)
    PROVE  Cardinality(Distinct(shares)) = Cardinality(SendersOf(shares))
<1>. DEFINE D == Distinct(shares)
            S == SendersOf(shares)
            f == [i \in D |-> shares[i].nodeId]
<1>0. \A i \in DOMAIN shares : i \in Nat /\ shares[i].nodeId \in Holder
    BY ShareTypes
<1>1. f \in [D -> S]
    BY <1>0 DEF Distinct, SendersOf
<1>2. \A i, j \in D : f[i] = f[j] => i = j
    <2>. SUFFICES ASSUME NEW i \in D, NEW j \in D, i < j, f[i] = f[j]
                  PROVE  FALSE
        <3>1. \A i, j \in D : i \in Nat /\ j \in Nat
            BY <1>0 DEF Distinct
        <3>. QED  BY <3>1
    <2>1. i \in Nat /\ j \in Nat /\ i >= 1 /\ Usable(shares[i])
        BY DEF Distinct
    <2>2. i \in 1..(j - 1)
        BY <2>1
    <2>3. shares[i].nodeId # shares[j].nodeId
        BY <2>1, <2>2 DEF Distinct
    <2>. QED  BY <2>3
<1>3. \A n \in S : \E i \in D : f[i] = n
    <2>. TAKE n \in S
    <2>. DEFINE P == {i \in DOMAIN shares : shares[i].nodeId = n /\ Usable(shares[i])}
    <2>1. P # {} /\ P \in SUBSET Nat
        BY <1>0 DEF SendersOf
    <2>2. PICK i \in P : \A j \in P : i <= j
        BY <2>1, LeastNatural
    <2>3. i \in D
        <3>. SUFFICES ASSUME NEW j \in 1..(i - 1), Usable(shares[j])
                      PROVE  shares[j].nodeId # shares[i].nodeId
            BY <2>2 DEF Distinct
        <3>1. j \in DOMAIN shares /\ ~(i <= j)
            BY <2>2
        <3>. QED  BY <2>2, <3>1
    <2>. QED  BY <2>2, <2>3
<1>4. f \in Surjection(D, S) /\ f \in Injection(D, S)
    <2>. HIDE DEF f, D, S
    <2>. QED  BY <1>1, <1>2, <1>3 DEF Surjection, Injection, IsInjective
<1>. QED  BY <1>4, DistinctFacts, FS_Surjection

\* Of shares that are apart, the map holds all that are usable.
LEMMA ApartAllKept ==
    ASSUME NEW shares \in Seq(Share), Apart(shares)
    PROVE  Distinct(shares) = UsableAt(shares)
<1>. SUFFICES ASSUME NEW i \in DOMAIN shares, Usable(shares[i]),
                     NEW j \in 1..(i - 1), Usable(shares[j])
              PROVE  shares[j].nodeId # shares[i].nodeId
    BY DEF Distinct, UsableAt
<1>1. j \in DOMAIN shares /\ i # j
    OBVIOUS
<1>. QED  BY <1>1 DEF Apart

\* The usable shares whose index is not above that of share i.
NotAbove(shares, i) == {j \in UsableAt(shares) : shares[j].shareIndex <= shares[i].shareIndex}

\* Of shares that are apart, those are the ones that do not come after share i.
LEMMA ApartUpTo ==
    ASSUME NEW shares \in Seq(Share), Apart(shares), NEW i \in UsableAt(shares)
    PROVE  /\ UpToShare(shares, i) = NotAbove(shares, i)
           /\ NotAbove(shares, i) \in SUBSET UsableAt(shares) /\ i \in NotAbove(shares, i)
           /\ IsFiniteSet(NotAbove(shares, i)) /\ Cardinality(NotAbove(shares, i)) \in Nat
           /\ Cardinality(NotAbove(shares, i)) \in 1..Cardinality(UsableAt(shares))
<1>1. \A j \in UsableAt(shares) : j \in Nat /\ shares[j].shareIndex \in Nat
    BY ShareTypes DEF UsableAt
<1>2. \A j \in UsableAt(shares) : shares[j].shareIndex = shares[i].shareIndex => j = i
    BY DEF Apart, UsableAt
<1>3. UpToShare(shares, i) = NotAbove(shares, i)
    BY <1>1, <1>2, ApartAllKept DEF UpToShare, NotAbove
<1>4. NotAbove(shares, i) \in SUBSET UsableAt(shares) /\ i \in NotAbove(shares, i)
    BY <1>1 DEF NotAbove
<1>5. /\ IsFiniteSet(NotAbove(shares, i)) /\ Cardinality(NotAbove(shares, i)) \in Nat
      /\ Cardinality(NotAbove(shares, i)) <= Cardinality(UsableAt(shares))
      /\ Cardinality(NotAbove(shares, i)) # 0 /\ Cardinality(UsableAt(shares)) \in Nat
    BY <1>4, DistinctFacts, SizeFacts
<1>. QED  BY <1>3, <1>4, <1>5

\* Of shares that are apart, every place of the sorted list belongs to one share.
LEMMA ApartPlaces ==
    ASSUME NEW shares \in Seq(Share), Apart(shares),
           NEW k \in 1..Cardinality(UsableAt(shares))
    PROVE  /\ \E i \in UsableAt(shares) : Cardinality(NotAbove(shares, i)) = k
           /\ \A i, j \in UsableAt(shares) :
                  Cardinality(NotAbove(shares, i)) = k /\ Cardinality(NotAbove(shares, j)) = k
                      => i = j
<1>. DEFINE U == UsableAt(shares)
            c == Cardinality(U)
            f == [i \in U |-> Cardinality(NotAbove(shares, i))]
<1>0. c \in Nat /\ IsFiniteSet(U)
    BY DistinctFacts
<1>1. f \in [U -> 1..c]
    BY ApartUpTo
<1>2. ASSUME NEW i \in U, NEW j \in U, shares[i].shareIndex < shares[j].shareIndex
      PROVE  Cardinality(NotAbove(shares, i)) # Cardinality(NotAbove(shares, j))
    <2>. DEFINE A == NotAbove(shares, i)
                B == NotAbove(shares, j)
    <2>1. \A x \in U : shares[x].shareIndex \in Nat
        BY ShareTypes DEF UsableAt
    <2>2. A \in SUBSET B /\ j \notin A /\ j \in B
        BY <1>2, <2>1 DEF NotAbove
    <2>3. IsFiniteSet(B)
        BY ApartUpTo
    <2>. HIDE DEF A, B
    <2>4. Cardinality(A) # Cardinality(B)
        BY <2>2, <2>3, FS_Subset
    <2>. QED  BY <2>4 DEF A, B
<1>3. \A i, j \in U : f[i] = f[j] => i = j
    <2>. SUFFICES ASSUME NEW i \in U, NEW j \in U, i # j
                  PROVE  f[i] # f[j]
        OBVIOUS
    <2>1. shares[i].shareIndex \in Nat /\ shares[j].shareIndex \in Nat
        BY ShareTypes DEF UsableAt
    <2>2. shares[i].shareIndex # shares[j].shareIndex
        BY DEF Apart, UsableAt
    <2>3. \/ shares[i].shareIndex < shares[j].shareIndex
          \/ shares[j].shareIndex < shares[i].shareIndex
        BY <2>1, <2>2
    <2>. QED  BY <1>2, <2>3
<1>4. \E i \in U : f[i] = k
    <2>1. IsFiniteSet(1..c) /\ Cardinality(1..c) = c
        BY <1>0, FS_Interval
    <2>2. f \in Injection(U, 1..c)
        <3>. HIDE DEF f, U, c
        <3>. QED  BY <1>1, <1>3 DEF Injection, IsInjective
    <2>3. f \in Surjection(U, 1..c)
        BY <2>1, <2>2, FS_Injection
    <2>. QED  BY <2>3 DEF Surjection
<1>5. \A i \in U : f[i] = Cardinality(NotAbove(shares, i))
    OBVIOUS
<1>. HIDE DEF f, U
<1>. QED  BY <1>3, <1>4, <1>5 DEF U

\* So the sorted list holds at place k the one share with that place.
LEMMA SortedApart ==
    ASSUME NEW shares \in Seq(Share), Apart(shares),
           NEW k \in 1..Cardinality(UsableAt(shares)),
           NEW i \in UsableAt(shares), Cardinality(NotAbove(shares, i)) = k
    PROVE  SortedShares(shares)[k] = shares[i]
<1>. DEFINE U == UsableAt(shares)
            Q(j) == Cardinality(UpToShare(shares, j)) = k
            x == CHOOSE j \in Distinct(shares) : Q(j)
<1>1. Distinct(shares) = U
    BY ApartAllKept
<1>2. SortedShares(shares)[k] = shares[x]
    BY <1>1 DEF SortedShares
<1>3. i \in Distinct(shares) /\ Q(i)
    BY <1>1, ApartUpTo
<1>4. x \in Distinct(shares) /\ Q(x)
    <2>. HIDE DEF Q
    <2>. QED  BY <1>3, Zenon
<1>. HIDE DEF x
<1>5. x \in UsableAt(shares) /\ Cardinality(NotAbove(shares, x)) = k
    BY <1>1, <1>4, ApartUpTo
<1>6. x = i
    BY <1>5, ApartPlaces
<1>. QED  BY <1>2, <1>6

\* Shares in another order are apart when the shares are, and sort the same way.
LEMMA ReorderedSame ==
    ASSUME NEW shares \in Seq(Share), Apart(shares),
           NEW p \in Bijection(1..Len(shares), 1..Len(shares))
    PROVE  /\ Cardinality(Distinct(Reordered(shares, p))) = Cardinality(Distinct(shares))
           /\ SortedShares(Reordered(shares, p)) = SortedShares(shares)
<1>. DEFINE N == 1..Len(shares)
            q == Reordered(shares, p)
<1>1. /\ p \in [N -> N] /\ Len(shares) \in Nat /\ DOMAIN shares = N
      /\ \A i, j \in N : p[i] = p[j] => i = j
      /\ \A i \in N : \E j \in N : p[j] = i
    BY DEF Bijection, Injection, Surjection, IsInjective
<1>2. q \in Seq(Share) /\ DOMAIN q = N /\ \A i \in N : q[i] = shares[p[i]]
    BY <1>1 DEF Reordered
<1>. HIDE DEF q, N
<1>3. Apart(q)
    <2>. SUFFICES ASSUME NEW i \in N, NEW j \in N, i # j, Usable(q[i]), Usable(q[j])
                  PROVE  q[i].nodeId # q[j].nodeId /\ q[i].shareIndex # q[j].shareIndex
        BY <1>2, Zenon DEF Apart
    <2>1. /\ p[i] \in DOMAIN shares /\ p[j] \in DOMAIN shares /\ p[i] # p[j]
          /\ q[i] = shares[p[i]] /\ q[j] = shares[p[j]]
        BY <1>1, <1>2
    <2>. QED  BY <2>1 DEF Apart
<1>4. UsableAt(q) = {i \in N : p[i] \in UsableAt(shares)}
    BY <1>1, <1>2 DEF UsableAt
<1>5. ASSUME NEW S \in SUBSET N
      PROVE  Cardinality({i \in N : p[i] \in S}) = Cardinality(S)
    <2>. DEFINE T == {i \in N : p[i] \in S}
                f == [i \in T |-> p[i]]
    <2>1. f \in [T -> S] /\ T \in SUBSET N
        OBVIOUS
    <2>2. \A i, j \in T : f[i] = f[j] => i = j
        BY <1>1
    <2>3. \A s \in S : \E i \in T : f[i] = s
        BY <1>1
    <2>4. IsFiniteSet(T)
        <3>1. IsFiniteSet(N)
            BY <1>1, FS_Interval DEF N
        <3>. QED  BY <2>1, <3>1, FS_Subset
    <2>. HIDE DEF f, T
    <2>5. f \in Surjection(T, S) /\ f \in Injection(T, S)
        BY <2>1, <2>2, <2>3 DEF Surjection, Injection, IsInjective
    <2>6. Cardinality(T) = Cardinality(S)
        BY <2>4, <2>5, FS_Surjection
    <2>. QED  BY <2>6 DEF T
<1>6. UsableAt(shares) \in SUBSET N
    BY DistinctFacts DEF N
<1>7. Cardinality(UsableAt(q)) = Cardinality(UsableAt(shares))
    BY <1>4, <1>5, <1>6
<1>8. Distinct(q) = UsableAt(q) /\ Distinct(shares) = UsableAt(shares)
    BY <1>2, <1>3, ApartAllKept
<1>9. ASSUME NEW k \in 1..Cardinality(UsableAt(shares))
      PROVE  SortedShares(q)[k] = SortedShares(shares)[k]
    <2>1. PICK i \in UsableAt(q) : Cardinality(NotAbove(q, i)) = k
        BY <1>2, <1>3, <1>7, ApartPlaces
    <2>2. i \in N /\ p[i] \in UsableAt(shares) /\ q[i] = shares[p[i]]
        BY <1>2, <1>4
    <2>3. NotAbove(q, i) = {j \in N : p[j] \in NotAbove(shares, p[i])}
        BY <1>2, <1>4, <2>2 DEF NotAbove
    <2>4. NotAbove(shares, p[i]) \in SUBSET N
        BY <1>6 DEF NotAbove
    <2>5. Cardinality(NotAbove(shares, p[i])) = k
        BY <1>5, <2>1, <2>3, <2>4
    <2>6. SortedShares(shares)[k] = shares[p[i]]
        BY <2>2, <2>5, SortedApart
    <2>7. SortedShares(q)[k] = q[i]
        BY <1>2, <1>3, <1>7, <2>1, SortedApart
    <2>. QED  BY <2>2, <2>6, <2>7
<1>10. SortedShares(q) = SortedShares(shares)
    <2>. DEFINE c == Cardinality(UsableAt(shares))
                A(k) == q[CHOOSE i \in Distinct(q) : Cardinality(UpToShare(q, i)) = k]
                B(k) == shares[CHOOSE i \in Distinct(shares) :
                                   Cardinality(UpToShare(shares, i)) = k]
    <2>1. SortedShares(q) = [k \in 1..c |-> A(k)] /\ SortedShares(shares) = [k \in 1..c |-> B(k)]
        BY <1>7, <1>8, Zenon DEF SortedShares
    <2>2. \A k \in 1..c : SortedShares(q)[k] = SortedShares(shares)[k]
        BY <1>9
    <2>. HIDE DEF A, B, c
    <2>. QED  BY <2>1, <2>2
<1>. QED  BY <1>7, <1>8, <1>10 DEF q

\* What arrives are shares.
SharesTyped == arrived \in Seq(Share)

\* What recovery makes of the shares that arrived.
LEMMA RecoveryDeterminedNow == SharesTyped => RecoveryDetermined
<1>. SUFFICES ASSUME SharesTyped
              PROVE  RecoveryDetermined
    OBVIOUS
<1>. DEFINE D == Distinct(arrived)
            c == Cardinality(D)
<1>0. arrived \in Seq(Share) /\ c \in Nat /\ ShareThreshold \in Nat \ {0}
    BY DistinctFacts, RecoveryAssumption DEF SharesTyped
<1>1. c = Cardinality(SendersOf(arrived))
    BY <1>0, OneShareOfEverySender
<1>2. RecoverMasterSecret(arrived) # NoSecret <=> c >= ShareThreshold
    <2>1. CASE c < ShareThreshold
        BY <1>0, <2>1 DEF RecoverMasterSecret
    <2>2. CASE c >= ShareThreshold
        <3>1. RecoverMasterSecret(arrived) = SortedShares(arrived)
            BY <1>0, <2>2 DEF RecoverMasterSecret
        <3>2. DOMAIN SortedShares(arrived) = 1..c /\ 1 \in 1..c
            BY <1>0, <2>2 DEF SortedShares
        <3>3. DOMAIN NoSecret = {}
            BY DEF NoSecret
        <3>4. SortedShares(arrived) # NoSecret
            BY <3>2, <3>3
        <3>. QED  BY <2>2, <3>1, <3>4
    <2>. HIDE DEF c
    <2>. QED  BY <1>0, <2>1, <2>2
<1>3. ASSUME Apart(arrived), NEW p \in Bijection(1..Len(arrived), 1..Len(arrived))
      PROVE  RecoverMasterSecret(Reordered(arrived, p)) = RecoverMasterSecret(arrived)
    <2>1. /\ Cardinality(Distinct(Reordered(arrived, p))) = Cardinality(Distinct(arrived))
          /\ SortedShares(Reordered(arrived, p)) = SortedShares(arrived)
        BY <1>0, <1>3, ReorderedSame
    <2>. QED  BY <2>1 DEF RecoverMasterSecret
<1>. HIDE DEF c
<1>4. RecoverMasterSecret(arrived) # NoSecret
          <=> Cardinality(SendersOf(arrived)) >= ShareThreshold
    BY <1>1, <1>2
<1>. QED  BY <1>3, <1>4 DEF RecoveryDetermined, SendersOf

\* The master secret is rebuilt exactly when a threshold of nodes sent usable
\* shares, and for shares that are apart in no dependence on their order, for
\* any nodes, any threshold and any number of shares.
THEOREM RecoveryIsDetermined == RecoverySpec => []RecoveryDetermined
<1>1. RecoveryInit => SharesTyped
    BY DEF RecoveryInit, SharesTyped
<1>2. SharesTyped /\ [RecoveryNext]_arrived => SharesTyped'
    BY DEF SharesTyped, RecoveryNext, Arrive
<1>. QED  BY <1>1, <1>2, RecoveryDeterminedNow, PTL DEF RecoverySpec
=============================================================================
