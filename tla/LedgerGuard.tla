---------------------------- MODULE LedgerGuard ----------------------------
(***************************************************************************)
(* The guarded ledger of the escrow server (src/src/server.ts): the JSON   *)
(* ledger store and its write path (DatabaseService), the periodic audit   *)
(* and the emergency freeze (LedgerAuditor), the remote notary the root is *)
(* anchored at (NotaryAnchorService; the notary itself is external), and   *)
(* the officers' heal-and-unfreeze ritual (AdminRecoveryService and the    *)
(* /admin/unfreeze route of EscrowRouter).                                 *)
(*                                                                         *)
(* Granularity.  The server is one Node.js process and every file access   *)
(* of these services is synchronous, so a handler is cut only where it     *)
(* really returns to the event loop: at a call to the notary and at the    *)
(* dynamic import in the middle of a heal.  The promise queue of           *)
(* withWriteLock never waits for I/O, hence saveRecord is one step.  A     *)
(* process crash may also fall between two file writes of one step; these  *)
(* crashes are actions of their own.                                       *)
(***************************************************************************)
EXTENDS Naturals, Sequences, FiniteSets

CONSTANTS
    TxId,       \* transaction ids
    Body,       \* everything else of a record that its leaf hash covers
    Auditor,    \* audit runs that may be in flight at once (setInterval)
    Admin,      \* /admin/unfreeze requests that may be in flight at once
    RequestId,  \* recovery request ids
    Slot,       \* bound: anchor broadcasts in flight at once
    RootHash,   \* Merkle roots
    Root(_),    \* the Merkle root of a sequence of records
    NoRoot,     \* a notary that has not anchored anything
    NoCheckpoint,
    Torn,       \* content of the store file that JSON.parse rejects
    MaxRecords, \* bound: length of the ledger
    MaxFaults   \* bound: crashes, external edits and failed file writes

Record == [id : TxId, body : Body]

Ledger == UNION {[1..n -> Record] : n \in 0..MaxRecords}

\* What a checkpoint records of a ledger.
Checkpoint == [root : RootHash, leafCount : 0..MaxRecords]

ASSUME BoundsAssumption == MaxRecords \in Nat /\ MaxFaults \in Nat

ASSUME RootAssumption == \A s \in Ledger : Root(s) \in RootHash

ASSUME DistinctAssumption ==
    /\ NoRoot \notin RootHash
    /\ NoCheckpoint \notin Checkpoint
    /\ Torn \notin Ledger

VARIABLES
    \* files under data/
    store, checkpoint, marker, requests, quarantine,
    \* memory of the server process
    inited, frozen, audits, rituals,
    \* the network and the notary
    anchors, notary,
    \* history: records answered with 201, less the ones superseded or damaged
    \* since; the files that a failed or an overtaken write or an external edit
    \* has hit and no write has replaced since; and the number of faults so far
    acked, damaged, faults

disk == <<store, checkpoint, marker, requests, quarantine>>
memory == <<inited, frozen, audits, rituals>>
remote == <<anchors, notary>>
history == <<acked, damaged, faults>>
vars == <<disk, memory, remote, history>>

\* Mutant of Digest: counts one leaf too many.
DigestOffByOne(recs) == [root |-> Root(recs), leafCount |-> Len(recs) + 1]

Digest(recs) == [root |-> Root(recs), leafCount |-> Len(recs)]

Ids(recs) == {recs[i].id : i \in DOMAIN recs}

Records(recs) == {recs[i] : i \in DOMAIN recs}

\* An audit: no run, waiting for the notary, or holding its answer.
Idle == [stage |-> "idle"]
Fetching(cp) == [stage |-> "fetch", cp |-> cp]
Replied(cp, root) == [stage |-> "reply", cp |-> cp, root |-> root]

\* A ritual: heal (fetch, answer, import), then the audit of unfreezeIfClean.
HealFetching(q) == [stage |-> "healFetch", req |-> q]
HealReplied(q, root) == [stage |-> "healReply", req |-> q, root |-> root]
Importing(q, healed) == [stage |-> "import", req |-> q, healed |-> healed]

Init ==
    /\ store = <<>> /\ checkpoint = NoCheckpoint /\ marker = FALSE
    /\ requests = {} /\ quarantine = {}
    /\ inited = FALSE /\ frozen = FALSE
    /\ audits = [a \in Auditor |-> Idle]
    /\ rituals = [h \in Admin |-> Idle]
    /\ anchors = [n \in Slot |-> NoRoot] /\ notary = NoRoot
    /\ acked = {} /\ damaged = {} /\ faults = 0

-----------------------------------------------------------------------------
(* Helpers *)

\* initializeStore resets an unreadable file to [] once per process.
InitializedStore == IF ~inited /\ store = Torn THEN <<>> ELSE store

\* getAllRecords: a read that fails returns [].
AllRecords == IF store = Torn THEN <<>> ELSE store

\* findIndex: the first record with this transaction id.
FirstIndex(recs, id) ==
    CHOOSE k \in DOMAIN recs :
        /\ recs[k].id = id
        /\ \A j \in DOMAIN recs : recs[j].id = id => k <= j

\* Replace that record in place, or push a new one.
Upsert(recs, r) ==
    IF r.id \in Ids(recs)
    THEN [recs EXCEPT ![FirstIndex(recs, r.id)] = r]
    ELSE Append(recs, r)

\* A step that replaces the files in written, except the ones in lost: their
\* writes fail, and the code swallows the failure.  What it writes into the ones
\* in stale is out of date.
WritesStale(written, lost, stale) ==
    /\ lost # {} => faults < MaxFaults
    /\ faults' = IF lost = {} THEN faults ELSE faults + 1
    /\ damaged' = (damaged \ written) \cup lost \cup stale

Writes(written, lost) == WritesStale(written, lost, {})

\* The promises that survive damage leaving recs in the ledger.
StillKept(recs, quarantined) == acked \cap (Records(recs) \cup quarantined)

\* writeCheckpoint: what the file holds afterwards; a failed write may truncate it.
WrittenCheckpoint(cp, lost) ==
    IF "checkpoint" \in lost THEN {checkpoint, NoCheckpoint} ELSE {cp}

\* freeze: idempotent, and the marker file is best effort.
Freeze(lost) ==
    /\ frozen' = TRUE
    /\ IF frozen
       THEN lost = {} /\ UNCHANGED <<marker, damaged, faults>>
       ELSE /\ marker' = (marker \/ "marker" \notin lost)
            /\ Writes({"marker"}, lost)

\* broadcastRootAnchor is started and not awaited.  When no slot is free, the
\* broadcast in flight that gives way counts as lost.
Broadcast(cp) ==
    /\ \E n \in Slot : anchors' = [anchors EXCEPT ![n] = cp.root]
    /\ UNCHANGED notary

-----------------------------------------------------------------------------
(* Write paths: /lock and /consensus/append-entry, after their gates *)

\* The gate and the whole of saveRecord; the handler then answers 201.
SaveRecord(r) ==
    /\ ~frozen
    /\ InitializedStore # Torn
    /\ Len(Upsert(InitializedStore, r)) <= MaxRecords
    /\ store' = Upsert(InitializedStore, r)
    /\ inited' = TRUE
    /\ \E lost \in SUBSET {"checkpoint"} :
        /\ checkpoint' \in WrittenCheckpoint(Digest(store'), lost)
        /\ Writes({"store", "checkpoint"}, lost)
    /\ Broadcast(Digest(store'))
    /\ acked' = {x \in acked : x.id # r.id} \cup {r}
    /\ UNCHANGED <<marker, requests, quarantine, frozen, audits, rituals>>

-----------------------------------------------------------------------------
(* The audit loop *)

\* auditOnce up to its first await.
AuditStart(a) ==
    /\ ~frozen
    /\ audits[a] = Idle
    /\ checkpoint # NoCheckpoint
    /\ audits' = [audits EXCEPT ![a] = Fetching(checkpoint)]
    /\ UNCHANGED <<disk, inited, frozen, rituals, remote, history>>

\* No checkpoint yet: the ledger as it stands is taken on trust.
EstablishCheckpoint(lost) ==
    /\ checkpoint' \in WrittenCheckpoint(Digest(AllRecords), lost)
    /\ store' = InitializedStore
    /\ inited' = TRUE

AuditEstablish(a) ==
    /\ ~frozen
    /\ audits[a] = Idle
    /\ checkpoint = NoCheckpoint
    /\ \E lost \in SUBSET {"checkpoint"} : EstablishCheckpoint(lost) /\ Writes({"checkpoint"}, lost)
    /\ UNCHANGED <<marker, requests, quarantine, frozen, audits, rituals, remote, acked>>

\* fetchAuthoritativeState gave up: fail closed.
AuditUnreachable(a) ==
    /\ audits[a].stage = "fetch"
    /\ \E lost \in SUBSET {"marker"} : Freeze(lost)
    /\ audits' = [audits EXCEPT ![a] = Idle]
    /\ UNCHANGED <<store, checkpoint, requests, quarantine, inited, rituals, remote, acked>>

\* Mutant of Clean: compares the two roots and never looks at the ledger.
CleanRootsOnly(cp, root) == root = cp.root

\* The verdict of auditOnce once the notary answered root for checkpoint cp.
Clean(cp, root) == root = cp.root /\ store # Torn /\ Digest(store) = cp

\* The rest of auditOnce after the answer; getAllRecords runs if it gets that far.
AuditRead(cp, root) == inited' = (inited \/ (root = cp.root /\ store # Torn))

AuditFinish(a) ==
    /\ audits[a].stage = "reply"
    /\ audits' = [audits EXCEPT ![a] = Idle]
    /\ AuditRead(audits[a].cp, audits[a].root)
    /\ \/ /\ Clean(audits[a].cp, audits[a].root)
          /\ UNCHANGED <<frozen, marker, damaged, faults>>
       \/ /\ ~Clean(audits[a].cp, audits[a].root)
          /\ \E lost \in SUBSET {"marker"} : Freeze(lost)
    /\ UNCHANGED <<store, checkpoint, requests, quarantine, rituals, remote, acked>>

-----------------------------------------------------------------------------
(* The recovery ritual: POST /admin/unfreeze with a valid multi-signature *)

\* unfreezeIfClean up to its await, cp being the checkpoint file as it stands.
\* The freeze is lifted for the time of the audit; without a checkpoint the
\* audit passes at once, and the marker goes.
BeginReaudit(h, cp, lost) ==
    /\ frozen' = FALSE
    /\ IF frozen /\ cp # NoCheckpoint
       THEN rituals' = [rituals EXCEPT ![h] = Fetching(cp)]
       ELSE rituals' = [rituals EXCEPT ![h] = Idle]
    /\ IF frozen /\ cp = NoCheckpoint
       THEN /\ EstablishCheckpoint(lost)
            /\ marker' = (marker /\ "marker" \in lost)
       ELSE checkpoint' = cp /\ UNCHANGED <<store, inited, marker>>

\* A known request id skips the heal and goes on to unfreezeIfClean.
RitualReplay(h, q) ==
    /\ rituals[h] = Idle
    /\ q \in requests
    /\ \E lost \in SUBSET {"checkpoint", "marker"} :
        BeginReaudit(h, checkpoint, lost) /\ Writes({}, lost)
    /\ UNCHANGED <<requests, quarantine, audits, remote, acked>>

RitualStart(h, q) ==
    /\ rituals[h] = Idle
    /\ q \notin requests
    /\ rituals' = [rituals EXCEPT ![h] = HealFetching(q)]
    /\ UNCHANGED <<disk, inited, frozen, audits, remote, history>>

\* Mutant of RitualUnreachable: the notary is asked again and again.
RitualRetriesForever(h) == rituals[h].stage = "healFetch" /\ UNCHANGED vars

\* fetchAuthoritativeState gave up: answer 500.
RitualUnreachable(h) ==
    /\ rituals[h].stage = "healFetch"
    /\ rituals' = [rituals EXCEPT ![h] = Idle]
    /\ UNCHANGED <<disk, inited, frozen, audits, remote, history>>

Prefix(recs, n) == [i \in 1..n |-> recs[i]]

\* Mutant of Suffix: slices one record too late.
SuffixOffByOne(recs, n) == {recs[i] : i \in n + 2..Len(recs)}

Suffix(recs, n) == {recs[i] : i \in n + 1..Len(recs)}

\* Lengths of the prefixes whose root is the notary's.
MatchingPrefixes(recs, root) ==
    {n \in 0..Len(recs) : Root(Prefix(recs, n)) = root}

\* The scan goes from the whole ledger down to the empty one.
LongestMatch(recs, root, n) ==
    /\ n \in MatchingPrefixes(recs, root)
    /\ \A m \in MatchingPrefixes(recs, root) : m <= n

HealNoMatch(h) ==
    /\ rituals[h].stage = "healReply"
    /\ MatchingPrefixes(AllRecords, rituals[h].root) = {}
    /\ rituals' = [rituals EXCEPT ![h] = Idle]
    /\ store' = InitializedStore
    /\ inited' = TRUE
    /\ UNCHANGED <<checkpoint, marker, requests, quarantine, frozen, audits, remote, history>>

\* The ledger is read after the answer; what is cut off goes to quarantine.
HealTruncate(h) ==
    /\ rituals[h].stage = "healReply"
    /\ \E n \in 0..Len(AllRecords), lost \in SUBSET {"quarantine"} :
        /\ LongestMatch(AllRecords, rituals[h].root, n)
        /\ quarantine' = quarantine \cup IF lost = {} THEN Suffix(AllRecords, n) ELSE {}
        /\ store' = Prefix(AllRecords, n)
        /\ rituals' = [rituals EXCEPT ![h] = Importing(rituals[h].req, Digest(store'))]
        /\ Writes({"store"}, lost)
    /\ inited' = TRUE
    /\ UNCHANGED <<checkpoint, marker, requests, frozen, audits, remote, acked>>

\* The ledger was written again between the truncation and its checkpoint.
Overtaken(h) ==
    IF store # Torn /\ rituals[h].healed = Digest(store) THEN {} ELSE {"checkpoint"}

\* After the import: checkpoint, request ledger, and straight into the audit.
HealCheckpoint(h) ==
    /\ rituals[h].stage = "import"
    /\ \E lost \in SUBSET {"checkpoint", "requests", "marker"} :
        /\ \E cp \in WrittenCheckpoint(rituals[h].healed, lost) : BeginReaudit(h, cp, lost)
        /\ requests' = requests \cup IF "requests" \in lost THEN {} ELSE {rituals[h].req}
        /\ WritesStale({"checkpoint", "requests"}, lost, Overtaken(h))
    /\ Broadcast(rituals[h].healed)
    /\ UNCHANGED <<quarantine, audits, acked>>

\* The audit could not reach the notary: frozen again, answer 409.
ReauditUnreachable(h) ==
    /\ rituals[h].stage = "fetch"
    /\ \E lost \in SUBSET {"marker"} : Freeze(lost)
    /\ rituals' = [rituals EXCEPT ![h] = Idle]
    /\ UNCHANGED <<store, checkpoint, requests, quarantine, inited, audits, remote, acked>>

\* Mutant of MarkerAfterAudit: unlinks without looking at the frozen flag again.
MarkerAlwaysUnlinked(lost) == marker /\ "marker" \in lost

\* The marker goes only if nothing has frozen the ledger meanwhile.
MarkerAfterAudit(lost) == marker /\ (frozen \/ "marker" \in lost)

ReauditFinish(h) ==
    /\ rituals[h].stage = "reply"
    /\ rituals' = [rituals EXCEPT ![h] = Idle]
    /\ AuditRead(rituals[h].cp, rituals[h].root)
    /\ \E lost \in SUBSET {"marker"} :
        \/ /\ Clean(rituals[h].cp, rituals[h].root)
           /\ marker' = MarkerAfterAudit(lost)
           /\ Writes({}, lost)
           /\ UNCHANGED frozen
        \/ ~Clean(rituals[h].cp, rituals[h].root) /\ Freeze(lost)
    /\ UNCHANGED <<store, checkpoint, requests, quarantine, audits, remote, acked>>

-----------------------------------------------------------------------------
(* The notary (external) and the network *)

\* GET /notary/state, served now and delivered later.
NotaryServeAudit(a) ==
    /\ audits[a].stage = "fetch" /\ notary # NoRoot
    /\ audits' = [audits EXCEPT ![a] = Replied(audits[a].cp, notary)]
    /\ UNCHANGED <<disk, inited, frozen, rituals, remote, history>>

NotaryServeRitual(h) ==
    /\ notary # NoRoot
    /\ \/ /\ rituals[h].stage = "fetch"
          /\ rituals' = [rituals EXCEPT ![h] = Replied(rituals[h].cp, notary)]
       \/ /\ rituals[h].stage = "healFetch"
          /\ rituals' = [rituals EXCEPT ![h] = HealReplied(rituals[h].req, notary)]
    /\ UNCHANGED <<disk, inited, frozen, audits, remote, history>>

\* POST /notary/anchor arrives, in any order; the last arrival is authoritative.
NotaryAnchor(n) ==
    /\ anchors[n] # NoRoot
    /\ notary' = anchors[n]
    /\ anchors' = [anchors EXCEPT ![n] = NoRoot]
    /\ UNCHANGED <<disk, memory, history>>

\* The broadcast is best effort and never retried.
AnchorLost(n) ==
    /\ anchors[n] # NoRoot
    /\ anchors' = [anchors EXCEPT ![n] = NoRoot]
    /\ UNCHANGED <<disk, memory, notary, history>>

-----------------------------------------------------------------------------
(* Faults *)

\* Memory of a fresh process; the marker file is not read at startup.
Restarted ==
    /\ inited' = FALSE /\ frozen' = FALSE
    /\ audits' = [a \in Auditor |-> Idle]
    /\ rituals' = [h \in Admin |-> Idle]

Fault == faults < MaxFaults /\ faults' = faults + 1

Restart ==
    /\ Fault
    /\ Restarted
    /\ UNCHANGED <<disk, remote, acked, damaged>>

\* The process dies after the rename of saveRecord: the checkpoint file still
\* holds the old one, or was cut short, and the client has no answer.
CrashInSave(r) ==
    /\ Fault
    /\ ~frozen
    /\ InitializedStore # Torn
    /\ Len(Upsert(InitializedStore, r)) <= MaxRecords
    /\ store' = Upsert(InitializedStore, r)
    /\ checkpoint' \in {checkpoint, NoCheckpoint}
    /\ acked' = {x \in acked : x.id # r.id}
    /\ Restarted
    /\ UNCHANGED <<marker, requests, quarantine, remote, damaged>>

\* The process dies in the in-place write of the heal: an empty or a torn file.
CrashInHeal(h) ==
    /\ Fault
    /\ rituals[h].stage = "healReply"
    /\ \E n \in 0..Len(AllRecords) :
        /\ LongestMatch(AllRecords, rituals[h].root, n)
        /\ quarantine' = quarantine \cup Suffix(AllRecords, n)
    /\ store' \in {<<>>, Torn}
    /\ damaged' = damaged \cup {"store"}
    /\ acked' = StillKept(<<>>, quarantine')
    /\ Restarted
    /\ UNCHANGED <<checkpoint, marker, requests, remote>>

\* The file is changed behind the server's back: what the audit looks for.
ExternalEdit ==
    /\ Fault
    /\ store # Torn
    /\ \/ store' = Torn
       \/ \E n \in 0..Len(store) : n < Len(store) /\ store' = Prefix(store, n)
       \/ \E i \in DOMAIN store, b \in Body :
            b # store[i].body /\ store' = [store EXCEPT ![i].body = b]
    /\ damaged' = damaged \cup {"store"}
    /\ acked' = StillKept(IF store' = Torn THEN <<>> ELSE store', quarantine)
    /\ UNCHANGED <<checkpoint, marker, requests, quarantine, memory, remote>>

-----------------------------------------------------------------------------
AuditStep(a) ==
    \/ AuditStart(a) \/ AuditEstablish(a)
    \/ NotaryServeAudit(a) \/ AuditUnreachable(a) \/ AuditFinish(a)

RitualStep(h) ==
    \/ NotaryServeRitual(h) \/ RitualUnreachable(h)
    \/ HealNoMatch(h) \/ HealTruncate(h) \/ HealCheckpoint(h)
    \/ ReauditUnreachable(h) \/ ReauditFinish(h)

Next ==
    \/ \E r \in Record : SaveRecord(r) \/ CrashInSave(r)
    \/ \E a \in Auditor : AuditStep(a)
    \/ \E h \in Admin : RitualStep(h) \/ CrashInHeal(h)
    \/ \E h \in Admin, q \in RequestId : RitualStart(h, q) \/ RitualReplay(h, q)
    \/ \E n \in Slot : NotaryAnchor(n) \/ AnchorLost(n)
    \/ Restart \/ ExternalEdit

Spec == Init /\ [][Next]_vars

\* The timer keeps firing, a notary call ends by its answer or its timeout, the
\* import resolves, and a broadcast arrives or is lost.
Fairness ==
    /\ \A a \in Auditor : WF_vars(AuditStep(a))
    /\ \A h \in Admin : WF_vars(RitualStep(h))
    /\ \A n \in Slot : WF_vars(NotaryAnchor(n) \/ AnchorLost(n))

FairSpec == Spec /\ Fairness

-----------------------------------------------------------------------------
(* Properties *)

AuditState ==
    [stage : {"idle"}] \cup [stage : {"fetch"}, cp : Checkpoint]
        \cup [stage : {"reply"}, cp : Checkpoint, root : RootHash]

RitualState ==
    AuditState \cup [stage : {"healFetch"}, req : RequestId]
        \cup [stage : {"healReply"}, req : RequestId, root : RootHash]
        \cup [stage : {"import"}, req : RequestId, healed : Checkpoint]

TypeOK ==
    /\ store \in Ledger \cup {Torn}
    /\ checkpoint \in Checkpoint \cup {NoCheckpoint}
    /\ marker \in BOOLEAN
    /\ requests \subseteq RequestId
    /\ quarantine \subseteq Record
    /\ inited \in BOOLEAN /\ frozen \in BOOLEAN
    /\ audits \in [Auditor -> AuditState]
    /\ rituals \in [Admin -> RitualState]
    /\ anchors \in [Slot -> RootHash \cup {NoRoot}]
    /\ notary \in RootHash \cup {NoRoot}
    /\ acked \subseteq Record
    /\ damaged \subseteq {"store", "checkpoint", "marker", "requests", "quarantine"}
    /\ faults \in 0..MaxFaults

\* A frozen server has its marker file: no interleaving of audits, re-audits
\* and marker removals (unfreezeIfClean, freeze) leaves write paths suspended
\* with the file gone, unless the write of the file itself failed.
FrozenIsMarked == frozen /\ "marker" \notin damaged => marker

\* A lock that was answered 201 is never silently lost: the record is in the
\* ledger, or in quarantine after a heal (saveRecord against
\* attemptHealAndReturnOutcome, crashes included).  Exempt are the records an
\* external edit or a crash in the in-place write of the heal destroys, and
\* everything once a quarantine file could not be written.
AckedKept ==
    "quarantine" \notin damaged => acked \subseteq Records(AllRecords) \cup quarantine

\* The marker is only removed from a ledger that agrees with its checkpoint,
\* whatever locks, audits and other rituals did while the freeze was lifted for
\* the re-audit (unfreezeIfClean).  Exempt are a file that was damaged, a
\* checkpoint that a slower heal wrote for an earlier ledger, and the moment
\* between the two writes of another heal.
ThawMatchesCheckpoint ==
    [][/\ marker /\ ~marker'
       /\ damaged' \cap {"store", "checkpoint"} = {}
       /\ \A g \in Admin : rituals'[g].stage # "import"
       => store' # Torn /\ checkpoint' = Digest(store')]_vars

\* No lock is accepted while the re-audit of an unfreeze request decides.
\* (Refuted: the freeze is lifted across the call to the notary.)
NoWriteDuringReaudit ==
    [][acked' # acked => \A h \in Admin : rituals[h].stage \notin {"fetch", "reply"}]_vars

\* The ledger disagrees with its checkpoint.
Mismatch == store = Torn \/ (checkpoint # NoCheckpoint /\ Digest(store) # checkpoint)

\* A mismatch does not go unnoticed: the audit timer freezes the server, also
\* after a restart, unless a later write or heal makes the two agree again.
MismatchIsNoticed == Mismatch ~> (frozen \/ ~Mismatch)

\* Every /admin/unfreeze request is answered.
RitualEnds == \A h \in Admin : rituals[h] # Idle ~> rituals[h] = Idle
=============================================================================
