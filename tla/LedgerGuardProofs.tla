-------------------------- MODULE LedgerGuardProofs --------------------------
(***************************************************************************)
(* Proofs about LedgerGuard, for every ledger bound, number of concurrent  *)
(* audits, unfreeze requests and broadcasts, and number of faults.         *)
(***************************************************************************)
EXTENDS LedgerGuard, SequenceTheorems, WellFoundedInduction, TLAPS

-----------------------------------------------------------------------------
(* Ledgers as bounded sequences of records *)

\* What membership in Ledger gives: a sequence no longer than the bound.
LEMMA LedgerFacts ==
    ASSUME NEW s \in Ledger
    PROVE  /\ s \in Seq(Record)
           /\ Len(s) \in 0..MaxRecords
           /\ DOMAIN s = 1..Len(s)
           /\ \A i \in 1..Len(s) : s[i] \in Record
  <1>1. PICK n \in 0..MaxRecords : s \in [1..n -> Record]
    BY DEF Ledger
  <1>2. n \in Nat
    BY BoundsAssumption
  <1> QED BY <1>1, <1>2, BoundsAssumption

\* And back: a sequence of records within the bound is a ledger.
LEMMA LedgerIntro ==
    ASSUME NEW n \in 0..MaxRecords, NEW s \in [1..n -> Record]
    PROVE  s \in Ledger
  BY BoundsAssumption DEF Ledger

\* The empty ledger is a ledger.
LEMMA EmptyLedger == <<>> \in Ledger
  <1>1. 0 \in 0..MaxRecords
    BY BoundsAssumption
  <1>2. <<>> \in [1..0 -> Record]
    OBVIOUS
  <1> QED BY <1>1, <1>2, LedgerIntro

\* A checkpoint of a ledger is well formed.
LEMMA DigestType ==
    ASSUME NEW s \in Ledger
    PROVE  Digest(s) \in Checkpoint
  BY LedgerFacts, RootAssumption DEF Digest, Checkpoint

\* slice(0, n) of a ledger is a ledger, and loses exactly the suffix.
LEMMA PrefixFacts ==
    ASSUME NEW s \in Ledger, NEW n \in 0..Len(s)
    PROVE  /\ Prefix(s, n) \in Ledger
           /\ Records(s) \subseteq Records(Prefix(s, n)) \cup Suffix(s, n)
           /\ Suffix(s, n) \subseteq Record
  <1>1. /\ Len(s) \in 0..MaxRecords /\ DOMAIN s = 1..Len(s)
        /\ \A i \in 1..Len(s) : s[i] \in Record
    BY LedgerFacts
  <1>2. n \in 0..MaxRecords /\ n \in Nat
    BY <1>1, BoundsAssumption
  <1>3. Prefix(s, n) \in [1..n -> Record]
    BY <1>1, <1>2 DEF Prefix
  <1>4. Prefix(s, n) \in Ledger
    BY <1>2, <1>3, LedgerIntro
  <1>5. ASSUME NEW x \in Records(s)
        PROVE  x \in Records(Prefix(s, n)) \cup Suffix(s, n)
    <2>1. PICK i \in 1..Len(s) : x = s[i]
      BY <1>1 DEF Records
    <2>2. CASE i <= n
      BY <2>1, <2>2, <1>2, <1>3 DEF Records, Prefix
    <2>3. CASE ~(i <= n)
      BY <2>1, <2>3, <1>1, <1>2, BoundsAssumption DEF Suffix
    <2> QED BY <2>2, <2>3
  <1>6. Suffix(s, n) \subseteq Record
    BY <1>1, <1>2 DEF Suffix
  <1> QED BY <1>4, <1>5, <1>6

\* findIndex finds a record with the id when there is one.
LEMMA FirstIndexFacts ==
    ASSUME NEW s \in Ledger, NEW id \in Ids(s)
    PROVE  FirstIndex(s, id) \in 1..Len(s) /\ s[FirstIndex(s, id)].id = id
  <1> DEFINE T == {k \in 1..Len(s) : s[k].id = id}
  <1> DEFINE R == {ss \in Nat \X Nat : ss[1] < ss[2]}
  <1>1. Len(s) \in Nat /\ DOMAIN s = 1..Len(s)
    BY LedgerFacts, BoundsAssumption
  <1>2. T \subseteq Nat /\ T # {}
    BY <1>1 DEF Ids
  <1>3. OpToRel(<, Nat) = R
    BY Zenon DEF OpToRel
  <1>4. IsWellFoundedOn(R, Nat)
    BY <1>3, NatLessThanWellFounded, Zenon
  <1> HIDE DEF R
  <1>5. PICK k \in T : \A j \in T : <<j, k>> \notin R
    BY <1>2, <1>4, WFMin, Zenon
  <1>6. ASSUME NEW j \in T, ~(k <= j)
        PROVE  FALSE
    <2>1. j \in Nat /\ k \in Nat /\ j < k
      BY <1>2, <1>6
    <2>2. <<j, k>> \in R
      BY <2>1 DEF R
    <2> QED BY <2>2, <1>5
  <1>7. \E i \in DOMAIN s : /\ s[i].id = id
                            /\ \A j \in DOMAIN s : s[j].id = id => i <= j
    BY <1>1, <1>6
  <1> QED BY <1>1, <1>7 DEF FirstIndex

\* saveRecord's replace-or-push: still a ledger, the new record is in it, and no
\* record with another id is lost.
LEMMA UpsertFacts ==
    ASSUME NEW s \in Ledger, NEW r \in Record, Len(Upsert(s, r)) <= MaxRecords
    PROVE  /\ Upsert(s, r) \in Ledger
           /\ r \in Records(Upsert(s, r))
           /\ \A x \in Records(s) : x.id # r.id => x \in Records(Upsert(s, r))
  <1>1. /\ s \in Seq(Record) /\ Len(s) \in 0..MaxRecords /\ DOMAIN s = 1..Len(s)
        /\ s \in [1..Len(s) -> Record] /\ Len(s) \in Nat
    BY LedgerFacts, BoundsAssumption
  <1>2. CASE r.id \in Ids(s)
    <2> DEFINE i == FirstIndex(s, r.id)
    <2>1. i \in 1..Len(s) /\ s[i].id = r.id
      BY <1>2, FirstIndexFacts
    <2>2. Upsert(s, r) = [s EXCEPT ![i] = r]
      BY <1>2 DEF Upsert
    <2> HIDE DEF i
    <2>3. [s EXCEPT ![i] = r] \in [1..Len(s) -> Record]
      BY <1>1, <2>1
    <2>4. Upsert(s, r) \in Ledger
      BY <1>1, <2>2, <2>3, LedgerIntro
    <2>5. r \in Records(Upsert(s, r))
      BY <1>1, <2>1, <2>2, <2>3 DEF Records
    <2>6. \A x \in Records(s) : x.id # r.id => x \in Records(Upsert(s, r))
      BY <1>1, <2>1, <2>2, <2>3 DEF Records
    <2> QED BY <2>4, <2>5, <2>6
  <1>3. CASE r.id \notin Ids(s)
    <2>1. Upsert(s, r) = Append(s, r)
      BY <1>3 DEF Upsert
    <2>2. /\ Append(s, r) \in Seq(Record)
          /\ Len(Append(s, r)) = Len(s) + 1
          /\ \A j \in 1..Len(s) : Append(s, r)[j] = s[j]
          /\ Append(s, r)[Len(s) + 1] = r
          /\ DOMAIN Append(s, r) = 1..Len(s) + 1
      BY <1>1
    <2>3. Append(s, r) \in [1..Len(s) + 1 -> Record]
      BY <2>2, LenProperties
    <2>4. Len(s) + 1 \in 0..MaxRecords
      BY <1>1, <2>1, <2>2, BoundsAssumption
    <2>5. Upsert(s, r) \in Ledger
      BY <2>1, <2>3, <2>4, LedgerIntro
    <2>6. r \in Records(Upsert(s, r)) /\ Records(s) \subseteq Records(Upsert(s, r))
      BY <1>1, <2>1, <2>2 DEF Records
    <2> QED BY <2>5, <2>6
  <1> QED BY <1>2, <1>3

-----------------------------------------------------------------------------
(* Type correctness *)

\* What the reads of the store return.
LEMMA ReadFacts ==
    ASSUME TypeOK
    PROVE  /\ InitializedStore \in Ledger \cup {Torn}
           /\ AllRecords \in Ledger
           /\ InitializedStore # Torn => Records(AllRecords) = Records(InitializedStore)
  BY EmptyLedger DEF TypeOK, InitializedStore, AllRecords, Records

\* A write of some of the files keeps the fault bookkeeping well typed.
LEMMA WritesStaleType ==
    ASSUME TypeOK, NEW written, NEW lost, NEW stale \in SUBSET {"checkpoint"},
           lost \subseteq {"checkpoint", "marker", "requests", "quarantine"},
           WritesStale(written, lost, stale)
    PROVE  /\ damaged' \subseteq {"store", "checkpoint", "marker", "requests", "quarantine"}
           /\ faults' \in 0..MaxFaults
  <1>1. faults' \in 0..MaxFaults
    <2>1. faults \in 0..MaxFaults
      BY DEF TypeOK
    <2> QED BY <2>1, BoundsAssumption DEF WritesStale
  <1>2. damaged' \subseteq {"store", "checkpoint", "marker", "requests", "quarantine"}
    BY DEF TypeOK, WritesStale
  <1> QED BY <1>1, <1>2

\* The same for a step that writes nothing stale.
LEMMA WritesType ==
    ASSUME TypeOK, NEW written, NEW lost,
           lost \subseteq {"checkpoint", "marker", "requests", "quarantine"},
           Writes(written, lost)
    PROVE  /\ damaged' \subseteq {"store", "checkpoint", "marker", "requests", "quarantine"}
           /\ faults' \in 0..MaxFaults
  <1>1. WritesStale(written, lost, {})
    BY DEF Writes
  <1> QED BY <1>1, WritesStaleType

\* A freeze keeps the types, whether or not its marker file is written.
LEMMA FreezeType ==
    ASSUME TypeOK, NEW lost \in SUBSET {"marker"}, Freeze(lost)
    PROVE  /\ damaged' \subseteq {"store", "checkpoint", "marker", "requests", "quarantine"}
           /\ faults' \in 0..MaxFaults
           /\ marker' \in BOOLEAN /\ frozen' \in BOOLEAN
  <1>1. frozen' \in BOOLEAN
    BY DEF Freeze
  <1>2. CASE frozen
    BY <1>1, <1>2 DEF Freeze, TypeOK
  <1>3. CASE ~frozen
    <2>1. Writes({"marker"}, lost) /\ marker' = (marker \/ "marker" \notin lost)
      BY <1>3 DEF Freeze
    <2>2. marker' \in BOOLEAN
      BY <2>1, Zenon
    <2> QED BY <1>1, <2>1, <2>2, WritesType
  <1> QED BY <1>2, <1>3

\* So does lifting the freeze for a re-audit.
LEMMA BeginReauditType ==
    ASSUME TypeOK, NEW h \in Admin, NEW cp \in Checkpoint \cup {NoCheckpoint}, NEW lost,
           BeginReaudit(h, cp, lost)
    PROVE  /\ store' \in Ledger \cup {Torn} /\ checkpoint' \in Checkpoint \cup {NoCheckpoint}
           /\ marker' \in BOOLEAN /\ inited' \in BOOLEAN /\ frozen' \in BOOLEAN
           /\ rituals' \in [Admin -> RitualState]
  <1>1. frozen' \in BOOLEAN
    BY DEF BeginReaudit
  <1>2. rituals' \in [Admin -> RitualState]
    <2>1. Idle \in RitualState
      BY DEF Idle, RitualState, AuditState
    <2>2. CASE cp # NoCheckpoint
      <3>1. Fetching(cp) \in RitualState
        BY <2>2 DEF Fetching, RitualState, AuditState
      <3> QED BY <2>1, <3>1 DEF BeginReaudit, TypeOK
    <2>3. CASE cp = NoCheckpoint
      BY <2>1, <2>3 DEF BeginReaudit, TypeOK
    <2> QED BY <2>2, <2>3
  <1>3. CASE frozen /\ cp = NoCheckpoint
    <2>1. EstablishCheckpoint(lost) /\ marker' = (marker /\ "marker" \in lost)
      BY <1>3 DEF BeginReaudit
    <2>2. marker' \in BOOLEAN
      BY <2>1, Zenon
    <2>3. /\ store' \in Ledger \cup {Torn} /\ inited' \in BOOLEAN
          /\ checkpoint' \in Checkpoint \cup {NoCheckpoint}
      BY <2>1, ReadFacts, DigestType DEF EstablishCheckpoint, WrittenCheckpoint, TypeOK
    <2> QED BY <1>1, <1>2, <2>2, <2>3
  <1>4. CASE ~(frozen /\ cp = NoCheckpoint)
    BY <1>1, <1>2, <1>4 DEF BeginReaudit, TypeOK
  <1> QED BY <1>3, <1>4

\* The first state is of its type.
LEMMA InitType == Init => TypeOK
  <1> SUFFICES ASSUME Init PROVE TypeOK
    OBVIOUS
  <1>1. Idle \in AuditState /\ Idle \in RitualState
    BY DEF Idle, AuditState, RitualState
  <1>2. faults \in 0..MaxFaults
    BY BoundsAssumption DEF Init
  <1>3. /\ audits \in [Auditor -> AuditState] /\ rituals \in [Admin -> RitualState]
        /\ anchors \in [Slot -> RootHash \cup {NoRoot}]
    BY <1>1 DEF Init
  <1> QED BY <1>2, <1>3, EmptyLedger DEF Init, TypeOK

\* Every step of the server, the notary and the environment preserves TypeOK.
LEMMA NextType == TypeOK /\ [Next]_vars => TypeOK'
  <1> SUFFICES ASSUME TypeOK, [Next]_vars PROVE TypeOK'
    OBVIOUS
  <1> USE DEF disk, memory, remote, history
  <1>idle. Idle \in AuditState /\ Idle \in RitualState
    BY DEF Idle, AuditState, RitualState
  <1>1. ASSUME NEW r \in Record, SaveRecord(r) PROVE TypeOK'
    <2>1. store' \in Ledger
      BY <1>1, ReadFacts, UpsertFacts DEF SaveRecord
    <2>2. PICK lost \in SUBSET {"checkpoint"} :
            /\ checkpoint' \in WrittenCheckpoint(Digest(store'), lost)
            /\ Writes({"store", "checkpoint"}, lost)
      BY <1>1 DEF SaveRecord
    <2>3. Digest(store') \in Checkpoint
      BY <2>1, DigestType
    <2>4. checkpoint' \in Checkpoint \cup {NoCheckpoint}
      BY <2>2, <2>3 DEF WrittenCheckpoint, TypeOK
    <2>5. /\ damaged' \subseteq {"store", "checkpoint", "marker", "requests", "quarantine"}
          /\ faults' \in 0..MaxFaults
      BY <2>2, WritesType
    <2>6. anchors' \in [Slot -> RootHash \cup {NoRoot}]
      BY <1>1, <2>3 DEF SaveRecord, Broadcast, TypeOK, Checkpoint
    <2>7. acked' \subseteq Record
      BY <1>1 DEF SaveRecord, TypeOK
    <2> QED BY <1>1, <2>1, <2>4, <2>5, <2>6, <2>7 DEF SaveRecord, Broadcast, TypeOK
  <1>2. ASSUME NEW r \in Record, CrashInSave(r) PROVE TypeOK'
    <2>1. store' \in Ledger
      BY <1>2, ReadFacts, UpsertFacts DEF CrashInSave
    <2>2. acked' \subseteq Record
      BY <1>2 DEF CrashInSave, TypeOK
    <2>3. faults' \in 0..MaxFaults
      BY <1>2, BoundsAssumption DEF CrashInSave, Fault, TypeOK
    <2> QED BY <1>2, <1>idle, <2>1, <2>2, <2>3 DEF CrashInSave, Restarted, TypeOK
  <1>3. ASSUME NEW a \in Auditor, AuditStart(a) PROVE TypeOK'
    <2>1. Fetching(checkpoint) \in AuditState
      BY <1>3 DEF AuditStart, Fetching, AuditState, TypeOK
    <2> QED BY <1>3, <2>1 DEF AuditStart, TypeOK
  <1>4. ASSUME NEW a \in Auditor, AuditEstablish(a) PROVE TypeOK'
    <2>1. PICK lost \in SUBSET {"checkpoint"} :
            EstablishCheckpoint(lost) /\ Writes({"checkpoint"}, lost)
      BY <1>4 DEF AuditEstablish
    <2>2. /\ store' \in Ledger \cup {Torn} /\ inited' \in BOOLEAN
          /\ checkpoint' \in Checkpoint \cup {NoCheckpoint}
      BY <2>1, ReadFacts, DigestType DEF EstablishCheckpoint, WrittenCheckpoint, TypeOK
    <2>3. /\ damaged' \subseteq {"store", "checkpoint", "marker", "requests", "quarantine"}
          /\ faults' \in 0..MaxFaults
      BY <2>1, WritesType
    <2> QED BY <1>4, <2>2, <2>3 DEF AuditEstablish, TypeOK
  <1>5. ASSUME NEW a \in Auditor, AuditUnreachable(a) PROVE TypeOK'
    <2>1. PICK lost \in SUBSET {"marker"} : Freeze(lost)
      BY <1>5 DEF AuditUnreachable
    <2>2. /\ damaged' \subseteq {"store", "checkpoint", "marker", "requests", "quarantine"}
          /\ faults' \in 0..MaxFaults /\ marker' \in BOOLEAN /\ frozen' \in BOOLEAN
      BY <2>1, FreezeType
    <2> QED BY <1>5, <1>idle, <2>2 DEF AuditUnreachable, TypeOK
  <1>6. ASSUME NEW a \in Auditor, NotaryServeAudit(a) PROVE TypeOK'
    <2>1. audits[a].cp \in Checkpoint /\ notary \in RootHash
      BY <1>6 DEF NotaryServeAudit, TypeOK, AuditState
    <2>2. Replied(audits[a].cp, notary) \in AuditState
      BY <2>1 DEF Replied, AuditState
    <2> QED BY <1>6, <2>2 DEF NotaryServeAudit, TypeOK
  <1>7. ASSUME NEW a \in Auditor, AuditFinish(a) PROVE TypeOK'
    <2>1. inited' \in BOOLEAN
      BY <1>7, Zenon DEF AuditFinish, AuditRead
    <2>2. /\ damaged' \subseteq {"store", "checkpoint", "marker", "requests", "quarantine"}
          /\ faults' \in 0..MaxFaults /\ marker' \in BOOLEAN /\ frozen' \in BOOLEAN
      BY <1>7, FreezeType DEF AuditFinish, TypeOK
    <2> QED BY <1>7, <1>idle, <2>1, <2>2 DEF AuditFinish, TypeOK
  <1>8. ASSUME NEW h \in Admin, NotaryServeRitual(h) PROVE TypeOK'
    <2>1. notary \in RootHash
      BY <1>8 DEF NotaryServeRitual, TypeOK
    <2>2. CASE rituals[h].stage = "fetch"
      <3>1. rituals[h].cp \in Checkpoint
        BY <2>2 DEF TypeOK, AuditState, RitualState
      <3>2. Replied(rituals[h].cp, notary) \in RitualState
        BY <2>1, <3>1 DEF Replied, AuditState, RitualState
      <3> QED BY <1>8, <2>2, <3>2 DEF NotaryServeRitual, TypeOK
    <2>3. CASE rituals[h].stage = "healFetch"
      <3>1. rituals[h].req \in RequestId
        BY <2>3 DEF TypeOK, AuditState, RitualState
      <3>2. HealReplied(rituals[h].req, notary) \in RitualState
        BY <2>1, <3>1 DEF HealReplied, AuditState, RitualState
      <3> QED BY <1>8, <2>3, <3>2 DEF NotaryServeRitual, TypeOK
    <2> QED BY <1>8, <2>2, <2>3 DEF NotaryServeRitual
  <1>9. ASSUME NEW h \in Admin, RitualUnreachable(h) PROVE TypeOK'
    BY <1>9, <1>idle DEF RitualUnreachable, TypeOK
  <1>10. ASSUME NEW h \in Admin, HealNoMatch(h) PROVE TypeOK'
    BY <1>10, <1>idle, ReadFacts DEF HealNoMatch, TypeOK
  <1>11. ASSUME NEW h \in Admin, HealTruncate(h) PROVE TypeOK'
    <2>1. PICK n \in 0..Len(AllRecords), lost \in SUBSET {"quarantine"} :
            /\ quarantine' = quarantine \cup IF lost = {} THEN Suffix(AllRecords, n) ELSE {}
            /\ store' = Prefix(AllRecords, n)
            /\ rituals' = [rituals EXCEPT ![h] = Importing(rituals[h].req, Digest(store'))]
            /\ Writes({"store"}, lost)
      BY <1>11 DEF HealTruncate
    <2>2. store' \in Ledger /\ Suffix(AllRecords, n) \subseteq Record
      BY <2>1, ReadFacts, PrefixFacts
    <2>3. quarantine' \subseteq Record
      BY <2>1, <2>2 DEF TypeOK
    <2>4. /\ damaged' \subseteq {"store", "checkpoint", "marker", "requests", "quarantine"}
          /\ faults' \in 0..MaxFaults
      BY <2>1, WritesType
    <2>5. rituals[h].req \in RequestId
      BY <1>11 DEF HealTruncate, TypeOK, AuditState, RitualState
    <2>6. Importing(rituals[h].req, Digest(store')) \in RitualState
      BY <2>2, <2>5, DigestType DEF Importing, RitualState
    <2>7. rituals' \in [Admin -> RitualState]
      BY <2>1, <2>6 DEF TypeOK
    <2> QED BY <1>11, <2>2, <2>3, <2>4, <2>7 DEF HealTruncate, TypeOK
  <1>12. ASSUME NEW h \in Admin, HealCheckpoint(h) PROVE TypeOK'
    <2>1. rituals[h].req \in RequestId /\ rituals[h].healed \in Checkpoint
      BY <1>12 DEF HealCheckpoint, TypeOK, AuditState, RitualState
    <2>2. PICK lost \in SUBSET {"checkpoint", "requests", "marker"} :
            /\ \E cp \in WrittenCheckpoint(rituals[h].healed, lost) : BeginReaudit(h, cp, lost)
            /\ requests' = requests \cup IF "requests" \in lost THEN {} ELSE {rituals[h].req}
            /\ WritesStale({"checkpoint", "requests"}, lost, Overtaken(h))
      BY <1>12 DEF HealCheckpoint
    <2>3. PICK cp \in WrittenCheckpoint(rituals[h].healed, lost) : BeginReaudit(h, cp, lost)
      BY <2>2
    <2>4. cp \in Checkpoint \cup {NoCheckpoint}
      BY <2>1, <2>3 DEF WrittenCheckpoint, TypeOK
    <2>5. /\ store' \in Ledger \cup {Torn} /\ checkpoint' \in Checkpoint \cup {NoCheckpoint}
          /\ marker' \in BOOLEAN /\ inited' \in BOOLEAN /\ frozen' \in BOOLEAN
          /\ rituals' \in [Admin -> RitualState]
      BY <2>3, <2>4, BeginReauditType
    <2>6. /\ damaged' \subseteq {"store", "checkpoint", "marker", "requests", "quarantine"}
          /\ faults' \in 0..MaxFaults
      <3>1. Overtaken(h) \in SUBSET {"checkpoint"}
        BY DEF Overtaken
      <3>2. lost \subseteq {"checkpoint", "marker", "requests", "quarantine"}
        OBVIOUS
      <3> QED BY <2>2, <3>1, <3>2, WritesStaleType
    <2>7. requests' \subseteq RequestId
      BY <2>1, <2>2 DEF TypeOK
    <2>8. anchors' \in [Slot -> RootHash \cup {NoRoot}] /\ notary' = notary
      BY <1>12, <2>1 DEF HealCheckpoint, Broadcast, TypeOK, Checkpoint
    <2> QED BY <1>12, <2>5, <2>6, <2>7, <2>8 DEF HealCheckpoint, TypeOK
  <1>13. ASSUME NEW h \in Admin, ReauditUnreachable(h) PROVE TypeOK'
    <2>1. PICK lost \in SUBSET {"marker"} : Freeze(lost)
      BY <1>13 DEF ReauditUnreachable
    <2>2. /\ damaged' \subseteq {"store", "checkpoint", "marker", "requests", "quarantine"}
          /\ faults' \in 0..MaxFaults /\ marker' \in BOOLEAN /\ frozen' \in BOOLEAN
      BY <2>1, FreezeType
    <2> QED BY <1>13, <1>idle, <2>2 DEF ReauditUnreachable, TypeOK
  <1>14. ASSUME NEW h \in Admin, ReauditFinish(h) PROVE TypeOK'
    <2>1. inited' \in BOOLEAN
      BY <1>14, Zenon DEF ReauditFinish, AuditRead
    <2>2. PICK lost \in SUBSET {"marker"} :
            \/ marker' = MarkerAfterAudit(lost) /\ Writes({}, lost) /\ UNCHANGED frozen
            \/ Freeze(lost)
      BY <1>14 DEF ReauditFinish
    <2>3. /\ damaged' \subseteq {"store", "checkpoint", "marker", "requests", "quarantine"}
          /\ faults' \in 0..MaxFaults /\ marker' \in BOOLEAN /\ frozen' \in BOOLEAN
      <3>1. CASE Freeze(lost)
        BY <3>1, FreezeType
      <3>2. CASE marker' = MarkerAfterAudit(lost) /\ Writes({}, lost) /\ UNCHANGED frozen
        <4>1. marker' \in BOOLEAN
          BY <3>2, Zenon DEF MarkerAfterAudit
        <4>2. lost \subseteq {"checkpoint", "marker", "requests", "quarantine"}
          OBVIOUS
        <4>3. /\ damaged' \subseteq {"store", "checkpoint", "marker", "requests", "quarantine"}
              /\ faults' \in 0..MaxFaults
          BY <3>2, <4>2, WritesType
        <4> QED BY <3>2, <4>1, <4>3 DEF TypeOK
      <3> QED BY <2>2, <3>1, <3>2
    <2> QED BY <1>14, <1>idle, <2>1, <2>3 DEF ReauditFinish, TypeOK
  <1>15. ASSUME NEW h \in Admin, CrashInHeal(h) PROVE TypeOK'
    <2>1. PICK n \in 0..Len(AllRecords) : quarantine' = quarantine \cup Suffix(AllRecords, n)
      BY <1>15 DEF CrashInHeal
    <2>2. quarantine' \subseteq Record
      BY <2>1, ReadFacts, PrefixFacts DEF TypeOK
    <2>3. acked' \subseteq Record
      BY <1>15 DEF CrashInHeal, StillKept, TypeOK
    <2>4. faults' \in 0..MaxFaults
      BY <1>15, BoundsAssumption DEF CrashInHeal, Fault, TypeOK
    <2>5. store' \in Ledger \cup {Torn}
      BY <1>15, EmptyLedger DEF CrashInHeal
    <2>6. damaged' \subseteq {"store", "checkpoint", "marker", "requests", "quarantine"}
      BY <1>15 DEF CrashInHeal, TypeOK
    <2> QED BY <1>15, <1>idle, <2>2, <2>3, <2>4, <2>5, <2>6 DEF CrashInHeal, Restarted, TypeOK
  <1>16. ASSUME NEW h \in Admin, NEW q \in RequestId, RitualStart(h, q) PROVE TypeOK'
    <2>1. HealFetching(q) \in RitualState
      BY DEF HealFetching, RitualState
    <2> QED BY <1>16, <2>1 DEF RitualStart, TypeOK
  <1>17. ASSUME NEW h \in Admin, NEW q \in RequestId, RitualReplay(h, q) PROVE TypeOK'
    <2>1. PICK lost \in SUBSET {"checkpoint", "marker"} :
            BeginReaudit(h, checkpoint, lost) /\ Writes({}, lost)
      BY <1>17 DEF RitualReplay
    <2>2. checkpoint \in Checkpoint \cup {NoCheckpoint}
      BY DEF TypeOK
    <2>3. /\ store' \in Ledger \cup {Torn} /\ checkpoint' \in Checkpoint \cup {NoCheckpoint}
          /\ marker' \in BOOLEAN /\ inited' \in BOOLEAN /\ frozen' \in BOOLEAN
          /\ rituals' \in [Admin -> RitualState]
      BY <2>1, <2>2, BeginReauditType
    <2>4. /\ damaged' \subseteq {"store", "checkpoint", "marker", "requests", "quarantine"}
          /\ faults' \in 0..MaxFaults
      BY <2>1, WritesType
    <2> QED BY <1>17, <2>3, <2>4 DEF RitualReplay, TypeOK
  <1>18. ASSUME NEW n \in Slot, NotaryAnchor(n) \/ AnchorLost(n) PROVE TypeOK'
    BY <1>18 DEF NotaryAnchor, AnchorLost, TypeOK
  <1>19. CASE Restart
    <2>1. faults' \in 0..MaxFaults
      BY <1>19, BoundsAssumption DEF Restart, Fault, TypeOK
    <2> QED BY <1>19, <1>idle, <2>1 DEF Restart, Restarted, TypeOK
  <1>20. CASE ExternalEdit
    <2>1. store \in Ledger
      BY <1>20 DEF ExternalEdit, TypeOK
    <2>2. store' \in Ledger \cup {Torn}
      <3>1. CASE store' = Torn
        BY <3>1
      <3>2. CASE \E n \in 0..Len(store) : n < Len(store) /\ store' = Prefix(store, n)
        BY <2>1, <3>2, PrefixFacts
      <3>3. CASE \E i \in DOMAIN store, b \in Body :
                   b # store[i].body /\ store' = [store EXCEPT ![i].body = b]
        <4>1. PICK i \in DOMAIN store, b \in Body : store' = [store EXCEPT ![i].body = b]
          BY <3>3
        <4>2. PICK n \in 0..MaxRecords : store \in [1..n -> Record]
          BY <2>1 DEF Ledger
        <4>3. store' \in [1..n -> Record]
          BY <4>1, <4>2 DEF Record
        <4> QED BY <4>3, LedgerIntro
      <3> QED BY <1>20, <3>1, <3>2, <3>3 DEF ExternalEdit
    <2>3. faults' \in 0..MaxFaults
      BY <1>20, BoundsAssumption DEF ExternalEdit, Fault, TypeOK
    <2>4. acked' \subseteq Record
      BY <1>20 DEF ExternalEdit, StillKept, TypeOK
    <2>5. damaged' \subseteq {"store", "checkpoint", "marker", "requests", "quarantine"}
      BY <1>20 DEF ExternalEdit, TypeOK
    <2> QED BY <1>20, <2>2, <2>3, <2>4, <2>5 DEF ExternalEdit, TypeOK
  <1>21. CASE UNCHANGED vars
    BY <1>21 DEF vars, TypeOK
  <1> QED
    BY <1>1, <1>2, <1>3, <1>4, <1>5, <1>6, <1>7, <1>8, <1>9, <1>10, <1>11, <1>12,
       <1>13, <1>14, <1>15, <1>16, <1>17, <1>18, <1>19, <1>20, <1>21
    DEF Next, AuditStep, RitualStep

\* The state of the guarded ledger stays well typed through every interleaving,
\* crash and external edit.
THEOREM TypeCorrect == Spec => []TypeOK
  <1>1. Init => TypeOK
    BY InitType
  <1>2. TypeOK /\ [Next]_vars => TypeOK'
    BY NextType
  <1> QED BY <1>1, <1>2, PTL DEF Spec

-----------------------------------------------------------------------------
(* The freeze and its marker file *)

\* freeze() leaves the marker behind whenever its write succeeded.
LEMMA FreezeMarks ==
    ASSUME FrozenIsMarked, NEW lost \in SUBSET {"marker"}, Freeze(lost)
    PROVE  FrozenIsMarked'
  <1>1. CASE frozen
    BY <1>1 DEF Freeze, FrozenIsMarked
  <1>2. CASE ~frozen
    <2>1. marker' = (marker \/ "marker" \notin lost) /\ lost \subseteq damaged'
      BY <1>2 DEF Freeze, Writes, WritesStale
    <2> QED BY <2>1, Zenon DEF FrozenIsMarked
  <1> QED BY <1>1, <1>2

\* However audits, re-audits, replays and marker removals interleave, a frozen
\* server has its marker file unless writing it failed.
THEOREM FreezeIsVisible == Spec => []FrozenIsMarked
  <1>1. Init => FrozenIsMarked
    BY DEF Init, FrozenIsMarked
  <1>2. FrozenIsMarked /\ [Next]_vars => FrozenIsMarked'
    <2> SUFFICES ASSUME FrozenIsMarked, [Next]_vars PROVE FrozenIsMarked'
      OBVIOUS
    <2> USE DEF disk, memory, remote, history
    <2>1. ASSUME NEW r \in Record, SaveRecord(r) PROVE FrozenIsMarked'
      BY <2>1 DEF SaveRecord, FrozenIsMarked
    <2>2. ASSUME frozen' = FALSE PROVE FrozenIsMarked'
      BY <2>2 DEF FrozenIsMarked
    <2>3. ASSUME NEW a \in Auditor, AuditStep(a) PROVE FrozenIsMarked'
      <3>1. CASE AuditStart(a) \/ NotaryServeAudit(a)
        BY <3>1 DEF AuditStart, NotaryServeAudit, FrozenIsMarked
      <3>2. CASE AuditEstablish(a)
        BY <3>2 DEF AuditEstablish, FrozenIsMarked
      <3>3. CASE AuditUnreachable(a)
        BY <3>3, FreezeMarks DEF AuditUnreachable
      <3>4. CASE AuditFinish(a)
        <4>1. CASE UNCHANGED <<frozen, marker, damaged, faults>>
          BY <4>1 DEF FrozenIsMarked
        <4>2. CASE \E lost \in SUBSET {"marker"} : Freeze(lost)
          BY <4>2, FreezeMarks
        <4> QED BY <3>4, <4>1, <4>2 DEF AuditFinish
      <3> QED BY <2>3, <3>1, <3>2, <3>3, <3>4 DEF AuditStep
    <2>4. ASSUME NEW h \in Admin, RitualStep(h) PROVE FrozenIsMarked'
      <3>1. CASE NotaryServeRitual(h) \/ RitualUnreachable(h) \/ HealNoMatch(h)
        BY <3>1 DEF NotaryServeRitual, RitualUnreachable, HealNoMatch, FrozenIsMarked
      <3>2. CASE HealTruncate(h)
        <4>1. UNCHANGED <<marker, frozen>> /\ ("marker" \in damaged => "marker" \in damaged')
          BY <3>2 DEF HealTruncate, Writes, WritesStale
        <4> QED BY <4>1 DEF FrozenIsMarked
      <3>3. CASE HealCheckpoint(h)
        BY <3>3, <2>2 DEF HealCheckpoint, BeginReaudit
      <3>4. CASE ReauditUnreachable(h)
        BY <3>4, FreezeMarks DEF ReauditUnreachable
      <3>5. CASE ReauditFinish(h)
        <4>1. PICK lost \in SUBSET {"marker"} :
                \/ marker' = MarkerAfterAudit(lost) /\ Writes({}, lost) /\ UNCHANGED frozen
                \/ Freeze(lost)
          BY <3>5 DEF ReauditFinish
        <4>2. CASE Freeze(lost)
          BY <4>2, FreezeMarks
        <4>3. CASE marker' = MarkerAfterAudit(lost) /\ Writes({}, lost) /\ UNCHANGED frozen
          <5>1. damaged \subseteq damaged'
            BY <4>3 DEF Writes, WritesStale
          <5> QED BY <4>3, <5>1, Zenon DEF MarkerAfterAudit, FrozenIsMarked
        <4> QED BY <4>1, <4>2, <4>3
      <3> QED BY <2>4, <3>1, <3>2, <3>3, <3>4, <3>5 DEF RitualStep
    <2>5. ASSUME NEW h \in Admin, NEW q \in RequestId, RitualStart(h, q) PROVE FrozenIsMarked'
      BY <2>5 DEF RitualStart, FrozenIsMarked
    <2>6. ASSUME NEW h \in Admin, NEW q \in RequestId, RitualReplay(h, q) PROVE FrozenIsMarked'
      BY <2>6, <2>2 DEF RitualReplay, BeginReaudit
    <2>7. ASSUME NEW n \in Slot, NotaryAnchor(n) \/ AnchorLost(n) PROVE FrozenIsMarked'
      BY <2>7 DEF NotaryAnchor, AnchorLost, FrozenIsMarked
    <2>8. ASSUME Restarted PROVE FrozenIsMarked'
      BY <2>8, <2>2 DEF Restarted
    <2>9. CASE ExternalEdit
      BY <2>9 DEF ExternalEdit, FrozenIsMarked
    <2>10. CASE UNCHANGED vars
      BY <2>10 DEF vars, FrozenIsMarked
    <2> QED
      BY <2>1, <2>3, <2>4, <2>5, <2>6, <2>7, <2>8, <2>9, <2>10
      DEF Next, Restart, CrashInSave, CrashInHeal
  <1> QED BY <1>1, <1>2, PTL DEF Spec

-----------------------------------------------------------------------------
(* Acknowledged locks *)

\* A step that leaves the promises alone, keeps the quarantine, and either
\* leaves the store or only performs its first-use initialisation, keeps them.
LEMMA InitializeKeeps ==
    ASSUME AckedKept, UNCHANGED <<acked, quarantine>>,
           store' = store \/ store' = InitializedStore,
           "quarantine" \in damaged => "quarantine" \in damaged'
    PROVE  AckedKept'
  <1>1. CASE store' = store
    BY <1>1 DEF AckedKept, AllRecords, Records
  <1>2. CASE store' = InitializedStore
    <2>1. AllRecords' = AllRecords
      BY <1>2 DEF AllRecords, InitializedStore
    <2> QED BY <2>1 DEF AckedKept, Records
  <1> QED BY <1>1, <1>2

\* No lock answered 201 is silently lost: every write, heal, crash and restart
\* keeps the record in the ledger or in quarantine.
THEOREM AckedLocksAreKept == Spec => []AckedKept
  <1>1. Init => AckedKept
    BY DEF Init, AckedKept
  <1>2. TypeOK /\ AckedKept /\ [Next]_vars => AckedKept'
    <2> SUFFICES ASSUME TypeOK, AckedKept, [Next]_vars PROVE AckedKept'
      OBVIOUS
    <2> USE DEF disk, memory, remote, history
    <2>w. ASSUME NEW written, NEW lost, NEW stale, "quarantine" \notin written,
                 Writes(written, lost) \/ WritesStale(written, lost, stale)
          PROVE  "quarantine" \in damaged => "quarantine" \in damaged'
      BY <2>w DEF Writes, WritesStale
    <2>f. ASSUME NEW lost \in SUBSET {"marker"}, Freeze(lost)
          PROVE  "quarantine" \in damaged => "quarantine" \in damaged'
      BY <2>f DEF Freeze, Writes, WritesStale
    <2>u. ASSUME NEW r \in Record, InitializedStore # Torn,
                 Len(Upsert(InitializedStore, r)) <= MaxRecords,
                 store' = Upsert(InitializedStore, r)
          PROVE  /\ r \in Records(AllRecords')
                 /\ \A x \in Records(AllRecords) : x.id # r.id => x \in Records(AllRecords')
      <3>1. InitializedStore \in Ledger /\ Records(AllRecords) = Records(InitializedStore)
        BY <2>u, ReadFacts
      <3>2. /\ store' \in Ledger /\ r \in Records(store')
            /\ \A x \in Records(InitializedStore) : x.id # r.id => x \in Records(store')
        BY <2>u, <3>1, UpsertFacts
      <3>3. AllRecords' = store'
        BY <3>2, DistinctAssumption DEF AllRecords
      <3> QED BY <3>1, <3>2, <3>3
    <2>1. ASSUME NEW r \in Record, SaveRecord(r) PROVE AckedKept'
      <3>1. "quarantine" \in damaged => "quarantine" \in damaged'
        BY <2>1 DEF SaveRecord, Writes, WritesStale
      <3>2. /\ acked' = {x \in acked : x.id # r.id} \cup {r} /\ quarantine' = quarantine
            /\ r \in Records(AllRecords')
            /\ \A x \in Records(AllRecords) : x.id # r.id => x \in Records(AllRecords')
        BY <2>1, <2>u DEF SaveRecord
      <3> QED BY <3>1, <3>2 DEF AckedKept
    <2>2. ASSUME NEW r \in Record, CrashInSave(r) PROVE AckedKept'
      <3>1. /\ acked' = {x \in acked : x.id # r.id} /\ UNCHANGED <<quarantine, damaged>>
            /\ \A x \in Records(AllRecords) : x.id # r.id => x \in Records(AllRecords')
        BY <2>2, <2>u DEF CrashInSave
      <3> QED BY <3>1 DEF AckedKept
    <2>3. ASSUME NEW a \in Auditor, AuditStep(a) PROVE AckedKept'
      <3>1. CASE AuditStart(a) \/ NotaryServeAudit(a)
        BY <3>1, InitializeKeeps DEF AuditStart, NotaryServeAudit
      <3>2. CASE AuditEstablish(a)
        BY <3>2, <2>w, InitializeKeeps DEF AuditEstablish, EstablishCheckpoint
      <3>3. CASE AuditUnreachable(a)
        BY <3>3, <2>f, InitializeKeeps DEF AuditUnreachable
      <3>4. CASE AuditFinish(a)
        BY <3>4, <2>f, InitializeKeeps DEF AuditFinish
      <3> QED BY <2>3, <3>1, <3>2, <3>3, <3>4 DEF AuditStep
    <2>4. ASSUME NEW h \in Admin, HealTruncate(h) PROVE AckedKept'
      <3>1. PICK n \in 0..Len(AllRecords), lost \in SUBSET {"quarantine"} :
              /\ quarantine' = quarantine \cup IF lost = {} THEN Suffix(AllRecords, n) ELSE {}
              /\ store' = Prefix(AllRecords, n)
              /\ Writes({"store"}, lost)
        BY <2>4 DEF HealTruncate
      <3>2. CASE lost # {}
        BY <3>1, <3>2 DEF Writes, WritesStale, AckedKept
      <3>3. CASE lost = {}
        <4>1. /\ store' \in Ledger
              /\ Records(AllRecords) \subseteq Records(store') \cup Suffix(AllRecords, n)
          BY <3>1, ReadFacts, PrefixFacts
        <4>2. AllRecords' = store'
          BY <4>1, DistinctAssumption DEF AllRecords
        <4>3. acked' = acked /\ ("quarantine" \in damaged => "quarantine" \in damaged')
          BY <2>4, <3>1, <2>w DEF HealTruncate
        <4> QED BY <3>1, <3>3, <4>1, <4>2, <4>3 DEF AckedKept
      <3> QED BY <3>2, <3>3
    <2>5. ASSUME NEW h \in Admin, RitualStep(h), ~HealTruncate(h) PROVE AckedKept'
      <3>1. CASE NotaryServeRitual(h) \/ RitualUnreachable(h) \/ HealNoMatch(h)
        BY <3>1, InitializeKeeps DEF NotaryServeRitual, RitualUnreachable, HealNoMatch
      <3>2. CASE HealCheckpoint(h)
        BY <3>2, <2>w, InitializeKeeps DEF HealCheckpoint, BeginReaudit, EstablishCheckpoint
      <3>3. CASE ReauditUnreachable(h)
        BY <3>3, <2>f, InitializeKeeps DEF ReauditUnreachable
      <3>4. CASE ReauditFinish(h)
        BY <3>4, <2>f, <2>w, InitializeKeeps DEF ReauditFinish
      <3> QED BY <2>5, <3>1, <3>2, <3>3, <3>4 DEF RitualStep
    <2>6. ASSUME NEW h \in Admin, CrashInHeal(h) PROVE AckedKept'
      <3>1. acked' = acked \cap (Records(<<>>) \cup quarantine')
        BY <2>6 DEF CrashInHeal, StillKept
      <3>2. Records(<<>>) = {}
        BY DEF Records
      <3> QED BY <3>1, <3>2 DEF AckedKept
    <2>7. ASSUME NEW h \in Admin, NEW q \in RequestId, RitualStart(h, q) PROVE AckedKept'
      BY <2>7, InitializeKeeps DEF RitualStart
    <2>8. ASSUME NEW h \in Admin, NEW q \in RequestId, RitualReplay(h, q) PROVE AckedKept'
      BY <2>8, <2>w, InitializeKeeps DEF RitualReplay, BeginReaudit, EstablishCheckpoint
    <2>9. ASSUME NEW n \in Slot, NotaryAnchor(n) \/ AnchorLost(n) PROVE AckedKept'
      BY <2>9, InitializeKeeps DEF NotaryAnchor, AnchorLost
    <2>10. CASE Restart
      BY <2>10, InitializeKeeps DEF Restart
    <2>11. CASE ExternalEdit
      <3>1. acked' \subseteq Records(AllRecords') \cup quarantine'
        BY <2>11 DEF ExternalEdit, StillKept, AllRecords
      <3> QED BY <3>1 DEF AckedKept
    <2>12. CASE UNCHANGED vars
      BY <2>12, InitializeKeeps DEF vars
    <2> QED
      BY <2>1, <2>2, <2>3, <2>4, <2>5, <2>6, <2>7, <2>8, <2>9, <2>10, <2>11, <2>12 DEF Next
  <1> QED BY <1>1, <1>2, TypeCorrect, PTL DEF Spec

-----------------------------------------------------------------------------
(* Thawing *)

\* Neither the ledger nor its checkpoint was damaged behind the server's back.
Sound == "store" \notin damaged /\ "checkpoint" \notin damaged

\* Only damage leaves a file that does not parse.
TornIsDamage == store = Torn => "store" \in damaged

\* No heal stands between its two writes.
NoHealOpen == \A g \in Admin : rituals[g].stage # "import"

\* While a re-audit of checkpoint cp waits, the file holds cp still, or what a
\* write or a heal finished in the meantime made of it.
Agrees(h) ==
    rituals[h].stage \in {"fetch", "reply"} /\ Sound /\ NoHealOpen =>
        checkpoint = rituals[h].cp \/ checkpoint = Digest(store)

\* The inductive invariant of a thaw.
ThawInv == TypeOK /\ TornIsDamage /\ \A h \in Admin : Agrees(h)

\* A step that makes the files agree.
LEMMA FilesAgree ==
    ASSUME TypeOK', TornIsDamage', Sound' /\ NoHealOpen' => checkpoint' = Digest(store')
    PROVE  ThawInv'
<1>1. Digest(store)' = Digest(store')
    BY DEF Digest
<1>. QED  BY <1>1 DEF ThawInv, Agrees

\* A step that touches neither of two sound files, ends no heal, and begins no
\* re-audit but one of the checkpoint as it stands.
LEMMA QuietAgrees ==
    ASSUME ThawInv, TypeOK', TornIsDamage', Sound' => Sound /\ UNCHANGED <<store, checkpoint>>,
           NoHealOpen' => NoHealOpen,
           \A h \in Admin : rituals'[h].stage \in {"fetch", "reply"} =>
                \/ rituals[h].stage \in {"fetch", "reply"} /\ rituals'[h].cp = rituals[h].cp
                \/ rituals'[h].cp = checkpoint'
    PROVE  ThawInv'
<1>. SUFFICES ASSUME NEW h \in Admin, rituals'[h].stage \in {"fetch", "reply"}, Sound', NoHealOpen'
              PROVE  checkpoint' = rituals'[h].cp \/ checkpoint' = Digest(store)'
    BY DEF ThawInv, Agrees
<1>1. Sound /\ NoHealOpen /\ store' = store /\ checkpoint' = checkpoint
    OBVIOUS
<1>2. Digest(store)' = Digest(store)
    BY <1>1 DEF Digest
<1>3. Agrees(h)
    BY DEF ThawInv
<1>. QED  BY <1>1, <1>2, <1>3 DEF Agrees

\* A step that leaves files and rituals alone.
LEMMA AsideAgrees ==
    ASSUME ThawInv, TypeOK', UNCHANGED <<store, checkpoint, rituals>>,
           "store" \in damaged => "store" \in damaged',
           "checkpoint" \in damaged => "checkpoint" \in damaged'
    PROVE  ThawInv'
<1>1. TornIsDamage' /\ (Sound' => Sound)
    BY DEF ThawInv, TornIsDamage, Sound
<1>2. NoHealOpen' => NoHealOpen
    BY DEF NoHealOpen
<1>. QED  BY <1>1, <1>2, QuietAgrees

\* A step after which nobody waits for a re-audit.
LEMMA NobodyWaits ==
    ASSUME TypeOK', TornIsDamage', \A h \in Admin : rituals'[h].stage \notin {"fetch", "reply"}
    PROVE  ThawInv'
BY DEF ThawInv, Agrees

\* A freeze hits neither file.
LEMMA FreezeHitsMarkerOnly ==
    ASSUME NEW lost \in SUBSET {"marker"}, Freeze(lost)
    PROVE  /\ "store" \in damaged <=> "store" \in damaged'
           /\ "checkpoint" \in damaged <=> "checkpoint" \in damaged'
           /\ marker => marker'
<1>1. CASE frozen
    BY <1>1 DEF Freeze
<1>2. CASE ~frozen
    <2>1. Writes({"marker"}, lost) /\ marker' = (marker \/ "marker" \notin lost)
        BY <1>2 DEF Freeze
    <2>2. damaged' = (damaged \ {"marker"}) \cup lost
        BY <2>1 DEF Writes, WritesStale
    <2>3. marker => marker'
        BY <2>1, Zenon
    <2>. QED  BY <2>2, <2>3
<1>. QED  BY <1>1, <1>2

\* A first checkpoint, written where neither file was damaged, is the ledger's.
LEMMA EstablishedAgrees ==
    ASSUME TornIsDamage, NEW lost, EstablishCheckpoint(lost), "checkpoint" \notin lost,
           "store" \notin damaged
    PROVE  store' = store /\ store # Torn /\ checkpoint' = Digest(store')
BY DEF TornIsDamage, EstablishCheckpoint, WrittenCheckpoint, InitializedStore, AllRecords, Digest

\* The audit that a ritual begins is of the file as it stands, or the first
\* checkpoint is established and no audit is due.
LEMMA BeginReauditAgrees ==
    ASSUME TypeOK, TornIsDamage, NEW h \in Admin, NEW cp, NEW lost,
           BeginReaudit(h, cp, lost), "store" \in damaged' <=> "store" \in damaged
    PROVE  /\ TornIsDamage'
           /\ rituals'[h].stage \in {"fetch", "reply"} => rituals'[h].cp = checkpoint'
           /\ rituals'[h].stage # "import"
           /\ \A g \in Admin : g # h => rituals'[g] = rituals[g]
<1>1. "store" \in damaged' <=> "store" \in damaged
    OBVIOUS
<1>2. store' = Torn => store = Torn
    <2>1. CASE store' = store
        BY <2>1
    <2>2. CASE store' = InitializedStore
        BY <2>2 DEF InitializedStore
    <2>. QED  BY <2>1, <2>2 DEF BeginReaudit, EstablishCheckpoint
<1>3. TornIsDamage'
    BY <1>1, <1>2 DEF TornIsDamage
<1>4. Idle.stage = "idle" /\ Fetching(cp).cp = cp /\ Fetching(cp).stage = "fetch"
    BY DEF Idle, Fetching
<1>5. CASE frozen /\ cp # NoCheckpoint
    <2>1. rituals' = [rituals EXCEPT ![h] = Fetching(cp)] /\ checkpoint' = cp
        BY <1>5 DEF BeginReaudit
    <2>2. rituals'[h] = Fetching(cp) /\ \A g \in Admin : g # h => rituals'[g] = rituals[g]
        BY <2>1 DEF TypeOK
    <2>. QED  BY <1>3, <1>4, <2>1, <2>2
<1>6. CASE ~(frozen /\ cp # NoCheckpoint)
    <2>1. rituals' = [rituals EXCEPT ![h] = Idle]
        BY <1>6 DEF BeginReaudit
    <2>2. rituals'[h] = Idle /\ \A g \in Admin : g # h => rituals'[g] = rituals[g]
        BY <2>1 DEF TypeOK
    <2>. QED  BY <1>3, <1>4, <2>2
<1>. QED  BY <1>5, <1>6

\* Every step keeps the re-audits and the files in step.
LEMMA NextThaw ==
    ASSUME ThawInv, TypeOK', [Next]_vars
    PROVE  ThawInv'
<1>. USE DEF disk, memory, remote, history
<1>0. TypeOK /\ TornIsDamage /\ (\A h \in Admin : Agrees(h)) /\ Idle.stage = "idle"
    BY DEF ThawInv, Idle
<1>2. ASSUME NEW r \in Record, SaveRecord(r)
      PROVE  ThawInv'
    <2>1. store' \in Ledger /\ store' # Torn
        BY <1>0, <1>2, ReadFacts, UpsertFacts, DistinctAssumption DEF SaveRecord
    <2>2. PICK lost \in SUBSET {"checkpoint"} :
            /\ checkpoint' \in WrittenCheckpoint(Digest(store'), lost)
            /\ Writes({"store", "checkpoint"}, lost)
        BY <1>2 DEF SaveRecord
    <2>3. Sound' => checkpoint' = Digest(store')
        BY <2>2 DEF Sound, Writes, WritesStale, WrittenCheckpoint
    <2>. QED  BY <2>1, <2>3, FilesAgree DEF TornIsDamage
<1>3. ASSUME Restarted, TornIsDamage'
      PROVE  ThawInv'
    <2>1. \A h \in Admin : rituals'[h] = Idle
        BY <1>3 DEF Restarted
    <2>. QED  BY <1>0, <1>3, <2>1, NobodyWaits
<1>4. ASSUME NEW r \in Record, CrashInSave(r)
      PROVE  ThawInv'
    <2>1. store' # Torn
        BY <1>0, <1>4, ReadFacts, UpsertFacts, DistinctAssumption DEF CrashInSave
    <2>. QED  BY <1>3, <1>4, <2>1 DEF CrashInSave, TornIsDamage
<1>5. ASSUME NEW a \in Auditor, AuditStep(a)
      PROVE  ThawInv'
    <2>1. CASE AuditStart(a) \/ NotaryServeAudit(a)
        BY <1>5, <2>1, AsideAgrees DEF AuditStart, NotaryServeAudit
    <2>2. CASE AuditEstablish(a)
        <3>1. PICK lost \in SUBSET {"checkpoint"} :
                EstablishCheckpoint(lost) /\ Writes({"checkpoint"}, lost)
            BY <2>2 DEF AuditEstablish
        <3>2. damaged' = (damaged \ {"checkpoint"}) \cup lost
            BY <3>1 DEF Writes, WritesStale
        <3>3. "store" \in damaged' <=> "store" \in damaged
            BY <3>2
        <3>4. Sound' => checkpoint' = Digest(store')
            BY <1>0, <3>1, <3>2, EstablishedAgrees DEF Sound
        <3>5. TornIsDamage'
            BY <1>0, <3>1, <3>3 DEF TornIsDamage, EstablishCheckpoint, InitializedStore
        <3>. QED  BY <3>4, <3>5, FilesAgree
    <2>3. CASE AuditUnreachable(a) \/ AuditFinish(a)
        <3>1. UNCHANGED <<store, checkpoint, rituals>>
            BY <2>3 DEF AuditUnreachable, AuditFinish
        <3>2. /\ "store" \in damaged => "store" \in damaged'
              /\ "checkpoint" \in damaged => "checkpoint" \in damaged'
            BY <2>3, FreezeHitsMarkerOnly DEF AuditUnreachable, AuditFinish
        <3>. QED  BY <3>1, <3>2, AsideAgrees
    <2>. QED  BY <1>5, <2>1, <2>2, <2>3 DEF AuditStep
\* A step of a ritual that is not at the import and waits for no re-audit afterwards.
<1>6. ASSUME NEW h \in Admin, NEW s, rituals' = [rituals EXCEPT ![h] = s],
             rituals[h].stage # "import", s.stage \notin {"fetch", "reply"}, TornIsDamage',
             Sound' => Sound /\ UNCHANGED <<store, checkpoint>>
      PROVE  ThawInv'
    <2>1. rituals'[h] = s /\ \A g \in Admin : g # h => rituals'[g] = rituals[g]
        BY <1>0, <1>6 DEF TypeOK
    <2>2. NoHealOpen' => NoHealOpen
        BY <1>6, <2>1 DEF NoHealOpen
    <2>3. \A g \in Admin : rituals'[g].stage \in {"fetch", "reply"} => rituals'[g] = rituals[g]
        BY <1>6, <2>1
    <2>. QED  BY <1>6, <2>2, <2>3, QuietAgrees
<1>7. ASSUME NEW h \in Admin, RitualStep(h)
      PROVE  ThawInv'
    <2>1. CASE NotaryServeRitual(h)
        <3>1. UNCHANGED <<store, checkpoint, damaged>>
            BY <2>1 DEF NotaryServeRitual
        <3>0. TornIsDamage' /\ (Sound' => Sound)
            BY <1>0, <3>1 DEF TornIsDamage, Sound
        <3>2. CASE /\ rituals[h].stage = "fetch"
                   /\ rituals' = [rituals EXCEPT ![h] = Replied(rituals[h].cp, notary)]
            <4>1. /\ rituals'[h] = Replied(rituals[h].cp, notary)
                  /\ Replied(rituals[h].cp, notary).cp = rituals[h].cp
                  /\ \A g \in Admin : g # h => rituals'[g] = rituals[g]
                BY <1>0, <3>2 DEF TypeOK, Replied
            <4>2. NoHealOpen' => NoHealOpen
                BY <3>2, <4>1 DEF NoHealOpen
            <4>3. \A g \in Admin : rituals'[g].stage \in {"fetch", "reply"} =>
                    rituals[g].stage \in {"fetch", "reply"} /\ rituals'[g].cp = rituals[g].cp
                BY <3>2, <4>1
            <4>. QED  BY <3>0, <3>1, <4>2, <4>3, QuietAgrees
        <3>3. CASE /\ rituals[h].stage = "healFetch"
                   /\ rituals' = [rituals EXCEPT ![h] = HealReplied(rituals[h].req, notary)]
            <4>1. HealReplied(rituals[h].req, notary).stage = "healReply"
                BY DEF HealReplied
            <4>. QED  BY <1>6, <3>0, <3>1, <3>3, <4>1
        <3>. QED  BY <2>1, <3>2, <3>3 DEF NotaryServeRitual
    <2>2. CASE RitualUnreachable(h)
        <3>1. /\ rituals[h].stage = "healFetch" /\ rituals' = [rituals EXCEPT ![h] = Idle]
              /\ UNCHANGED <<store, checkpoint, damaged>>
            BY <2>2 DEF RitualUnreachable
        <3>2. TornIsDamage' /\ (Sound' => Sound)
            BY <1>0, <3>1 DEF TornIsDamage, Sound
        <3>. QED  BY <1>0, <1>6, <3>1, <3>2
    <2>3. CASE HealNoMatch(h)
        <3>1. /\ rituals[h].stage = "healReply" /\ rituals' = [rituals EXCEPT ![h] = Idle]
              /\ UNCHANGED <<checkpoint, damaged>> /\ store' = InitializedStore
            BY <2>3 DEF HealNoMatch
        <3>2. TornIsDamage' /\ (Sound' => Sound /\ store' = store)
            BY <1>0, <3>1 DEF TornIsDamage, InitializedStore, Sound
        <3>. QED  BY <1>0, <1>6, <3>1, <3>2
    <2>4. CASE HealTruncate(h)
        <3>1. PICK n \in 0..Len(AllRecords) : store' = Prefix(AllRecords, n)
            BY <2>4 DEF HealTruncate
        <3>2. store' # Torn
            BY <1>0, <3>1, ReadFacts, PrefixFacts, DistinctAssumption
        <3>3. rituals' = [rituals EXCEPT ![h] = Importing(rituals[h].req, Digest(store'))]
            BY <2>4 DEF HealTruncate
        <3>4. Importing(rituals[h].req, Digest(store')).stage = "import"
            BY DEF Importing
        <3>5. ~NoHealOpen'
            BY <1>0, <3>3, <3>4 DEF NoHealOpen, TypeOK
        <3>. QED  BY <3>2, <3>5, FilesAgree DEF TornIsDamage
    <2>5. CASE HealCheckpoint(h)
        <3>1. PICK lost \in SUBSET {"checkpoint", "requests", "marker"} :
                /\ \E cp \in WrittenCheckpoint(rituals[h].healed, lost) : BeginReaudit(h, cp, lost)
                /\ WritesStale({"checkpoint", "requests"}, lost, Overtaken(h))
            BY <2>5 DEF HealCheckpoint
        <3>2. PICK cp \in WrittenCheckpoint(rituals[h].healed, lost) : BeginReaudit(h, cp, lost)
            BY <3>1
        <3>3. damaged' = (damaged \ {"checkpoint", "requests"}) \cup lost \cup Overtaken(h)
            BY <3>1 DEF WritesStale
        <3>4. "store" \in damaged' <=> "store" \in damaged
            BY <3>3 DEF Overtaken
        <3>5. TornIsDamage'
            BY <1>0, <3>2, <3>4, BeginReauditAgrees
        <3>6. rituals[h].healed # NoCheckpoint
            BY <1>0, <2>5, DistinctAssumption DEF HealCheckpoint, TypeOK, AuditState, RitualState
        <3>7. ASSUME Sound' PROVE checkpoint' = Digest(store')
            <4>1. "checkpoint" \notin lost /\ "checkpoint" \notin Overtaken(h)
                BY <3>3, <3>7 DEF Sound
            <4>2. cp = rituals[h].healed /\ rituals[h].healed = Digest(store)
                BY <3>2, <4>1 DEF WrittenCheckpoint, Overtaken
            <4>3. checkpoint' = cp /\ store' = store
                BY <3>2, <3>6, <4>2 DEF BeginReaudit
            <4>. QED  BY <4>2, <4>3 DEF Digest
        <3>. QED  BY <3>5, <3>7, FilesAgree
    <2>6. CASE ReauditUnreachable(h) \/ ReauditFinish(h)
        <3>1. /\ UNCHANGED <<store, checkpoint>> /\ rituals' = [rituals EXCEPT ![h] = Idle]
              /\ rituals[h].stage \in {"fetch", "reply"}
              /\ \E lost \in SUBSET {"marker"} : Freeze(lost) \/ Writes({}, lost)
            BY <2>6 DEF ReauditUnreachable, ReauditFinish
        <3>2. /\ "store" \in damaged => "store" \in damaged'
              /\ "checkpoint" \in damaged => "checkpoint" \in damaged'
            BY <3>1, FreezeHitsMarkerOnly DEF Writes, WritesStale
        <3>3. TornIsDamage' /\ (Sound' => Sound)
            BY <1>0, <3>1, <3>2 DEF TornIsDamage, Sound
        <3>. QED  BY <1>0, <1>6, <3>1, <3>3
    <2>. QED  BY <1>7, <2>1, <2>2, <2>3, <2>4, <2>5, <2>6 DEF RitualStep
<1>8. ASSUME NEW h \in Admin, CrashInHeal(h)
      PROVE  ThawInv'
    BY <1>3, <1>8 DEF CrashInHeal, TornIsDamage
<1>9. ASSUME NEW h \in Admin, NEW q \in RequestId, RitualStart(h, q)
      PROVE  ThawInv'
    <2>1. HealFetching(q).stage = "healFetch"
        BY DEF HealFetching
    <2>2. /\ rituals[h] = Idle /\ rituals' = [rituals EXCEPT ![h] = HealFetching(q)]
          /\ UNCHANGED <<store, checkpoint, damaged>>
        BY <1>9 DEF RitualStart
    <2>3. TornIsDamage' /\ (Sound' => Sound)
        BY <1>0, <2>2 DEF TornIsDamage, Sound
    <2>. QED  BY <1>0, <1>6, <2>1, <2>2, <2>3
<1>10. ASSUME NEW h \in Admin, NEW q \in RequestId, RitualReplay(h, q)
       PROVE  ThawInv'
    <2>1. PICK lost \in SUBSET {"checkpoint", "marker"} :
            BeginReaudit(h, checkpoint, lost) /\ Writes({}, lost)
        BY <1>10 DEF RitualReplay
    <2>2. rituals[h] = Idle /\ damaged' = damaged \cup lost
        BY <1>10, <2>1 DEF RitualReplay, Writes, WritesStale
    <2>3. /\ TornIsDamage'
          /\ rituals'[h].stage \in {"fetch", "reply"} => rituals'[h].cp = checkpoint'
          /\ rituals'[h].stage # "import"
          /\ \A g \in Admin : g # h => rituals'[g] = rituals[g]
        BY <1>0, <2>1, <2>2, BeginReauditAgrees
    <2>4. CASE frozen /\ checkpoint = NoCheckpoint
        <3>1. EstablishCheckpoint(lost)
            BY <2>1, <2>4 DEF BeginReaudit
        <3>2. Sound' => checkpoint' = Digest(store')
            BY <1>0, <2>2, <3>1, EstablishedAgrees DEF Sound
        <3>. QED  BY <2>3, <3>2, FilesAgree
    <2>5. CASE ~(frozen /\ checkpoint = NoCheckpoint)
        <3>1. UNCHANGED <<store, checkpoint>>
            BY <2>1, <2>5 DEF BeginReaudit
        <3>2. Sound' => Sound
            BY <2>2 DEF Sound
        <3>3. NoHealOpen' => NoHealOpen
            BY <1>0, <2>2, <2>3 DEF NoHealOpen
        <3>4. \A g \in Admin : rituals'[g].stage \in {"fetch", "reply"} =>
                \/ rituals[g].stage \in {"fetch", "reply"} /\ rituals'[g].cp = rituals[g].cp
                \/ rituals'[g].cp = checkpoint'
            BY <2>3
        <3>. QED  BY <2>3, <3>1, <3>2, <3>3, <3>4, QuietAgrees
    <2>. QED  BY <2>4, <2>5
<1>11. ASSUME NEW n \in Slot, NotaryAnchor(n) \/ AnchorLost(n)
       PROVE  ThawInv'
    BY <1>11, AsideAgrees DEF NotaryAnchor, AnchorLost
<1>12. CASE Restart
    BY <1>0, <1>3, <1>12 DEF Restart, TornIsDamage
<1>13. CASE ExternalEdit
    BY <1>13 DEF ExternalEdit, ThawInv, TornIsDamage, Agrees, Sound
<1>14. CASE UNCHANGED vars
    BY <1>14, AsideAgrees DEF vars
<1>. QED  BY <1>2, <1>4, <1>5, <1>7, <1>8, <1>9, <1>10, <1>11, <1>12, <1>13, <1>14 DEF Next

\* The marker goes where a re-audit found the ledger clean, or where a first
\* checkpoint was established, and nowhere else.
LEMMA ThawStep ==
    ASSUME ThawInv, Next, marker, ~marker', Sound', NoHealOpen'
    PROVE  store' # Torn /\ checkpoint' = Digest(store')
<1>. USE DEF disk, memory, remote, history
<1>0. TypeOK /\ TornIsDamage /\ \A h \in Admin : Agrees(h)
    BY DEF ThawInv
<1>1. ASSUME NEW h \in Admin, NEW cp, NEW lost, BeginReaudit(h, cp, lost),
             "checkpoint" \notin lost, "store" \in damaged => "store" \in damaged'
      PROVE  store' # Torn /\ checkpoint' = Digest(store')
    <2>1. EstablishCheckpoint(lost)
        BY <1>1 DEF BeginReaudit
    <2>2. "store" \notin damaged
        BY <1>1 DEF Sound
    <2>. QED  BY <1>0, <1>1, <2>1, <2>2, EstablishedAgrees
<1>2. ASSUME NEW h \in Admin, NEW q \in RequestId, RitualReplay(h, q)
      PROVE  store' # Torn /\ checkpoint' = Digest(store')
    <2>1. PICK lost \in SUBSET {"checkpoint", "marker"} :
            BeginReaudit(h, checkpoint, lost) /\ Writes({}, lost)
        BY <1>2 DEF RitualReplay
    <2>2. "checkpoint" \notin lost /\ ("store" \in damaged => "store" \in damaged')
        BY <2>1 DEF Sound, Writes, WritesStale
    <2>. QED  BY <1>1, <2>1, <2>2
<1>3. ASSUME NEW h \in Admin, HealCheckpoint(h)
      PROVE  store' # Torn /\ checkpoint' = Digest(store')
    <2>1. PICK lost \in SUBSET {"checkpoint", "requests", "marker"} :
            /\ \E cp \in WrittenCheckpoint(rituals[h].healed, lost) : BeginReaudit(h, cp, lost)
            /\ WritesStale({"checkpoint", "requests"}, lost, Overtaken(h))
        BY <1>3 DEF HealCheckpoint
    <2>2. PICK cp : BeginReaudit(h, cp, lost)
        BY <2>1
    <2>3. "checkpoint" \notin lost /\ ("store" \in damaged => "store" \in damaged')
        BY <2>1 DEF Sound, WritesStale
    <2>. QED  BY <1>1, <2>1, <2>2, <2>3
<1>4. ASSUME NEW h \in Admin, ReauditFinish(h)
      PROVE  store' # Torn /\ checkpoint' = Digest(store')
    <2>1. /\ UNCHANGED <<store, checkpoint>> /\ rituals[h].stage = "reply"
          /\ rituals' = [rituals EXCEPT ![h] = Idle]
        BY <1>4 DEF ReauditFinish
    <2>2. PICK lost \in SUBSET {"marker"} :
            \/ Clean(rituals[h].cp, rituals[h].root) /\ Writes({}, lost)
            \/ Freeze(lost)
        BY <1>4 DEF ReauditFinish
    <2>3. Clean(rituals[h].cp, rituals[h].root) /\ Writes({}, lost)
        BY <2>2, FreezeHitsMarkerOnly
    <2>4. Sound
        BY <2>3 DEF Sound, Writes, WritesStale
    <2>5. NoHealOpen
        BY <1>0, <2>1 DEF NoHealOpen, TypeOK
    <2>6. checkpoint = Digest(store) /\ store # Torn
        BY <1>0, <2>1, <2>3, <2>4, <2>5 DEF Agrees, Clean
    <2>. QED  BY <2>1, <2>6 DEF Digest
<1>5. ASSUME NEW a \in Auditor, AuditStep(a)
      PROVE  FALSE
    BY <1>5, FreezeHitsMarkerOnly
       DEF AuditStep, AuditStart, AuditEstablish, NotaryServeAudit, AuditUnreachable, AuditFinish
<1>6. ASSUME NEW h \in Admin, RitualStep(h), ~HealCheckpoint(h), ~ReauditFinish(h)
      PROVE  FALSE
    BY <1>6, FreezeHitsMarkerOnly
       DEF RitualStep, NotaryServeRitual, RitualUnreachable, HealNoMatch, HealTruncate,
           ReauditUnreachable
<1>7. ASSUME \/ \E r \in Record : SaveRecord(r) \/ CrashInSave(r)
             \/ \E h \in Admin : CrashInHeal(h)
             \/ \E h \in Admin, q \in RequestId : RitualStart(h, q)
             \/ \E n \in Slot : NotaryAnchor(n) \/ AnchorLost(n)
             \/ Restart \/ ExternalEdit
      PROVE  FALSE
    BY <1>7 DEF SaveRecord, CrashInSave, CrashInHeal, RitualStart, NotaryAnchor, AnchorLost,
                Restart, ExternalEdit
<1>. QED  BY <1>2, <1>3, <1>4, <1>5, <1>6, <1>7 DEF Next

\* The marker is only removed from a ledger that agrees with its checkpoint,
\* whatever is written during the re-audit and whatever crashes, for any number of
\* audits, faults and unfreeze requests at once, unless a file was damaged, a
\* slower heal wrote its checkpoint over a newer one, or another heal stands
\* between its two writes.
THEOREM ThawsMatchCheckpoint == Spec => ThawMatchesCheckpoint
<1>1. Init => ThawInv
    <2>1. Idle.stage = "idle"
        BY DEF Idle
    <2>2. ASSUME Init PROVE TornIsDamage /\ \A h \in Admin : Agrees(h)
        BY <2>1, <2>2, EmptyLedger, DistinctAssumption DEF Init, TornIsDamage, Agrees
    <2>. QED  BY <2>2, InitType DEF ThawInv
<1>2. ThawInv /\ TypeOK' /\ [Next]_vars => ThawInv'
    BY NextThaw
<1>3. ThawInv /\ [Next]_vars =>
        [/\ marker /\ ~marker'
         /\ damaged' \cap {"store", "checkpoint"} = {}
         /\ \A g \in Admin : rituals'[g].stage # "import"
         => store' # Torn /\ checkpoint' = Digest(store')]_vars
    BY ThawStep DEF Sound, NoHealOpen
<1>. QED  BY <1>1, <1>2, <1>3, TypeCorrect, PTL DEF Spec, ThawMatchesCheckpoint
=============================================================================
