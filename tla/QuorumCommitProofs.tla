------------------------- MODULE QuorumCommitProofs -------------------------
(***************************************************************************)
(* Proofs about QuorumCommit, for any node ids, proposals, records and     *)
(* request bodies, and any number of overlapping handlers, failed saves    *)
(* and restarts: the commit path implements CommitLedger, no payload saves *)
(* twice, and what aggregateShares makes is accepted at its slot.          *)
(***************************************************************************)
EXTENDS QuorumCommit, FiniteSetTheorems, SequenceTheorems, TLAPS

-----------------------------------------------------------------------------
(* Facts about the operators *)

Entry == [term : Int, record : Record]

\* Terms and indices of proposals are numbers.
LEMMA ProposalFacts ==
    ASSUME NEW p \in Proposal
    PROVE  p.term \in Int /\ p.index \in Int
BY QuorumAssumption DEF ProposalType

\* The threshold is 2f + 1, at least one.
LEMMA ThresholdFacts ==
    ASSUME NEW size \in Nat, size > 0
    PROVE  /\ FaultBound(size) \in Nat /\ FaultBound(size) = (size - 1) \div 3
           /\ QuorumThreshold(size) \in Nat /\ QuorumThreshold(size) >= 1
           /\ QuorumThreshold(size) = 2 * ((size - 1) \div 3) + 1
<1>1. (size - 1) \div 3 \in Nat
    OBVIOUS
<1>. QED  BY <1>1 DEF FaultBound, QuorumThreshold

\* The cluster has a size, and at least one node.
LEMMA ClusterFacts ==
    ASSUME peers \subseteq Node
    PROVE  ClusterSize \in Nat /\ ClusterSize > 0
<1>. DEFINE M == peers \cup {Self}
<1>1. M \subseteq Node /\ Self \in M
    BY QuorumAssumption
<1>2. IsFiniteSet(M)
    BY <1>1, QuorumAssumption, FS_Subset
<1>3. Cardinality(M) \in Nat /\ Cardinality(M) # 0
    BY <1>1, <1>2, FS_CardinalityType, FS_EmptySet
<1>. QED  BY <1>3 DEF ClusterSize

\* Whoever makes up a body, it has the type of a body.
LEMMA BodyType ==
    ASSUME payloads \subseteq PayloadType, NEW body \in Bodies
    PROVE  body \in RequestType /\ body.payload \in PayloadType
<1>1. CASE body \in Request
    BY <1>1, QuorumAssumption DEF RequestType
<1>2. ASSUME NEW q \in Request, NEW pay \in payloads, body = [q EXCEPT !.payload = pay]
      PROVE  body \in RequestType /\ body.payload \in PayloadType
    <2>1. q \in RequestType /\ pay \in PayloadType
        BY QuorumAssumption
    <2>. QED  BY <1>2, <2>1 DEF RequestType
<1>. QED  BY <1>1, <1>2 DEF Bodies

\* The oldest of the queue leaves it: what is left is its tail.
LEMMA RemoveOldest ==
    ASSUME NEW S, NEW q \in Seq(S), q # <<>>
    PROVE  /\ RemoveAt(q, 1) = Tail(q) /\ RemoveAt(q, 1) \in Seq(S)
           /\ Len(RemoveAt(q, 1)) = Len(q) - 1
           /\ \A k \in 1..(Len(q) - 1) : RemoveAt(q, 1)[k] = q[k + 1]
<1>1. SubSeq(q, 1, 0) = <<>>
    BY SubSeqEmpty
<1>2. SubSeq(q, 2, Len(q)) = Tail(q)
    BY TailIsSubSeq
<1>3. Tail(q) \in Seq(S) /\ Len(Tail(q)) = Len(q) - 1
      /\ \A k \in 1..Len(Tail(q)) : Tail(q)[k] = q[k + 1]
    BY HeadTailProperties
<1>4. RemoveAt(q, 1) = Tail(q)
    BY <1>1, <1>2, <1>3, ConcatEmptySeq DEF RemoveAt
<1>. QED  BY <1>3, <1>4

-----------------------------------------------------------------------------
(* Type correctness *)

\* The first state is of its type.
LEMMA InitType == Init => TypeOK
<1>. SUFFICES ASSUME Init PROVE TypeOK
    OBVIOUS
<1>1. ledger \in [Tx -> Record \cup {NoRecord}]
    BY DEF Init
<1>2. log \in Seq(Entry) /\ Len(log) <= MaxLog /\ queue \in Seq(Slot) /\ resuming \in Seq(Slot)
    BY QuorumAssumption DEF Init
<1>3. faults \in 0..MaxFaults /\ commitIndex \in Slot \cup {0}
    BY QuorumAssumption DEF Init
<1>. QED  BY <1>1, <1>2, <1>3 DEF Init, TypeOK, Entry

\* An aggregate as the commit wants it: sizes and thresholds as both compute them,
\* enough nodes, and shares of one slot.
Sound(pay) ==
    /\ pay.size \in Nat /\ pay.size > 0
    /\ pay.f = (pay.size - 1) \div 3 /\ pay.threshold = 2 * ((pay.size - 1) \div 3) + 1
    /\ pay.listed >= pay.threshold /\ Cardinality({s.node : s \in pay.shares}) >= pay.threshold
    /\ \A r, s \in pay.shares : r.term = s.term /\ r.index = s.index

\* What an aggregate of shares holds.
LEMMA AggregateFacts ==
    ASSUME TypeOK, NEW p \in Proposal, NEW given \in SUBSET (shares \cup OtherShare),
           Cardinality(Counted(given, p.term, p.index)) >= QuorumThreshold(ClusterSize)
    PROVE  LET pay == Payload(ClusterSize, Counted(given, p.term, p.index), p)
           IN  pay \in PayloadType /\ Sound(pay)
<1>. DEFINE nodes == Counted(given, p.term, p.index)
            size == ClusterSize
            made == {Share(n, p.term, p.index) : n \in nodes}
            pay == Payload(size, nodes, p)
<1>1. size \in Nat /\ size > 0
    BY ClusterFacts DEF TypeOK
<1>2. nodes \subseteq Node
    <2>1. \A x \in given : x.node \in Node
        BY QuorumAssumption DEF TypeOK, ShareType
    <2>. QED  BY <2>1 DEF Counted
<1>3. IsFiniteSet(nodes) /\ Cardinality(nodes) \in Nat
    BY <1>2, QuorumAssumption, FS_Subset, FS_CardinalityType
<1>4. pay = [size |-> size, f |-> FaultBound(size), threshold |-> QuorumThreshold(size),
             listed |-> Cardinality(nodes), shares |-> made]
    BY DEF Payload
<1>5. /\ FaultBound(size) \in Int /\ FaultBound(size) = (size - 1) \div 3
      /\ QuorumThreshold(size) \in Int /\ QuorumThreshold(size) = 2 * ((size - 1) \div 3) + 1
    BY <1>1, ThresholdFacts
<1>6. p.term \in Int /\ p.index \in Int
    BY ProposalFacts
<1>7. Cardinality(nodes) >= QuorumThreshold(size)
    OBVIOUS
<1>. HIDE DEF nodes, size
<1>8. made \subseteq ShareType
    BY <1>2, <1>6 DEF Share, ShareType
<1>9. \A s \in made : s.term = p.term /\ s.index = p.index
    BY DEF Share
<1>10. {s.node : s \in made} = nodes
    <2>1. \A n : Share(n, p.term, p.index).node = n
        BY DEF Share
    <2>. QED  BY <2>1
<1>. HIDE DEF made
<1>. HIDE DEF pay
<1>11. pay \in PayloadType
    BY <1>1, <1>3, <1>4, <1>5, <1>8 DEF PayloadType
<1>12. /\ pay.size = size /\ pay.f = FaultBound(size) /\ pay.threshold = QuorumThreshold(size)
       /\ pay.listed = Cardinality(nodes) /\ pay.shares = made
    BY <1>4
<1>13. Sound(pay)
    BY <1>1, <1>5, <1>7, <1>9, <1>10, <1>12 DEF Sound
<1>. QED  BY <1>11, <1>13 DEF pay, nodes, size

\* An entry added to the log leaves the others in place.
LEMMA AppendType ==
    ASSUME TypeOK, NEW rec \in Record, Len(log) < MaxLog
    PROVE  LET longer == Append(log, [term |-> CurrentTerm, record |-> rec]) IN
           /\ longer \in Seq(Entry) /\ Len(longer) = Len(log) + 1 /\ Len(longer) <= MaxLog
           /\ Len(log) \in Nat /\ Len(log) + 1 \in Slot
           /\ \A k \in 1..Len(log) : longer[k] = log[k]
           /\ longer[Len(log) + 1] = [term |-> CurrentTerm, record |-> rec]
<1>. DEFINE e == [term |-> CurrentTerm, record |-> rec]
<1>1. e \in Entry
    BY DEF Entry, CurrentTerm
<1>2. log \in Seq(Entry)
    BY DEF TypeOK, Entry
<1>. HIDE DEF e
<1>3. /\ Append(log, e) \in Seq(Entry) /\ Len(Append(log, e)) = Len(log) + 1
      /\ \A k \in 1..Len(log) : Append(log, e)[k] = log[k]
      /\ Append(log, e)[Len(log) + 1] = e /\ Len(log) \in Nat
    BY <1>1, <1>2
<1>. QED  BY <1>3, QuorumAssumption DEF Slot, e

\* The save at the head of the queue, and the entry it is for.
LEMMA OldestFacts ==
    ASSUME TypeOK, NEW k \in DOMAIN queue, k \in NextToSave
    PROVE  /\ k = 1 /\ queue # <<>> /\ queue[1] \in Slot /\ queue \in Seq(Slot)
           /\ 1 \in DOMAIN queue
BY DEF TypeOK, NextToSave

\* Every step keeps the types.
LEMMA NextType ==
    ASSUME TypeOK, [Next]_vars,
           \A k \in DOMAIN queue : queue[k] <= Len(log)
    PROVE  TypeOK'
<1>. USE QuorumAssumption
<1>1. ASSUME NEW n \in Node \ {Self}, RegisterPeer(n)
      PROVE  TypeOK'
    BY <1>1 DEF RegisterPeer, raftVars, TypeOK, Slot
<1>2. ASSUME NEW n \in Node, NEW p \in Proposal, VerifyStateTransition(n, p)
      PROVE  TypeOK'
    <2>1. Share(n, p.term, p.index) \in ShareType
        BY ProposalFacts DEF Share, ShareType
    <2>. QED  BY <1>2, <2>1 DEF VerifyStateTransition, BuildShare, raftVars, TypeOK, Slot
<1>3. ASSUME NEW p \in Proposal, NEW given \in SUBSET (shares \cup OtherShare),
             AggregateShares(p, given)
      PROVE  TypeOK'
    <2>1. payloads' \subseteq PayloadType
        BY <1>3, AggregateFacts DEF AggregateShares, TypeOK
    <2>. QED  BY <1>3, <2>1 DEF AggregateShares, raftVars, TypeOK, Slot
<1>4. ASSUME NEW rec \in Record, NEW body \in Bodies, AppendEntry(rec, body)
      PROVE  TypeOK'
    <2>1. /\ log' \in Seq(Entry) /\ Len(log') <= MaxLog /\ Len(log) + 1 \in Slot
        BY <1>4, AppendType DEF AppendEntry, AppendLocalLog
    <2>2. body.payload \in PayloadType
        BY BodyType DEF TypeOK
    <2>3. /\ queue' \in {queue, Append(queue, Len(log) + 1)}
          /\ carried' \subseteq carried \cup {[index |-> Len(log) + 1, payload |-> body.payload]}
        BY <1>4 DEF AppendEntry
    <2>4. queue' \in Seq(Slot)
        <3>1. queue \in Seq(Slot)
            BY DEF TypeOK
        <3>2. Append(queue, Len(log) + 1) \in Seq(Slot)
            BY <2>1, <3>1, AppendProperties
        <3>. QED  BY <2>3, <3>1, <3>2
    <2>5. carried' \subseteq [index : Slot, payload : PayloadType]
        BY <2>1, <2>2, <2>3 DEF TypeOK
    <2>. QED  BY <1>4, <2>1, <2>4, <2>5 DEF AppendEntry, TypeOK, Entry, Slot
<1>6. ASSUME NEW k \in DOMAIN queue, SaveRecord(k)
      PROVE  TypeOK'
    <2>1. /\ k = 1 /\ queue # <<>> /\ queue[1] \in Slot /\ queue \in Seq(Slot)
          /\ 1 \in DOMAIN queue
        BY <1>6, OldestFacts DEF SaveRecord
    <2>2. queue' \in Seq(Slot) /\ resuming' \in Seq(Slot) /\ saved' \subseteq Slot
        BY <1>6, <2>1, RemoveOldest DEF SaveRecord, TypeOK
    <2>3. log[queue[1]] \in Entry
        <3>1. log \in Seq(Entry) /\ Len(log) \in Nat
            BY DEF TypeOK, Entry
        <3>2. queue[1] \in 1..Len(log)
            BY <2>1, <3>1 DEF Slot
        <3>. QED  BY <3>1, <3>2
    <2>4. ledger' \in [Tx -> Record \cup {NoRecord}]
        BY <1>6, <2>1, <2>3 DEF SaveRecord, TypeOK, Entry
    <2>. QED  BY <1>6, <2>2, <2>4 DEF SaveRecord, TypeOK, Slot
<1>7. ASSUME NEW k \in DOMAIN queue, SaveFails(k)
      PROVE  TypeOK'
    <2>1. queue' \in Seq(Slot)
        BY <1>7, OldestFacts, RemoveOldest DEF SaveFails
    <2>. QED  BY <1>7, <2>1 DEF SaveFails, TypeOK, Slot
<1>8. CASE Committed
    <2>1. Head(resuming) \in Slot /\ Tail(resuming) \in Seq(Slot)
        BY <1>8 DEF Committed, TypeOK
    <2>. QED  BY <1>8, <2>1 DEF Committed, TypeOK, Slot
<1>9. CASE Restart
    BY <1>9 DEF Restart, TypeOK, Slot
<1>10. CASE UNCHANGED vars
    BY <1>10 DEF vars, raftVars, TypeOK, Slot
<1>. QED  BY <1>1, <1>2, <1>3, <1>4, <1>6, <1>7, <1>8, <1>9, <1>10 DEF Next

-----------------------------------------------------------------------------
(* The order of saves and commits *)

\* Waiting saves are in the order of their entries, all of them later than what
\* is saved; the handlers that have yet to resume are in that order too, each
\* with its entry saved and not yet reported.
QueueOrdered ==
    /\ \A k \in DOMAIN queue : queue[k] <= Len(log)
    /\ \A k, m \in DOMAIN queue : k < m => queue[k] < queue[m]
    /\ \A k \in DOMAIN queue, j \in saved : j < queue[k]

ResumingOrdered ==
    /\ \A k \in DOMAIN resuming : resuming[k] \in saved /\ commitIndex < resuming[k]
    /\ \A k, m \in DOMAIN resuming : k < m => resuming[k] < resuming[m]

SavedLogged ==
    /\ \A j \in saved : j <= Len(log)
    /\ commitIndex \in saved \cup {0}

\* The inductive invariant of the order.
OrderInv == TypeOK /\ QueueOrdered /\ ResumingOrdered /\ SavedLogged

\* The invariant of the order holds at first.
LEMMA InitOrder == Init => OrderInv
<1>1. Init => QueueOrdered /\ ResumingOrdered /\ SavedLogged
    BY DEF Init, QueueOrdered, ResumingOrdered, SavedLogged
<1>. QED  BY <1>1, InitType DEF OrderInv

\* A log that grows keeps the order; a handler may join the end of the queue.
LEMMA GrowingLogKeeps ==
    ASSUME OrderInv, TypeOK', Len(log') = Len(log) + 1,
           queue' \in {queue, Append(queue, Len(log) + 1)},
           UNCHANGED <<commitIndex, resuming, saved>>
    PROVE  QueueOrdered' /\ ResumingOrdered' /\ SavedLogged'
<1>. USE DEF OrderInv
<1>1. Len(log) \in Nat /\ saved \subseteq Nat /\ queue \in Seq(Nat)
    BY QuorumAssumption DEF TypeOK, Slot
<1>2. ResumingOrdered' /\ SavedLogged'
    BY <1>1 DEF ResumingOrdered, SavedLogged
<1>3. CASE queue' = queue
    BY <1>1, <1>2, <1>3 DEF QueueOrdered
<1>4. CASE queue' = Append(queue, Len(log) + 1)
    <2>1. /\ DOMAIN queue' = 1..(Len(queue) + 1) /\ DOMAIN queue = 1..Len(queue)
          /\ Len(queue) \in Nat
          /\ \A k \in DOMAIN queue : queue'[k] = queue[k] /\ queue[k] \in Nat
          /\ queue'[Len(queue) + 1] = Len(log) + 1
        BY <1>1, <1>4
    <2>2. \A k \in DOMAIN queue' : k \in DOMAIN queue \/ k = Len(queue) + 1
        BY <2>1
    <2>3. \A k \in DOMAIN queue' : queue'[k] <= Len(log')
        BY <1>1, <2>1, <2>2 DEF QueueOrdered
    <2>4. ASSUME NEW k \in DOMAIN queue', NEW m \in DOMAIN queue', k < m
          PROVE  queue'[k] < queue'[m]
        <3>1. k \in DOMAIN queue
            BY <2>1, <2>4
        <3>2. CASE m \in DOMAIN queue
            BY <2>1, <2>4, <3>1, <3>2 DEF QueueOrdered
        <3>3. CASE m = Len(queue) + 1
            <4>1. queue[k] <= Len(log) /\ queue[k] \in Nat
                BY <2>1, <3>1 DEF QueueOrdered
            <4>. QED  BY <1>1, <2>1, <3>1, <3>3, <4>1
        <3>. QED  BY <2>2, <3>2, <3>3
    <2>5. ASSUME NEW k \in DOMAIN queue', NEW j \in saved'
          PROVE  j < queue'[k]
        BY <1>1, <2>1, <2>2 DEF QueueOrdered, SavedLogged
    <2>6. QueueOrdered'
        BY <2>3, <2>4, <2>5 DEF QueueOrdered
    <2>. QED  BY <1>2, <2>6
<1>. QED  BY <1>2, <1>3, <1>4

\* The tail of an ordered queue is ordered.
LEMMA ShorterQueueKeeps ==
    ASSUME OrderInv, queue # <<>>, queue' = RemoveAt(queue, 1), UNCHANGED log
    PROVE  /\ \A k \in DOMAIN queue' : queue'[k] <= Len(log')
           /\ \A k, m \in DOMAIN queue' : k < m => queue'[k] < queue'[m]
           /\ \A k \in DOMAIN queue', j \in saved \cup {queue[1]} : j < queue'[k]
<1>. USE DEF OrderInv
<1>1. queue \in Seq(Slot) /\ Len(queue) \in Nat \ {0} /\ DOMAIN queue = 1..Len(queue)
    BY DEF TypeOK
<1>2. DOMAIN queue' = 1..(Len(queue) - 1) /\ \A k \in DOMAIN queue' : queue'[k] = queue[k + 1]
    BY <1>1, RemoveOldest
<1>3. \A k \in DOMAIN queue' : k + 1 \in DOMAIN queue /\ 1 < k + 1 /\ 1 \in DOMAIN queue
    BY <1>1, <1>2
<1>. QED  BY <1>1, <1>2, <1>3 DEF QueueOrdered

\* Saving a record keeps the order of the queue and of the commits under way.
LEMMA SaveKeeps ==
    ASSUME OrderInv, TypeOK', NEW k \in DOMAIN queue, SaveRecord(k)
    PROVE  QueueOrdered' /\ ResumingOrdered' /\ SavedLogged'
<1>. USE DEF OrderInv
<1>1. k = 1 /\ queue # <<>> /\ queue[1] \in Slot /\ 1 \in DOMAIN queue
    BY OldestFacts DEF SaveRecord
<1>2. /\ queue' = RemoveAt(queue, 1) /\ resuming' = Append(resuming, queue[1])
      /\ saved' = saved \cup {queue[1]} /\ UNCHANGED <<log, commitIndex>>
    BY <1>1 DEF SaveRecord
<1>3. QueueOrdered'
    BY <1>1, <1>2, ShorterQueueKeeps DEF QueueOrdered
<1>4. SavedLogged'
    BY <1>1, <1>2 DEF SavedLogged, QueueOrdered
<1>5. commitIndex < queue[1] /\ \A j \in saved : j < queue[1]
    BY <1>1 DEF SavedLogged, QueueOrdered, Slot
<1>6. ResumingOrdered'
    <2>1. /\ resuming \in Seq(Slot) /\ Len(resuming) \in Nat
          /\ DOMAIN resuming' = 1..(Len(resuming) + 1) /\ DOMAIN resuming = 1..Len(resuming)
          /\ \A m \in DOMAIN resuming : resuming'[m] = resuming[m]
          /\ resuming'[Len(resuming) + 1] = queue[1]
        BY <1>1, <1>2 DEF TypeOK
    <2>2. \A m \in DOMAIN resuming' : m \in DOMAIN resuming \/ m = Len(resuming) + 1
        BY <2>1
    <2>. QED  BY <1>2, <1>5, <2>1, <2>2 DEF ResumingOrdered
<1>. QED  BY <1>3, <1>4, <1>6

\* A commit that resumes moves the commit index to an entry that is saved.
LEMMA CommittedKeeps ==
    ASSUME OrderInv, TypeOK', Committed
    PROVE  /\ Head(resuming) \in saved /\ commitIndex < Head(resuming)
           /\ QueueOrdered' /\ ResumingOrdered' /\ SavedLogged'
<1>. USE DEF OrderInv
<1>1. /\ resuming \in Seq(Slot) /\ resuming # <<>> /\ Len(resuming) \in Nat \ {0}
      /\ Head(resuming) = resuming[1] /\ 1 \in DOMAIN resuming
      /\ DOMAIN resuming = 1..Len(resuming)
    BY DEF TypeOK, Committed
<1>2. /\ commitIndex' = resuming[1] /\ resuming' = Tail(resuming)
      /\ UNCHANGED <<log, queue, saved>>
    BY <1>1 DEF Committed
<1>3. /\ DOMAIN resuming' = 1..(Len(resuming) - 1)
      /\ \A k \in DOMAIN resuming' : resuming'[k] = resuming[k + 1]
    BY <1>1, <1>2
<1>4. \A k \in DOMAIN resuming' : k + 1 \in DOMAIN resuming /\ 1 < k + 1
    BY <1>1, <1>3
<1>5. ResumingOrdered'
    BY <1>1, <1>2, <1>3, <1>4 DEF ResumingOrdered
<1>6. QueueOrdered' /\ SavedLogged'
    BY <1>1, <1>2 DEF QueueOrdered, SavedLogged, ResumingOrdered
<1>. QED  BY <1>1, <1>5, <1>6 DEF ResumingOrdered

\* What a step does to the log, the queue and what is saved.
LEMMA StepCases ==
    ASSUME [Next]_vars
    PROVE  \/ UNCHANGED raftVars
           \/ \E rec \in Record, body \in Bodies : AppendEntry(rec, body)
           \/ \E k \in DOMAIN queue : SaveRecord(k) \/ SaveFails(k)
           \/ Committed
           \/ Restart
BY DEF Next, vars, RegisterPeer, VerifyStateTransition, BuildShare, AggregateShares

\* Every step keeps the invariant of the order.
LEMMA NextOrder == OrderInv /\ [Next]_vars => OrderInv'
<1>. SUFFICES ASSUME OrderInv, [Next]_vars PROVE OrderInv'
    OBVIOUS
<1>1. TypeOK /\ TypeOK'
    BY NextType DEF OrderInv, QueueOrdered
<1>. SUFFICES QueueOrdered' /\ ResumingOrdered' /\ SavedLogged'
    BY <1>1 DEF OrderInv
<1>2. CASE UNCHANGED raftVars
    BY <1>2 DEF raftVars, OrderInv, QueueOrdered, ResumingOrdered, SavedLogged
<1>3. ASSUME NEW rec \in Record, NEW body \in Bodies, AppendEntry(rec, body)
      PROVE  QueueOrdered' /\ ResumingOrdered' /\ SavedLogged'
    <2>1. /\ Len(log) < MaxLog /\ log' = Append(log, [term |-> CurrentTerm, record |-> rec])
          /\ queue' \in {queue, Append(queue, Len(log) + 1)}
          /\ UNCHANGED <<commitIndex, resuming, saved>>
        BY <1>3 DEF AppendEntry, AppendLocalLog
    <2>2. Len(log') = Len(log) + 1
        BY <1>1, <2>1, AppendType
    <2>. QED  BY <1>1, <2>1, <2>2, GrowingLogKeeps
<1>4. ASSUME NEW k \in DOMAIN queue, SaveRecord(k)
      PROVE  QueueOrdered' /\ ResumingOrdered' /\ SavedLogged'
    BY <1>1, <1>4, SaveKeeps
<1>5. ASSUME NEW k \in DOMAIN queue, SaveFails(k)
      PROVE  QueueOrdered' /\ ResumingOrdered' /\ SavedLogged'
    <2>1. k = 1 /\ queue # <<>>
        BY <1>1, <1>5, OldestFacts DEF SaveFails
    <2>2. queue' = RemoveAt(queue, 1) /\ UNCHANGED <<log, commitIndex, resuming, saved>>
        BY <1>5, <2>1 DEF SaveFails
    <2>3. QueueOrdered'
        BY <2>1, <2>2, ShorterQueueKeeps DEF QueueOrdered
    <2>4. ResumingOrdered' /\ SavedLogged'
        BY <2>2 DEF OrderInv, ResumingOrdered, SavedLogged
    <2>. QED  BY <2>3, <2>4
<1>6. CASE Committed
    BY <1>1, <1>6, CommittedKeeps
<1>7. CASE Restart
    BY <1>7 DEF Restart, QueueOrdered, ResumingOrdered, SavedLogged
<1>. QED  BY <1>2, <1>3, <1>4, <1>5, <1>6, <1>7, StepCases

\* Every reachable state of the node is well formed.
THEOREM TypeCorrect == Spec => []TypeOK
<1>1. OrderInv => TypeOK
    BY DEF OrderInv
<1>. QED  BY <1>1, InitOrder, NextOrder, PTL DEF Spec

-----------------------------------------------------------------------------
(* The commit path implements CommitLedger *)

\* The first state maps to a first state of CommitLedger.
LEMMA InitMaps == Init => Abstract!CInit
BY DEF Init, Abstract!CInit

\* The entry at the head of the queue and the row it is saved to.
LEMMA SavedEntry ==
    ASSUME OrderInv, NEW k \in DOMAIN queue, k \in NextToSave
    PROVE  /\ k = 1 /\ queue[1] \in Slot /\ queue[1] \in 1..Len(log)
           /\ log[queue[1]] \in Entry /\ TxOf[log[queue[1]].record] \in Tx
           /\ \A j \in saved : j < queue[1]
<1>1. k = 1 /\ queue[1] \in Slot /\ 1 \in DOMAIN queue
    BY OldestFacts DEF OrderInv
<1>2. log \in Seq(Entry) /\ Len(log) \in Nat
    BY DEF OrderInv, TypeOK, Entry
<1>3. queue[1] \in 1..Len(log) /\ \A j \in saved : j < queue[1]
    BY <1>1, <1>2 DEF OrderInv, QueueOrdered, Slot
<1>4. log[queue[1]] \in Entry
    BY <1>2, <1>3
<1>5. TxOf[log[queue[1]].record] \in Tx
    BY <1>4, QuorumAssumption DEF Entry
<1>. QED  BY <1>1, <1>3, <1>4, <1>5

\* Every step maps to a step of CommitLedger or leaves it alone.
LEMMA StepMaps == OrderInv /\ [Next]_vars => [Abstract!CNext]_(Abstract!cvars)
<1>. SUFFICES ASSUME OrderInv, [Next]_vars PROVE [Abstract!CNext]_(Abstract!cvars)
    OBVIOUS
<1>. USE DEF Abstract!cvars
<1>1. CASE UNCHANGED raftVars
    BY <1>1 DEF raftVars
<1>2. CASE \E rec \in Record, body \in Bodies : AppendEntry(rec, body)
    BY <1>2 DEF AppendEntry, AppendLocalLog
<1>3. ASSUME NEW k \in DOMAIN queue, SaveRecord(k)
      PROVE  Abstract!CNext
    <2>1. /\ k = 1 /\ queue[1] \in Slot /\ log[queue[1]].record \in Record
          /\ TxOf[log[queue[1]].record] \in Tx /\ \A j \in saved : j < queue[1]
        BY <1>3, SavedEntry DEF SaveRecord, Entry
    <2>2. Abstract!Persist(queue[1], TxOf[log[queue[1]].record], log[queue[1]].record)
        BY <1>3, <2>1 DEF SaveRecord, Abstract!Persist
    <2>. QED  BY <2>1, <2>2 DEF Abstract!CNext
<1>4. ASSUME NEW k \in DOMAIN queue, SaveFails(k)
      PROVE  UNCHANGED Abstract!cvars
    BY <1>4 DEF SaveFails
<1>5. CASE Committed
    <2>1. Head(resuming) \in saved /\ commitIndex < Head(resuming)
        BY <1>5, CommittedKeeps, NextOrder DEF OrderInv
    <2>2. Abstract!Acknowledge(Head(resuming))
        BY <1>5, <2>1 DEF Committed, Abstract!Acknowledge
    <2>. QED  BY <2>1, <2>2 DEF Abstract!CNext
<1>6. CASE Restart
    BY <1>6 DEF Restart, Abstract!Forget, Abstract!CNext
<1>. QED  BY <1>1, <1>2, <1>3, <1>4, <1>5, <1>6, StepCases

\* The commit path implements CommitLedger: entries become durable in index
\* order, the commit index moves forward and to durable entries only, and a
\* restart loses no row, whatever handlers overlap and whichever saves fail.
THEOREM CommitPathImplements == Spec => ImplementsCommitLedger
<1>. QED  BY InitMaps, InitOrder, NextOrder, StepMaps, PTL
          DEF Spec, ImplementsCommitLedger, Abstract!CSpec

-----------------------------------------------------------------------------
(* The newest entry of a transaction is in its row *)

\* Every step keeps the newest record of a transaction in the store.
LEMMA NextNewest == OrderInv /\ NewestRowWins /\ [Next]_vars => NewestRowWins'
<1>. SUFFICES ASSUME OrderInv, NewestRowWins, [Next]_vars PROVE NewestRowWins'
    OBVIOUS
<1>1. CASE UNCHANGED <<log, saved, ledger>>
    BY <1>1 DEF NewestRowWins
<1>2. ASSUME NEW rec \in Record, NEW body \in Bodies, AppendEntry(rec, body)
      PROVE  NewestRowWins'
    <2>1. /\ Len(log) < MaxLog /\ log' = Append(log, [term |-> CurrentTerm, record |-> rec])
          /\ UNCHANGED <<saved, ledger>>
        BY <1>2 DEF AppendEntry, AppendLocalLog
    <2>2. \A j \in saved : j \in 1..Len(log)
        BY DEF OrderInv, SavedLogged, TypeOK, Slot
    <2>3. \A j \in saved : log'[j] = log[j]
        BY <2>1, <2>2, AppendType DEF OrderInv
    <2>. QED  BY <2>1, <2>3 DEF NewestRowWins
<1>3. ASSUME NEW k \in DOMAIN queue, SaveRecord(k)
      PROVE  NewestRowWins'
    <2>. DEFINE i == queue[1]
                t == TxOf[log[i].record]
    <2>1. k = 1 /\ i \in Slot /\ t \in Tx /\ \A j \in saved : j < i
        BY <1>3, SavedEntry DEF SaveRecord
    <2>2. /\ ledger' = [ledger EXCEPT ![t] = log[i].record]
          /\ saved' = saved \cup {i} /\ UNCHANGED log
        BY <1>3, <2>1 DEF SaveRecord
    <2>3. ledger'[t] = log[i].record /\ \A u \in Tx : u # t => ledger'[u] = ledger[u]
        BY <2>1, <2>2 DEF OrderInv, TypeOK
    <2>4. \A j \in saved : log[j].record \in Record /\ TxOf[log[j].record] \in Tx
        <3>1. log \in Seq(Entry) /\ Len(log) \in Nat
            BY DEF OrderInv, TypeOK, Entry
        <3>2. \A j \in saved : j \in 1..Len(log)
            BY <3>1 DEF OrderInv, TypeOK, SavedLogged, Slot
        <3>3. \A j \in saved : log[j] \in Entry
            BY <3>1, <3>2
        <3>. QED  BY <3>3, QuorumAssumption DEF Entry
    <2>5. saved \subseteq Nat /\ i \in Nat
        BY <2>1, QuorumAssumption DEF OrderInv, TypeOK, Slot
    <2>. HIDE DEF i, t
    <2>6. SUFFICES ASSUME NEW j \in saved',
                          \A m \in saved' : TxOf[log[m].record] = TxOf[log[j].record] => m <= j
                   PROVE  ledger'[TxOf[log[j].record]] = log[j].record
        BY <2>2 DEF NewestRowWins
    <2>7. CASE j = i
        BY <2>3, <2>7 DEF t
    <2>8. CASE j # i
        <3>1. j \in saved /\ j < i
            BY <2>1, <2>2, <2>8
        <3>2. TxOf[log[j].record] # t
            BY <2>2, <2>5, <2>6, <3>1 DEF t
        <3>3. ledger[TxOf[log[j].record]] = log[j].record
            BY <2>2, <2>6, <3>1 DEF NewestRowWins
        <3>. QED  BY <2>3, <2>4, <3>1, <3>2, <3>3
    <2>. QED  BY <2>7, <2>8
<1>4. CASE Restart
    BY <1>4 DEF Restart, NewestRowWins
<1>5. ASSUME NEW k \in DOMAIN queue, SaveFails(k)
      PROVE  UNCHANGED <<log, saved, ledger>>
    BY <1>5 DEF SaveFails
<1>. QED  BY <1>1, <1>2, <1>3, <1>4, <1>5, StepCases DEF raftVars, Committed

\* Of the entries of a transaction that were saved, the newest is in the ledger.
THEOREM NewestIsKept == Spec => []NewestRowWins
<1>1. Init => NewestRowWins
    BY DEF Init, NewestRowWins
<1>. QED  BY <1>1, InitOrder, NextOrder, NextNewest, PTL DEF Spec

-----------------------------------------------------------------------------
(* Payloads *)

\* A payload took its index past the checks only if its shares name that index.
CarriedBound == \A c \in carried : c.payload.shares # {} /\ \A s \in c.payload.shares : s.index = c.index

\* Every aggregate is one that the commit accepts.
AllSound == \A pay \in payloads : Sound(pay)

PayloadInv == TypeOK /\ CarriedBound /\ AllSound

\* It holds at first.
LEMMA InitPayload == Init => PayloadInv
BY InitType DEF Init, PayloadInv, CarriedBound, AllSound

\* Every step keeps the invariant of the payloads.
LEMMA NextPayload == OrderInv /\ PayloadInv /\ [Next]_vars => PayloadInv'
<1>. SUFFICES ASSUME OrderInv, PayloadInv, [Next]_vars PROVE PayloadInv'
    OBVIOUS
<1>1. TypeOK /\ TypeOK'
    BY NextOrder DEF OrderInv
<1>2. CASE UNCHANGED payloads /\ carried' \subseteq carried
    BY <1>1, <1>2 DEF PayloadInv, CarriedBound, AllSound
<1>3. ASSUME NEW p \in Proposal, NEW given \in SUBSET (shares \cup OtherShare),
             AggregateShares(p, given)
      PROVE  PayloadInv'
    <2>. DEFINE new == Payload(ClusterSize, Counted(given, p.term, p.index), p)
    <2>1. payloads' = payloads \cup {new} /\ UNCHANGED carried
        BY <1>3 DEF AggregateShares, raftVars
    <2>2. Sound(new)
        BY <1>1, <1>3, AggregateFacts DEF AggregateShares
    <2>. HIDE DEF new
    <2>. QED  BY <1>1, <2>1, <2>2 DEF PayloadInv, CarriedBound, AllSound
<1>4. ASSUME NEW rec \in Record, NEW body \in Bodies, AppendEntry(rec, body)
      PROVE  PayloadInv'
    <2>. DEFINE new == [index |-> Len(log) + 1, payload |-> body.payload]
    <2>1. UNCHANGED payloads /\ (carried' = carried \/
            (carried' = carried \cup {new} /\ CommitChecks(body, Len(log) + 1)))
        BY <1>4 DEF AppendEntry
    <2>2. CASE carried' = carried
        BY <1>2, <2>1, <2>2
    <2>3. CASE carried' = carried \cup {new} /\ CommitChecks(body, Len(log) + 1)
        <3>1. /\ new.payload.shares # {}
              /\ \A s \in new.payload.shares : s.index = new.index
            BY <2>3 DEF CommitChecks, SharesMatch
        <3>. HIDE DEF new
        <3>2. CarriedBound'
            BY <2>3, <3>1 DEF PayloadInv, CarriedBound
        <3>. QED  BY <1>1, <2>1, <3>2 DEF PayloadInv, AllSound
    <2>. QED  BY <2>1, <2>2, <2>3
<1>5. CASE \/ \E n \in Node \ {Self} : RegisterPeer(n)
           \/ \E n \in Node, p \in Proposal : VerifyStateTransition(n, p)
           \/ \E k \in DOMAIN queue : SaveRecord(k) \/ SaveFails(k)
           \/ Committed \/ Restart \/ UNCHANGED vars
    <2>1. UNCHANGED payloads /\ carried' \subseteq carried
        BY <1>5 DEF RegisterPeer, VerifyStateTransition, BuildShare, SaveRecord, SaveFails,
                    Committed, Restart, vars, raftVars
    <2>. QED  BY <1>2, <2>1
<1>. QED  BY <1>3, <1>4, <1>5 DEF Next

\* While the node runs, no payload takes two entries into the ledger: for any
\* bodies that callers send, however often, and however handlers overlap.
THEOREM PayloadsSaveOnce == Spec => []PayloadSavesOnce
<1>1. PayloadInv => PayloadSavesOnce
    <2>. SUFFICES ASSUME PayloadInv, NEW c \in carried, NEW d \in carried, c.payload = d.payload
                  PROVE  c.index = d.index
        BY DEF PayloadSavesOnce
    <2>1. PICK s \in c.payload.shares : TRUE
        BY DEF PayloadInv, CarriedBound
    <2>2. s.index = c.index /\ s.index = d.index
        BY <2>1 DEF PayloadInv, CarriedBound
    <2>. QED  BY <2>2
<1>. QED  BY <1>1, InitOrder, NextOrder, InitPayload, NextPayload, PTL DEF Spec

\* What aggregateShares makes passes the checks of the commit at its own slot:
\* for every size of the cluster and whatever shares it is given.
THEOREM AggregatesAreAccepted == Spec => []AggregatesAccepted
<1>1. PayloadInv => AggregatesAccepted
    <2>. SUFFICES ASSUME PayloadInv, NEW pay \in payloads, NEW s \in pay.shares,
                         s.index > commitIndex
                  PROVE  CommitChecks([term |-> s.term, clusterSize |-> pay.size, payload |-> pay],
                                      s.index)
        BY DEF AggregatesAccepted
    <2>. DEFINE body == [term |-> s.term, clusterSize |-> pay.size, payload |-> pay]
    <2>1. body.term = s.term /\ body.clusterSize = pay.size /\ body.payload = pay
        OBVIOUS
    <2>2. Sound(pay)
        BY DEF PayloadInv, AllSound
    <2>3. SharesMatch(pay, s.term, s.index)
        BY <2>2 DEF Sound, SharesMatch
    <2>. HIDE DEF body
    <2>4. CommitChecks(body, s.index)
        BY <2>1, <2>2, <2>3 DEF CommitChecks, Sound
    <2>. QED  BY <2>4 DEF body
<1>. QED  BY <1>1, InitOrder, NextOrder, InitPayload, NextPayload, PTL DEF Spec
=============================================================================
