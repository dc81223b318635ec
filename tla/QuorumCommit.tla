---------------------------- MODULE QuorumCommit ----------------------------
(***************************************************************************)
(* How an entry gets from a proposal into the ledger of one node: the      *)
(* approval shares (EnclaveBftVerifyEngine, route verify-state-transition),*)
(* their aggregation, the peers that make up the cluster size              *)
(* (EnclaveClusterService), and POST /consensus/append-entry with          *)
(* EnclaveRaftEngine's log, commit index and wait for the write queue.     *)
(*                                                                         *)
(* A handler runs without interruption up to the await of saveRecord; the  *)
(* saves run in the order of the write queue, and each handler resumes     *)
(* after its own save.  The log and the commit index live in memory, the   *)
(* ledger on disk; shares and payloads are in the hands of the callers and *)
(* outlive a restart.  append-entry looks at the shape of a payload only:  *)
(* the body of a request is any of Request, or one with an aggregated      *)
(* payload.  A request that finds the ledger frozen, the enclave           *)
(* unattested or its entry missing changes nothing and is left out:        *)
(* freezes and attestations come and go between any two requests.          *)
(***************************************************************************)
EXTENDS Integers, Sequences, FiniteSets, SequencesExt

CONSTANTS
    Node,       \* node ids that occur
    Self,       \* this node
    Tx,         \* transaction ids
    Record,     \* escrow records
    NoRecord,
    TxOf,       \* the transaction of a record
    Proposal,   \* proposals put before the nodes
    OtherShare, \* shares in the hands of callers that no node here issued
    Request,    \* bodies of append-entry that callers make up themselves
    MaxLog,     \* bound: entries of the log
    MaxShares,  \* bound: shares issued
    MaxPayloads,\* bound: payloads aggregated
    MaxFaults   \* bound: restarts and failed saves

\* A proposal names a record, repeats its leaf hash as the commitment (or, if
\* it is malformed, some other record's), and carries its slot and time locks.
ProposalType ==
    [record : Record, commitment : Record, term : Nat, index : Nat,
     validAfter : Nat, validUntil : Nat, anchor : Nat]

\* Of a share, what is looked at after it was issued: approvalHash and
\* nodeSignature never are.
ShareType == [node : Node, term : Int, index : Int]

\* listed is the length of uniqueNodeIds.
PayloadType ==
    [size : Int, f : Int, threshold : Int, listed : Nat, shares : SUBSET ShareType]

\* clusterSize 0: the body has no bft part.
RequestType == [term : Int, clusterSize : Int, payload : PayloadType]

ASSUME QuorumAssumption ==
    /\ IsFiniteSet(Node) /\ Self \in Node
    /\ TxOf \in [Record -> Tx] /\ NoRecord \notin Record
    /\ Proposal \subseteq ProposalType
    /\ OtherShare \subseteq ShareType /\ Request \subseteq RequestType
    /\ MaxLog \in Nat /\ MaxShares \in Nat /\ MaxPayloads \in Nat /\ MaxFaults \in Nat

VARIABLES
    peers,      \* EnclaveClusterService.peers
    shares,     \* shares issued
    payloads,   \* threshold payloads aggregated from shares
    log,        \* EnclaveRaftEngine.log
    commitIndex,
    queue,      \* handlers waiting for the write lock, oldest first
    resuming,   \* handlers whose save is done and that have not resumed yet
    ledger,     \* the ledger file: the record of each transaction
    saved,      \* history: log indices saved since the node started
    carried,    \* history: the payload that took each index past the checks
    faults      \* history: restarts and failed saves

raftVars == <<log, commitIndex, queue, resuming, ledger, saved, carried>>
vars == <<peers, shares, payloads, raftVars, faults>>

\* currentTerm: set by the constructor and by nothing after it.
CurrentTerm == 0

Init ==
    /\ peers = {}
    /\ shares = {} /\ payloads = {}
    /\ log = <<>> /\ commitIndex = 0
    /\ queue = <<>> /\ resuming = <<>>
    /\ ledger = [t \in Tx |-> NoRecord]
    /\ saved = {} /\ carried = {}
    /\ faults = 0

-----------------------------------------------------------------------------
(* The cluster and its approvals *)

\* registerPeer with a document that passes; a bad one changes nothing here.
RegisterPeer(n) ==
    /\ peers' = peers \cup {n}
    /\ UNCHANGED <<shares, payloads, raftVars, faults>>

\* getClusterSize counts the local node too.
ClusterSize == Cardinality(peers \cup {Self})

\* f of quorumThreshold.
FaultBound(size) == (size - 1) \div 3

\* Mutant of QuorumThreshold: the majority of requiredQuorumAcks.
QuorumThresholdMajority(size) == size \div 2 + 1

QuorumThreshold(size) == 2 * FaultBound(size) + 1

VerifyTimeLocks(p) == p.validAfter <= p.anchor /\ p.anchor <= p.validUntil

\* verifyProposalStructurally on a complete proposal: record and commitment agree.
VerifyProposalStructurally(p) == p.record = p.commitment

Share(n, term, index) == [node |-> n, term |-> term, index |-> index]

\* verifyProposalAndBuildShare; the node id is the caller's.
BuildShare(n, p) ==
    /\ Cardinality(shares) < MaxShares
    /\ VerifyProposalStructurally(p)
    /\ VerifyTimeLocks(p)
    /\ shares' = shares \cup {Share(n, p.term, p.index)}
    /\ UNCHANGED <<peers, payloads, raftVars, faults>>

\* POST /consensus/verify-state-transition, here or on a peer.
VerifyStateTransition(n, p) == BuildShare(n, p)

\* The node ids that aggregateShares counts for a slot among the shares it is
\* given, whatever proposal they approve.  Given are those whose PCR0 hash is
\* the one in the caller's own table; that the node is a peer is not asked.
Counted(given, term, index) ==
    {s.node : s \in {x \in given : x.term = term /\ x.index = index}}

Payload(size, nodes, p) ==
    [size |-> size, f |-> FaultBound(size), threshold |-> QuorumThreshold(size),
     listed |-> Cardinality(nodes), shares |-> {Share(n, p.term, p.index) : n \in nodes}]

AggregateShares(p, given) ==
    LET nodes == Counted(given, p.term, p.index)
    IN  /\ Cardinality(payloads) < MaxPayloads
        /\ Cardinality(nodes) >= QuorumThreshold(ClusterSize)
        /\ payloads' = payloads \cup {Payload(ClusterSize, nodes, p)}
        /\ UNCHANGED <<peers, shares, raftVars, faults>>

-----------------------------------------------------------------------------
(* POST /consensus/append-entry *)

\* The bodies that arrive: made up by the caller, or around a payload that was
\* aggregated, now or before a restart, for this slot or another.
Bodies == Request \cup {[q EXCEPT !.payload = pay] : q \in Request, pay \in payloads}

\* Mutant of SharesMatch: the shares' index is not compared.
SharesMatchAnySlot(pay, term, index) ==
    pay.shares # {} /\ \A s \in pay.shares : s.term = term

\* Every share, shares[0] first, is for this term and index.
SharesMatch(pay, term, index) ==
    pay.shares # {} /\ \A s \in pay.shares : s.term = term /\ s.index = index

\* commitToLedgerIfBftQuorum up to the await.  The size is the request's own,
\* and the commitment is read from the very entry it is compared with, so any
\* record passes that comparison.
CommitChecks(body, index) ==
    LET pay == body.payload
        fExpected == (body.clusterSize - 1) \div 3
    IN  /\ body.clusterSize # 0
        /\ index > commitIndex
        /\ pay.size = body.clusterSize /\ pay.f = fExpected
        /\ pay.threshold = 2 * fExpected + 1
        /\ pay.listed >= pay.threshold
        /\ SharesMatch(pay, body.term, index)
        /\ Cardinality({s.node : s \in pay.shares}) >= pay.threshold

\* The entry gets the node's term, not the request's.
AppendLocalLog(rec) == log' = Append(log, [term |-> CurrentTerm, record |-> rec])

\* The entry stays in the log even if the commit is refused.
AppendEntry(rec, body) ==
    LET index == Len(log) + 1 IN
    /\ Len(log) < MaxLog
    /\ body.term >= CurrentTerm
    /\ AppendLocalLog(rec)
    /\ \/ /\ CommitChecks(body, index)
          /\ queue' = Append(queue, index)
          /\ carried' = carried \cup {[index |-> index, payload |-> body.payload]}
       \/ ~CommitChecks(body, index) /\ UNCHANGED <<queue, carried>>
    /\ UNCHANGED <<peers, shares, payloads, commitIndex, resuming, ledger, saved, faults>>

\* Mutant of NextToSave: the write lock is missing, any waiting save runs.
NextToSaveAny == DOMAIN queue

\* withWriteLock: the oldest waiting save.
NextToSave == DOMAIN queue \cap {1}

\* Mutant of SaveRecord: the row of the transaction is kept if there is one.
SaveRecordInsert(k) ==
    LET i == queue[k]
        t == TxOf[log[i].record]
    IN  /\ k \in NextToSave
        /\ queue' = RemoveAt(queue, k)
        /\ resuming' = Append(resuming, i)
        /\ ledger' = [ledger EXCEPT ![t] = IF @ = NoRecord THEN log[i].record ELSE @]
        /\ saved' = saved \cup {i}
        /\ UNCHANGED <<peers, shares, payloads, log, commitIndex, carried, faults>>

\* saveRecord: replace or add the row of the record's transaction.
SaveRecord(k) ==
    LET i == queue[k]
        t == TxOf[log[i].record]
    IN  /\ k \in NextToSave
        /\ queue' = RemoveAt(queue, k)
        /\ resuming' = Append(resuming, i)
        /\ ledger' = [ledger EXCEPT ![t] = log[i].record]
        /\ saved' = saved \cup {i}
        /\ UNCHANGED <<peers, shares, payloads, log, commitIndex, carried, faults>>

\* The save throws: the handler answers 500, the index is not moved.
SaveFails(k) ==
    /\ k \in NextToSave /\ faults < MaxFaults
    /\ queue' = RemoveAt(queue, k)
    /\ faults' = faults + 1
    /\ UNCHANGED <<peers, shares, payloads, log, commitIndex, resuming,
                   ledger, saved, carried>>

\* The handler resumes after its save.
Committed ==
    /\ resuming # <<>>
    /\ commitIndex' = Head(resuming)
    /\ resuming' = Tail(resuming)
    /\ UNCHANGED <<peers, shares, payloads, log, queue, ledger, saved, carried, faults>>

\* The process dies and starts again: what the constructors set up.
Restart ==
    /\ faults < MaxFaults
    /\ peers' = {}
    /\ log' = <<>> /\ commitIndex' = 0
    /\ queue' = <<>> /\ resuming' = <<>> /\ saved' = {} /\ carried' = {}
    /\ faults' = faults + 1
    /\ UNCHANGED <<shares, payloads, ledger>>

Next ==
    \/ \E n \in Node \ {Self} : RegisterPeer(n)
    \/ \E n \in Node, p \in Proposal : VerifyStateTransition(n, p)
    \/ \E p \in Proposal, given \in SUBSET (shares \cup OtherShare) : AggregateShares(p, given)
    \/ \E rec \in Record, body \in Bodies : AppendEntry(rec, body)
    \/ \E k \in DOMAIN queue : SaveRecord(k) \/ SaveFails(k)
    \/ Committed
    \/ Restart

Spec == Init /\ [][Next]_vars

-----------------------------------------------------------------------------
(* Properties *)

Slot == 1..MaxLog

TypeOK ==
    /\ peers \subseteq Node
    /\ shares \subseteq ShareType
    /\ payloads \subseteq PayloadType
    /\ log \in Seq([term : Int, record : Record]) /\ Len(log) <= MaxLog
    /\ commitIndex \in Slot \cup {0}
    /\ queue \in Seq(Slot) /\ resuming \in Seq(Slot)
    /\ ledger \in [Tx -> Record \cup {NoRecord}]
    /\ saved \subseteq Slot
    /\ carried \subseteq [index : Slot, payload : PayloadType]
    /\ faults \in 0..MaxFaults

\* Of the entries saved since the start, the ledger row of a transaction is the
\* one with the highest index: overlapping handlers and failed saves between
\* them never let an older entry overwrite a newer one.  (append-entry, saveRecord)
NewestRowWins ==
    \A i \in saved :
        (\A j \in saved : TxOf[log[j].record] = TxOf[log[i].record] => j <= i)
            => ledger[TxOf[log[i].record]] = log[i].record

\* While the node runs, one payload takes at most one entry into the ledger: an
\* append-entry request that is sent again because its answer was lost, or is
\* sent for another record, term or cluster size, comes to a later index and is
\* refused, also if the first is still waiting for its save.  (append-entry,
\* commitToLedgerIfBftQuorum; after a restart the indices begin again.)
PayloadSavesOnce ==
    \A c, d \in carried :
        {c.index, d.index} \subseteq saved /\ c.payload = d.payload => c.index = d.index

\* What aggregateShares makes passes the checks of the commit at its own slot, a
\* request giving the cluster size it was made for: the two compute f and the
\* threshold each for itself, and count nodes each in its own way, whatever
\* peers have joined and whatever entries were committed in between.
AggregatesAccepted ==
    \A pay \in payloads : \A s \in pay.shares :
        s.index > commitIndex =>
            CommitChecks([term |-> s.term, clusterSize |-> pay.size, payload |-> pay], s.index)

Abstract == INSTANCE CommitLedger WITH Index <- Slot, Row <- Record, NoRow <- NoRecord

\* The commit path implements the promise of CommitLedger: durable in index
\* order, commit index forward and durable, rows outlive a restart.
ImplementsCommitLedger == Abstract!CSpec
=============================================================================
