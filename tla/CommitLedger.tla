---------------------------- MODULE CommitLedger ----------------------------
(***************************************************************************)
(* What the commit path of a node promises to whoever reads its ledger and *)
(* its commit index, with no word of logs, shares or write queues: entries *)
(* become durable in the order of their indices, the commit index only     *)
(* moves forward and only to an entry that is durable, and a restart       *)
(* forgets the indices but never a row.  QuorumCommit implements this.     *)
(***************************************************************************)
EXTENDS Naturals

CONSTANTS Index, Tx, Row, NoRow

VARIABLES
    ledger,     \* the row stored for each transaction
    saved,      \* indices made durable since the node started
    commitIndex \* what the node tells its callers

cvars == <<ledger, saved, commitIndex>>

CInit ==
    /\ ledger = [t \in Tx |-> NoRow]
    /\ saved = {}
    /\ commitIndex = 0

Persist(i, t, r) ==
    /\ \A j \in saved : j < i
    /\ saved' = saved \cup {i}
    /\ ledger' = [ledger EXCEPT ![t] = r]
    /\ UNCHANGED commitIndex

Acknowledge(i) ==
    /\ i \in saved /\ commitIndex < i
    /\ commitIndex' = i
    /\ UNCHANGED <<ledger, saved>>

Forget ==
    /\ saved' = {} /\ commitIndex' = 0
    /\ UNCHANGED ledger

CNext ==
    \/ \E i \in Index, t \in Tx, r \in Row : Persist(i, t, r)
    \/ \E i \in saved : Acknowledge(i)
    \/ Forget

CSpec == CInit /\ [][CNext]_cvars
=============================================================================
