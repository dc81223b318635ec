-------------------------- MODULE EscrowLifecycle --------------------------
(***************************************************************************)
(* One escrow document of the gateway backend: EscrowService               *)
(* (packages/backend/src/services/escrow.service.ts), driven by the REST   *)
(* handlers of EscrowController and by the provider webhook.               *)
(*                                                                         *)
(* Every operation reads the document, calls the payment provider and then *)
(* writes back the snapshot it read, with its own changes.  There is no    *)
(* transaction around the three, so requests interleave between them.      *)
(* Firestore's update merges top-level fields: a field the snapshot lacks  *)
(* is left alone, one it has is overwritten.                               *)
(***************************************************************************)
EXTENDS Naturals, FiniteSets

CONSTANTS
    Worker,     \* requests that may be in flight at once
    Tx,         \* transaction ids of the payment provider
    NoTx,       \* transactionId is not set
    NoDoc,      \* the document does not exist
    MaxLost,    \* bound: answers or writes lost after the provider acted
    MaxRefunds  \* bound: refunds of one transaction

ASSUME EscrowAssumption ==
    /\ NoTx \notin Tx /\ IsFiniteSet(Worker)
    /\ MaxLost \in Nat /\ MaxRefunds \in Nat

Status == {"PENDING", "LOCKED", "DISPUTED", "RELEASED", "REFUNDED"}

\* stamps: the timestamps that are present.
Escrow ==
    [status : Status, tx : Tx \cup {NoTx},
     stamps : SUBSET {"lockedAt", "releasedAt", "refundedAt"}]

ASSUME NoDocAssumption == NoDoc \notin Escrow

VARIABLES
    doc,        \* the document in Firestore
    worker,     \* the requests in flight
    charged,    \* provider: transactions initialised for this escrow
    captured,   \* provider: transactions verifyTransaction confirms
    refunds,    \* provider: how often each transaction was refunded
    lost        \* history: requests that died after the provider acted

vars == <<doc, worker, charged, captured, refunds, lost>>
provider == <<charged, captured, refunds>>

\* A request: none, at the provider with the snapshot it read, or about to
\* write; the webhook first verifies a transaction and looks up its escrow.
Idle == [stage |-> "idle"]
Calling(op, snap) == [stage |-> "call", op |-> op, snap |-> snap]
Writing(op, updated) == [stage |-> "write", op |-> op, updated |-> updated]
Hook(t) == [stage |-> "hook", tx |-> t]
Found == [stage |-> "found"]

Init ==
    /\ doc = NoDoc
    /\ worker = [w \in Worker |-> Idle]
    /\ charged = {} /\ captured = {} /\ refunds = [t \in Tx |-> 0]
    /\ lost = 0

-----------------------------------------------------------------------------
\* Mutant of CreateEscrow: the document starts in a status the type lacks.
CreateEscrowOpen ==
    /\ doc = NoDoc
    /\ doc' = [status |-> "OPEN", tx |-> NoTx, stamps |-> {}]
    /\ UNCHANGED <<worker, provider, lost>>

CreateEscrow ==
    /\ doc = NoDoc
    /\ doc' = [status |-> "PENDING", tx |-> NoTx, stamps |-> {}]
    /\ UNCHANGED <<worker, provider, lost>>

To(w, state) == worker' = [worker EXCEPT ![w] = state]

\* Mutant of LockRead: the status check is missing.
LockReadAny(w) ==
    /\ worker[w] = Idle
    /\ doc # NoDoc
    /\ To(w, Calling("lock", doc))
    /\ UNCHANGED <<doc, provider, lost>>

\* The first half of an operation: get, the status checks, and the call leaves.
LockRead(w) ==
    /\ worker[w] = Idle
    /\ doc # NoDoc /\ doc.status = "PENDING"
    /\ To(w, Calling("lock", doc))
    /\ UNCHANGED <<doc, provider, lost>>

\* Called by the REST handler, or by the webhook once it has found the escrow.
ReleaseRead(w) ==
    /\ worker[w] \in {Idle, Found}
    /\ doc # NoDoc /\ doc.status = "LOCKED" /\ doc.tx # NoTx
    /\ To(w, Calling("release", doc))
    /\ UNCHANGED <<doc, provider, lost>>

RefundRead(w) ==
    /\ worker[w] = Idle
    /\ doc # NoDoc /\ doc.tx # NoTx /\ doc.status # "REFUNDED"
    /\ To(w, Calling("refund", doc))
    /\ UNCHANGED <<doc, provider, lost>>

\* A dispute calls nobody.
DisputeRead(w) ==
    /\ worker[w] = Idle
    /\ doc # NoDoc /\ doc.status \notin {"RELEASED", "REFUNDED"}
    /\ To(w, Writing("dispute", [doc EXCEPT !.status = "DISPUTED"]))
    /\ UNCHANGED <<doc, provider, lost>>

At(w, op) == worker[w].stage = "call" /\ worker[w].op = op

\* initializePayment: every call opens a new transaction.
LockCharge(w, t) ==
    /\ At(w, "lock")
    /\ t \notin charged
    /\ charged' = charged \cup {t}
    /\ To(w, Writing("lock", [worker[w].snap EXCEPT !.status = "LOCKED", !.tx = t,
                                !.stamps = @ \cup {"lockedAt"}]))
    /\ UNCHANGED <<doc, captured, refunds, lost>>

\* verifyTransaction confirms.
ReleaseVerify(w) ==
    /\ At(w, "release")
    /\ worker[w].snap.tx \in captured
    /\ To(w, Writing("release", [worker[w].snap EXCEPT !.status = "RELEASED",
                                    !.stamps = @ \cup {"releasedAt"}]))
    /\ UNCHANGED <<doc, provider, lost>>

\* initiateRefund takes place each time it is called.
RefundCall(w) ==
    /\ At(w, "refund")
    /\ refunds[worker[w].snap.tx] < MaxRefunds
    /\ refunds' = [refunds EXCEPT ![worker[w].snap.tx] = @ + 1]
    /\ To(w, Writing("refund", [worker[w].snap EXCEPT !.status = "REFUNDED",
                        !.stamps = @ \cup {"refundedAt"}]))
    /\ UNCHANGED <<doc, charged, captured, lost>>

\* Mutant of Merged: an operation writes back only the fields it changed.
MergedChangedOnly(u) ==
    [doc EXCEPT !.status = u.status, !.stamps = @ \cup u.stamps,
                !.tx = IF u.status = "LOCKED" THEN u.tx ELSE @]

\* Mutant of Merged: set instead of update, the snapshot replaces the document.
MergedReplaces(u) == u

\* What escrowRef.update(updated) makes of the document.
Merged(u) ==
    [u EXCEPT !.tx = IF u.tx = NoTx THEN doc.tx ELSE u.tx,
              !.stamps = @ \cup doc.stamps]

Write(w) ==
    /\ worker[w].stage = "write"
    /\ doc' = Merged(worker[w].updated)
    /\ To(w, Idle)
    /\ UNCHANGED <<provider, lost>>

\* The provider refuses (an exception or false), or a call to Firestore fails,
\* or the process dies: the request ends here and nothing is undone.
Abort(w) ==
    /\ worker[w] # Idle
    /\ IF worker[w].stage = "write" /\ worker[w].op \in {"lock", "refund"}
       THEN lost < MaxLost /\ lost' = lost + 1
       ELSE UNCHANGED lost
    /\ To(w, Idle)
    /\ UNCHANGED <<doc, provider>>

-----------------------------------------------------------------------------
(* POST /webhooks/:provider *)

\* verifyTransaction confirms the transaction named in the body.
WebhookVerify(w, t) ==
    /\ worker[w] = Idle
    /\ t \in captured
    /\ To(w, Hook(t))
    /\ UNCHANGED <<doc, provider, lost>>

\* The query for the escrow; releaseEscrow then reads the document by itself.
WebhookFind(w) ==
    /\ worker[w].stage = "hook"
    /\ To(w, IF doc # NoDoc /\ doc.tx = worker[w].tx THEN Found ELSE Idle)
    /\ UNCHANGED <<doc, provider, lost>>

-----------------------------------------------------------------------------
(* The environment: the buyer pays *)

Capture(t) ==
    /\ t \in charged \ captured
    /\ captured' = captured \cup {t}
    /\ UNCHANGED <<doc, worker, charged, refunds, lost>>

Request(w) ==
    \/ LockRead(w) \/ ReleaseRead(w) \/ RefundRead(w) \/ DisputeRead(w)
    \/ ReleaseVerify(w) \/ RefundCall(w) \/ Write(w) \/ Abort(w) \/ WebhookFind(w)

Next ==
    \/ CreateEscrow
    \/ \E w \in Worker : Request(w)
    \/ \E w \in Worker, t \in Tx : LockCharge(w, t) \/ WebhookVerify(w, t)
    \/ \E t \in Tx : Capture(t)

Spec == Init /\ [][Next]_vars

-----------------------------------------------------------------------------
(* Properties *)

RequestState ==
    [stage : {"idle", "found"}] \cup [stage : {"hook"}, tx : Tx]
        \cup [stage : {"call"}, op : {"lock", "release", "refund"}, snap : Escrow]
        \cup [stage : {"write"}, op : {"lock", "release", "refund", "dispute"},
              updated : Escrow]

TypeOK ==
    /\ doc \in Escrow \cup {NoDoc}
    /\ worker \in [Worker -> RequestState]
    /\ charged \subseteq Tx /\ captured \subseteq Tx
    /\ refunds \in [Tx -> 0..MaxRefunds]
    /\ lost \in 0..MaxLost

\* Money moved as the status of e says, and for the transaction that e names.
Backed(e) ==
    /\ e.status \in {"LOCKED", "RELEASED", "REFUNDED"} => e.tx \in charged
    /\ e.status = "RELEASED" => e.tx \in captured
    /\ e.status = "REFUNDED" => e.tx \in Tx /\ refunds[e.tx] > 0

\* The document never claims more than the provider did, however the requests
\* of several clients and webhooks overlap: even when two locks raced and the
\* document changed transactions meanwhile, a RELEASED escrow names a captured
\* transaction and a REFUNDED one the transaction that was refunded.
\* (lockEscrow, releaseEscrow, refundEscrow, handleWebhook)
StatusBacked == doc # NoDoc => Backed(doc)

\* Each completed step is dated: an escrow that was refunded, or released,
\* keeps the date although later writers come with older snapshots.  (update
\* merges; the spread snapshots never remove a stamp.)
StampsStay == [][doc # NoDoc => doc.stamps \subseteq doc'.stamps]_vars

\* However lock requests and webhooks overlap, the buyer is charged at most once
\* per request that can be in flight, plus once for each request that died
\* between the provider and the document: with requests one at a time and no
\* failure, once.  (lockEscrow's PENDING check; no writer brings PENDING back.)
ChargesBounded == Cardinality(charged) <= Cardinality(Worker) + lost

\* REFUNDED is where the diagram in escrow.service.ts ends.  (Holds with
\* requests one at a time, refuted with two at once.)
RefundedIsFinal ==
    [][doc # NoDoc /\ doc.status = "REFUNDED" => doc'.status = "REFUNDED"]_vars
=============================================================================
