----------------------- MODULE EscrowLifecycleProofs -----------------------
(***************************************************************************)
(* Proofs about EscrowLifecycle, for any number of concurrent requests and *)
(* any set of transactions.                                                *)
(***************************************************************************)
EXTENDS EscrowLifecycle, FiniteSetTheorems, TLAPS

\* Facts about the records of the model, each proved once.
LEMMA CallType ==
    ASSUME NEW op \in {"lock", "release", "refund"}, NEW e \in Escrow
    PROVE  Calling(op, e) \in RequestState
BY DEF Calling, RequestState

\* A request about to write is a request.
LEMMA WriteType ==
    ASSUME NEW op \in {"lock", "release", "refund", "dispute"}, NEW e \in Escrow
    PROVE  Writing(op, e) \in RequestState
BY DEF Writing, RequestState

\* So are the requests that carry little or nothing.
LEMMA SmallType ==
    /\ Idle \in RequestState
    /\ Found \in RequestState
    /\ \A t \in Tx : Hook(t) \in RequestState
BY DEF Idle, Found, Hook, RequestState

\* What a request carries at its stage.
LEMMA StageFacts ==
    ASSUME NEW s \in RequestState
    PROVE  /\ s.stage = "call" => /\ s.op \in {"lock", "release", "refund"}
                                  /\ s.snap \in Escrow
           /\ s.stage = "write" => s.updated \in Escrow
           /\ s.stage = "hook" => s.tx \in Tx
BY DEF RequestState

\* A worker that takes up a request keeps the workers' type.
LEMMA ToType ==
    ASSUME TypeOK, NEW w \in Worker, NEW s \in RequestState, To(w, s)
    PROVE  worker' \in [Worker -> RequestState]
BY DEF TypeOK, To

\* A merge of a well-formed update is well formed.
LEMMA MergedType ==
    ASSUME NEW u \in Escrow, doc \in Escrow
    PROVE  Merged(u) \in Escrow
BY DEF Merged, Escrow

\* The requests that write find a document: it is created once and stays.
DocExists == \A w \in Worker : worker[w].stage \in {"call", "write", "found"} => doc # NoDoc

\* The first state is of its type.
LEMMA InitType == Init => TypeOK /\ DocExists
<1>1. Init => TypeOK
    BY EscrowAssumption, SmallType DEF Init, TypeOK
<1>2. Init => DocExists
    BY DEF Init, DocExists, Idle
<1>. QED  BY <1>1, <1>2

\* Every step keeps the types.
LEMMA NextType == TypeOK /\ DocExists /\ [Next]_vars => TypeOK' /\ DocExists'
<1>. SUFFICES ASSUME TypeOK, DocExists, [Next]_vars
     PROVE  TypeOK' /\ DocExists'
    OBVIOUS
<1>. USE EscrowAssumption, NoDocAssumption
<1>1. CASE CreateEscrow
    <2>1. doc' \in Escrow
        BY <1>1 DEF CreateEscrow, TypeOK, Escrow, Status
    <2>. QED  BY <1>1, <2>1 DEF CreateEscrow, TypeOK, DocExists, provider
<1>2. CASE \E w \in Worker : LockRead(w)
    <2>. PICK w \in Worker : LockRead(w)  BY <1>2
    <2>1. Calling("lock", doc) \in RequestState
        <3>1. doc \in Escrow
            BY DEF LockRead, TypeOK
        <3>. QED  BY <3>1, CallType
    <2>2. worker' \in [Worker -> RequestState]
        BY <2>1, ToType DEF LockRead
    <2>. QED  BY <2>2 DEF LockRead, To, Calling, TypeOK, DocExists, provider
<1>3. CASE \E w \in Worker : ReleaseRead(w)
    <2>. PICK w \in Worker : ReleaseRead(w)  BY <1>3
    <2>1. Calling("release", doc) \in RequestState
        <3>1. doc \in Escrow
            BY DEF ReleaseRead, TypeOK
        <3>. QED  BY <3>1, CallType
    <2>2. worker' \in [Worker -> RequestState]
        BY <2>1, ToType DEF ReleaseRead
    <2>. QED  BY <2>2 DEF ReleaseRead, To, Calling, TypeOK, DocExists, provider
<1>4. CASE \E w \in Worker : RefundRead(w)
    <2>. PICK w \in Worker : RefundRead(w)  BY <1>4
    <2>1. Calling("refund", doc) \in RequestState
        <3>1. doc \in Escrow
            BY DEF RefundRead, TypeOK
        <3>. QED  BY <3>1, CallType
    <2>2. worker' \in [Worker -> RequestState]
        BY <2>1, ToType DEF RefundRead
    <2>. QED  BY <2>2 DEF RefundRead, To, Calling, TypeOK, DocExists, provider
<1>5. CASE \E w \in Worker : DisputeRead(w)
    <2>. PICK w \in Worker : DisputeRead(w)  BY <1>5
    <2>. DEFINE u == [doc EXCEPT !.status = "DISPUTED"]
    <2>1. doc \in Escrow
        BY DEF DisputeRead, TypeOK
    <2>2. u \in Escrow
        BY <2>1 DEF Escrow, Status
    <2>3. worker' \in [Worker -> RequestState]
        BY <2>2, ToType, WriteType DEF DisputeRead
    <2>. QED  BY <2>3 DEF DisputeRead, To, Writing, TypeOK, DocExists, provider
<1>6. CASE \E w \in Worker : ReleaseVerify(w)
    <2>. PICK w \in Worker : ReleaseVerify(w)  BY <1>6
    <2>. DEFINE u == [worker[w].snap EXCEPT !.status = "RELEASED", !.stamps = @ \cup {"releasedAt"}]
    <2>1. worker[w].snap \in Escrow
        BY StageFacts DEF ReleaseVerify, At, TypeOK
    <2>2. u \in Escrow
        BY <2>1 DEF Escrow, Status
    <2>3. worker' \in [Worker -> RequestState]
        BY <2>2, ToType, WriteType DEF ReleaseVerify
    <2>. QED  BY <2>3 DEF ReleaseVerify, At, To, Writing, TypeOK, DocExists, provider
<1>7. CASE \E w \in Worker : RefundCall(w)
    <2>. PICK w \in Worker : RefundCall(w)  BY <1>7
    <2>. DEFINE u == [worker[w].snap EXCEPT !.status = "REFUNDED",
                        !.stamps = @ \cup {"refundedAt"}]
    <2>1. worker[w].snap \in Escrow
        BY StageFacts DEF RefundCall, At, TypeOK
    <2>2. u \in Escrow
        BY <2>1 DEF Escrow, Status
    <2>3. worker' \in [Worker -> RequestState]
        BY <2>2, ToType, WriteType DEF RefundCall
    <2>4. refunds' \in [Tx -> 0..MaxRefunds]
        <3>. DEFINE x == worker[w].snap.tx
        <3>1. refunds' = [refunds EXCEPT ![x] = refunds[x] + 1] /\ refunds[x] < MaxRefunds
            BY DEF RefundCall
        <3>2. refunds \in [Tx -> 0..MaxRefunds]
            BY DEF TypeOK
        <3>. HIDE DEF x
        <3>3. ASSUME NEW t \in Tx PROVE refunds'[t] \in 0..MaxRefunds
            BY <3>1, <3>2
        <3>. QED  BY <3>1, <3>2, <3>3
    <2>. QED  BY <2>3, <2>4 DEF RefundCall, At, To, Writing, TypeOK, DocExists
<1>8. CASE \E w \in Worker : Write(w)
    <2>. PICK w \in Worker : Write(w)  BY <1>8
    <2>1. doc \in Escrow
        BY DEF Write, TypeOK, DocExists
    <2>2. doc' \in Escrow
        BY <2>1, StageFacts, MergedType DEF Write, TypeOK
    <2>3. worker' \in [Worker -> RequestState]
        BY ToType, SmallType DEF Write
    <2>. QED  BY <2>2, <2>3 DEF Write, To, TypeOK, DocExists, provider
<1>9. CASE \E w \in Worker : Abort(w)
    <2>. PICK w \in Worker : Abort(w)  BY <1>9
    <2>1. worker' \in [Worker -> RequestState]
        BY ToType, SmallType DEF Abort
    <2>2. lost' \in 0..MaxLost
        BY DEF Abort, TypeOK
    <2>. QED  BY <2>1, <2>2 DEF Abort, To, Idle, TypeOK, DocExists, provider
<1>10. CASE \E w \in Worker : WebhookFind(w)
    <2>. PICK w \in Worker : WebhookFind(w)  BY <1>10
    <2>1. worker' \in [Worker -> RequestState]
        BY ToType, SmallType DEF WebhookFind
    <2>. QED  BY <2>1 DEF WebhookFind, To, Idle, Found, TypeOK, DocExists, provider
<1>11. CASE \E w \in Worker, t \in Tx : LockCharge(w, t)
    <2>. PICK w \in Worker, t \in Tx : LockCharge(w, t)  BY <1>11
    <2>. DEFINE u == [worker[w].snap EXCEPT !.status = "LOCKED", !.tx = t,
                        !.stamps = @ \cup {"lockedAt"}]
    <2>1. worker[w].snap \in Escrow
        BY StageFacts DEF LockCharge, At, TypeOK
    <2>2. u \in Escrow
        BY <2>1 DEF Escrow, Status
    <2>3. worker' \in [Worker -> RequestState]
        BY <2>2, ToType, WriteType DEF LockCharge
    <2>. QED  BY <2>3 DEF LockCharge, At, To, Writing, TypeOK, DocExists
<1>12. CASE \E w \in Worker, t \in Tx : WebhookVerify(w, t)
    <2>. PICK w \in Worker, t \in Tx : WebhookVerify(w, t)  BY <1>12
    <2>1. worker' \in [Worker -> RequestState]
        BY ToType, SmallType DEF WebhookVerify
    <2>. QED  BY <2>1 DEF WebhookVerify, To, Hook, TypeOK, DocExists, provider
<1>13. CASE \E t \in Tx : Capture(t)
    BY <1>13 DEF Capture, TypeOK, DocExists
<1>14. CASE UNCHANGED vars
    BY <1>14 DEF vars, TypeOK, DocExists
<1>. QED
    BY <1>1, <1>2, <1>3, <1>4, <1>5, <1>6, <1>7, <1>8, <1>9, <1>10, <1>11, <1>12, <1>13,
       <1>14 DEF Next, Request

\* Type correctness of the escrow model: every request, snapshot and document
\* stays well formed (escrow.service.ts).
THEOREM TypeCorrect == Spec => []TypeOK
<1>1. TypeOK /\ DocExists /\ [Next]_vars => TypeOK' /\ DocExists'
    BY NextType
<1>. QED  BY InitType, <1>1, PTL DEF Spec

-----------------------------------------------------------------------------
(* What each request carries is backed by the provider before it is written. *)

\* What a request was read from, or is about to write.
SoundRequest(s) ==
    /\ s.stage = "call" /\ s.op # "lock" => s.snap.tx \in charged
    /\ s.stage = "write" => Backed(s.updated) /\ s.updated.tx \in charged \cup {NoTx}

Sound ==
    /\ captured \subseteq charged
    /\ doc # NoDoc => Backed(doc) /\ doc.tx \in charged \cup {NoTx}
    /\ \A w \in Worker : SoundRequest(worker[w])

\* The provider never takes anything back, so what was sound stays sound.
LEMMA SoundStays ==
    ASSUME charged \subseteq charged', captured \subseteq captured',
           \A t \in Tx : refunds[t] > 0 => refunds'[t] > 0,
           NEW v \in Worker, SoundRequest(worker[v]), worker'[v] = worker[v]
    PROVE  SoundRequest(worker[v])'
BY DEF SoundRequest, Backed

\* The invariant holds at first.
LEMMA InitSound == Init => Sound
BY DEF Init, Sound, SoundRequest, Idle

\* Every step keeps it: a write of a stale copy included.
LEMMA NextSound == TypeOK /\ DocExists /\ Sound /\ [Next]_vars => Sound'
<1>. SUFFICES ASSUME TypeOK, DocExists, Sound, [Next]_vars
     PROVE  Sound'
    OBVIOUS
<1>. USE EscrowAssumption, NoDocAssumption
<1>0. ASSUME NEW w \in Worker, NEW s, To(w, s), UNCHANGED <<doc, provider>>,
             SoundRequest(s)
      PROVE  Sound'
    <2>1. ASSUME NEW v \in Worker PROVE SoundRequest(worker[v])'
        <3>1. CASE v = w
            BY <1>0, <3>1 DEF To, TypeOK, SoundRequest, Backed, provider
        <3>2. CASE v # w
            BY <1>0, <3>2, SoundStays DEF To, TypeOK, Sound, provider
        <3>. QED  BY <3>1, <3>2
    <2>. QED  BY <1>0, <2>1 DEF Sound, Backed, provider
<1>1. CASE CreateEscrow
    <2>1. Backed(doc)' /\ doc'.tx = NoTx
        BY <1>1 DEF CreateEscrow, Backed
    <2>2. ASSUME NEW v \in Worker PROVE SoundRequest(worker[v])'
        BY <1>1, SoundStays DEF CreateEscrow, Sound, provider
    <2>. QED  BY <1>1, <2>1, <2>2 DEF CreateEscrow, Sound, provider
<1>2. CASE \E w \in Worker : LockRead(w)
    <2>. PICK w \in Worker : LockRead(w)  BY <1>2
    <2>1. SoundRequest(Calling("lock", doc))
        BY DEF SoundRequest, Calling
    <2>. QED  BY <2>1, <1>0 DEF LockRead
<1>3. CASE \E w \in Worker : ReleaseRead(w)
    <2>. PICK w \in Worker : ReleaseRead(w)  BY <1>3
    <2>1. SoundRequest(Calling("release", doc))
        BY DEF ReleaseRead, SoundRequest, Calling, Sound
    <2>. QED  BY <2>1, <1>0 DEF ReleaseRead
<1>4. CASE \E w \in Worker : RefundRead(w)
    <2>. PICK w \in Worker : RefundRead(w)  BY <1>4
    <2>1. SoundRequest(Calling("refund", doc))
        BY DEF RefundRead, SoundRequest, Calling, Sound
    <2>. QED  BY <2>1, <1>0 DEF RefundRead
<1>5. CASE \E w \in Worker : DisputeRead(w)
    <2>. PICK w \in Worker : DisputeRead(w)  BY <1>5
    <2>. DEFINE u == [doc EXCEPT !.status = "DISPUTED"]
    <2>1. doc \in Escrow /\ doc.tx \in charged \cup {NoTx}
        BY DEF DisputeRead, TypeOK, Sound
    <2>2. u.status = "DISPUTED" /\ u.tx = doc.tx
        BY <2>1 DEF Escrow
    <2>3. SoundRequest(Writing("dispute", u))
        BY <2>1, <2>2 DEF SoundRequest, Writing, Backed
    <2>. QED  BY <2>3, <1>0 DEF DisputeRead
<1>6. CASE \E w \in Worker : ReleaseVerify(w)
    <2>. PICK w \in Worker : ReleaseVerify(w)  BY <1>6
    <2>. DEFINE u == [worker[w].snap EXCEPT !.status = "RELEASED", !.stamps = @ \cup {"releasedAt"}]
    <2>1. worker[w].snap \in Escrow /\ worker[w].snap.tx \in captured
        BY StageFacts DEF ReleaseVerify, At, TypeOK
    <2>2. u.status = "RELEASED" /\ u.tx = worker[w].snap.tx
        BY <2>1 DEF Escrow
    <2>3. SoundRequest(Writing("release", u))
        BY <2>1, <2>2 DEF SoundRequest, Writing, Backed, Sound
    <2>. QED  BY <2>3, <1>0 DEF ReleaseVerify
<1>7. CASE \E w \in Worker : RefundCall(w)
    <2>. PICK w \in Worker : RefundCall(w)  BY <1>7
    <2>. DEFINE x == worker[w].snap.tx
                u == [worker[w].snap EXCEPT !.status = "REFUNDED",
                        !.stamps = @ \cup {"refundedAt"}]
    <2>1. worker[w].snap \in Escrow
        BY StageFacts DEF RefundCall, At, TypeOK
    <2>2. x \in charged /\ x \in Tx
        BY DEF RefundCall, At, Sound, SoundRequest, TypeOK
    <2>3. u.status = "REFUNDED" /\ u.tx = x
        BY <2>1 DEF Escrow
    <2>4. refunds' = [refunds EXCEPT ![x] = refunds[x] + 1] /\ refunds \in [Tx -> 0..MaxRefunds]
        BY DEF RefundCall, TypeOK
    <2>5. worker' = [worker EXCEPT ![w] = Writing("refund", u)]
        BY DEF RefundCall, To
    <2>. HIDE DEF x, u
    <2>6. refunds'[x] > 0 /\ \A t \in Tx : refunds[t] > 0 => refunds'[t] > 0
        BY <2>2, <2>4
    <2>7. UNCHANGED <<doc, charged, captured>>
        BY DEF RefundCall
    <2>8. ASSUME NEW v \in Worker PROVE SoundRequest(worker[v])'
        <3>1. CASE v = w
            <4>1. worker'[v] = Writing("refund", u)
                BY <2>5, <3>1 DEF TypeOK
            <4>. QED  BY <4>1, <2>2, <2>3, <2>6, <2>7 DEF SoundRequest, Writing, Backed
        <3>2. CASE v # w
            BY <2>5, <2>6, <2>7, <3>2, SoundStays DEF TypeOK, Sound
        <3>. QED  BY <3>1, <3>2
    <2>. QED  BY <2>6, <2>7, <2>8 DEF Sound, Backed
<1>8. CASE \E w \in Worker : Write(w)
    <2>. PICK w \in Worker : Write(w)  BY <1>8
    <2>. DEFINE u == worker[w].updated
    <2>1. u \in Escrow /\ doc \in Escrow /\ Backed(u) /\ u.tx \in charged \cup {NoTx}
        BY StageFacts DEF Write, TypeOK, DocExists, Sound, SoundRequest
    <2>2. /\ doc'.status = u.status
          /\ doc'.tx = IF u.tx = NoTx THEN doc.tx ELSE u.tx
        BY <2>1 DEF Write, Merged, Escrow
    <2>3. doc.tx \in charged \cup {NoTx} /\ charged \subseteq Tx
        BY <2>1 DEF Sound, TypeOK
    <2>4. Backed(doc)' /\ doc'.tx \in charged \cup {NoTx}
        BY <2>1, <2>2, <2>3 DEF Backed, Write, provider
    <2>5. ASSUME NEW v \in Worker PROVE SoundRequest(worker[v])'
        <3>1. CASE v = w
            BY <3>1 DEF Write, To, TypeOK, SoundRequest, Idle
        <3>2. CASE v # w
            BY <3>2, SoundStays DEF Write, To, TypeOK, Sound, provider
        <3>. QED  BY <3>1, <3>2
    <2>. QED  BY <2>4, <2>5 DEF Sound, Write, provider
<1>9. CASE \E w \in Worker : Abort(w)
    <2>. PICK w \in Worker : Abort(w)  BY <1>9
    <2>1. SoundRequest(Idle)
        BY DEF SoundRequest, Idle
    <2>. QED  BY <2>1, <1>0 DEF Abort
<1>10. CASE \E w \in Worker : WebhookFind(w)
    <2>. PICK w \in Worker : WebhookFind(w)  BY <1>10
    <2>1. SoundRequest(Idle) /\ SoundRequest(Found)
        BY DEF SoundRequest, Idle, Found
    <2>. QED  BY <2>1, <1>0 DEF WebhookFind
<1>11. CASE \E w \in Worker, t \in Tx : LockCharge(w, t)
    <2>. PICK w \in Worker, t \in Tx : LockCharge(w, t)  BY <1>11
    <2>. DEFINE u == [worker[w].snap EXCEPT !.status = "LOCKED", !.tx = t,
                        !.stamps = @ \cup {"lockedAt"}]
    <2>1. worker[w].snap \in Escrow
        BY StageFacts DEF LockCharge, At, TypeOK
    <2>2. u.status = "LOCKED" /\ u.tx = t
        BY <2>1 DEF Escrow
    <2>3. worker' = [worker EXCEPT ![w] = Writing("lock", u)]
        BY DEF LockCharge, To
    <2>. HIDE DEF u
    <2>4. charged' = charged \cup {t} /\ UNCHANGED <<doc, captured, refunds>>
        BY DEF LockCharge
    <2>5. ASSUME NEW v \in Worker PROVE SoundRequest(worker[v])'
        <3>1. CASE v = w
            <4>1. worker'[v] = Writing("lock", u)
                BY <2>3, <3>1 DEF TypeOK
            <4>. QED  BY <4>1, <2>2, <2>4 DEF SoundRequest, Writing, Backed
        <3>2. CASE v # w
            BY <2>3, <2>4, <3>2, SoundStays DEF TypeOK, Sound
        <3>. QED  BY <3>1, <3>2
    <2>. QED  BY <2>4, <2>5 DEF Sound, Backed
<1>12. CASE \E w \in Worker, t \in Tx : WebhookVerify(w, t)
    <2>. PICK w \in Worker, t \in Tx : WebhookVerify(w, t)  BY <1>12
    <2>1. SoundRequest(Hook(t))
        BY DEF SoundRequest, Hook
    <2>. QED  BY <2>1, <1>0 DEF WebhookVerify
<1>13. CASE \E t \in Tx : Capture(t)
    <2>. PICK t \in Tx : Capture(t)  BY <1>13
    <2>1. ASSUME NEW v \in Worker PROVE SoundRequest(worker[v])'
        BY SoundStays DEF Capture, Sound
    <2>. QED  BY <2>1 DEF Capture, Sound, Backed
<1>14. CASE UNCHANGED vars
    <2>1. ASSUME NEW v \in Worker PROVE SoundRequest(worker[v])'
        BY <1>14, SoundStays DEF vars, Sound, provider
    <2>. QED  BY <1>14, <2>1 DEF vars, Sound, Backed, provider
<1>. QED
    BY <1>1, <1>2, <1>3, <1>4, <1>5, <1>6, <1>7, <1>8, <1>9, <1>10, <1>11, <1>12, <1>13,
       <1>14 DEF Next, Request

\* Whatever the number of requests in flight and however they overlap, the
\* document never claims a charge, a capture or a refund that the provider did
\* not carry out for the transaction it names (lockEscrow, releaseEscrow,
\* refundEscrow and the webhook).
THEOREM StatusIsBacked == Spec => []StatusBacked
<1>1. TypeOK /\ DocExists /\ Sound /\ [Next]_vars => TypeOK' /\ DocExists' /\ Sound'
    BY NextType, NextSound
<1>2. Sound => StatusBacked
    BY DEF Sound, StatusBacked
<1>. QED  BY InitType, InitSound, <1>1, <1>2, PTL DEF Spec

\* No stale writer removes a timestamp: update merges, and a snapshot never
\* carries fewer fields away than it read.
THEOREM StampsAreKept == Spec => StampsStay
<1>. USE EscrowAssumption, NoDocAssumption
<1>1. ASSUME TypeOK, DocExists, Next
      PROVE  doc # NoDoc => doc.stamps \subseteq doc'.stamps
    <2>1. CASE \E w \in Worker : Write(w)
        <3>. PICK w \in Worker : Write(w)  BY <2>1
        <3>1. worker[w].updated \in Escrow /\ doc \in Escrow
            BY <1>1, StageFacts DEF Write, TypeOK, DocExists
        <3>. QED  BY <3>1 DEF Write, Merged, Escrow
    <2>2. CASE CreateEscrow
        BY <2>2 DEF CreateEscrow
    <2>3. CASE ~CreateEscrow /\ ~\E w \in Worker : Write(w)
        <3>1. doc' = doc
            BY <1>1, <2>3 DEF Next, Request, LockRead, ReleaseRead, RefundRead, DisputeRead,
               ReleaseVerify, RefundCall, Abort, WebhookFind, LockCharge, WebhookVerify,
               Capture
        <3>. QED  BY <3>1
    <2>. QED  BY <2>1, <2>2, <2>3
<1>2. TypeOK /\ DocExists /\ [Next]_vars => [doc # NoDoc => doc.stamps \subseteq doc'.stamps]_vars
    BY <1>1
<1>. QED  BY InitType, NextType, <1>2, PTL DEF Spec, StampsStay

-----------------------------------------------------------------------------
(* How often the buyer can be charged.                                       *)

\* Lock requests that still may charge, and the ones whose charge is not
\* recorded yet.
Locking == {w \in Worker : worker[w].stage = "call" /\ worker[w].op = "lock"}
Booking == {w \in Worker : worker[w].stage = "write" /\ worker[w].op = "lock"}

\* As long as the document is PENDING every charge is held by a request or lost;
\* afterwards only the requests that read PENDING can add one.
Counted ==
    /\ IsFiniteSet(charged)
    /\ doc = NoDoc \/ doc.status = "PENDING" =>
            Cardinality(charged) <= Cardinality(Booking) + lost
    /\ Cardinality(charged) + Cardinality(Locking) <= Cardinality(Worker) + lost
    /\ \A w \in Worker : worker[w].stage = "write" => worker[w].updated.status # "PENDING"

\* Two disjoint sets of requests together are no more than the requests there are.
LEMMA DisjointRequests ==
    ASSUME NEW S \in SUBSET Worker, NEW T \in SUBSET Worker, S \cap T = {}
    PROVE  /\ IsFiniteSet(S) /\ IsFiniteSet(T)
           /\ Cardinality(S) \in Nat /\ Cardinality(T) \in Nat /\ Cardinality(Worker) \in Nat
           /\ Cardinality(S) + Cardinality(T) <= Cardinality(Worker)
<1>1. IsFiniteSet(Worker) /\ IsFiniteSet(S) /\ IsFiniteSet(T)
    BY EscrowAssumption, FS_Subset
<1>2. Cardinality(S) \in Nat /\ Cardinality(T) \in Nat /\ Cardinality(Worker) \in Nat
    BY <1>1, FS_CardinalityType
<1>3. Cardinality(S \cup T) = Cardinality(S) + Cardinality(T)
    <2>1. Cardinality(S \cup T) = Cardinality(S) + Cardinality(T) - Cardinality(S \cap T)
        BY <1>1, FS_Union
    <2>2. Cardinality(S \cap T) = 0
        BY FS_EmptySet
    <2>. QED  BY <2>1, <2>2, <1>2
<1>4. Cardinality(S \cup T) <= Cardinality(Worker)
    <2>1. S \cup T \in SUBSET Worker
        OBVIOUS
    <2>. QED  BY <2>1, <1>1, FS_Subset
<1>. QED  BY <1>1, <1>2, <1>3, <1>4

\* The requests that lock and those that book are no more than all workers,
LEMMA CountFacts ==
    /\ IsFiniteSet(Locking) /\ IsFiniteSet(Booking)
    /\ Cardinality(Locking) \in Nat /\ Cardinality(Booking) \in Nat
    /\ Cardinality(Worker) \in Nat
    /\ Cardinality(Locking) + Cardinality(Booking) <= Cardinality(Worker)
<1>1. Locking \in SUBSET Worker /\ Booking \in SUBSET Worker /\ Locking \cap Booking = {}
    BY DEF Locking, Booking
<1>. QED  BY <1>1, DisjointRequests

\* and are so after a step as well.
LEMMA CountFactsNext ==
    /\ Cardinality(Locking') \in Nat /\ Cardinality(Booking') \in Nat
    /\ Cardinality(Locking') + Cardinality(Booking') <= Cardinality(Worker)
<1>1. Locking' \in SUBSET Worker /\ Booking' \in SUBSET Worker /\ Locking' \cap Booking' = {}
    BY DEF Locking, Booking
<1>. QED  BY <1>1, DisjointRequests

\* A request moves on: only its own membership changes.
LEMMA MoveSets ==
    ASSUME TypeOK, NEW w \in Worker, NEW s, To(w, s)
    PROVE  /\ worker'[w] = s
           /\ \A v \in Worker : v # w => worker'[v] = worker[v]
           /\ Locking' = IF s.stage = "call" /\ s.op = "lock" THEN Locking \cup {w} ELSE Locking \ {w}
           /\ Booking' = IF s.stage = "write" /\ s.op = "lock" THEN Booking \cup {w} ELSE Booking \ {w}
<1>1. /\ worker'[w] = s
      /\ \A v \in Worker : v # w => worker'[v] = worker[v]
    BY DEF TypeOK, To
<1>2. \A v \in Worker : v \in Locking' <=> worker'[v].stage = "call" /\ worker'[v].op = "lock"
    BY DEF Locking
<1>3. \A v \in Worker : v \in Booking' <=> worker'[v].stage = "write" /\ worker'[v].op = "lock"
    BY DEF Booking
<1>4. Locking \subseteq Worker /\ Booking \subseteq Worker /\ Locking' \subseteq Worker /\ Booking' \subseteq Worker
    BY DEF Locking, Booking
<1>5. Locking' = IF s.stage = "call" /\ s.op = "lock" THEN Locking \cup {w} ELSE Locking \ {w}
    BY <1>1, <1>2, <1>4 DEF Locking
<1>6. Booking' = IF s.stage = "write" /\ s.op = "lock" THEN Booking \cup {w} ELSE Booking \ {w}
    BY <1>1, <1>3, <1>4 DEF Booking
<1>. QED  BY <1>1, <1>5, <1>6

\* A request that is in neither set and does not enter one leaves the counts alone.
LEMMA QuietMove ==
    ASSUME TypeOK, Counted, NEW w \in Worker, NEW s, To(w, s), w \notin Locking, w \notin Booking,
           s.stage \in {"call", "write"} => s.op # "lock",
           s.stage = "write" => s.updated.status # "PENDING",
           UNCHANGED <<doc, charged, lost>>
    PROVE  Counted'
<1>1. Locking' = Locking /\ Booking' = Booking
    BY MoveSets
<1>2. \A v \in Worker : worker'[v].stage = "write" => worker'[v].updated.status # "PENDING"
    BY MoveSets DEF Counted
<1>. QED  BY <1>1, <1>2 DEF Counted

\* Such a request about to write.
LEMMA QuietWriting ==
    ASSUME NEW w \in Worker, NEW op \in {"release", "refund", "dispute"}, NEW u,
           u.status # "PENDING", To(w, Writing(op, u))
    PROVE  \E s : /\ To(w, s)
                  /\ s.stage \in {"call", "write"} => s.op # "lock"
                  /\ s.stage = "write" => s.updated.status # "PENDING"
<1>. DEFINE s == Writing(op, u)
<1>1. s.op = op /\ s.updated = u
    BY DEF Writing
<1>. HIDE DEF s
<1>2. To(w, s)
    BY DEF s
<1>. QED  BY <1>1, <1>2

\* No charge is made at first.
LEMMA InitCounted == Init => Counted
<1>. SUFFICES ASSUME Init PROVE Counted
    OBVIOUS
<1>1. charged = {} /\ lost = 0 /\ \A w \in Worker : worker[w].stage = "idle"
    BY DEF Init, Idle
<1>2. Locking = {}
    BY <1>1 DEF Locking
<1>3. Cardinality(charged) = 0 /\ Cardinality(Locking) = 0 /\ IsFiniteSet(charged)
    BY <1>1, <1>2, FS_EmptySet
<1>. QED  BY <1>1, <1>3, CountFacts DEF Counted

\* Every step keeps the count of the charges.
LEMMA NextCounted ==
    ASSUME TypeOK, DocExists, Counted, [Next]_vars
    PROVE  Counted'
<1>. USE EscrowAssumption, NoDocAssumption
<1>n. /\ lost \in Nat /\ Cardinality(charged) \in Nat
      /\ Cardinality(charged) + Cardinality(Locking) <= Cardinality(Worker) + lost
    BY FS_CardinalityType DEF TypeOK, Counted
<1>1. CASE CreateEscrow \/ (\E t \in Tx : Capture(t)) \/ UNCHANGED vars
    <2>1. UNCHANGED <<worker, charged, lost>>
        BY <1>1 DEF CreateEscrow, Capture, vars, provider
    <2>2. Locking' = Locking /\ Booking' = Booking
        BY <2>1 DEF Locking, Booking
    <2>3. doc' = NoDoc \/ doc'.status = "PENDING" => doc = NoDoc \/ doc.status = "PENDING"
        BY <1>1 DEF CreateEscrow, Capture, vars
    <2>. QED  BY <2>1, <2>2, <2>3 DEF Counted
<1>2. ASSUME NEW w \in Worker, LockRead(w) PROVE Counted'
    <2>. DEFINE s == Calling("lock", doc)
    <2>1. To(w, s) /\ UNCHANGED <<doc, charged, lost>> /\ worker[w] = Idle /\ doc.status = "PENDING"
        BY <1>2 DEF LockRead, provider
    <2>2. w \notin Booking /\ s.stage = "call"
        BY <2>1 DEF Booking, Idle, Calling
    <2>3. Booking' = Booking /\ \A v \in Worker :
            worker'[v].stage = "write" => worker'[v].updated.status # "PENDING"
        <3>. HIDE DEF s
        <3>1. Booking' = Booking /\ worker'[w] = s /\ \A v \in Worker : v # w => worker'[v] = worker[v]
            BY <2>1, <2>2, MoveSets
        <3>. QED  BY <2>2, <3>1 DEF Counted
    <2>4. Cardinality(charged) <= Cardinality(Booking) + lost
        BY <2>1 DEF Counted
    <2>5. Cardinality(charged) + Cardinality(Locking') <= Cardinality(Worker) + lost
        BY <2>3, <2>4, <1>n, CountFacts, CountFactsNext
    <2>. QED  BY <2>1, <2>3, <2>4, <2>5 DEF Counted
<1>3. ASSUME NEW w \in Worker,
             \/ ReleaseRead(w) \/ RefundRead(w) \/ DisputeRead(w) \/ ReleaseVerify(w)
             \/ RefundCall(w) \/ WebhookFind(w) \/ \E t \in Tx : WebhookVerify(w, t)
      PROVE  Counted'
    <2>1. UNCHANGED <<doc, charged, lost>>
        BY <1>3 DEF ReleaseRead, RefundRead, DisputeRead, ReleaseVerify, RefundCall,
                    WebhookFind, WebhookVerify, provider
    <2>2. worker[w].stage \notin {"call", "write"} \/ worker[w].op # "lock"
        BY <1>3 DEF ReleaseRead, RefundRead, DisputeRead, ReleaseVerify, RefundCall,
                    WebhookFind, WebhookVerify, At, Idle, Found
    <2>3. w \notin Locking /\ w \notin Booking
        BY <2>2 DEF Locking, Booking
    <2>4. \E s : /\ To(w, s)
                 /\ s.stage \in {"call", "write"} => s.op # "lock"
                 /\ s.stage = "write" => s.updated.status # "PENDING"
        <3>1. CASE ReleaseRead(w) \/ RefundRead(w)
            BY <3>1 DEF ReleaseRead, RefundRead, Calling
        <3>2. CASE DisputeRead(w)
            <4>1. doc \in Escrow
                BY <3>2 DEF DisputeRead, TypeOK
            <4>2. [doc EXCEPT !.status = "DISPUTED"].status = "DISPUTED"
                BY <4>1 DEF Escrow
            <4>3. To(w, Writing("dispute", [doc EXCEPT !.status = "DISPUTED"]))
                BY <3>2 DEF DisputeRead
            <4>. QED  BY <4>2, <4>3, QuietWriting
        <3>3. CASE ReleaseVerify(w)
            <4>. DEFINE u == [worker[w].snap EXCEPT !.status = "RELEASED",
                                        !.stamps = @ \cup {"releasedAt"}]
            <4>1. worker[w].snap \in Escrow
                BY <3>3, StageFacts DEF ReleaseVerify, At, TypeOK
            <4>2. u.status = "RELEASED"
                BY <4>1 DEF Escrow
            <4>3. To(w, Writing("release", u))
                BY <3>3 DEF ReleaseVerify
            <4>. HIDE DEF u
            <4>. QED  BY <4>2, <4>3, QuietWriting
        <3>4. CASE RefundCall(w)
            <4>. DEFINE u == [worker[w].snap EXCEPT !.status = "REFUNDED",
                                        !.stamps = @ \cup {"refundedAt"}]
            <4>1. worker[w].snap \in Escrow
                BY <3>4, StageFacts DEF RefundCall, At, TypeOK
            <4>2. u.status = "REFUNDED"
                BY <4>1 DEF Escrow
            <4>3. To(w, Writing("refund", u))
                BY <3>4 DEF RefundCall
            <4>. HIDE DEF u
            <4>. QED  BY <4>2, <4>3, QuietWriting
        <3>5. CASE WebhookFind(w)
            BY <3>5 DEF WebhookFind, Found, Idle
        <3>6. CASE \E t \in Tx : WebhookVerify(w, t)
            BY <3>6 DEF WebhookVerify, Hook
        <3>. QED  BY <1>3, <3>1, <3>2, <3>3, <3>4, <3>5, <3>6
    <2>. QED  BY <2>1, <2>3, <2>4, QuietMove
<1>4. ASSUME NEW w \in Worker, NEW t \in Tx, LockCharge(w, t) PROVE Counted'
    <2>. DEFINE u == [worker[w].snap EXCEPT !.status = "LOCKED", !.tx = t,
                                !.stamps = @ \cup {"lockedAt"}]
    <2>1. /\ To(w, Writing("lock", u)) /\ w \in Locking /\ w \notin Booking
          /\ t \notin charged /\ charged' = charged \cup {t} /\ UNCHANGED <<doc, lost>>
        BY <1>4 DEF LockCharge, At, Locking, Booking
    <2>2. u.status = "LOCKED"
        <3>1. worker[w].snap \in Escrow
            BY <1>4, StageFacts DEF LockCharge, At, TypeOK
        <3>. QED  BY <3>1 DEF Escrow
    <2>3. /\ Locking' = Locking \ {w} /\ Booking' = Booking \cup {w}
          /\ \A v \in Worker : worker'[v].stage = "write" => worker'[v].updated.status # "PENDING"
        <3>. HIDE DEF u
        <3>. QED  BY <2>1, <2>2, MoveSets DEF Counted, Writing
    <2>4. /\ IsFiniteSet(charged') /\ Cardinality(charged') = Cardinality(charged) + 1
          /\ Cardinality(Locking') = Cardinality(Locking) - 1
          /\ Cardinality(Booking') = Cardinality(Booking) + 1
        BY <2>1, <2>3, CountFacts, FS_AddElement, FS_RemoveElement DEF Counted
    <2>. QED  BY <2>1, <2>3, <2>4, <1>n, CountFacts DEF Counted
<1>5. ASSUME NEW w \in Worker, Write(w) PROVE Counted'
    <2>1. To(w, Idle) /\ UNCHANGED <<charged, lost>> /\ w \notin Locking
        BY <1>5 DEF Write, Locking, provider
    <2>2. /\ Locking' = Locking
          /\ \A v \in Worker : worker'[v].stage = "write" => worker'[v].updated.status # "PENDING"
        BY <2>1, MoveSets DEF Counted, Idle
    <2>3. doc' # NoDoc /\ doc'.status # "PENDING"
        <3>1. doc' = Merged(worker[w].updated) /\ doc \in Escrow /\ worker[w].updated \in Escrow
            BY <1>5, StageFacts DEF Write, TypeOK, DocExists
        <3>2. doc' \in Escrow
            BY <3>1, MergedType
        <3>3. doc'.status = worker[w].updated.status
            BY <3>1 DEF Merged, Escrow
        <3>. QED  BY <1>5, <3>2, <3>3 DEF Write, Counted
    <2>. QED  BY <2>1, <2>2, <2>3 DEF Counted
<1>6. ASSUME NEW w \in Worker, Abort(w) PROVE Counted'
    <2>1. /\ To(w, Idle) /\ UNCHANGED <<doc, charged>> /\ lost' \in {lost, lost + 1}
          /\ w \in Booking => lost' = lost + 1
        BY <1>6 DEF Abort, Booking, provider
    <2>2. /\ Locking' = Locking \ {w} /\ Booking' = Booking \ {w}
          /\ \A v \in Worker : worker'[v].stage = "write" => worker'[v].updated.status # "PENDING"
        BY <2>1, MoveSets DEF Counted, Idle
    <2>3. /\ Cardinality(Locking') <= Cardinality(Locking)
          /\ Cardinality(Booking') + lost' >= Cardinality(Booking) + lost
          /\ lost' >= lost /\ lost' \in Nat
        <3>1. /\ Cardinality(Locking') = IF w \in Locking THEN Cardinality(Locking) - 1 ELSE Cardinality(Locking)
              /\ Cardinality(Booking') = IF w \in Booking THEN Cardinality(Booking) - 1 ELSE Cardinality(Booking)
            BY <2>2, CountFacts, FS_RemoveElement
        <3>2. Cardinality(Locking') <= Cardinality(Locking)
            BY <3>1, CountFacts
        <3>3. lost' >= lost /\ lost' \in Nat
            BY <2>1, <1>n
        <3>4. CASE w \in Booking
            BY <3>4, <3>1, <2>1, <1>n, CountFacts
        <3>5. CASE w \notin Booking
            <4>1. Cardinality(Booking') = Cardinality(Booking)
                BY <3>1, <3>5
            <4>2. Cardinality(Booking') + lost' >= Cardinality(Booking) + lost
                BY <4>1, <3>3, <1>n, CountFacts
            <4>. QED  BY <4>2, <3>2, <3>3
        <3>. QED  BY <3>2, <3>3, <3>4, <3>5
    <2>. QED  BY <2>1, <2>2, <2>3, <1>n, CountFacts, CountFactsNext DEF Counted
<1>. QED  BY <1>1, <1>2, <1>3, <1>4, <1>5, <1>6 DEF Next, Request

\* For any number of requests in flight: the buyer is charged at most once per
\* request, plus once per request that died after the provider charged
\* (lockEscrow).
THEOREM ChargesAreBounded == Spec => []ChargesBounded
<1>1. TypeOK /\ DocExists /\ Counted /\ [Next]_vars => TypeOK' /\ DocExists' /\ Counted'
    BY NextType, NextCounted
<1>2. TypeOK /\ Counted => ChargesBounded
    <2>. SUFFICES ASSUME TypeOK, Counted PROVE ChargesBounded
        OBVIOUS
    <2>1. Cardinality(charged) \in Nat /\ lost \in Nat
        BY EscrowAssumption, FS_CardinalityType DEF Counted, TypeOK
    <2>. QED  BY <2>1, CountFacts DEF Counted, ChargesBounded
<1>. QED  BY InitType, InitCounted, <1>1, <1>2, PTL DEF Spec
=============================================================================
