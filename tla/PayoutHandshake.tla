-------------------------- MODULE PayoutHandshake --------------------------
(***************************************************************************)
(* Payout handshakes of the gateway backend, rows of a PostgreSQL table    *)
(* behind Prisma.  Three request handlers work on them: the OTP release    *)
(* (PaymentService.verifyAndRelease), the payout itself                    *)
(* (processUniversalHandshake in payout/router.ts) and the proof of        *)
(* delivery judged by an AI service (PayoutProofController), which goes on *)
(* to the payout.                                                          *)
(*                                                                         *)
(* Each database call is atomic; the handlers interleave between calls.    *)
(* The transaction of the OTP release runs at the database's default level *)
(* (read committed), which gives each statement a snapshot of its own and  *)
(* keeps no lock on what was only read.  Its update and its commit are one *)
(* step: a competing update of the row, or of the unique key, waits.       *)
(***************************************************************************)
EXTENDS Naturals, FiniteSets

CONSTANTS
    Handshake,
    Worker,     \* requests that may be in flight at once
    Key,        \* idempotency keys
    NoKey,
    NoRow,
    MaxPayouts, \* bound: payouts of one handshake
    MaxDied     \* bound: requests cut off between a payout and its record

ASSUME PayoutAssumption ==
    NoKey \notin Key /\ MaxPayouts \in Nat /\ MaxDied \in Nat /\ IsFiniteSet(Worker)

\* confident: aiConfidence > 0.95; processed: processedReleaseTxId is set.
Row ==
    [status : {"LOCKED", "RELEASED", "FAILED"}, confident : BOOLEAN,
     key : Key \cup {NoKey}, processed : BOOLEAN]

ASSUME NoRowAssumption == NoRow \notin Row

VARIABLES
    rows,       \* the table
    worker,     \* the requests in flight
    paid,       \* the rails: payouts executed for each handshake
    verified,   \* handshakes with a proof of delivery judged genuine
    died        \* history: requests cut off after a payout

payoutVars == <<rows, worker, paid, verified, died>>

Idle == [stage |-> "idle"]
At(stage, h) == [stage |-> stage, h |-> h]
Otp(stage, h, k) == [stage |-> stage, h |-> h, key |-> k]
Judged(h, ok, high) == [stage |-> "store", h |-> h, ok |-> ok, high |-> high]

PayoutInit ==
    /\ rows = [h \in Handshake |-> NoRow]
    /\ worker = [w \in Worker |-> Idle]
    /\ paid = [h \in Handshake |-> 0]
    /\ verified = {}
    /\ died = 0

To(w, state) == worker' = [worker EXCEPT ![w] = state]

CreateHandshake(h) ==
    /\ rows[h] = NoRow
    /\ rows' = [rows EXCEPT ![h] =
                    [status |-> "LOCKED", confident |-> FALSE, key |-> NoKey, processed |-> FALSE]]
    /\ UNCHANGED <<worker, paid, verified, died>>

\* POST /handshake/create: the service is called once the body has every field.
Create(h) == CreateHandshake(h)

-----------------------------------------------------------------------------
(* verifyAndRelease, with the right OTP *)

\* findUnique and the status check; a FAILED handshake passes as well.
OtpRead(w, h, k) ==
    /\ worker[w] = Idle
    /\ rows[h] # NoRow /\ rows[h].status # "RELEASED"
    /\ To(w, Otp("otpKey", h, k))
    /\ UNCHANGED <<rows, paid, verified, died>>

\* The two routes to it: POST /handshake/verify, and /verify of each rail.
Verify(w, h, k) == OtpRead(w, h, k)
VerifyRail(w, h, k) == OtpRead(w, h, k)

Taken(k, others) == \E h \in others : rows[h] # NoRow /\ rows[h].key = k

\* findFirst by idempotency key: ALREADY_PROCESSED if any handshake has it.
OtpKey(w) ==
    /\ worker[w].stage = "otpKey"
    /\ To(w, IF Taken(worker[w].key, Handshake)
             THEN Idle
             ELSE Otp("otpUpdate", worker[w].h, worker[w].key))
    /\ UNCHANGED <<rows, paid, verified, died>>

\* The update; the unique constraint speaks only for the other rows.
OtpUpdate(w) ==
    /\ worker[w].stage = "otpUpdate"
    /\ IF Taken(worker[w].key, Handshake \ {worker[w].h})
       THEN UNCHANGED rows
       ELSE rows' = [rows EXCEPT ![worker[w].h].status = "RELEASED",
                               ![worker[w].h].key = worker[w].key]
    /\ To(w, Idle)
    /\ UNCHANGED <<paid, verified, died>>

-----------------------------------------------------------------------------
(* processUniversalHandshake *)

\* Pre-flight; called by its own route or right after a good proof.
ProcessRead(w, h) ==
    /\ worker[w] \in {Idle, At("process", h)}
    /\ rows[h] # NoRow /\ rows[h].status = "LOCKED" /\ rows[h].confident
    /\ To(w, At("pay", h))
    /\ UNCHANGED <<rows, paid, verified, died>>

\* Mutant of Pay: a refusal of the rail is not noticed.
PayUnnoticed(w) ==
    /\ worker[w].stage = "pay"
    /\ \/ /\ paid[worker[w].h] < MaxPayouts
          /\ paid' = [paid EXCEPT ![worker[w].h] = @ + 1]
       \/ UNCHANGED paid
    /\ To(w, At("mark", worker[w].h))
    /\ UNCHANGED <<rows, verified, died>>

\* executeRouteRelease: the rail pays, or refuses.
Pay(w) ==
    /\ worker[w].stage = "pay"
    /\ \/ /\ paid[worker[w].h] < MaxPayouts
          /\ paid' = [paid EXCEPT ![worker[w].h] = @ + 1]
          /\ To(w, At("mark", worker[w].h))
       \/ /\ To(w, At("fail", worker[w].h))
          /\ UNCHANGED paid
    /\ UNCHANGED <<rows, verified, died>>

\* The row is marked RELEASED.  processedReleaseTxId names this handshake and
\* the time, so it never meets another row's.  Any error leads to the catch.
ProcessMark(w) ==
    /\ worker[w].stage = "mark"
    /\ \/ /\ rows' = [rows EXCEPT ![worker[w].h].status = "RELEASED",
                                  ![worker[w].h].processed = TRUE]
          /\ To(w, Idle)
       \/ /\ To(w, At("failPaid", worker[w].h))
          /\ UNCHANGED rows
    /\ UNCHANGED <<paid, verified, died>>

\* Mutant of ProcessFail: the catch leaves the row LOCKED.
ProcessFailUnmarked(w) ==
    /\ worker[w].stage \in {"fail", "failPaid"}
    /\ To(w, Idle)
    /\ UNCHANGED <<rows, paid, verified, died>>

\* The catch block marks the row FAILED, whatever it holds by now.
ProcessFail(w) ==
    /\ worker[w].stage \in {"fail", "failPaid"}
    /\ rows' = [rows EXCEPT ![worker[w].h].status = "FAILED"]
    /\ To(w, Idle)
    /\ UNCHANGED <<paid, verified, died>>

-----------------------------------------------------------------------------
(* verifyAndProcess: the proof of delivery *)

ProofRead(w, h) ==
    /\ worker[w] = Idle
    /\ rows[h] # NoRow /\ rows[h].status = "LOCKED"
    /\ To(w, At("judge", h))
    /\ UNCHANGED <<rows, paid, verified, died>>

\* The AI service (external) answers: a verdict and a score, independently.
ProofJudge(w, ok, high) ==
    /\ worker[w].stage = "judge"
    /\ To(w, Judged(worker[w].h, ok, high))
    /\ verified' = IF ok /\ high THEN verified \cup {worker[w].h} ELSE verified
    /\ UNCHANGED <<rows, paid, died>>

\* The score is stored in either case; a good proof goes on to the payout.
ProofStore(w) ==
    /\ worker[w].stage = "store"
    /\ rows' = [rows EXCEPT ![worker[w].h].confident = worker[w].high]
    /\ To(w, IF worker[w].ok /\ worker[w].high THEN At("process", worker[w].h) ELSE Idle)
    /\ UNCHANGED <<paid, verified, died>>

-----------------------------------------------------------------------------
\* The database is unreachable, a check fails, or the process dies: the request
\* ends where it is.
Abort(w) ==
    /\ worker[w] # Idle
    /\ IF worker[w].stage \in {"mark", "failPaid"}
       THEN died < MaxDied /\ died' = died + 1
       ELSE UNCHANGED died
    /\ To(w, Idle)
    /\ UNCHANGED <<rows, paid, verified>>

PayoutNext ==
    \/ \E h \in Handshake : Create(h)
    \/ \E w \in Worker, h \in Handshake :
        \/ \E k \in Key : Verify(w, h, k) \/ VerifyRail(w, h, k)
        \/ ProcessRead(w, h) \/ ProofRead(w, h)
    \/ \E w \in Worker :
        \/ OtpKey(w) \/ OtpUpdate(w)
        \/ Pay(w) \/ ProcessMark(w) \/ ProcessFail(w)
        \/ \E ok, high \in BOOLEAN : ProofJudge(w, ok, high)
        \/ ProofStore(w) \/ Abort(w)

PayoutSpec == PayoutInit /\ [][PayoutNext]_payoutVars

-----------------------------------------------------------------------------
(* Properties *)

\* A handshake that reads RELEASED was released for a reason the row records:
\* an OTP release left its key, or a payout took place on the rail, however OTP
\* releases, payouts and proofs overlap and whoever fails among them.
ReleasedForCause ==
    \A h \in Handshake : rows[h] # NoRow =>
        /\ rows[h].processed => paid[h] > 0
        /\ rows[h].status = "RELEASED" => rows[h].key # NoKey \/ rows[h].processed

\* However payout requests, proofs and OTP releases overlap, the rails pay at most
\* once per request that can be in flight, plus once for each request cut off
\* between the rail and the database: nothing ever makes a row LOCKED again.
\* (processUniversalHandshake: the pre-flight check and the catch block)
PayoutsBounded == \A h \in Handshake : paid[h] <= Cardinality(Worker) + died

\* A handshake is paid once.  (Refuted with two requests at once.)
PaidOnce == \A h \in Handshake : paid[h] <= 1 + died

\* The rail pays only for a delivery whose proof was judged genuine.  (Refuted:
\* the score of a rejected proof is stored too, and the payout looks at nothing
\* else.)
PaidMeansVerified == \A h \in Handshake : paid[h] > 0 => h \in verified
=============================================================================
