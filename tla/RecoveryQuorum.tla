--------------------------- MODULE RecoveryQuorum ---------------------------
(***************************************************************************)
(* The m-of-n gate of the recovery ritual: AdminRecoveryService's          *)
(* configuration, verifyMultiSig, and the part of POST /admin/unfreeze     *)
(* that stands before the heal.  LedgerGuard starts where this gate lets a *)
(* request through.                                                        *)
(*                                                                         *)
(* The message an officer signs is a hash of the request id, the action    *)
(* and the expiry; two payloads have the same message iff they agree on    *)
(* these, so a payload stands for its message.  A signature verifies under *)
(* a key only when the key's owner produced it for that very message.      *)
(***************************************************************************)
EXTENDS Naturals, Sequences, FiniteSets

CONSTANTS
    Key,        \* public keys: the officers' and strangers'
    Officers,   \* ADMIN_RECOVERY_OFFICER_PUBLIC_KEYS
    ThresholdM, \* ADMIN_RECOVERY_THRESHOLD_M, 0 when it is not set
    RequestId,
    Expiry,     \* the values of expiresAt that occur
    Garbled,    \* a signature that verifies for no message
    MaxSigs,    \* bound: signatures attached to one request
    MaxTime     \* bound: the clock

ASSUME ConfigAssumption ==
    /\ Officers \subseteq Key /\ ThresholdM \in Nat /\ MaxSigs \in Nat /\ MaxTime \in Nat
    /\ Expiry \subseteq Nat

Payload == [requestId : RequestId, expiresAt : Expiry]

VARIABLES
    now,        \* Date.now()
    signed,     \* pairs <<key, payload>>: signatures that exist
    request,    \* the request being handled, as received
    verdict     \* "none", or the answer of the gate to that request

vars == <<now, signed, request, verdict>>

\* A signature entry: the key it names and what was actually signed.
SigOver == {s[2] : s \in signed} \cup {Garbled}

NoRequest == [payload |-> Garbled, signatures |-> <<>>]

Init ==
    /\ now = 0
    /\ signed = {}
    /\ request = NoRequest
    /\ verdict = "none"

\* CryptoService.verifySignature (external crypto): entry sig against payload.
VerifySignature(payload, sig) ==
    sig.over = payload /\ <<sig.officerPublicKey, payload>> \in signed

\* Mutant of CountSignature: the seen-keys test is missing.
CountSignatureTwice(payload, acc, sig) ==
    IF sig.officerPublicKey \in Officers /\ VerifySignature(payload, sig)
    THEN [uniqueKeys |-> acc.uniqueKeys \cup {sig.officerPublicKey},
          validCount |-> acc.validCount + 1]
    ELSE acc

\* The body of the loop over payload.signatures.
CountSignature(payload, acc, sig) ==
    IF /\ sig.officerPublicKey \in Officers
       /\ sig.officerPublicKey \notin acc.uniqueKeys
       /\ VerifySignature(payload, sig)
    THEN [uniqueKeys |-> acc.uniqueKeys \cup {sig.officerPublicKey},
          validCount |-> acc.validCount + 1]
    ELSE acc

\* The loop: the accumulator after each of the signatures.
ValidCount(payload, sigs) ==
    LET acc[k \in 0..Len(sigs)] ==
            IF k = 0 THEN [uniqueKeys |-> {}, validCount |-> 0]
            ELSE CountSignature(payload, acc[k - 1], sigs[k])
    IN  acc[Len(sigs)].validCount

VerifyMultiSig(payload, sigs) ==
    /\ payload.expiresAt > now
    /\ ValidCount(payload, sigs) >= ThresholdM

\* An officer, or a stranger, signs a recovery payload.
Sign(k, p) ==
    /\ request = NoRequest
    /\ signed' = signed \cup {<<k, p>>}
    /\ UNCHANGED <<now, request, verdict>>

Tick ==
    /\ request = NoRequest
    /\ now < MaxTime
    /\ now' = now + 1
    /\ UNCHANGED <<signed, request, verdict>>

\* POST /admin/unfreeze: whoever submits may reorder, repeat, mislabel or
\* garble signatures, or lift them from another payload.
Submit(p, sigs) ==
    /\ request = NoRequest
    /\ request' = [payload |-> p, signatures |-> sigs]
    /\ verdict' = IF VerifyMultiSig(p, sigs) THEN "accepted" ELSE "rejected"
    /\ UNCHANGED <<now, signed>>

\* The handler is synchronous up to its verdict: requests are judged one by one.
Done ==
    /\ request # NoRequest
    /\ request' = NoRequest
    /\ verdict' = "none"
    /\ UNCHANGED <<now, signed>>

Next ==
    \/ Done
    \/ \E k \in Key, p \in Payload : Sign(k, p)
    \/ Tick
    \/ \E p \in Payload, n \in 0..MaxSigs :
        \E sigs \in [1..n -> [officerPublicKey : Key, over : SigOver]] : Submit(p, sigs)

Spec == Init /\ [][Next]_vars

-----------------------------------------------------------------------------
(* Properties *)

\* Officers whose signature over the payload is among the ones submitted.
Approvers(p, sigs) ==
    {k \in Officers : \E i \in DOMAIN sigs :
        sigs[i].officerPublicKey = k /\ sigs[i].over = p /\ <<k, p>> \in signed}

\* The gate opens for exactly the requests that are unexpired when they arrive
\* and carry valid signatures of at least m different officers: order,
\* repetition, a garbled copy in front of a good one, a signature over another
\* payload or under another key make no difference.  (verifyMultiSig)
GateDecidesQuorum ==
    [][request' # NoRequest =>
        (verdict' = "accepted" <=>
            /\ now < request'.payload.expiresAt
            /\ Cardinality(Approvers(request'.payload, request'.signatures)) >= ThresholdM)]_vars
=============================================================================
