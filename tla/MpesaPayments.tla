---------------------------- MODULE MpesaPayments ----------------------------
(***************************************************************************)
(* Payments asked of a buyer through Safaricom's Daraja interface:         *)
(* PaymentController.initiateTransaction and handleMpesaWebhook, with      *)
(* DarajaService and the Firestore documents they write.                   *)
(*                                                                         *)
(* Every await is a step of its own and may fail; a failed call may have   *)
(* had its effect.  Daraja is external: it takes or refuses a push and the *)
(* buyer pays or declines.  The callback route has no authentication and   *)
(* looks for no push: any body may arrive there at any time, and the       *)
(* callback of a push is one of them, late, repeated or missing.           *)
(***************************************************************************)
EXTENDS Naturals, FiniteSets

CONSTANTS
    Payment,    \* requests of initiateTransaction
    Phone,      \* phone numbers, digits only
    NoDigits,   \* what is left of a phone number without digits
    Cents       \* amounts in cents after rounding; 0 for less than half a cent

ASSUME PaymentAssumption == NoDigits \notin Phone /\ Cents \subseteq Nat

Kind == {"instant", "weekly", "monthly"}    \* "offline" is refused
RawPhone == [digits : Phone \cup {NoDigits}, plus : BOOLEAN]
NoRequest == [stage |-> "none"]

VARIABLES
    request,        \* the requests: where each is and what it asks for
    push,           \* Daraja: what became of the push of each request
    revenue,        \* _private_license_revenue: requests logged there
    subscriptions,  \* recurring_subscriptions: requests recorded there
    premium,        \* users: digits of the documents with isPremium
    stray           \* history: numbers that a success callback has named
                    \* while no push to them was paid

paymentVars == <<request, push, revenue, subscriptions, premium, stray>>

PaymentInit ==
    /\ request = [p \in Payment |-> NoRequest]
    /\ push = [p \in Payment |-> "none"]
    /\ revenue = {} /\ subscriptions = {}
    /\ premium = {} /\ stray = {}

NormalizePhone(raw) == raw.digits

Advance(p, stage) == request' = [request EXCEPT ![p].stage = stage]

\* Where a request goes on: one of an unauthorized installation has a surcharge.
EnsureIntegrity(unauthorized) == IF unauthorized THEN "log" ELSE "charge"

\* A valid request; the adjusted total is logged, the original one is charged.
InitiateTransaction(p, raw, cents, kind, unauthorized) ==
    /\ request[p] = NoRequest
    /\ request' = [request EXCEPT ![p] =
                    [stage |-> EnsureIntegrity(unauthorized), phone |-> raw, cents |-> cents,
                     kind |-> kind, surcharged |-> unauthorized]]
    /\ UNCHANGED <<push, revenue, subscriptions, premium, stray>>

LogPassiveLicenseRevenue(p) ==
    /\ request[p].stage = "log"
    /\ \/ revenue' = revenue \cup {p} /\ \E stage \in {"charge", "failed"} : Advance(p, stage)
       \/ Advance(p, "failed") /\ UNCHANGED revenue
    /\ UNCHANGED <<push, subscriptions, premium, stray>>

AmountWholeKES(p) == request[p].cents \div 100

\* A new DarajaService has no token, so every charge fetches one.
FetchOAuthToken(p) ==
    /\ request[p].stage = "charge" /\ request[p].kind = "instant"
    /\ \E ok \in BOOLEAN :
        Advance(p, IF ok /\ AmountWholeKES(p) > 0 THEN "push" ELSE "failed")
    /\ UNCHANGED <<push, revenue, subscriptions, premium, stray>>

\* Mutant of PushStage: an answer without CheckoutRequestID will do.
PushStageLax(taken, answered) == IF answered THEN "done" ELSE "failed"

\* initiateStkPush succeeds when a CheckoutRequestID comes back.
PushStage(taken, answered) == IF taken /\ answered THEN "done" ELSE "failed"

InitiateStkPush(p) ==
    /\ request[p].stage = "push"
    /\ \E taken, answered \in BOOLEAN :
        /\ taken => NormalizePhone(request[p].phone) # NoDigits
        /\ push' = [push EXCEPT ![p] = IF taken THEN "asked" ELSE "none"]
        /\ Advance(p, PushStage(taken, answered))
    /\ UNCHANGED <<revenue, subscriptions, premium, stray>>

\* createRecurringSubscriptionRecord writes the document, unless it fails before.
CreateRecurringSubscription(p) ==
    /\ request[p].stage = "charge" /\ request[p].kind \in {"weekly", "monthly"}
    /\ \/ /\ AmountWholeKES(p) > 0
          /\ subscriptions' = subscriptions \cup {p}
          /\ \E stage \in {"done", "failed"} : Advance(p, stage)
       \/ Advance(p, "failed") /\ UNCHANGED subscriptions
    /\ UNCHANGED <<push, revenue, premium, stray>>

BuyerAnswers(p, answer) ==
    /\ push[p] = "asked"
    /\ push' = [push EXCEPT ![p] = answer]
    /\ UNCHANGED <<request, revenue, subscriptions, premium, stray>>

-----------------------------------------------------------------------------
\* ResultCode as a string; "none" where no place of the body has one.
ResultCode == {"0", "1", "none"}

\* Mutant of ShouldRelease: every code that is there will do.
ShouldReleaseDefined(code) == code # "none"

ShouldRelease(code) == code = "0"

\* The write may fail; nothing ever takes the premium status away.
UpdatePremiumStatus(raw) ==
    premium' \in {premium} \cup
        (IF NormalizePhone(raw) = NoDigits THEN {} ELSE {premium \cup {NormalizePhone(raw)}})

PaidNumbers == {NormalizePhone(request[p].phone) : p \in {q \in Payment : push[q] = "paid"}}

\* Any body, at any time and any number of times; one without result code 0, or
\* without a phone number that is a string, changes nothing.
ProcessWebhook(raw, isString, code) ==
    /\ ShouldRelease(code) /\ isString
    /\ UpdatePremiumStatus(raw)
    /\ stray' = IF code = "0" THEN stray \cup ({NormalizePhone(raw)} \ PaidNumbers) ELSE stray
    /\ UNCHANGED <<request, push, revenue, subscriptions>>

PaymentNext ==
    \/ \E p \in Payment :
        \/ \E raw \in RawPhone, cents \in Cents, kind \in Kind, unauthorized \in BOOLEAN :
            InitiateTransaction(p, raw, cents, kind, unauthorized)
        \/ LogPassiveLicenseRevenue(p)
        \/ FetchOAuthToken(p) \/ InitiateStkPush(p) \/ CreateRecurringSubscription(p)
        \/ \E answer \in {"paid", "declined"} : BuyerAnswers(p, answer)
    \/ \E raw \in RawPhone, isString \in BOOLEAN, code \in ResultCode :
        ProcessWebhook(raw, isString, code)

PaymentSpec == PaymentInit /\ [][PaymentNext]_paymentVars

-----------------------------------------------------------------------------
(* Properties *)

\* While callbacks tell the truth nobody becomes premium unpaid: a number that is
\* premium was paid for by a push to that very number, in whatever form it was
\* written, unless a callback has claimed success for it when no such push was
\* paid.  Declined and code-less callbacks, late and repeated ones, and those for
\* requests that were answered with an error never make the difference.
\* (processWebhook, validateMpesaCallback, updatePremiumStatus; the route itself
\* takes any caller's word, so nothing stronger holds.)
PremiumPaidFor == premium \subseteq PaidNumbers \cup stray

\* A request answered 201 left what it promised: a push that Daraja took, or a
\* subscription document, of at least one whole shilling, and its line in the
\* revenue log if it had a surcharge.  (The converse fails: a request answered
\* 500 may have logged revenue, and the buyer may yet be asked and pay.)
SuccessIsBacked ==
    \A p \in Payment : request[p].stage = "done" =>
        /\ AmountWholeKES(p) > 0
        /\ IF request[p].kind = "instant" THEN push[p] # "none" ELSE p \in subscriptions
        /\ request[p].surcharged => p \in revenue
=============================================================================
