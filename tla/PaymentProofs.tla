---------------------------- MODULE PaymentProofs ----------------------------
(***************************************************************************)
(* Proofs about the gateway backend's payouts (PayoutHandshake), payments  *)
(* (MpesaPayments) and outgoing webhooks (WebhookDelivery), which have no  *)
(* state in common.  They hold for any number of requests, handshakes,     *)
(* payments and events.                                                    *)
(***************************************************************************)
EXTENDS PayoutHandshake, MpesaPayments, WebhookDelivery, FiniteSetTheorems, TLAPS

-----------------------------------------------------------------------------
(* Payments asked of a buyer *)

Req == [stage : {"log", "charge", "push", "done", "failed"}, phone : RawPhone,
        cents : Cents, kind : Kind, surcharged : BOOLEAN]

\* What is known of a request at each of its stages.
Backed(p) ==
    LET r == request[p] IN
    /\ r.stage \in {"charge", "push", "done"} /\ r.surcharged => p \in revenue
    /\ r.stage = "push" => AmountWholeKES(p) > 0 /\ r.kind = "instant"
    /\ r.stage = "done" =>
        /\ AmountWholeKES(p) > 0
        /\ IF r.kind = "instant" THEN push[p] # "none" ELSE p \in subscriptions
    /\ push[p] # "none" => r.stage \in {"done", "failed"}

PaymentTypeOK ==
    /\ request \in [Payment -> Req \cup {NoRequest}]
    /\ push \in [Payment -> {"none", "asked", "paid", "declined"}]

\* The inductive invariant of the payments.
PaymentInv == PaymentTypeOK /\ (\A p \in Payment : Backed(p)) /\ PremiumPaidFor

\* A request that advances changes its stage and nothing else of it.
LEMMA AdvanceFacts ==
    ASSUME PaymentTypeOK, NEW p \in Payment, NEW s \in {"charge", "push", "done", "failed"},
           request[p].stage \in {"log", "charge", "push"}, Advance(p, s)
    PROVE  /\ request' \in [Payment -> Req \cup {NoRequest}]
           /\ request'[p].stage = s /\ request'[p].kind = request[p].kind
           /\ request'[p].cents = request[p].cents /\ request'[p].phone = request[p].phone
           /\ request'[p].surcharged = request[p].surcharged
           /\ request[p].kind \in Kind
           /\ \A q \in Payment : q # p => request'[q] = request[q]
<1>1. request[p] \in Req
    BY DEF PaymentTypeOK, NoRequest
<1>2. request' = [request EXCEPT ![p] = [request[p] EXCEPT !.stage = s]]
    BY <1>1 DEF Advance, PaymentTypeOK
<1>. DEFINE r == [request[p] EXCEPT !.stage = s]
<1>3. /\ r \in Req /\ r.stage = s /\ r.kind = request[p].kind
      /\ r.cents = request[p].cents /\ r.phone = request[p].phone
      /\ r.surcharged = request[p].surcharged /\ request[p].kind \in Kind
    BY <1>1 DEF Req
<1>. HIDE DEF r
<1>4. request'[p] = r /\ \A q \in Payment : q # p => request'[q] = request[q]
    BY <1>2 DEF PaymentTypeOK, r
<1>5. request' \in [Payment -> Req \cup {NoRequest}]
    BY <1>2, <1>3 DEF PaymentTypeOK, r
<1>. QED  BY <1>3, <1>4, <1>5

\* A step for one payment leaves the others as they were.
LEMMA OthersBacked ==
    ASSUME PaymentInv, NEW p \in Payment,
           \A q \in Payment : q # p =>
                /\ request'[q] = request[q] /\ push'[q] = push[q]
                /\ q \in revenue => q \in revenue'
                /\ q \in subscriptions => q \in subscriptions'
    PROVE  \A q \in Payment : q # p => Backed(q)'
BY DEF PaymentInv, Backed, AmountWholeKES

\* Premium stays paid for while no payment is taken back.
LEMMA PremiumStays ==
    ASSUME PaymentInv, premium' = premium, stray' = stray,
           \A q \in Payment : push[q] = "paid" =>
                push'[q] = "paid" /\ request'[q].phone = request[q].phone
    PROVE  PremiumPaidFor'
<1>1. PaidNumbers \subseteq PaidNumbers'
    BY DEF PaidNumbers, NormalizePhone
<1>. QED  BY <1>1 DEF PaymentInv, PremiumPaidFor

\* Every step of a payment keeps the invariant.
LEMMA PaymentStep == PaymentInv /\ [PaymentNext]_paymentVars => PaymentInv'
<1>. SUFFICES ASSUME PaymentInv, [PaymentNext]_paymentVars
              PROVE  PaymentInv'
    OBVIOUS
<1>0. /\ PaymentTypeOK /\ \A p \in Payment : Backed(p)
    BY DEF PaymentInv
<1>1. ASSUME NEW p \in Payment, NEW raw \in RawPhone, NEW cents \in Cents, NEW kind \in Kind,
             NEW unauthorized \in BOOLEAN,
             InitiateTransaction(p, raw, cents, kind, unauthorized)
      PROVE  PaymentInv'
    <2>. DEFINE r == [stage |-> EnsureIntegrity(unauthorized), phone |-> raw, cents |-> cents,
                      kind |-> kind, surcharged |-> unauthorized]
    <2>1. /\ request[p] = NoRequest /\ request' = [request EXCEPT ![p] = r]
          /\ UNCHANGED <<push, revenue, subscriptions, premium, stray>>
        BY <1>1 DEF InitiateTransaction
    <2>2. /\ r \in Req /\ r.stage = (IF unauthorized THEN "log" ELSE "charge")
          /\ r.surcharged = unauthorized
        BY DEF Req, EnsureIntegrity
    <2>. HIDE DEF r
    <2>3. request'[p] = r /\ \A q \in Payment : q # p => request'[q] = request[q]
        BY <1>0, <2>1 DEF PaymentTypeOK
    <2>4. push[p] = "none"
        BY <1>0, <2>1 DEF Backed, NoRequest, PaymentTypeOK
    <2>5. Backed(p)'
        BY <2>1, <2>2, <2>3, <2>4 DEF Backed
    <2>6. PaymentTypeOK'
        BY <1>0, <2>1, <2>2 DEF PaymentTypeOK
    <2>7. PremiumPaidFor'
        BY <2>1, <2>3, <2>4, PremiumStays
    <2>. QED  BY <2>1, <2>3, <2>5, <2>6, <2>7, OthersBacked DEF PaymentInv
<1>2. ASSUME NEW p \in Payment, NEW s \in {"charge", "push", "done", "failed"},
             request[p].stage \in {"log", "charge", "push"}, Advance(p, s),
             UNCHANGED <<premium, stray>>,
             push' \in [Payment -> {"none", "asked", "paid", "declined"}],
             \A q \in Payment : q # p => push'[q] = push[q],
             revenue \subseteq revenue', subscriptions \subseteq subscriptions',
             Backed(p)'
      PROVE  PaymentInv'
    <2>1. push[p] = "none"
        BY <1>0, <1>2 DEF Backed, PaymentTypeOK
    <2>2. /\ request' \in [Payment -> Req \cup {NoRequest}]
          /\ request'[p].phone = request[p].phone
          /\ \A q \in Payment : q # p => request'[q] = request[q]
        BY <1>0, <1>2, AdvanceFacts
    <2>3. PremiumPaidFor'
        BY <1>2, <2>1, <2>2, PremiumStays
    <2>4. \A q \in Payment : q # p => Backed(q)'
        BY <1>2, <2>2, OthersBacked
    <2>. QED  BY <1>2, <2>2, <2>3, <2>4 DEF PaymentInv, PaymentTypeOK
<1>3. ASSUME NEW p \in Payment, LogPassiveLicenseRevenue(p)
      PROVE  PaymentInv'
    <2>1. PICK s \in {"charge", "failed"} :
            /\ Advance(p, s) /\ revenue \subseteq revenue' /\ (s = "charge" => p \in revenue')
        BY <1>3 DEF LogPassiveLicenseRevenue
    <2>2. request[p].stage = "log" /\ UNCHANGED <<push, subscriptions, premium, stray>>
        BY <1>3 DEF LogPassiveLicenseRevenue
    <2>3. Backed(p)'
        BY <1>0, <2>1, <2>2, AdvanceFacts DEF Backed
    <2>. QED  BY <1>0, <1>2, <2>1, <2>2, <2>3 DEF PaymentTypeOK
<1>4. ASSUME NEW p \in Payment, FetchOAuthToken(p)
      PROVE  PaymentInv'
    <2>1. /\ request[p].stage = "charge" /\ request[p].kind = "instant"
          /\ UNCHANGED <<push, revenue, subscriptions, premium, stray>>
        BY <1>4 DEF FetchOAuthToken
    <2>2. PICK s \in {"push", "failed"} : Advance(p, s) /\ (s = "push" => AmountWholeKES(p) > 0)
        BY <1>4 DEF FetchOAuthToken
    <2>3. Backed(p)'
        BY <1>0, <2>1, <2>2, AdvanceFacts DEF Backed, AmountWholeKES
    <2>. QED  BY <1>0, <1>2, <2>1, <2>2, <2>3 DEF PaymentTypeOK
<1>5. ASSUME NEW p \in Payment, InitiateStkPush(p)
      PROVE  PaymentInv'
    <2>1. PICK taken, answered \in BOOLEAN :
            /\ push' = [push EXCEPT ![p] = IF taken THEN "asked" ELSE "none"]
            /\ Advance(p, PushStage(taken, answered))
        BY <1>5 DEF InitiateStkPush
    <2>2. request[p].stage = "push" /\ UNCHANGED <<revenue, subscriptions, premium, stray>>
        BY <1>5 DEF InitiateStkPush
    <2>3. PICK s \in {"done", "failed"} : Advance(p, s) /\ (s = "done" => taken)
        BY <2>1 DEF PushStage
    <2>4. /\ push' \in [Payment -> {"none", "asked", "paid", "declined"}]
          /\ push'[p] = (IF taken THEN "asked" ELSE "none")
          /\ \A q \in Payment : q # p => push'[q] = push[q]
        BY <1>0, <2>1 DEF PaymentTypeOK
    <2>5. Backed(p)'
        BY <1>0, <2>2, <2>3, <2>4, AdvanceFacts DEF Backed, AmountWholeKES
    <2>. QED  BY <1>2, <2>2, <2>3, <2>4, <2>5
<1>6. ASSUME NEW p \in Payment, CreateRecurringSubscription(p)
      PROVE  PaymentInv'
    <2>1. /\ request[p].stage = "charge" /\ request[p].kind # "instant"
          /\ UNCHANGED <<push, revenue, premium, stray>>
        BY <1>6 DEF CreateRecurringSubscription
    <2>2. PICK s \in {"done", "failed"} :
            /\ Advance(p, s) /\ subscriptions \subseteq subscriptions'
            /\ s = "done" => AmountWholeKES(p) > 0 /\ p \in subscriptions'
        BY <1>6 DEF CreateRecurringSubscription
    <2>3. Backed(p)'
        BY <1>0, <2>1, <2>2, AdvanceFacts DEF Backed, AmountWholeKES
    <2>. QED  BY <1>0, <1>2, <2>1, <2>2, <2>3 DEF PaymentTypeOK
<1>7. ASSUME NEW p \in Payment, NEW answer \in {"paid", "declined"}, BuyerAnswers(p, answer)
      PROVE  PaymentInv'
    <2>1. /\ push[p] = "asked" /\ push' = [push EXCEPT ![p] = answer]
          /\ UNCHANGED <<request, revenue, subscriptions, premium, stray>>
        BY <1>7 DEF BuyerAnswers
    <2>2. push'[p] = answer /\ \A q \in Payment : q # p => push'[q] = push[q]
        BY <1>0, <2>1 DEF PaymentTypeOK
    <2>3. Backed(p)'
        BY <1>0, <2>1, <2>2 DEF Backed, AmountWholeKES
    <2>4. \A q \in Payment : q # p => Backed(q)'
        BY <2>1, <2>2, OthersBacked
    <2>5. PremiumPaidFor'
        BY <2>1, <2>2, PremiumStays
    <2>6. PaymentTypeOK'
        BY <1>0, <2>1 DEF PaymentTypeOK
    <2>. QED  BY <2>3, <2>4, <2>5, <2>6 DEF PaymentInv
<1>8. ASSUME NEW raw \in RawPhone, NEW isString \in BOOLEAN, NEW code \in ResultCode,
             ProcessWebhook(raw, isString, code)
      PROVE  PaymentInv'
    <2>1. /\ UNCHANGED <<request, push, revenue, subscriptions>>
          /\ premium' \subseteq premium \cup {NormalizePhone(raw)}
          /\ stray' = stray \cup ({NormalizePhone(raw)} \ PaidNumbers)
        BY <1>8 DEF ProcessWebhook, ShouldRelease, UpdatePremiumStatus
    <2>2. PremiumPaidFor'
        <3>1. PaidNumbers' = PaidNumbers
            BY <2>1 DEF PaidNumbers, NormalizePhone
        <3>2. premium \subseteq PaidNumbers \cup stray
            BY DEF PaymentInv, PremiumPaidFor
        <3>. HIDE DEF PaidNumbers
        <3>. QED  BY <2>1, <3>1, <3>2 DEF PremiumPaidFor
    <2>3. PaymentTypeOK' /\ \A q \in Payment : Backed(q)'
        BY <1>0, <2>1 DEF PaymentTypeOK, Backed, AmountWholeKES
    <2>. QED  BY <2>2, <2>3 DEF PaymentInv
<1>9. CASE UNCHANGED paymentVars
    <2>1. PremiumPaidFor'
        BY <1>9, PremiumStays DEF paymentVars
    <2>2. PaymentTypeOK' /\ \A q \in Payment : Backed(q)'
        BY <1>0, <1>9 DEF paymentVars, PaymentTypeOK, Backed, AmountWholeKES
    <2>. QED  BY <2>1, <2>2 DEF PaymentInv
<1>. QED  BY <1>1, <1>3, <1>4, <1>5, <1>6, <1>7, <1>8, <1>9 DEF PaymentNext

\* The invariant of the payments holds throughout.
LEMMA PaymentAlways == PaymentSpec => []PaymentInv
<1>1. PaymentInit => PaymentInv
    BY DEF PaymentInit, PaymentInv, PaymentTypeOK, Backed, PremiumPaidFor, NoRequest
<1>. QED  BY <1>1, PaymentStep, PTL DEF PaymentSpec

\* A premium number was paid for by a push to that very number, unless a callback
\* claimed success for it while no such push was paid; for any number of requests
\* and of phones, whatever bodies the callback route receives and in which order.
THEOREM PremiumIsPaidFor == PaymentSpec => []PremiumPaidFor
BY PaymentAlways, PTL DEF PaymentInv

\* A request answered as a success left the push or the document it promised, and
\* its line in the revenue log.
THEOREM SuccessesAreBacked == PaymentSpec => []SuccessIsBacked
<1>1. PaymentInv => SuccessIsBacked
    BY DEF PaymentInv, Backed, SuccessIsBacked
<1>. QED  BY <1>1, PaymentAlways, PTL

-----------------------------------------------------------------------------
(* Webhook delivery *)

DeliveryTypeOK ==
    /\ phase \in [Event -> {"idle", "posting", "pausing", "deadLetter"} \cup Final]
    /\ answers \in [Event -> Seq(Answer)]
    /\ deadLetters \in [Event -> Nat] /\ received \in [Event -> Nat]

\* While the call goes on every answer was one that is retried, and there is an
\* attempt left unless the dead letter is due.
Borne(e) ==
    LET n == Len(answers[e]) IN
    /\ received[e] <= n /\ n <= MaxAttempts
    /\ phase[e] \in {"idle", "posting", "pausing"} => n < MaxAttempts
    /\ phase[e] \notin {"delivered", "refused"} =>
        \A k \in 1..n : answers[e][k] \notin {"success", "refusal"}
    /\ phase[e] \in {"deadLetter", "failed"} => n = MaxAttempts
    /\ phase[e] = "delivered" => received[e] > 0
    /\ deadLetters[e] <= 1 /\ (deadLetters[e] > 0 => phase[e] = "failed")

\* The inductive invariant of the deliveries.
DeliveryInv == DeliveryTypeOK /\ \A e \in Event : Borne(e)

\* Every step of a delivery keeps its invariant.
LEMMA DeliveryStepInv == DeliveryInv /\ [DeliveryNext]_deliveryVars => DeliveryInv'
<1>. SUFFICES ASSUME DeliveryInv, [DeliveryNext]_deliveryVars
              PROVE  DeliveryInv'
    OBVIOUS
<1>0. /\ DeliveryTypeOK /\ (\A e \in Event : Borne(e)) /\ MaxAttempts \in Nat \ {0}
    BY DeliveryAssumption DEF DeliveryInv
<1>1. ASSUME NEW e \in Event, SendWebhookEvent(e) \/ Resume(e)
      PROVE  DeliveryInv'
    <2>1. /\ phase[e] \in {"idle", "pausing"} /\ phase' = [phase EXCEPT ![e] = "posting"]
          /\ UNCHANGED <<answers, deadLetters, received>>
        BY <1>1 DEF SendWebhookEvent, Resume
    <2>2. phase'[e] = "posting" /\ \A f \in Event : f # e => phase'[f] = phase[f]
        BY <1>0, <2>1 DEF DeliveryTypeOK
    <2>3. DeliveryTypeOK'
        BY <1>0, <2>1 DEF DeliveryTypeOK
    <2>4. Borne(e)'
        BY <1>0, <2>1, <2>2 DEF Borne, DeliveryTypeOK
    <2>5. \A f \in Event : f # e => Borne(f)'
        BY <1>0, <2>1, <2>2 DEF Borne
    <2>. QED  BY <2>3, <2>4, <2>5 DEF DeliveryInv
<1>2. ASSUME NEW e \in Event, NEW answer \in Answer, Attempt(e, answer)
      PROVE  DeliveryInv'
    <2>. DEFINE s == answers[e]
                n == Len(s)
                t == Append(s, answer)
    <2>1. /\ s \in Seq(Answer) /\ n \in Nat /\ t \in Seq(Answer) /\ Len(t) = n + 1
          /\ \A k \in 1..n : t[k] = s[k]
          /\ t[n + 1] = answer
        BY <1>0 DEF DeliveryTypeOK
    <2>. HIDE DEF t
    <2>2. /\ answers' = [answers EXCEPT ![e] = t] /\ phase[e] = "posting"
          /\ answers'[e] = t /\ \A f \in Event : f # e => answers'[f] = answers[f]
        BY <1>0, <1>2 DEF Attempt, DeliveryTypeOK, t
    <2>3. /\ phase' = [phase EXCEPT ![e] = AfterAttempt(answer, n + 1)]
          /\ UNCHANGED deadLetters
          /\ \/ received' = [received EXCEPT ![e] = received[e] + 1]
             \/ (answer = "network" /\ UNCHANGED received)
        BY <1>2, <2>1, <2>2 DEF Attempt
    <2>. DEFINE p == AfterAttempt(answer, n + 1)
    <2>4. /\ p \in {"delivered", "refused", "pausing", "deadLetter"}
          /\ p = "delivered" => answer = "success"
          /\ p \in {"pausing", "deadLetter"} => answer \in {"retry", "network"}
          /\ p = "pausing" => n + 1 < MaxAttempts
          /\ p = "deadLetter" => ~(n + 1 < MaxAttempts)
        BY DEF AfterAttempt, Retryable
    <2>. HIDE DEF p
    <2>5. phase'[e] = p /\ \A f \in Event : f # e => phase'[f] = phase[f]
        BY <1>0, <2>3 DEF DeliveryTypeOK, p
    <2>6. /\ received'[e] \in {received[e], received[e] + 1}
          /\ answer # "network" => received'[e] = received[e] + 1
          /\ \A f \in Event : f # e => received'[f] = received[f]
          /\ received' \in [Event -> Nat] /\ received[e] \in Nat
        BY <1>0, <2>3 DEF DeliveryTypeOK
    <2>7. /\ received[e] <= n /\ n < MaxAttempts /\ deadLetters[e] = 0
          /\ \A k \in 1..n : s[k] \notin {"success", "refusal"}
        BY <1>0, <2>2 DEF Borne, DeliveryTypeOK
    <2>. HIDE DEF s, n
    <2>8. Borne(e)'
        <3>. DEFINE r == received'[e]
        <3>1. r \in Nat /\ r <= n + 1 /\ (answer # "network" => r > 0)
            BY <2>1, <2>6, <2>7
        <3>2. p \notin {"delivered", "refused"} =>
                \A k \in 1..(n + 1) : t[k] \notin {"success", "refusal"}
            BY <2>1, <2>4, <2>7
        <3>3. n + 1 <= MaxAttempts /\ (p = "deadLetter" => n + 1 = MaxAttempts)
            BY <1>0, <2>1, <2>4, <2>7
        <3>4. p = "delivered" => r > 0
            BY <2>4, <3>1
        <3>. HIDE DEF r
        <3>5. Len(answers'[e]) = n + 1 /\ answers'[e] = t /\ phase'[e] = p /\ deadLetters'[e] = 0
            BY <2>1, <2>2, <2>3, <2>5, <2>7
        <3>. QED  BY <2>4, <3>1, <3>2, <3>3, <3>4, <3>5 DEF Borne, r
    <2>9. \A f \in Event : f # e => Borne(f)'
        BY <1>0, <2>2, <2>3, <2>5, <2>6 DEF Borne
    <2>10. DeliveryTypeOK'
        <3>1. answers' \in [Event -> Seq(Answer)]
            BY <1>0, <2>1, <2>2 DEF DeliveryTypeOK
        <3>2. phase' \in [Event -> {"idle", "posting", "pausing", "deadLetter"} \cup Final]
            BY <1>0, <2>3, <2>4 DEF DeliveryTypeOK, Final, p
        <3>. QED  BY <1>0, <2>3, <2>6, <3>1, <3>2 DEF DeliveryTypeOK
    <2>. QED  BY <2>8, <2>9, <2>10 DEF DeliveryInv
<1>3. ASSUME NEW e \in Event, WriteDeadLetter(e)
      PROVE  DeliveryInv'
    <2>1. /\ phase[e] = "deadLetter" /\ phase' = [phase EXCEPT ![e] = "failed"]
          /\ deadLetters' \in {deadLetters, [deadLetters EXCEPT ![e] = deadLetters[e] + 1]}
          /\ UNCHANGED <<answers, received>>
        BY <1>3 DEF WriteDeadLetter
    <2>2. phase'[e] = "failed" /\ \A f \in Event : f # e => phase'[f] = phase[f]
        BY <1>0, <2>1 DEF DeliveryTypeOK
    <2>3. deadLetters[e] = 0
        BY <1>0, <2>1 DEF Borne, DeliveryTypeOK
    <2>4. /\ deadLetters' \in [Event -> Nat] /\ deadLetters'[e] \in {0, 1}
          /\ \A f \in Event : f # e => deadLetters'[f] = deadLetters[f]
        <3>1. deadLetters \in [Event -> Nat]
            BY <1>0 DEF DeliveryTypeOK
        <3>2. CASE deadLetters' = deadLetters
            BY <2>3, <3>1, <3>2
        <3>3. CASE deadLetters' = [deadLetters EXCEPT ![e] = 1]
            BY <3>1, <3>3
        <3>. QED  BY <2>1, <2>3, <3>2, <3>3
    <2>5. Borne(e)'
        BY <1>0, <2>1, <2>2, <2>4 DEF Borne
    <2>6. \A f \in Event : f # e => Borne(f)'
        BY <1>0, <2>1, <2>2, <2>4 DEF Borne
    <2>7. DeliveryTypeOK'
        BY <1>0, <2>1, <2>4 DEF DeliveryTypeOK, Final
    <2>. QED  BY <2>5, <2>6, <2>7 DEF DeliveryInv
<1>4. CASE UNCHANGED deliveryVars
    BY <1>0, <1>4 DEF deliveryVars, DeliveryInv, DeliveryTypeOK, Borne
<1>. QED  BY <1>1, <1>2, <1>3, <1>4 DEF DeliveryNext, DeliveryStep

\* What a caller is told of an event is borne out by the attempts, and a dead
\* letter is written once at most and only after MaxAttempts failures that are
\* retried, for any number of attempts.
THEOREM ResultsAreBorneOut == DeliverySpec => []ResultsBorneOut
<1>1. DeliveryInit => DeliveryInv
    BY DeliveryAssumption DEF DeliveryInit, DeliveryInv, DeliveryTypeOK, Borne, Final
<1>2. DeliveryInv => ResultsBorneOut
    <2>. SUFFICES ASSUME DeliveryInv, NEW e \in Event
                  PROVE  /\ phase[e] = "delivered" => received[e] > 0
                         /\ received[e] <= Len(answers[e]) /\ Len(answers[e]) <= MaxAttempts
                         /\ deadLetters[e] > 0 =>
                            /\ phase[e] = "failed" /\ deadLetters[e] = 1
                            /\ Len(answers[e]) = MaxAttempts
                            /\ \A k \in DOMAIN answers[e] : answers[e][k] \notin {"success", "refusal"}
        BY DEF ResultsBorneOut
    <2>1. Borne(e) /\ answers[e] \in Seq(Answer) /\ deadLetters[e] \in Nat
        BY DEF DeliveryInv, DeliveryTypeOK
    <2>2. DOMAIN answers[e] = 1..Len(answers[e])
        BY <2>1
    <2>. QED  BY <2>1, <2>2 DEF Borne
<1>. QED  BY <1>1, <1>2, DeliveryStepInv, PTL DEF DeliverySpec

-----------------------------------------------------------------------------
(* Payout handshakes *)

InFlight ==
    [stage : {"process", "pay", "mark", "fail", "failPaid", "judge"}, h : Handshake]
    \cup [stage : {"otpKey", "otpUpdate"}, h : Handshake, key : Key]
    \cup [stage : {"store"}, h : Handshake, ok : BOOLEAN, high : BOOLEAN]

PayoutTypeOK ==
    /\ rows \in [Handshake -> Row \cup {NoRow}]
    /\ worker \in [Worker -> InFlight \cup {Idle}]
    /\ paid \in [Handshake -> Nat]
    /\ died \in Nat

\* A request works on a row that is there, and on from the rail only after a payout.
OnRow == \A w \in Worker : worker[w] # Idle =>
    /\ rows[worker[w].h] # NoRow
    /\ worker[w].stage \in {"mark", "failPaid"} => paid[worker[w].h] > 0

\* What a request in flight carries at its stage.
LEMMA FlightFacts ==
    ASSUME PayoutTypeOK, NEW w \in Worker
    PROVE  /\ worker[w] # Idle <=> worker[w].stage # "idle"
           /\ worker[w] # Idle => worker[w] \in InFlight /\ worker[w].h \in Handshake
           /\ worker[w].stage \in {"otpKey", "otpUpdate"} => worker[w].key \in Key
           /\ worker[w].stage = "store" => worker[w].ok \in BOOLEAN /\ worker[w].high \in BOOLEAN
<1>1. worker[w] \in InFlight \cup {Idle} /\ Idle.stage = "idle"
    BY DEF PayoutTypeOK, Idle
<1>. QED  BY <1>1 DEF InFlight

\* The states that the actions give a request are of the type of its stage.
LEMMA FlightTyped ==
    /\ \A h \in Handshake : \A s \in {"process", "pay", "mark", "fail", "failPaid", "judge"} :
        /\ At(s, h) \in InFlight /\ At(s, h) # Idle /\ At(s, h).h = h /\ At(s, h).stage = s
    /\ \A h \in Handshake, k \in Key : \A s \in {"otpKey", "otpUpdate"} :
        /\ Otp(s, h, k) \in InFlight /\ Otp(s, h, k) # Idle
        /\ Otp(s, h, k).h = h /\ Otp(s, h, k).stage = s
    /\ \A h \in Handshake : \A ok, high \in BOOLEAN :
        /\ Judged(h, ok, high) \in InFlight /\ Judged(h, ok, high) # Idle
        /\ Judged(h, ok, high).h = h /\ Judged(h, ok, high).stage = "store"
    /\ Idle.stage = "idle"
BY DEF At, Otp, Judged, InFlight, Idle

\* A request moves on to a state s; rows only change for the better.
LEMMA ToFacts ==
    ASSUME PayoutTypeOK, OnRow, NEW w \in Worker, NEW s \in InFlight \cup {Idle}, To(w, s),
           rows' \in [Handshake -> Row \cup {NoRow}],
           \A h \in Handshake : rows[h] # NoRow => rows'[h] # NoRow,
           paid' \in [Handshake -> Nat], \A h \in Handshake : paid[h] <= paid'[h],
           died' \in Nat,
           s # Idle => /\ rows'[s.h] # NoRow
                       /\ s.stage \in {"mark", "failPaid"} => paid'[s.h] > 0
    PROVE  /\ PayoutTypeOK' /\ OnRow'
           /\ worker'[w] = s /\ \A v \in Worker : v # w => worker'[v] = worker[v]
<1>1. worker'[w] = s /\ \A v \in Worker : v # w => worker'[v] = worker[v]
    BY DEF To, PayoutTypeOK
<1>2. PayoutTypeOK'
    BY DEF To, PayoutTypeOK
<1>3. ASSUME NEW v \in Worker, worker'[v] # Idle
      PROVE  /\ rows'[worker'[v].h] # NoRow
             /\ worker'[v].stage \in {"mark", "failPaid"} => paid'[worker'[v].h] > 0
    <2>1. CASE v = w
        BY <1>1, <1>3, <2>1
    <2>2. CASE v # w
        <3>. DEFINE h == worker[v].h
        <3>1. worker'[v] = worker[v] /\ worker[v] # Idle
            BY <1>1, <1>3, <2>2
        <3>2. h \in Handshake /\ rows[h] # NoRow /\ (worker[v].stage \in {"mark", "failPaid"} => paid[h] > 0)
            BY <3>1, FlightFacts DEF OnRow
        <3>. HIDE DEF h
        <3>3. paid[h] \in Nat /\ paid'[h] \in Nat /\ paid[h] <= paid'[h] /\ rows'[h] # NoRow
            BY <3>2 DEF PayoutTypeOK
        <3>. QED  BY <3>1, <3>2, <3>3 DEF h
    <2>. QED  BY <2>1, <2>2
<1>. QED  BY <1>1, <1>2, <1>3 DEF OnRow

\* The inductive invariant of the handshakes.
PayoutInv == PayoutTypeOK /\ OnRow /\ ReleasedForCause

\* One row is written, the others stay.
LEMMA RowWritten ==
    ASSUME PayoutInv, NEW h \in Handshake, NEW r \in Row, rows' = [rows EXCEPT ![h] = r],
           paid' = paid,
           r.processed => paid[h] > 0,
           r.status = "RELEASED" => r.key # NoKey \/ r.processed
    PROVE  /\ rows' \in [Handshake -> Row \cup {NoRow}]
           /\ \A g \in Handshake : rows[g] # NoRow => rows'[g] # NoRow
           /\ rows'[h] = r /\ \A g \in Handshake : g # h => rows'[g] = rows[g]
           /\ ReleasedForCause'
<1>1. /\ rows' \in [Handshake -> Row \cup {NoRow}] /\ rows'[h] = r
      /\ \A g \in Handshake : g # h => rows'[g] = rows[g]
    BY DEF PayoutInv, PayoutTypeOK
<1>2. ReleasedForCause'
    BY <1>1 DEF PayoutInv, ReleasedForCause
<1>. QED  BY <1>1, <1>2, NoRowAssumption

\* Every step of a request, a judge or an operator keeps the invariant of the
\* handshakes.
LEMMA PayoutStep == PayoutInv /\ [PayoutNext]_payoutVars => PayoutInv'
<1>. SUFFICES ASSUME PayoutInv, [PayoutNext]_payoutVars
              PROVE  PayoutInv'
    OBVIOUS
<1>0. /\ PayoutTypeOK /\ OnRow /\ ReleasedForCause
      /\ \A h \in Handshake : paid[h] \in Nat /\ rows[h] \in Row \cup {NoRow}
      /\ died \in Nat
    BY DEF PayoutInv, PayoutTypeOK
<1>1. ASSUME NEW h \in Handshake, Create(h)
      PROVE  PayoutInv'
    <2>. DEFINE r == [status |-> "LOCKED", confident |-> FALSE, key |-> NoKey, processed |-> FALSE]
    <2>1. /\ rows' = [rows EXCEPT ![h] = r] /\ UNCHANGED <<worker, paid, died>>
          /\ r \in Row /\ r.status = "LOCKED" /\ r.processed = FALSE
        BY <1>1 DEF Create, CreateHandshake, Row
    <2>. HIDE DEF r
    <2>2. /\ rows' \in [Handshake -> Row \cup {NoRow}] /\ ReleasedForCause'
          /\ \A g \in Handshake : rows[g] # NoRow => rows'[g] # NoRow
        BY <2>1, RowWritten
    <2>3. OnRow'
        BY <1>0, <2>1, <2>2, FlightFacts DEF OnRow
    <2>. QED  BY <1>0, <2>1, <2>2, <2>3 DEF PayoutInv, PayoutTypeOK
\* A step that writes no row.
<1>2. ASSUME NEW w \in Worker, NEW s \in InFlight \cup {Idle}, To(w, s), rows' = rows,
             paid' \in [Handshake -> Nat], \A h \in Handshake : paid[h] <= paid'[h],
             died' \in Nat,
             s # Idle => /\ rows[s.h] # NoRow
                         /\ s.stage \in {"mark", "failPaid"} => paid'[s.h] > 0
      PROVE  PayoutInv'
    <2>1. PayoutTypeOK' /\ OnRow'
        BY <1>0, <1>2, ToFacts DEF PayoutTypeOK
    <2>2. ReleasedForCause'
        BY <1>0, <1>2 DEF ReleasedForCause
    <2>. QED  BY <2>1, <2>2 DEF PayoutInv
\* A step that writes one.
<1>3. ASSUME NEW w \in Worker, NEW s \in InFlight \cup {Idle}, To(w, s),
             NEW h \in Handshake, NEW r \in Row, rows' = [rows EXCEPT ![h] = r],
             UNCHANGED <<paid, died>>,
             r.processed => paid[h] > 0,
             r.status = "RELEASED" => r.key # NoKey \/ r.processed,
             s # Idle => s.h = h /\ s.stage \notin {"mark", "failPaid"}
      PROVE  PayoutInv'
    <2>1. /\ rows' \in [Handshake -> Row \cup {NoRow}] /\ ReleasedForCause' /\ rows'[h] = r
          /\ \A g \in Handshake : rows[g] # NoRow => rows'[g] # NoRow
        BY <1>3, RowWritten
    <2>2. s # Idle => rows'[s.h] # NoRow
        BY <1>3, <2>1, NoRowAssumption
    <2>3. PayoutTypeOK' /\ OnRow'
        BY <1>0, <1>3, <2>1, <2>2, ToFacts DEF PayoutTypeOK
    <2>. QED  BY <2>1, <2>3 DEF PayoutInv
<1>4. \A w \in Worker : worker[w].stage # "idle" =>
        /\ worker[w].h \in Handshake /\ rows[worker[w].h] # NoRow /\ rows[worker[w].h] \in Row
        /\ worker[w].stage \in {"mark", "failPaid"} => paid[worker[w].h] > 0
    BY <1>0, FlightFacts DEF OnRow
<1>5. ASSUME NEW w \in Worker, NEW h \in Handshake, NEW k \in Key, OtpRead(w, h, k)
      PROVE  PayoutInv'
    <2>1. To(w, Otp("otpKey", h, k)) /\ rows[h] # NoRow /\ UNCHANGED <<rows, paid, died>>
        BY <1>5 DEF OtpRead
    <2>2. /\ Otp("otpKey", h, k) \in InFlight /\ Otp("otpKey", h, k).h = h
          /\ Otp("otpKey", h, k).stage = "otpKey"
        BY FlightTyped
    <2>. QED  BY <1>0, <1>2, <2>1, <2>2 DEF PayoutTypeOK
<1>6. ASSUME NEW w \in Worker, NEW h \in Handshake, ProcessRead(w, h) \/ ProofRead(w, h)
      PROVE  PayoutInv'
    <2>1. PICK st \in {"pay", "judge"} :
            To(w, At(st, h)) /\ rows[h] # NoRow /\ UNCHANGED <<rows, paid, died>>
        BY <1>6 DEF ProcessRead, ProofRead
    <2>2. At(st, h) \in InFlight /\ At(st, h).h = h /\ At(st, h).stage = st
        BY FlightTyped
    <2>. QED  BY <1>0, <1>2, <2>1, <2>2 DEF PayoutTypeOK
<1>7. ASSUME NEW w \in Worker, OtpKey(w)
      PROVE  PayoutInv'
    <2>. DEFINE h == worker[w].h
                k == worker[w].key
    <2>1. /\ h \in Handshake /\ k \in Key /\ rows[h] # NoRow
          /\ UNCHANGED <<rows, paid, died>>
          /\ To(w, Idle) \/ To(w, Otp("otpUpdate", h, k))
        BY <1>0, <1>4, <1>7, FlightFacts DEF OtpKey
    <2>. HIDE DEF h, k
    <2>2. /\ Otp("otpUpdate", h, k) \in InFlight /\ Otp("otpUpdate", h, k).h = h
          /\ Otp("otpUpdate", h, k).stage = "otpUpdate"
        BY <2>1, FlightTyped
    <2>. QED  BY <1>0, <1>2, <2>1, <2>2 DEF PayoutTypeOK
<1>8. ASSUME NEW w \in Worker, OtpUpdate(w)
      PROVE  PayoutInv'
    <2>. DEFINE h == worker[w].h
                k == worker[w].key
                r == [rows[h] EXCEPT !.status = "RELEASED", !.key = k]
    <2>1. /\ h \in Handshake /\ k \in Key /\ rows[h] \in Row
          /\ UNCHANGED <<paid, died>> /\ To(w, Idle)
        BY <1>0, <1>4, <1>8, FlightFacts DEF OtpUpdate
    <2>2. rows' = rows \/ rows' = [rows EXCEPT ![h] = r]
        BY <1>0, <1>8, <2>1 DEF OtpUpdate, PayoutTypeOK
    <2>3. r \in Row /\ r.key = k /\ r.processed = rows[h].processed
        BY <2>1 DEF Row
    <2>4. r.processed => paid[h] > 0
        BY <1>0, <2>1, <2>3, NoRowAssumption DEF ReleasedForCause
    <2>. HIDE DEF h, k, r
    <2>5. r.key # NoKey
        BY <2>1, <2>3, PayoutAssumption
    <2>. QED  BY <1>0, <1>2, <1>3, <2>1, <2>2, <2>3, <2>4, <2>5 DEF PayoutTypeOK
<1>9. ASSUME NEW w \in Worker, Pay(w)
      PROVE  PayoutInv'
    <2>. DEFINE h == worker[w].h
    <2>1. /\ h \in Handshake /\ rows[h] # NoRow /\ UNCHANGED <<rows, died>>
          /\ \/ paid' = [paid EXCEPT ![h] = paid[h] + 1] /\ To(w, At("mark", h))
             \/ paid' = paid /\ To(w, At("fail", h))
        BY <1>4, <1>9 DEF Pay
    <2>. HIDE DEF h
    <2>2. \A st \in {"mark", "fail"} :
            At(st, h) \in InFlight /\ At(st, h).h = h /\ At(st, h).stage = st
        BY <2>1, FlightTyped
    <2>3. CASE paid' = paid /\ To(w, At("fail", h))
        BY <1>0, <1>2, <2>1, <2>2, <2>3 DEF PayoutTypeOK
    <2>4. CASE paid' = [paid EXCEPT ![h] = paid[h] + 1] /\ To(w, At("mark", h))
        <3>1. paid \in [Handshake -> Nat]
            BY <1>0 DEF PayoutTypeOK
        <3>2. /\ paid' \in [Handshake -> Nat] /\ \A g \in Handshake : paid[g] <= paid'[g]
              /\ paid'[h] > 0
            BY <2>1, <2>4, <3>1
        <3>. QED  BY <1>0, <1>2, <2>1, <2>2, <2>4, <3>2
    <2>. QED  BY <2>1, <2>3, <2>4
<1>10. ASSUME NEW w \in Worker, ProcessMark(w)
       PROVE  PayoutInv'
    <2>. DEFINE h == worker[w].h
                r == [rows[h] EXCEPT !.status = "RELEASED", !.processed = TRUE]
    <2>1. /\ h \in Handshake /\ rows[h] \in Row /\ rows[h] # NoRow /\ paid[h] > 0
          /\ UNCHANGED <<paid, died>>
          /\ \/ rows' = [rows EXCEPT ![h] = r] /\ To(w, Idle)
             \/ rows' = rows /\ To(w, At("failPaid", h))
        <3>1. /\ h \in Handshake /\ rows[h] \in Row /\ rows[h] # NoRow /\ paid[h] > 0
              /\ UNCHANGED <<paid, died>> /\ rows \in [Handshake -> Row \cup {NoRow}]
            BY <1>0, <1>4, <1>10 DEF ProcessMark, PayoutTypeOK
        <3>2. \/ rows' = [rows EXCEPT ![h] = r] /\ To(w, Idle)
              \/ rows' = rows /\ To(w, At("failPaid", h))
            BY <1>10, <3>1 DEF ProcessMark
        <3>. QED  BY <3>1, <3>2
    <2>2. r \in Row /\ r.processed
        BY <2>1 DEF Row
    <2>. HIDE DEF h, r
    <2>3. At("failPaid", h) \in InFlight /\ At("failPaid", h).h = h
        BY <2>1, FlightTyped
    <2>4. CASE rows' = [rows EXCEPT ![h] = r] /\ To(w, Idle)
        BY <1>3, <2>1, <2>2, <2>4
    <2>5. CASE rows' = rows /\ To(w, At("failPaid", h))
        BY <1>0, <1>2, <2>1, <2>3, <2>5 DEF PayoutTypeOK
    <2>. QED  BY <2>1, <2>4, <2>5
<1>11. ASSUME NEW w \in Worker, ProcessFail(w)
       PROVE  PayoutInv'
    <2>. DEFINE h == worker[w].h
                r == [rows[h] EXCEPT !.status = "FAILED"]
    <2>1. /\ h \in Handshake /\ rows[h] \in Row /\ rows[h] # NoRow
          /\ UNCHANGED <<paid, died>> /\ To(w, Idle)
        BY <1>4, <1>11 DEF ProcessFail
    <2>2. rows' = [rows EXCEPT ![h] = r]
        BY <1>0, <1>11, <2>1 DEF ProcessFail, PayoutTypeOK
    <2>3. r \in Row /\ r.status = "FAILED" /\ r.processed = rows[h].processed
        BY <2>1 DEF Row
    <2>4. r.processed => paid[h] > 0
        BY <1>0, <2>1, <2>3 DEF ReleasedForCause
    <2>. HIDE DEF h, r
    <2>. QED  BY <1>3, <2>1, <2>2, <2>3, <2>4
<1>12. ASSUME NEW w \in Worker, NEW ok \in BOOLEAN, NEW high \in BOOLEAN, ProofJudge(w, ok, high)
       PROVE  PayoutInv'
    <2>. DEFINE h == worker[w].h
    <2>1. /\ h \in Handshake /\ rows[h] # NoRow /\ UNCHANGED <<rows, paid, died>>
          /\ To(w, Judged(h, ok, high))
        BY <1>4, <1>12 DEF ProofJudge
    <2>. HIDE DEF h
    <2>2. /\ Judged(h, ok, high) \in InFlight /\ Judged(h, ok, high).h = h
          /\ Judged(h, ok, high).stage = "store"
        BY <2>1, FlightTyped
    <2>. QED  BY <1>0, <1>2, <2>1, <2>2 DEF PayoutTypeOK
<1>13. ASSUME NEW w \in Worker, ProofStore(w)
       PROVE  PayoutInv'
    <2>. DEFINE h == worker[w].h
                r == [rows[h] EXCEPT !.confident = worker[w].high]
    <2>1. /\ h \in Handshake /\ rows[h] \in Row /\ rows[h] # NoRow
          /\ UNCHANGED <<paid, died>> /\ worker[w].high \in BOOLEAN
          /\ To(w, Idle) \/ To(w, At("process", h))
        BY <1>0, <1>4, <1>13, FlightFacts DEF ProofStore
    <2>2. rows' = [rows EXCEPT ![h] = r]
        BY <1>0, <1>13, <2>1 DEF ProofStore, PayoutTypeOK
    <2>3. /\ r \in Row /\ r.status = rows[h].status /\ r.processed = rows[h].processed
          /\ r.key = rows[h].key
        BY <2>1 DEF Row
    <2>4. /\ r.processed => paid[h] > 0
          /\ r.status = "RELEASED" => r.key # NoKey \/ r.processed
        BY <1>0, <2>1, <2>3 DEF ReleasedForCause
    <2>. HIDE DEF h, r
    <2>5. At("process", h) \in InFlight /\ At("process", h).h = h /\ At("process", h).stage = "process"
        BY <2>1, FlightTyped
    <2>. QED  BY <1>3, <2>1, <2>2, <2>3, <2>4, <2>5
<1>14. ASSUME NEW w \in Worker, Abort(w)
       PROVE  PayoutInv'
    <2>1. To(w, Idle) /\ UNCHANGED <<rows, paid>> /\ died' \in Nat
        BY <1>0, <1>14 DEF Abort
    <2>. QED  BY <1>0, <1>2, <2>1 DEF PayoutTypeOK
<1>15. CASE UNCHANGED payoutVars
    BY <1>0, <1>15 DEF payoutVars, PayoutInv, PayoutTypeOK, OnRow, ReleasedForCause
<1>. QED  BY <1>1, <1>5, <1>6, <1>7, <1>8, <1>9, <1>10, <1>11, <1>12, <1>13, <1>14, <1>15
          DEF PayoutNext, Verify, VerifyRail

\* The invariant of the handshakes holds throughout.
LEMMA PayoutAlways == PayoutSpec => []PayoutInv
<1>1. PayoutInit => PayoutInv
    BY DEF PayoutInit, PayoutInv, PayoutTypeOK, OnRow, ReleasedForCause
<1>. QED  BY <1>1, PayoutStep, PTL DEF PayoutSpec

\* A handshake that reads RELEASED was released with a key or after a payout,
\* whatever overlaps and fails, for any number of requests at once.
THEOREM ReleasesHaveCause == PayoutSpec => []ReleasedForCause
BY PayoutAlways, PTL DEF PayoutInv

\* The requests between the rail and the database, and those before the rail.
Holds(s, h) == s.stage \in {"mark", "failPaid"} /\ s.h = h
Pays(s, h) == s.stage = "pay" /\ s.h = h
Holding(h) == {w \in Worker : Holds(worker[w], h)}
Paying(h) == {w \in Worker : Pays(worker[w], h)}

\* A handshake that can still be paid.
Locked(h) == rows[h] = NoRow \/ rows[h].status = "LOCKED"

One(b) == IF b THEN 1 ELSE 0

\* As long as a handshake is LOCKED every payout is held by a request or lost;
\* afterwards only the requests that read LOCKED can add one.
PayoutsCounted(h) ==
    /\ Locked(h) => paid[h] <= Cardinality(Holding(h)) + died
    /\ paid[h] + Cardinality(Paying(h)) <= Cardinality(Worker) + died

\* Two disjoint sets of requests are no more than all requests.
LEMMA WorkerSets ==
    ASSUME NEW S \in SUBSET Worker, NEW T \in SUBSET Worker, S \cap T = {}
    PROVE  /\ IsFiniteSet(S) /\ IsFiniteSet(T)
           /\ Cardinality(S) \in Nat /\ Cardinality(T) \in Nat /\ Cardinality(Worker) \in Nat
           /\ Cardinality(S) + Cardinality(T) <= Cardinality(Worker)
<1>1. IsFiniteSet(Worker) /\ IsFiniteSet(S) /\ IsFiniteSet(T)
    BY PayoutAssumption, FS_Subset
<1>2. Cardinality(S) \in Nat /\ Cardinality(T) \in Nat /\ Cardinality(Worker) \in Nat
    BY <1>1, FS_CardinalityType
<1>3. Cardinality(S \cup T) = Cardinality(S) + Cardinality(T)
    <2>1. Cardinality(S \cup T) = Cardinality(S) + Cardinality(T) - Cardinality(S \cap T)
        BY <1>1, FS_Union
    <2>2. Cardinality(S \cap T) = 0
        BY FS_EmptySet
    <2>. QED  BY <2>1, <2>2, <1>2
<1>4. Cardinality(S \cup T) <= Cardinality(Worker)
    <2>1. S \cup T \in SUBSET Worker
        OBVIOUS
    <2>. QED  BY <2>1, <1>1, FS_Subset
<1>. QED  BY <1>1, <1>2, <1>3, <1>4

\* The requests that still hold a payout of h and those that pay it are no more
\* than all requests,
LEMMA PayoutSets ==
    ASSUME NEW h
    PROVE  /\ Cardinality(Holding(h)) \in Nat /\ Cardinality(Paying(h)) \in Nat
           /\ Cardinality(Worker) \in Nat
           /\ Cardinality(Holding(h)) + Cardinality(Paying(h)) <= Cardinality(Worker)
           /\ IsFiniteSet(Holding(h)) /\ IsFiniteSet(Paying(h))
<1>1. Holding(h) \in SUBSET Worker /\ Paying(h) \in SUBSET Worker /\ Holding(h) \cap Paying(h) = {}
    BY DEF Holding, Paying, Holds, Pays
<1>. QED  BY <1>1, WorkerSets

\* and are so after a step as well.
LEMMA PayoutSetsNext ==
    ASSUME NEW h
    PROVE  /\ Cardinality(Holding(h)') \in Nat /\ Cardinality(Paying(h)') \in Nat
           /\ Cardinality(Holding(h)') + Cardinality(Paying(h)') <= Cardinality(Worker)
<1>1. Holding(h)' \in SUBSET Worker /\ Paying(h)' \in SUBSET Worker /\ Holding(h)' \cap Paying(h)' = {}
    BY DEF Holding, Paying, Holds, Pays
<1>. QED  BY <1>1, WorkerSets

\* A request leaves or enters a set of requests.
LEMMA CountMove ==
    ASSUME NEW S, IsFiniteSet(S), NEW w, NEW T, NEW a, NEW b,
           (w \in S /\ a = 1) \/ (w \notin S /\ a = 0),
           (b = 1 /\ T = S \cup {w}) \/ (b = 0 /\ T = S \ {w})
    PROVE  Cardinality(T) = Cardinality(S) - a + b
<1>0. Cardinality(S) \in Nat
    BY FS_CardinalityType
<1>1. CASE w \in S
    <2>1. Cardinality(S \ {w}) = Cardinality(S) - 1 /\ S \cup {w} = S
        BY <1>1, FS_RemoveElement
    <2>2. CASE b = 1 /\ T = S
        BY <1>0, <1>1, <2>2
    <2>3. CASE b = 0 /\ T = S \ {w}
        BY <1>0, <1>1, <2>1, <2>3
    <2>. QED  BY <2>1, <2>2, <2>3
<1>2. CASE w \notin S
    <2>1. Cardinality(S \cup {w}) = Cardinality(S) + 1 /\ S \ {w} = S
        BY <1>2, FS_AddElement
    <2>2. CASE b = 1 /\ T = S \cup {w}
        BY <1>0, <1>2, <2>1, <2>2
    <2>3. CASE b = 0 /\ T = S
        BY <1>0, <1>2, <2>3
    <2>. QED  BY <2>1, <2>2, <2>3
<1>. QED  BY <1>1, <1>2

\* What the move of one request does to the counts.
LEMMA PayoutMove ==
    ASSUME PayoutTypeOK, NEW w \in Worker, NEW s, To(w, s), NEW h
    PROVE  /\ Cardinality(Holding(h)') =
                Cardinality(Holding(h)) - One(Holds(worker[w], h)) + One(Holds(s, h))
           /\ Cardinality(Paying(h)') =
                Cardinality(Paying(h)) - One(Pays(worker[w], h)) + One(Pays(s, h))
<1>1. worker'[w] = s /\ \A v \in Worker : v # w => worker'[v] = worker[v]
    BY DEF To, PayoutTypeOK
<1>2. /\ \A v : v \in Holding(h)' <=> v \in Worker /\ Holds(worker'[v], h)
      /\ \A v : v \in Paying(h)' <=> v \in Worker /\ Pays(worker'[v], h)
    BY DEF Holding, Paying, Holds, Pays
<1>3. /\ \A v : v \in Holding(h) <=> v \in Worker /\ Holds(worker[v], h)
      /\ \A v : v \in Paying(h) <=> v \in Worker /\ Pays(worker[v], h)
    BY DEF Holding, Paying
<1>. DEFINE H == Holding(h)
            P == Paying(h)
            HH == Holding(h)'
            PP == Paying(h)'
<1>4. /\ Holds(s, h) => HH = H \cup {w}
      /\ ~Holds(s, h) => HH = H \ {w}
      /\ Pays(s, h) => PP = P \cup {w}
      /\ ~Pays(s, h) => PP = P \ {w}
    <2>. HIDE DEF H, P, HH, PP
    <2>1. /\ \A v : v \in HH <=> v \in Worker /\ Holds(worker'[v], h)
          /\ \A v : v \in PP <=> v \in Worker /\ Pays(worker'[v], h)
          /\ \A v : v \in H <=> v \in Worker /\ Holds(worker[v], h)
          /\ \A v : v \in P <=> v \in Worker /\ Pays(worker[v], h)
        BY <1>2, <1>3 DEF H, P, HH, PP
    <2>. QED  BY <1>1, <2>1
<1>5. (Holds(worker[w], h) <=> w \in H) /\ (Pays(worker[w], h) <=> w \in P)
    BY <1>3
<1>6. IsFiniteSet(H) /\ IsFiniteSet(P)
    BY PayoutSets
<1>. HIDE DEF H, P, HH, PP
<1>. DEFINE a == One(Holds(worker[w], h))
            b == One(Holds(s, h))
            c == One(Pays(worker[w], h))
            d == One(Pays(s, h))
<1>9. /\ (w \in H => a = 1) /\ (w \notin H => a = 0)
      /\ (w \in P => c = 1) /\ (w \notin P => c = 0)
    BY <1>5 DEF One
<1>10. /\ (b = 1 /\ HH = H \cup {w}) \/ (b = 0 /\ HH = H \ {w})
       /\ (d = 1 /\ PP = P \cup {w}) \/ (d = 0 /\ PP = P \ {w})
    BY <1>4 DEF One
<1>. HIDE DEF a, b, c, d
<1>7. Cardinality(HH) = Cardinality(H) - a + b
    BY <1>6, <1>9, <1>10, CountMove
<1>8. Cardinality(PP) = Cardinality(P) - c + d
    BY <1>6, <1>9, <1>10, CountMove
<1>. QED  BY <1>7, <1>8 DEF H, P, HH, PP, a, b, c, d

\* The counts after a request has moved, by arithmetic.
LEMMA PayoutArithmetic ==
    ASSUME NEW N \in Nat, NEW d \in Nat, NEW dd \in Nat, NEW p \in Nat, NEW pp \in Nat,
           NEW a \in Nat, NEW b \in Nat, NEW aa \in Nat, NEW bb \in Nat,
           aa + bb <= N, p + b <= N + d,
           NEW open \in BOOLEAN, NEW open2 \in BOOLEAN, open => p <= a + d, open2 => open,
           \/ pp = p /\ dd = d /\ bb <= b /\ (open2 => aa >= a)
           \/ pp = p /\ dd = d /\ open /\ aa = a
           \/ pp = p + 1 /\ dd = d /\ aa = a + 1 /\ bb = b - 1
           \/ pp = p /\ dd = d + 1 /\ aa >= a - 1 /\ bb <= b
    PROVE  (open2 => pp <= aa + dd) /\ pp + bb <= N + dd
OBVIOUS

\* A request moves from one stage to the next: quietly, past the check that the
\* handshake is LOCKED, past the rail, or it dies.
LEMMA CountedMove ==
    ASSUME PayoutTypeOK, PayoutTypeOK', NEW g \in Handshake, PayoutsCounted(g),
           NEW w \in Worker, NEW s, To(w, s), Locked(g)' => Locked(g),
           \/ /\ paid'[g] = paid[g] /\ died' = died /\ (Pays(s, g) => Pays(worker[w], g))
              /\ Locked(g)' => (Holds(worker[w], g) => Holds(s, g))
           \/ /\ paid'[g] = paid[g] /\ died' = died /\ Locked(g)
              /\ ~Holds(worker[w], g) /\ ~Holds(s, g)
           \/ /\ paid'[g] = paid[g] + 1 /\ died' = died
              /\ ~Holds(worker[w], g) /\ Holds(s, g) /\ Pays(worker[w], g) /\ ~Pays(s, g)
           \/ paid'[g] = paid[g] /\ died' = died + 1 /\ ~Pays(s, g)
    PROVE  PayoutsCounted(g)'
<1>. DEFINE N == Cardinality(Worker)
            a == Cardinality(Holding(g))
            b == Cardinality(Paying(g))
            aa == Cardinality(Holding(g)')
            bb == Cardinality(Paying(g)')
            i == One(Holds(worker[w], g))
            j == One(Holds(s, g))
            k == One(Pays(worker[w], g))
            l == One(Pays(s, g))
            p == paid[g]
            pp == paid'[g]
            open == Locked(g)
            open2 == Locked(g)'
<1>1. a \in Nat /\ b \in Nat /\ aa \in Nat /\ bb \in Nat /\ N \in Nat /\ aa + bb <= N
    BY PayoutSets, PayoutSetsNext
<1>2. aa = a - i + j /\ bb = b - k + l
    BY PayoutMove
<1>3. p \in Nat /\ pp \in Nat /\ died \in Nat /\ died' \in Nat
    BY DEF PayoutTypeOK
<1>4. (open => p <= a + died) /\ p + b <= N + died
    BY DEF PayoutsCounted
<1>5. i \in {0, 1} /\ j \in {0, 1} /\ k \in {0, 1} /\ l \in {0, 1}
    BY DEF One
<1>6. \/ pp = p /\ died' = died /\ l <= k /\ (open2 => j >= i)
      \/ pp = p /\ died' = died /\ open /\ i = 0 /\ j = 0
      \/ pp = p + 1 /\ died' = died /\ i = 0 /\ j = 1 /\ k = 1 /\ l = 0
      \/ pp = p /\ died' = died + 1 /\ l = 0
    <2>1. /\ Holds(worker[w], g) => i = 1
          /\ ~Holds(worker[w], g) => i = 0
          /\ Holds(s, g) => j = 1
          /\ ~Holds(s, g) => j = 0
          /\ Pays(worker[w], g) => k = 1
          /\ ~Pays(worker[w], g) => k = 0
          /\ Pays(s, g) => l = 1
          /\ ~Pays(s, g) => l = 0
        BY DEF One
    <2>2. (Pays(s, g) => Pays(worker[w], g)) => l <= k
        <3>. HIDE DEF k, l
        <3>. QED  BY <2>1
    <2>3. (Holds(worker[w], g) => Holds(s, g)) => j >= i
        <3>. HIDE DEF i, j
        <3>. QED  BY <2>1
    <2>. HIDE DEF i, j, k, l, p, pp, open, open2
    <2>. QED  BY <2>1, <2>2, <2>3 DEF p, pp, open, open2
<1>7. open2 => open
    OBVIOUS
<1>8. aa + bb <= N
    BY <1>1
<1>11. open \in BOOLEAN /\ open2 \in BOOLEAN
    BY DEF Locked
<1>. HIDE DEF N, a, b, aa, bb, i, j, k, l, p, pp, open, open2
<1>9. \/ pp = p /\ died' = died /\ bb <= b /\ (open2 => aa >= a)
      \/ pp = p /\ died' = died /\ open /\ aa = a
      \/ pp = p + 1 /\ died' = died /\ aa = a + 1 /\ bb = b - 1
      \/ pp = p /\ died' = died + 1 /\ aa >= a - 1 /\ bb <= b
    BY <1>1, <1>2, <1>3, <1>5, <1>6
<1>10. (open2 => pp <= aa + died') /\ pp + bb <= N + died'
    <2>. DEFINE d == died
                dd == died'
    <2>1. /\ d \in Nat /\ dd \in Nat /\ (open => p <= a + d) /\ p + b <= N + d
          /\ \/ pp = p /\ dd = d /\ bb <= b /\ (open2 => aa >= a)
             \/ pp = p /\ dd = d /\ open /\ aa = a
             \/ pp = p + 1 /\ dd = d /\ aa = a + 1 /\ bb = b - 1
             \/ pp = p /\ dd = d + 1 /\ aa >= a - 1 /\ bb <= b
        BY <1>3, <1>4, <1>9
    <2>. HIDE DEF d, dd
    <2>2. (open2 => pp <= aa + dd) /\ pp + bb <= N + dd
        BY ONLY <1>1, <1>3, <1>7, <1>8, <1>11, <2>1, PayoutArithmetic
    <2>. QED  BY <2>2 DEF dd
<1>. QED  BY <1>10 DEF PayoutsCounted, N, aa, bb, pp, open2

\* Every step keeps the counts.
LEMMA PayoutsCountedStep ==
    ASSUME PayoutInv, PayoutInv', [PayoutNext]_payoutVars,
           NEW g \in Handshake, PayoutsCounted(g)
    PROVE  PayoutsCounted(g)'
<1>0. PayoutTypeOK /\ PayoutTypeOK' /\ OnRow
    BY DEF PayoutInv
<1>1. ASSUME NEW h \in Handshake, Create(h)
      PROVE  PayoutsCounted(g)'
    <2>1. rows[h] = NoRow /\ UNCHANGED <<worker, paid, died>>
          /\ \A f \in Handshake : f # h => rows'[f] = rows[f]
        BY <1>0, <1>1 DEF Create, CreateHandshake, PayoutTypeOK
    <2>2. Locked(g)' => Locked(g)
        BY <2>1 DEF Locked
    <2>3. Holding(g)' = Holding(g) /\ Paying(g)' = Paying(g)
        BY <2>1 DEF Holding, Paying, Holds, Pays
    <2>4. /\ Locked(g) => paid[g] <= Cardinality(Holding(g)) + died
          /\ paid[g] + Cardinality(Paying(g)) <= Cardinality(Worker) + died
        BY DEF PayoutsCounted
    <2>5. /\ Locked(g)' => paid'[g] <= Cardinality(Holding(g)') + died'
          /\ paid'[g] + Cardinality(Paying(g)') <= Cardinality(Worker) + died'
        BY <2>1, <2>2, <2>3, <2>4
    <2>. QED  BY <2>5 DEF PayoutsCounted
\* A step that goes neither past the check nor past the rail.
<1>2. ASSUME NEW w \in Worker, NEW s, To(w, s), UNCHANGED <<rows, paid, died>>,
             s.stage # "pay", Holds(worker[w], g) => Holds(s, g)
      PROVE  PayoutsCounted(g)'
    <2>1. Locked(g)' => Locked(g)
        BY <1>2 DEF Locked
    <2>2. ~Pays(s, g) /\ paid'[g] = paid[g] /\ died' = died
        BY <1>2 DEF Pays
    <2>. QED  BY <1>0, <1>2, <2>1, <2>2, CountedMove
<1>3. ASSUME NEW w \in Worker, NEW h \in Handshake, NEW k \in Key, OtpRead(w, h, k)
      PROVE  PayoutsCounted(g)'
    <2>1. /\ To(w, Otp("otpKey", h, k)) /\ UNCHANGED <<rows, paid, died>>
          /\ worker[w].stage = "idle" /\ Otp("otpKey", h, k).stage = "otpKey"
        BY <1>3 DEF OtpRead, Idle, Otp
    <2>. QED  BY <1>2, <2>1 DEF Holds
<1>4. ASSUME NEW w \in Worker, NEW h \in Handshake, ProofRead(w, h)
      PROVE  PayoutsCounted(g)'
    <2>1. /\ To(w, At("judge", h)) /\ UNCHANGED <<rows, paid, died>>
          /\ worker[w].stage = "idle" /\ At("judge", h).stage = "judge"
        BY <1>4 DEF ProofRead, Idle, At
    <2>. QED  BY <1>2, <2>1 DEF Holds
<1>5. ASSUME NEW w \in Worker, NEW h \in Handshake, ProcessRead(w, h)
      PROVE  PayoutsCounted(g)'
    <2>. DEFINE s == At("pay", h)
    <2>1. /\ To(w, s) /\ UNCHANGED <<rows, paid, died>>
          /\ worker[w].stage \in {"idle", "process"}
          /\ s.stage = "pay" /\ s.h = h /\ rows[h].status = "LOCKED"
        BY <1>5 DEF ProcessRead, Idle, At
    <2>. HIDE DEF s
    <2>2. ~Holds(worker[w], g) /\ ~Holds(s, g) /\ (Pays(s, g) => Locked(g))
        BY <2>1 DEF Holds, Pays, Locked
    <2>3. (Locked(g)' => Locked(g)) /\ paid'[g] = paid[g] /\ died' = died
        BY <2>1 DEF Locked
    <2>. QED  BY <1>0, <2>1, <2>2, <2>3, CountedMove
<1>6. ASSUME NEW w \in Worker, OtpKey(w)
      PROVE  PayoutsCounted(g)'
    <2>1. /\ UNCHANGED <<rows, paid, died>> /\ worker[w].stage = "otpKey"
          /\ \E s : To(w, s) /\ s.stage \in {"idle", "otpUpdate"}
        <3>1. Idle.stage = "idle" /\ \A h, k : Otp("otpUpdate", h, k).stage = "otpUpdate"
            BY DEF Idle, Otp
        <3>. QED  BY <1>6, <3>1 DEF OtpKey
    <2>. QED  BY <1>2, <2>1 DEF Holds
\* A step after which the row of the request is not LOCKED.
<1>7. ASSUME NEW w \in Worker, To(w, Idle), UNCHANGED <<paid, died>>,
             NEW h \in Handshake, h = worker[w].h,
             \A f \in Handshake : f # h => rows'[f] = rows[f], ~Locked(h)'
      PROVE  PayoutsCounted(g)'
    <2>1. Idle.stage = "idle"
        BY DEF Idle
    <2>2. ~Pays(Idle, g) /\ (Locked(g)' => ~Holds(worker[w], g))
        BY <1>7, <2>1 DEF Pays, Holds
    <2>3. (Locked(g)' => Locked(g)) /\ paid'[g] = paid[g] /\ died' = died
        BY <1>7 DEF Locked
    <2>. QED  BY <1>0, <1>7, <2>2, <2>3, CountedMove
<1>8. \A w \in Worker : worker[w].stage # "idle" =>
        /\ worker[w].h \in Handshake /\ rows[worker[w].h] # NoRow
        /\ rows[worker[w].h] \in Row
    <2>1. \A h \in Handshake : rows[h] \in Row \cup {NoRow}
        BY <1>0 DEF PayoutTypeOK
    <2>. QED  BY <1>0, <2>1, FlightFacts DEF OnRow
<1>9. ASSUME NEW h \in Handshake, NEW r \in Row, rows[h] \in Row, rows' = [rows EXCEPT ![h] = r]
      PROVE  /\ \A f \in Handshake : f # h => rows'[f] = rows[f]
             /\ rows'[h] = r /\ (Locked(h)' => r.status = "LOCKED")
    <2>1. (\A f \in Handshake : f # h => rows'[f] = rows[f]) /\ rows'[h] = r
        BY <1>0, <1>9 DEF PayoutTypeOK
    <2>. QED  BY <2>1, NoRowAssumption DEF Locked
<1>10. ASSUME NEW w \in Worker, OtpUpdate(w)
       PROVE  PayoutsCounted(g)'
    <2>0. PICK h \in Handshake : h = worker[w].h
        BY <1>8, <1>10 DEF OtpUpdate
    <2>. DEFINE k == worker[w].key
                r == [rows[h] EXCEPT !.status = "RELEASED", !.key = k]
    <2>1. /\ h \in Handshake /\ k \in Key /\ rows[h] \in Row /\ worker[w].stage = "otpUpdate"
          /\ UNCHANGED <<paid, died>> /\ To(w, Idle)
        BY <1>0, <1>8, <1>10, <2>0, FlightFacts DEF OtpUpdate
    <2>2. rows' = rows \/ rows' = [rows EXCEPT ![h] = r]
        BY <1>0, <1>10, <2>0, <2>1 DEF OtpUpdate, PayoutTypeOK
    <2>3. r \in Row /\ r.status = "RELEASED"
        BY <2>1 DEF Row
    <2>. HIDE DEF r, k
    <2>4. CASE rows' = rows
        <3>1. Idle.stage = "idle" /\ ~Holds(worker[w], g)
            BY <2>1 DEF Idle, Holds
        <3>. QED  BY <1>2, <2>1, <2>4, <3>1
    <2>5. CASE rows' = [rows EXCEPT ![h] = r]
        <3>1. (\A f \in Handshake : f # h => rows'[f] = rows[f]) /\ ~Locked(h)'
            BY <1>9, <2>1, <2>3, <2>5
        <3>. QED  BY <1>7, <2>0, <2>1, <3>1
    <2>. QED  BY <2>2, <2>4, <2>5
<1>11. ASSUME NEW w \in Worker, Pay(w)
       PROVE  PayoutsCounted(g)'
    <2>. DEFINE h == worker[w].h
                s == At("mark", h)
                t == At("fail", h)
    <2>1. /\ h \in Handshake /\ UNCHANGED <<rows, died>> /\ worker[w].stage = "pay"
          /\ \/ paid' = [paid EXCEPT ![h] = paid[h] + 1] /\ To(w, s)
             \/ paid' = paid /\ To(w, t)
        BY <1>8, <1>11 DEF Pay
    <2>2. s.stage = "mark" /\ s.h = h /\ t.stage = "fail"
        BY DEF At
    <2>. HIDE DEF s, t
    <2>3. CASE paid' = paid /\ To(w, t)
        <3>1. ~Holds(worker[w], g)
            BY <2>1 DEF Holds
        <3>. QED  BY <1>2, <2>1, <2>2, <2>3, <3>1
    <2>4. CASE paid' = [paid EXCEPT ![h] = paid[h] + 1] /\ To(w, s)
        <3>1. paid'[h] = paid[h] + 1 /\ \A f \in Handshake : f # h => paid'[f] = paid[f]
            BY <1>0, <2>1, <2>4 DEF PayoutTypeOK
        <3>2. ~Holds(worker[w], g) /\ ~Pays(s, g) /\ (Locked(g)' => Locked(g)) /\ died' = died
            BY <2>1, <2>2 DEF Holds, Pays, Locked
        <3>3. CASE g = h
            <4>1. Holds(s, g) /\ Pays(worker[w], g)
                BY <2>1, <2>2, <3>3 DEF Holds, Pays
            <4>2. paid'[g] = paid[g] + 1
                BY <3>1, <3>3
            <4>. QED  BY <1>0, <2>4, <3>2, <4>1, <4>2, CountedMove
        <3>4. CASE g # h
            BY <1>0, <2>4, <3>1, <3>2, <3>4, CountedMove
        <3>. QED  BY <3>3, <3>4
    <2>. QED  BY <2>1, <2>3, <2>4
<1>12. ASSUME NEW w \in Worker, ProcessMark(w)
       PROVE  PayoutsCounted(g)'
    <2>0. PICK h \in Handshake : h = worker[w].h
        BY <1>8, <1>12 DEF ProcessMark
    <2>. DEFINE r == [rows[h] EXCEPT !.status = "RELEASED", !.processed = TRUE]
                s == At("failPaid", h)
    <2>1. /\ h \in Handshake /\ rows[h] \in Row /\ worker[w].stage = "mark"
          /\ UNCHANGED <<paid, died>> /\ rows \in [Handshake -> Row \cup {NoRow}]
        BY <1>0, <1>8, <1>12, <2>0 DEF ProcessMark, PayoutTypeOK
    <2>2. \/ rows' = [rows EXCEPT ![h] = r] /\ To(w, Idle)
          \/ rows' = rows /\ To(w, s)
        BY <1>12, <2>0, <2>1 DEF ProcessMark
    <2>3. r \in Row /\ r.status = "RELEASED" /\ s.stage = "failPaid" /\ s.h = h
        BY <2>1 DEF Row, At
    <2>. HIDE DEF r, s
    <2>4. CASE rows' = rows /\ To(w, s)
        <3>1. Holds(worker[w], g) => Holds(s, g)
            BY <2>0, <2>3 DEF Holds
        <3>. QED  BY <1>2, <2>1, <2>3, <2>4, <3>1
    <2>5. CASE rows' = [rows EXCEPT ![h] = r] /\ To(w, Idle)
        <3>1. (\A f \in Handshake : f # h => rows'[f] = rows[f]) /\ ~Locked(h)'
            BY <1>9, <2>1, <2>3, <2>5
        <3>. QED  BY <1>7, <2>0, <2>1, <2>5, <3>1
    <2>. QED  BY <2>2, <2>4, <2>5
<1>13. ASSUME NEW w \in Worker, ProcessFail(w)
       PROVE  PayoutsCounted(g)'
    <2>0. PICK h \in Handshake : h = worker[w].h
        BY <1>8, <1>13 DEF ProcessFail
    <2>. DEFINE r == [rows[h] EXCEPT !.status = "FAILED"]
    <2>1. h \in Handshake /\ rows[h] \in Row /\ UNCHANGED <<paid, died>> /\ To(w, Idle)
        BY <1>8, <1>13, <2>0 DEF ProcessFail
    <2>2. rows' = [rows EXCEPT ![h] = r]
        BY <1>0, <1>13, <2>0, <2>1 DEF ProcessFail, PayoutTypeOK
    <2>3. r \in Row /\ r.status = "FAILED"
        BY <2>1 DEF Row
    <2>. HIDE DEF r
    <2>4. (\A f \in Handshake : f # h => rows'[f] = rows[f]) /\ ~Locked(h)'
        BY <1>9, <2>1, <2>2, <2>3
    <2>. QED  BY <1>7, <2>0, <2>1, <2>4
<1>14. ASSUME NEW w \in Worker, NEW ok \in BOOLEAN, NEW high \in BOOLEAN, ProofJudge(w, ok, high)
       PROVE  PayoutsCounted(g)'
    <2>. DEFINE s == Judged(worker[w].h, ok, high)
    <2>1. /\ UNCHANGED <<rows, paid, died>> /\ To(w, s) /\ s.stage = "store"
          /\ worker[w].stage = "judge"
        BY <1>14 DEF ProofJudge, Judged
    <2>. HIDE DEF s
    <2>. QED  BY <1>2, <2>1 DEF Holds
<1>15. ASSUME NEW w \in Worker, ProofStore(w)
       PROVE  PayoutsCounted(g)'
    <2>0. PICK h \in Handshake : h = worker[w].h
        BY <1>8, <1>15 DEF ProofStore
    <2>. DEFINE r == [rows[h] EXCEPT !.confident = worker[w].high]
    <2>1. /\ h \in Handshake /\ rows[h] \in Row /\ worker[w].stage = "store"
          /\ UNCHANGED <<paid, died>> /\ worker[w].high \in BOOLEAN
        BY <1>0, <1>8, <1>15, <2>0, FlightFacts DEF ProofStore
    <2>2. rows' = [rows EXCEPT ![h] = r]
        BY <1>0, <1>15, <2>0, <2>1 DEF ProofStore, PayoutTypeOK
    <2>3. r \in Row /\ r.status = rows[h].status
        BY <2>1 DEF Row
    <2>. HIDE DEF r
    <2>4. (\A f \in Handshake : f # h => rows'[f] = rows[f]) /\ (Locked(h)' => Locked(h))
        BY <1>9, <2>1, <2>2, <2>3 DEF Locked
    <2>5. PICK s : To(w, s) /\ s.stage \in {"idle", "process"}
        <3>1. Idle.stage = "idle" /\ \A f : At("process", f).stage = "process"
            BY DEF Idle, At
        <3>. QED  BY <1>15, <3>1 DEF ProofStore
    <2>6. ~Holds(worker[w], g) /\ ~Pays(s, g) /\ paid'[g] = paid[g] /\ died' = died
        BY <2>1, <2>5 DEF Holds, Pays
    <2>7. Locked(g)' => Locked(g)
        BY <2>4 DEF Locked
    <2>. QED  BY <1>0, <2>5, <2>6, <2>7, CountedMove
<1>16. ASSUME NEW w \in Worker, Abort(w)
       PROVE  PayoutsCounted(g)'
    <2>1. To(w, Idle) /\ UNCHANGED <<rows, paid>> /\ Idle.stage = "idle"
        BY <1>16 DEF Abort, Idle
    <2>2. CASE worker[w].stage \in {"mark", "failPaid"}
        <3>1. died' = died + 1 /\ paid'[g] = paid[g] /\ ~Pays(Idle, g) /\ (Locked(g)' => Locked(g))
            BY <1>16, <2>1, <2>2 DEF Abort, Pays, Locked
        <3>. QED  BY <1>0, <2>1, <3>1, CountedMove
    <2>3. CASE worker[w].stage \notin {"mark", "failPaid"}
        <3>1. ~Holds(worker[w], g) /\ died' = died
            BY <1>16, <2>3 DEF Holds, Abort
        <3>. QED  BY <1>2, <2>1, <3>1
    <2>. QED  BY <2>2, <2>3
<1>17. CASE UNCHANGED payoutVars
    <2>1. Holding(g)' = Holding(g) /\ Paying(g)' = Paying(g) /\ (Locked(g)' <=> Locked(g))
          /\ paid'[g] = paid[g] /\ died' = died
        BY <1>17 DEF payoutVars, Holding, Paying, Holds, Pays, Locked
    <2>. QED  BY <2>1 DEF PayoutsCounted
<1>. QED  BY <1>1, <1>3, <1>4, <1>5, <1>6, <1>10, <1>11, <1>12, <1>13, <1>14, <1>15, <1>16, <1>17
          DEF PayoutNext, Verify, VerifyRail

\* The rails pay at most once per request that can be in flight and once per
\* request that died between the rail and the database, for any number of
\* requests and handshakes.
THEOREM PayoutsAreBounded == PayoutSpec => []PayoutsBounded
<1>. DEFINE AllCounted == \A g \in Handshake : PayoutsCounted(g)
<1>1. PayoutInit => AllCounted
    <2>. SUFFICES ASSUME PayoutInit, NEW g \in Handshake
                  PROVE  PayoutsCounted(g)
        OBVIOUS
    <2>1. Idle.stage = "idle" /\ paid[g] = 0 /\ died = 0 /\ \A w \in Worker : worker[w] = Idle
        BY DEF PayoutInit, Idle
    <2>2. Holding(g) = {} /\ Paying(g) = {}
        BY <2>1 DEF Holding, Paying, Holds, Pays
    <2>3. Cardinality(Holding(g)) = 0 /\ Cardinality(Paying(g)) = 0 /\ Cardinality(Worker) \in Nat
        BY <2>2, FS_EmptySet, PayoutSets
    <2>. QED  BY <2>1, <2>3 DEF PayoutsCounted
<1>2. AllCounted /\ PayoutInv /\ PayoutInv' /\ [PayoutNext]_payoutVars => AllCounted'
    BY PayoutsCountedStep
<1>3. AllCounted /\ PayoutInv => PayoutsBounded
    <2>. SUFFICES ASSUME AllCounted, PayoutInv, NEW h \in Handshake
                  PROVE  paid[h] <= Cardinality(Worker) + died
        BY DEF PayoutsBounded
    <2>1. paid[h] + Cardinality(Paying(h)) <= Cardinality(Worker) + died
        BY DEF PayoutsCounted
    <2>. QED  BY <2>1, PayoutSets DEF PayoutInv, PayoutTypeOK
<1>. HIDE DEF AllCounted
<1>. QED  BY <1>1, <1>2, <1>3, PayoutAlways, PTL DEF PayoutSpec
=============================================================================
