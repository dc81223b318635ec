--------------------------- MODULE WebhookDelivery ---------------------------
(***************************************************************************)
(* WebhookService.sendWebhookEvent: an event is posted to the endpoint of  *)
(* a partner, retried with growing pauses, and written to the dead-letter  *)
(* table when every attempt failed.  The request or its answer may be lost *)
(* (the axios timeout), so what the partner received and what the sender   *)
(* knows come apart.  Pauses and timeouts are steps that come in time.     *)
(***************************************************************************)
EXTENDS Naturals, Sequences, FiniteSets

CONSTANTS
    Event,       \* events being sent
    MaxAttempts  \* maxAttempts

ASSUME DeliveryAssumption == MaxAttempts \in Nat \ {0}

\* What an attempt comes to: 2xx or 3xx, 429 or 5xx, another status, no answer.
Answer == {"success", "retry", "refusal", "network"}
Final == {"delivered", "refused", "failed"}

VARIABLES
    phase,      \* where the call for each event is
    answers,    \* what the attempts so far came to; their number is attempt
    deadLetters,\* rows of the dead-letter table for each event
    received    \* the partner: how often it received each event

deliveryVars == <<phase, answers, deadLetters, received>>

DeliveryInit ==
    /\ phase = [e \in Event |-> "idle"]
    /\ answers = [e \in Event |-> <<>>]
    /\ deadLetters = [e \in Event |-> 0]
    /\ received = [e \in Event |-> 0]

SendWebhookEvent(e) ==
    /\ phase[e] = "idle"
    /\ phase' = [phase EXCEPT ![e] = "posting"]
    /\ UNCHANGED <<answers, deadLetters, received>>

\* Mutant of Retryable: a refusal is retried.
RetryableAll(answer) == answer # "success"

Retryable(answer) == answer \in {"retry", "network"}

AfterAttempt(answer, attempt) ==
    IF answer = "success" THEN "delivered"
    ELSE IF ~Retryable(answer) THEN "refused"
    ELSE IF attempt < MaxAttempts THEN "pausing" ELSE "deadLetter"

\* One turn of the loop: the post and what is done about its answer.
Attempt(e, answer) ==
    /\ phase[e] = "posting"
    /\ answers' = [answers EXCEPT ![e] = Append(@, answer)]
    /\ phase' = [phase EXCEPT ![e] = AfterAttempt(answer, Len(answers'[e]))]
    /\ \/ received' = [received EXCEPT ![e] = @ + 1]
       \/ answer = "network" /\ UNCHANGED received
    /\ UNCHANGED deadLetters

\* The pause of getExponentialBackoffDelayMs is over.
Resume(e) ==
    /\ phase[e] = "pausing"
    /\ phase' = [phase EXCEPT ![e] = "posting"]
    /\ UNCHANGED <<answers, deadLetters, received>>

\* Mutant of WriteDeadLetter: an error of the database reaches the caller.
WriteDeadLetterThrows(e) ==
    /\ phase[e] = "deadLetter"
    /\ \/ /\ deadLetters' = [deadLetters EXCEPT ![e] = @ + 1]
          /\ phase' = [phase EXCEPT ![e] = "failed"]
       \/ /\ phase' = [phase EXCEPT ![e] = "thrown"]
          /\ UNCHANGED deadLetters
    /\ UNCHANGED <<answers, received>>

\* writeDeadLetterQueueFailure: an error of the database is swallowed.
WriteDeadLetter(e) ==
    /\ phase[e] = "deadLetter"
    /\ deadLetters' \in {deadLetters, [deadLetters EXCEPT ![e] = @ + 1]}
    /\ phase' = [phase EXCEPT ![e] = "failed"]
    /\ UNCHANGED <<answers, received>>

DeliveryStep(e) ==
    \/ \E answer \in Answer : Attempt(e, answer)
    \/ Resume(e) \/ WriteDeadLetter(e)

DeliveryNext == \E e \in Event : SendWebhookEvent(e) \/ DeliveryStep(e)

\* The event loop goes on with every call: the post ends by its timeout.
DeliveryFairness == \A e \in Event : WF_deliveryVars(DeliveryStep(e))

DeliverySpec == DeliveryInit /\ [][DeliveryNext]_deliveryVars /\ DeliveryFairness

-----------------------------------------------------------------------------
(* Properties *)

\* The result told to the caller is borne out: an event reported delivered has
\* reached the partner, and a dead letter is written once at most, only for an
\* event all of whose MaxAttempts attempts failed in a way that is retried; one
\* that a partner refused or took never becomes a dead letter.
ResultsBorneOut ==
    \A e \in Event :
        /\ phase[e] = "delivered" => received[e] > 0
        /\ received[e] <= Len(answers[e]) /\ Len(answers[e]) <= MaxAttempts
        /\ deadLetters[e] > 0 =>
            /\ phase[e] = "failed" /\ deadLetters[e] = 1
            /\ Len(answers[e]) = MaxAttempts
            /\ \A k \in DOMAIN answers[e] : answers[e][k] \notin {"success", "refusal"}

\* Every call that was started ends with a result, whatever the partner, the
\* network and the database do.  (sendWebhookEvent, writeDeadLetterQueueFailure)
DeliveryEnds == \A e \in Event : phase[e] = "posting" ~> phase[e] \in Final
=============================================================================
