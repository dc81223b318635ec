----------------------------- MODULE MCPayments -----------------------------
(***************************************************************************)
(* The two ways money moves through the gateway backend beside the escrow  *)
(* documents: payouts of handshakes and payments asked of a buyer.  They   *)
(* have no state in common: each is explored with the other at rest.       *)
(***************************************************************************)
EXTENDS PayoutHandshake, MpesaPayments, TLC

Symmetry ==
    UNION {Permutations(s) : s \in {Handshake, Worker, Key, Payment, Phone}}

MoneyInit == PayoutInit /\ PaymentInit

MoneyNext ==
    \/ PaymentInit /\ PayoutNext /\ UNCHANGED paymentVars
    \/ PayoutInit /\ PaymentNext /\ UNCHANGED payoutVars

MoneySpec == MoneyInit /\ [][MoneyNext]_<<payoutVars, paymentVars>>
=============================================================================
