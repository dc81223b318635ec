---------------------------- MODULE ColdRecovery ----------------------------
(***************************************************************************)
(* EnclaveRecoveryEngine: the master secret is rebuilt after a reboot from *)
(* the shares that the nodes send back, in the order in which they happen  *)
(* to arrive.  The hash over indices and bytes is modelled by its          *)
(* preimage.  The enclave's readiness is EnclaveBoundary's.                *)
(***************************************************************************)
EXTENDS Naturals, Sequences, FiniteSets, Functions

CONSTANTS
    Holder,        \* nodes that hold shares
    ShareIndex,    \* share indices, 0 (never usable) included
    ShareThreshold,\* params.threshold
    MaxArrivals    \* bound: shares that arrive

\* A share whose bytes are missing is not usable either.
Share == [nodeId : Holder, shareIndex : ShareIndex, bytes : BOOLEAN]

ASSUME RecoveryAssumption ==
    ShareIndex \subseteq Nat /\ ShareThreshold \in Nat \ {0} /\ MaxArrivals \in Nat

VARIABLE arrived \* the shares received so far

RecoveryInit == arrived = <<>>

Usable(s) == s.shareIndex > 0 /\ s.bytes

\* Mutant of Distinct: a node's shares are all kept.
DistinctMissing(shares) == {i \in DOMAIN shares : Usable(shares[i])}

\* The places of the shares that the loop puts in the map: the first usable share
\* of every node.
Distinct(shares) ==
    {i \in DOMAIN shares :
        /\ Usable(shares[i])
        /\ \A j \in 1..(i - 1) : Usable(shares[j]) => shares[j].nodeId # shares[i].nodeId}

\* The shares in the map that do not come after share i in a stable sort by index.
UpToShare(shares, i) ==
    {j \in Distinct(shares) :
        \/ shares[j].shareIndex < shares[i].shareIndex
        \/ shares[j].shareIndex = shares[i].shareIndex /\ j <= i}

\* The shares in the map, sorted by share index.
SortedShares(shares) ==
    [k \in 1..Cardinality(Distinct(shares)) |->
        shares[CHOOSE i \in Distinct(shares) : Cardinality(UpToShare(shares, i)) = k]]

NoSecret == <<>>

\* recoverMasterSecretFromShares, inside a ready enclave.
RecoverMasterSecret(shares) ==
    IF Cardinality(Distinct(shares)) < ShareThreshold THEN NoSecret
    ELSE SortedShares(shares)

Arrive(s) ==
    /\ Len(arrived) < MaxArrivals
    /\ arrived' = Append(arrived, s)

RecoveryNext == \E s \in Share : Arrive(s)

RecoverySpec == RecoveryInit /\ [][RecoveryNext]_arrived

-----------------------------------------------------------------------------
(* Properties *)

\* No two usable shares are of one node or have one index.
Apart(shares) ==
    \A i, j \in DOMAIN shares :
        i # j /\ Usable(shares[i]) /\ Usable(shares[j]) =>
            /\ shares[i].nodeId # shares[j].nodeId
            /\ shares[i].shareIndex # shares[j].shareIndex

\* The shares in another order.
Reordered(shares, p) == [i \in 1..Len(shares) |-> shares[p[i]]]

\* The secret is rebuilt as soon as usable shares of a threshold of different
\* nodes are in, never for repeated shares of fewer nodes, and an unusable
\* share of a node does not shut out its usable one; and where no two usable
\* shares are of one node or have one index, it does not depend on the order in
\* which the shares arrive.  (recoverMasterSecretFromShares)
RecoveryDetermined ==
    /\ RecoverMasterSecret(arrived) # NoSecret <=>
        Cardinality({n \in Holder : \E i \in DOMAIN arrived :
                        arrived[i].nodeId = n /\ Usable(arrived[i])}) >= ShareThreshold
    /\ Apart(arrived) =>
        \A p \in Bijection(1..Len(arrived), 1..Len(arrived)) :
            RecoverMasterSecret(Reordered(arrived, p)) = RecoverMasterSecret(arrived)
=============================================================================
