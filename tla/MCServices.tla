----------------------------- MODULE MCServices -----------------------------
(***************************************************************************)
(* The services around the ledger that keep state of their own: membership,*)
(* catch-up, time anchor, enclave readiness and key epochs, sealed state,  *)
(* cold recovery, the enclave's connections and outgoing webhooks.  No two *)
(* change the same state (sealing and recovery only read the readiness),   *)
(* so instead of every combination of their states the run explores each   *)
(* of them with the others at rest.                                        *)
(***************************************************************************)
EXTENDS ClusterMembership, CatchUp, TimeAnchor, EnclaveBoundary, SealedState,
        ColdRecovery, VsockBridge, WebhookDelivery

servicesVars ==
    <<membershipVars, catchUpVars, anchorVars, boundaryVars, sealedVars, arrived,
      vsockVars, deliveryVars>>

ClusterInit == MembershipInit /\ CatchUpInit /\ TimeAnchorInit
EnclaveInit == BoundaryInit /\ SealedInit /\ RecoveryInit
LinksInit == VsockInit /\ DeliveryInit

clusterVars == <<membershipVars, catchUpVars, anchorVars>>
enclaveVars == <<boundaryVars, sealedVars, arrived>>
linksVars == <<vsockVars, deliveryVars>>

ClusterNext ==
    \/ /\ CatchUpInit /\ TimeAnchorInit
       /\ MembershipNext /\ UNCHANGED <<catchUpVars, anchorVars>>
    \/ /\ MembershipInit /\ TimeAnchorInit
       /\ CatchUpNext /\ UNCHANGED <<membershipVars, anchorVars>>
    \/ /\ MembershipInit /\ CatchUpInit
       /\ TimeAnchorNext /\ UNCHANGED <<membershipVars, catchUpVars>>

EnclaveNext ==
    \/ /\ SealedInit /\ RecoveryInit
       /\ BoundaryNext /\ UNCHANGED <<sealedVars, arrived>>
    \/ /\ BoundaryInit /\ RecoveryInit
       /\ SealedNext /\ UNCHANGED <<boundaryVars, arrived>>
    \/ /\ BoundaryInit /\ SealedInit
       /\ RecoveryNext /\ UNCHANGED <<boundaryVars, sealedVars>>

LinksNext ==
    \/ DeliveryInit /\ VsockNext /\ UNCHANGED deliveryVars
    \/ VsockInit /\ DeliveryNext /\ UNCHANGED vsockVars

ServicesNext ==
    \/ EnclaveInit /\ LinksInit /\ ClusterNext /\ UNCHANGED <<enclaveVars, linksVars>>
    \/ ClusterInit /\ LinksInit /\ EnclaveNext /\ UNCHANGED <<clusterVars, linksVars>>
    \/ ClusterInit /\ EnclaveInit /\ LinksNext /\ UNCHANGED <<clusterVars, enclaveVars>>

\* Platform ids are interchangeable, so any first platform stands for all.
ServicesInit ==
    /\ ClusterInit
    /\ EnclaveInit
    /\ LinksInit
    /\ context = CHOOSE platform \in Platform : TRUE

ServicesSpec ==
    /\ ServicesInit
    /\ [][ServicesNext]_servicesVars
    /\ VsockFairness
    /\ DeliveryFairness
=============================================================================
