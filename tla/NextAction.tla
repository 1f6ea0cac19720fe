------------------------------ MODULE NextAction ------------------------------
(***************************************************************************)
(* What a wallet is told to do next (src/utils/shipmentPresentation.js): in *)
(* the list of its shipments (shipmentAttention, fed by loadWalletShipments *)
(* of src/pages/MyShipments.jsx) and on the page of one of them             *)
(* (shipmentPresentation).  Both are functions of what the escrow returns.  *)
(***************************************************************************)
EXTENDS ServerGates

(* getProposals shows what is left active after an acceptance as rejected.  *)
ProposalsShown(r, status) == {p \in DOMAIN proposals[r] : ShownProposalStatus(r, p) = status}
HasOwnActiveProposal(u, r) == OwnProposals(u, r) \cap ProposalsShown(r, "Active") # {}

HasCheckpoint(r, status) == \E m \in MilestonesOf(r) : milestones[r][m].status = status

-----------------------------------------------------------------------------
(* The list.  A shipment is listed for its shipper, its carrier and whoever *)
(* made a proposal for it.                                                  *)

ListRelationship(u, r) ==
  CASE u = requests[r].shipper    -> "shipper"
    [] u = requests[r].carrier    -> "carrier"
    [] OwnProposals(u, r) # {} /\ u \notin {requests[r].shipper, requests[r].carrier}
                                  -> "carrier proposal"
    [] OTHER                      -> "not listed"

ShipperAttention(r) ==
  CASE HasCheckpoint(r, "Submitted")                              -> "review-proof"
    [] requests[r].status = "Open" /\ ProposalsShown(r, "Active") # {}
                                                                  -> "review-proposals"
    [] requests[r].status = "Open" /\ ProposalsShown(r, "Active") = {}
                                                                  -> "awaiting-proposal"
    [] Active(r) /\ HasCheckpoint(r, "PendingProof") /\ ~HasCheckpoint(r, "Submitted")
                                                                  -> "awaiting-proof"
    [] OTHER                                                      -> "none"

(* Slip: a rejected proof is not looked for.                                *)
CarrierAttentionMissingRejections(u, r) ==
  IF HasCheckpoint(r, "PendingProof") THEN "submit-proof" ELSE "none"

(* The first that applies.                                                  *)
CarrierAttention(u, r) ==
  IF HasCheckpoint(r, "Rejected") THEN "resubmit-proof"
  ELSE IF HasCheckpoint(r, "PendingProof") THEN "submit-proof"
  ELSE IF requests[r].status # "Open" THEN "none"
  ELSE IF HasOwnActiveProposal(u, r) THEN "awaiting-approval"
  ELSE IF OwnProposals(u, r) \cap ProposalsShown(r, "Rejected") # {} THEN "resubmit-proposal"
  ELSE "submit-proposal"

ShipmentAttention(u, r) ==
  CASE ListRelationship(u, r) = "shipper"                          -> ShipperAttention(r)
    [] ListRelationship(u, r) \in {"carrier", "carrier proposal"} -> CarrierAttention(u, r)
    [] OTHER                                                       -> "none"

(* Where the button of a row leads: to the editor, opened for the active    *)
(* proposal, for a copy of the last rejected one, or empty; or to the page. *)
AttentionRoute(u, r) ==
  CASE ShipmentAttention(u, r) = "awaiting-approval" -> "edit=active"
    [] ShipmentAttention(u, r) = "resubmit-proposal" -> "resubmit"
    [] ShipmentAttention(u, r) = "submit-proposal"   -> "propose"
    [] OTHER                                         -> "track"

-----------------------------------------------------------------------------
(* The page of a shipment.                                                  *)

(* On an open request every other wallet is a carrier.                      *)
DetailRelationship(u, r) ==
  CASE u = requests[r].shipper -> "shipper"
    [] u # requests[r].shipper /\ (\/ u = requests[r].carrier
                                   \/ OwnProposals(u, r) # {}
                                   \/ requests[r].status = "Open") -> "carrier"
    [] OTHER -> "other"

(* Slip: only a checkpoint that never had a proof needs one.                *)
NeedsProofFirstTime(r) == HasCheckpoint(r, "PendingProof")

NeedsProof(r) == HasCheckpoint(r, "PendingProof") \/ HasCheckpoint(r, "Rejected")

CurrentStage(r) ==
  CASE requests[r].status \in {"Cancelled", "Refunded"} -> "cancelled"
    [] requests[r].status = "Completed"                 -> "completed"
    [] requests[r].status = "Open"                      ->
         IF ProposalsShown(r, "Active") # {} THEN "proposal" ELSE "created"
    [] Active(r) -> IF HasCheckpoint(r, "Submitted") THEN "payment" ELSE "delivery"

ShipperRequiredAction(r) ==
  CASE CurrentStage(r) = "proposal"  -> "review a proposal"
    [] HasCheckpoint(r, "Submitted") -> "review proof"
    [] OTHER                         -> "none"

CarrierRequiredAction(u, r) ==
  CASE requests[r].status = "Open" /\ HasOwnActiveProposal(u, r) -> "await the shipper"
    [] requests[r].status = "Open" /\ ~HasOwnActiveProposal(u, r) -> "propose"
    [] requests[r].status # "Open" /\ NeedsProof(r) -> "submit proof"
    [] OTHER -> "none"

RequiredAction(u, r) ==
  CASE DetailRelationship(u, r) = "shipper" -> ShipperRequiredAction(r)
    [] DetailRelationship(u, r) = "carrier" -> CarrierRequiredAction(u, r)
    [] OTHER                                -> "none"

(* The card with the proposals of an open request, and its button.          *)
ProposalButton(u, r) ==
  CASE requests[r].status = "Open" /\ u # requests[r].shipper ->
         IF HasOwnActiveProposal(u, r) THEN "edit=active" ELSE "propose"
    [] OTHER -> "none"

-----------------------------------------------------------------------------
(* Properties.                                                              *)

Obligation ==
  [a \in {"review-proof", "review-proposals", "submit-proof", "resubmit-proof",
          "awaiting-approval", "resubmit-proposal", "submit-proposal"} |->
     CASE a = "review-proof"                           -> "review proof"
       [] a = "review-proposals"                       -> "review a proposal"
       [] a \in {"submit-proof", "resubmit-proof"}     -> "submit proof"
       [] a = "awaiting-approval"                      -> "await the shipper"
       [] a \in {"resubmit-proposal", "submit-proposal"} -> "propose"]

(* "makes the list and detail views describe the same obligation": two      *)
(* functions with branches of their own, fed by different reads, in every   *)
(* state of a shipment.                                                     *)
ListAndDetailAgree ==
  \A u \in Users, r \in RequestIds :
    (RequestExists(r) /\ ListRelationship(u, r) # "not listed") =>
      LET asked == ShipmentAttention(u, r)
      IN  /\ RequiredAction(u, r) = IF asked \in DOMAIN Obligation THEN Obligation[asked] ELSE "none"
          /\ AttentionRoute(u, r) = "edit=active" <=> ProposalButton(u, r) = "edit=active"
          /\ AttentionRoute(u, r) \in {"resubmit", "propose"} <=> ProposalButton(u, r) = "propose"

(* Whoever holds up a delivery is told so: the carrier who can submit a     *)
(* proof, the shipper with a proof or a proposal to look at.                *)
WhoeverMustActIsTold ==
  \A r \in RequestIds : RequestExists(r) =>
    /\ (/\ Active(r) /\ now <= requests[r].deadline
        /\ \E m \in MilestonesOf(r) : /\ PreviousMilestonePaid(r, m)
                                      /\ milestones[r][m].status \in {"PendingProof", "Rejected"})
         => ShipmentAttention(requests[r].carrier, r) \in {"submit-proof", "resubmit-proof"}
    /\ (Active(r) /\ HasPendingMilestoneProof(r))
         => ShipmentAttention(requests[r].shipper, r) = "review-proof"
    /\ (requests[r].status = "Open" /\ \E p \in DOMAIN proposals[r] : proposals[r][p].status = "Active")
         => ShipmentAttention(requests[r].shipper, r) = "review-proposals"

=============================================================================
