----------------------------- MODULE ServerGates -----------------------------
(***************************************************************************)
(* What the server lets a wallet do, decided afresh from the escrow at each *)
(* call (server/services/chainReader.js, conversationService.js and         *)
(* writabilityService.js): upload a proof, open a conversation, write in    *)
(* it.  The reads of one call see one block, and the server's clock shows   *)
(* the time of the chain.                                                   *)
(***************************************************************************)
EXTENDS DeliveryEscrow

OwnProposals(u, r) == {p \in DOMAIN proposals[r] : proposals[r][p].carrier = u}

-----------------------------------------------------------------------------
(* Proofs.                                                                  *)

(* Slip: the milestone before is looked up by number, not by the order.     *)
PreviousByNumberPaid(r, m) == m > 0 => milestones[r][m - 1].status = "Paid"

PreviousReadAsPaid(r, m) ==
  LET index == ExecutionIndex(r, m)
  IN  index > 1 => milestones[r][executionOrder[r][index - 1]].status = "Paid"

UploadAuthorized(u, r, m) ==
  /\ RequestExists(r) /\ MilestoneExists(r, m)
  /\ requests[r].carrier = u
  /\ requests[r].status \in {"Funded", "InProgress"}
  /\ now <= requests[r].deadline
  /\ milestones[r][m].status \in {"PendingProof", "Rejected"}
  /\ PreviousReadAsPaid(r, m)

-----------------------------------------------------------------------------
(* Conversations: one for each request and carrier with a proposal for it,  *)
(* whatever became of the proposal.                                         *)

(* The shipper names the carrier; anybody else speaks as the carrier.       *)
ConversationCarrier(u, r, named) == IF u = requests[r].shipper THEN named ELSE u

ConversationGiven(u, r, named) ==
  RequestExists(r) /\ OwnProposals(ConversationCarrier(u, r, named), r) # {}

(* Once there is a carrier, only that carrier's conversation goes on.       *)
Writable(u, r, carrier) ==
  /\ u \in {requests[r].shipper, carrier}
  /\ OwnProposals(carrier, r) # {}
  /\ requests[r].status \notin {"Completed", "Cancelled", "Refunded"}
  /\ requests[r].carrier \in {NoUser, carrier}

-----------------------------------------------------------------------------
(* Properties.                                                              *)

(* The server takes a photo from exactly the wallet, and at exactly the     *)
(* moment, whose proof the escrow would take (within the model's bound on   *)
(* versions): the two decide by code of their own, the server over the      *)
(* order of execution it reads piece by piece.  Too strict, and a carrier   *)
(* cannot deliver; too lax, and photos are kept that are never recorded.    *)
UploadsMatchEscrow ==
  \A u \in Users, r \in RequestIds, m \in MilestoneIds :
    milestoneStateVersion[r] < MaxVersion =>
      (UploadAuthorized(u, r, m) <=>
         /\ requests[r].carrier = u
         /\ \E uri \in ProofUris : ENABLED SubmitProof(r, m, uri, 0, 0))

=============================================================================
