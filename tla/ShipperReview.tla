---------------------------- MODULE ShipperReview ----------------------------
(***************************************************************************)
(* The shipper's review page (src/pages/Track.jsx) beside the contracts.    *)
(* The page shows the shipment as it was when it was last loaded and passes *)
(* the submission number it loaded with an approval or a rejection.  The    *)
(* carrier may withdraw a proof and submit another one at any time between  *)
(* the load and the transaction.                                            *)
(***************************************************************************)
EXTENDS DeliveryEscrow

VARIABLE
  shown                    \* per request and milestone, what the page shows

reviewVars == <<vars, shown>>

NothingShown == [status |-> "Proposed", proofUri |-> NoProof, proofSubmissionNumber |-> 0]

ReviewInit ==
  /\ Init
  /\ shown = [r \in RequestIds |-> [m \in MilestoneIds |-> NothingShown]]

(* loadShipment reads all milestones of the request in one call.            *)
LoadShipment(r) ==
  /\ RequestExists(r)
  /\ shown' = [shown EXCEPT ![r] = [m \in MilestoneIds |->
       [status |-> milestones[r][m].status, proofUri |-> milestones[r][m].proofUri,
        proofSubmissionNumber |-> milestones[r][m].proofSubmissionNumber]]]
  /\ UNCHANGED vars

(* The buttons are there for a milestone shown as submitted; the number sent *)
(* is the one shown, and the page is not loaded again before it is sent.    *)
VerifyMilestone(r, m) ==
  LET number == shown[r][m].proofSubmissionNumber
  IN  /\ shown[r][m].status = "Submitted"
      /\ ApproveMilestone(r, m, number) \/ RejectMilestone(r, m, number)
      /\ UNCHANGED shown

OthersStep ==
  \/ Tick
  \/ \E u \in Users, deadline \in Deadlines, amount \in Amounts : CreateRequest(u, deadline, amount)
  \/ \E r \in RequestIds : MarketStep(r) \/ CarrierStep(r) \/ SettlementStep(r) \/ ManagerStep(r)

ReviewNext ==
  \/ OthersStep /\ UNCHANGED shown
  \/ \E r \in RequestIds : LoadShipment(r) \/ \E m \in MilestoneIds : VerifyMilestone(r, m)

ReviewSpec == ReviewInit /\ [][ReviewNext]_reviewVars

-----------------------------------------------------------------------------
(* Properties.                                                              *)

(* The number identifies the proof: as long as a submitted milestone has    *)
(* the number that was shown, it has the proof that was shown.              *)
NumberIdentifiesProof ==
  \A r \in RequestIds, m \in MilestoneIds :
    (/\ milestones[r][m].status = "Submitted"
     /\ shown[r][m].status = "Submitted"
     /\ shown[r][m].proofSubmissionNumber = milestones[r][m].proofSubmissionNumber)
       => shown[r][m].proofUri = milestones[r][m].proofUri

(* expectedSubmissionNumber: a shipper never pays for a proof other than    *)
(* the one on the page, however often the carrier replaced it meanwhile.    *)
OnlyShownProofsArePaid ==
  [][\A r \in RequestIds, m \in MilestoneIds :
       (milestones[r][m].status # "Paid" /\ milestones'[r][m].status = "Paid")
         => shown[r][m].proofUri = milestones'[r][m].proofUri]_reviewVars

=============================================================================
