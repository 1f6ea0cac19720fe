----------------------------- MODULE ShipmentPage -----------------------------
(***************************************************************************)
(* The shipment detail page (src/pages/Track.jsx) over the two contracts:   *)
(* what a page that has just loaded shipment r offers wallet u, and which   *)
(* clicks get past the handlers' own checks to the wallet.  The page keeps  *)
(* nothing the chain does not hold, so it is a set of operators over the    *)
(* chain's state; clock is the browser's clock, which need not be the       *)
(* chain's.  Profiles are registered and no other transaction is under way. *)
(***************************************************************************)
EXTENDS LifecycleManager, SequencesExt

WalletIsShipper(u, r) == u = requests[r].shipper
WalletIsCarrier(u, r) == u = requests[r].carrier

DeadlinePassed(r, clock) == clock > requests[r].deadline

-----------------------------------------------------------------------------
(* The proposals of an open request: the shipper sees all, a carrier its own. *)

VisibleOpenProposals(u, r) ==
  {p \in DOMAIN proposals[r] : WalletIsShipper(u, r) \/ proposals[r][p].carrier = u}

ProposalCards(u, r) ==
  {p \in VisibleOpenProposals(u, r) :
     requests[r].status = "Open" /\ ShownProposalStatus(r, p) = "Active"}

(* The card's dialog offers to reject it, or to accept and fund it.         *)
ProposalAnswersOffered(u, r, p) == WalletIsShipper(u, r) /\ p \in ProposalCards(u, r)

CanProposeAsCarrier(u, r) == requests[r].status = "Open" /\ ~WalletIsShipper(u, r)

(* With a plan of one's own under review the editor opens on that one, to   *)
(* revoke or to replace it.                                                 *)
HasOwnActiveProposal(u, r) ==
  \E p \in DOMAIN proposals[r] : proposals[r][p].carrier = u /\ ShownProposalStatus(r, p) = "Active"

OpenProposal(u, r) == IF HasOwnActiveProposal(u, r) THEN "edit" ELSE "propose"

-----------------------------------------------------------------------------
(* The workspace: events are one per milestone, in execution order, behind  *)
(* the one for the published request.                                       *)

TimelineStatus(status) ==
  CASE status = "Submitted"    -> "pending"
    [] status = "Rejected"     -> "rejected"
    [] status = "Paid"         -> "paid"
    [] status = "PendingProof" -> "locked"

TimelineEvents(r) ==
  <<[status |-> "verified", milestone |-> -1]>>
    \o [i \in DOMAIN executionOrder[r] |->
          [status    |-> TimelineStatus(milestones[r][executionOrder[r][i]].status),
           milestone |-> executionOrder[r][i]]]

(* The event a load selects: the first one somebody has to act on.          *)
SelectedEvent(r) ==
  LET events == TimelineEvents(r)
      index  == SelectInSeq(events, LAMBDA e : e.status \in {"pending", "locked", "rejected"})
  IN  IF index = 0 THEN events[1] ELSE events[index]

ProofSubmissionOpen(u, r) == WalletIsCarrier(u, r) /\ requests[r].status \in {"Funded", "InProgress"}

ProofBoxOffered(u, r, event) ==
  ProofSubmissionOpen(u, r) /\ event.milestone # -1 /\ event.status \in {"locked", "rejected"}

ReviewOffered(u, r, event) == WalletIsShipper(u, r) /\ event.status = "pending"

WithdrawOffered(u, r, event) ==
  /\ ProofSubmissionOpen(u, r) /\ event.status = "pending"
  /\ milestones[r][event.milestone].proofWithdrawalsThisRound < MaxProofWithdrawalsPerRound

-----------------------------------------------------------------------------
(* Recovery and tips: the buttons, and the handlers that read the request   *)
(* again before they send.                                                  *)

CanCancelRequest(u, r) == WalletIsShipper(u, r) /\ requests[r].status \in {"Open", "PendingApproval"}

CanTipCarrier(u, r) ==
  WalletIsShipper(u, r) /\ requests[r].status = "Completed" /\ tipAmounts[r] = 0

CanClaimRefund(u, r, clock) ==
  /\ WalletIsShipper(u, r)
  /\ EscrowBalance(r) > 0
  /\ \/ requests[r].status \in {"Cancelled", "Expired"}
     \/ requests[r].status \in {"Funded", "InProgress"} /\ DeadlinePassed(r, clock)

CancelRequestSends(u, r) ==
  WalletIsShipper(u, r) /\ requests[r].status \in {"Open", "PendingApproval"}

SendCarrierTipSends(u, r, amount) ==
  /\ amount > 0
  /\ WalletIsShipper(u, r)
  /\ requests[r].status = "Completed"
  /\ tipAmounts[r] = 0

(* hasChainDeadlinePassed: the later of the two clocks decides.             *)
ClaimRefundSends(u, r, clock) ==
  LET passed == DeadlinePassed(r, clock) \/ DeadlinePassed(r, now)
  IN  /\ WalletIsShipper(u, r)
      /\ \/ requests[r].status \in {"Cancelled", "Expired"}
         \/ requests[r].status \in {"Funded", "InProgress"} /\ passed
      /\ EscrowBalance(r) > 0

-----------------------------------------------------------------------------
(* The agreement panels: the first pending record and its buttons.          *)

PendingOf(records) == SelectInSeq(records, LAMBDA record : record.status = "Pending")

ResponseExpired(record, clock) == clock > record.responseDeadline

AnswersOf(u, record) ==
  (IF u = record.requester THEN {"Withdraw"} ELSE {})
    \cup (IF u = record.responder THEN {"Accept", "Reject"} ELSE {})

AmendmentButtons(u, r, clock) ==
  LET a == PendingOf(amendmentRequests[r])
  IN  IF a = 0 THEN {}
      ELSE IF ResponseExpired(amendmentRequests[r][a], clock) THEN {"Expire"}
      ELSE AnswersOf(u, amendmentRequests[r][a])

(* Slip: the request stays answerable after its deadline.                   *)
CancellationButtonsWithoutExpiry(u, r, clock) ==
  LET c == PendingOf(cancellationRequests[r])
  IN  IF c = 0 \/ u \notin Participants(r) THEN {} ELSE AnswersOf(u, cancellationRequests[r][c])

CancellationButtons(u, r, clock) ==
  LET c == PendingOf(cancellationRequests[r])
  IN  IF c = 0 \/ u \notin Participants(r) THEN {}
      ELSE IF ResponseExpired(cancellationRequests[r][c], clock) THEN {"Expire"}
      ELSE AnswersOf(u, cancellationRequests[r][c])
             \ (IF HasPendingMilestoneProof(r) THEN {"Accept"} ELSE {})

(* Every method but the expiry is for the participants.                     *)
AmendmentAnswerSends(u, r, button)    == button = "Expire" \/ u \in Participants(r)
CancellationAnswerSends(u, r, button) == button = "Expire" \/ u \in Participants(r)

Distance(a, b) == IF a > b THEN a - b ELSE b - a

(* The change form is there while no amendment is pending; a cancellation   *)
(* that holds the negotiation slot is not looked at.                        *)
ChangeFormOffered(u, r, clock) ==
  /\ requests[r].status \in {"Funded", "InProgress"}
  /\ clock < requests[r].deadline
  /\ u \in Participants(r)
  /\ PendingOf(amendmentRequests[r]) = 0

(* What a shipper who only adds time submits goes through without a vote.   *)
DirectExtensionChosen(u, r, deadline, funding) ==
  WalletIsShipper(u, r) /\ deadline > requests[r].deadline /\ funding = 0

ChangeFormAccepts(u, r, clock, deadline, answerBy, funding) ==
  LET current == requests[r].deadline
  IN  /\ deadline > clock
      /\ deadline # current => Distance(deadline, current) >= MinDeadlineChange
      /\ WalletIsShipper(u, r) \/ deadline >= current
      /\ funding > 0 \/ deadline < current => funding >= MinAdditionalFunding
      /\ deadline # current \/ funding > 0
      /\ ~DirectExtensionChosen(u, r, deadline, funding) =>
           /\ answerBy > clock /\ answerBy <= current
           /\ deadline < current => answerBy <= deadline
           /\ current - clock > MinLeadTime

CancellationFormOffered(u, r, clock) ==
  /\ requests[r].status \in {"Funded", "InProgress"}
  /\ clock <= requests[r].deadline
  /\ requests[r].deadline - clock > MinLeadTime
  /\ u \in Participants(r)
  /\ PendingOf(cancellationRequests[r]) = 0

CancellationFormAccepts(r, clock, answerBy) ==
  /\ requests[r].deadline - clock > MinLeadTime
  /\ clock < answerBy /\ answerBy <= requests[r].deadline

-----------------------------------------------------------------------------
(* Properties.  The browser's clock is taken to be right, or behind.        *)

(* canClaimRefund names statuses (Cancelled, Expired) and a balance that    *)
(* the contract does not ask about.                                         *)
RefundOfferedIffDue ==
  \A r \in RequestIds, u \in Users :
    RequestExists(r) =>
      (CanClaimRefund(u, r, now) <=> (u = requests[r].shipper /\ ENABLED RefundRemaining(r)))

RereadSendsAreAccepted ==
  \A r \in RequestIds, u \in Users :
    RequestExists(r) =>
      /\ CancelRequestSends(u, r) => ENABLED CancelRequest(r)
      /\ \A clock \in 0 .. now : ClaimRefundSends(u, r, clock) => ENABLED RefundRemaining(r)
      /\ \A amount \in 0 .. cargo[u] :
           SendCarrierTipSends(u, r, amount) => ENABLED TipCarrier(r, amount)

SelectedCheckpointIsNext ==
  \A r \in RequestIds :
    (RequestExists(r) /\ Active(r) /\ now <= requests[r].deadline /\ milestoneStateVersion[r] < MaxVersion) =>
      LET event   == SelectedEvent(r)
          carrier == requests[r].carrier
          shipper == requests[r].shipper
      IN  \/ /\ ProofBoxOffered(carrier, r, event)
             /\ ENABLED SubmitProof(r, event.milestone, CHOOSE uri \in ProofUris : TRUE, 0, 0)
          \/ /\ ReviewOffered(shipper, r, event)
             /\ ENABLED ApproveMilestone(r, event.milestone,
                                         milestones[r][event.milestone].proofSubmissionNumber)
             /\ WithdrawOffered(carrier, r, event) <=> ENABLED WithdrawProof(r, event.milestone)

(* Within the bound on the number of proposals.                             *)
OpenProposalsAreAnswerable ==
  \A r \in RequestIds, u \in Users :
    RequestExists(r) =>
      /\ \A p \in DOMAIN proposals[r] :
           /\ ProposalAnswersOffered(u, r, p)
                <=> u = requests[r].shipper /\ ENABLED RejectMilestoneProposal(r, p)
           /\ \A price \in ReferenceGasPrices :
                LET reserve == MinimumOperationalAllowance(r, p, price)
                IN  (/\ ProposalAnswersOffered(u, r, p) /\ now <= requests[r].deadline
                     /\ requests[r].proposedAmount + reserve <= cargo[u])
                      => ENABLED ApproveAndFund(r, p, price, reserve)
      /\ CanProposeAsCarrier(u, r) /\ OpenProposal(u, r) = "edit"
           <=> ENABLED RevokeMilestoneProposal(u, r)
      /\ Len(proposals[r]) < MaxProposals =>
           (CanProposeAsCarrier(u, r) /\ OpenProposal(u, r) = "propose"
              <=> \E plan \in Plans : ENABLED ProposeMilestones(u, r, plan))

AmendmentAnswerTaken(r, a, button) ==
  CASE button = "Expire"   -> ENABLED ExpireAmendment(r, a)
    [] button = "Withdraw" -> ENABLED WithdrawAmendment(r, a)
    [] button = "Reject"   -> ENABLED RejectAmendment(r, a, 0, 0)
    [] button = "Accept"   -> ENABLED AcceptAmendment(r, a, 0, 0)

CancellationAnswerTaken(r, c, button) ==
  CASE button = "Expire"   -> ENABLED ExpireCancellation(r, c)
    [] button = "Withdraw" -> ENABLED WithdrawCancellation(r, c)
    [] button = "Reject"   -> ENABLED RejectCancellation(r, c)
    [] button = "Accept"   -> ENABLED AcceptCancellation(r, c)

OfferedAnswersAreTaken ==
  \A r \in RequestIds :
    LET a == PendingOf(amendmentRequests[r])
        c == PendingOf(cancellationRequests[r])
        current == /\ NegotiableShipment(r) /\ CurrentMilestoneState(r, "Amendment", a)
                   /\ amendmentRequests[r][a].proposedDeadline > now
    IN  /\ \A u \in Users : \A button \in AmendmentButtons(u, r, now) :
             (AmendmentAnswerSends(u, r, button)
                /\ (button = "Accept" => current /\ cargo[u] >= FundingOnAcceptance(r, amendmentRequests[r][a])))
               => AmendmentAnswerTaken(r, a, button)
        /\ \A u \in Users : \A button \in CancellationButtons(u, r, now) :
             (CancellationAnswerSends(u, r, button) /\ (button = "Accept" => NegotiableShipment(r)))
               => CancellationAnswerTaken(r, c, button)
        /\ activeNegotiation[r].kind # "None" =>
             \E u \in Participants(r) :
               (AmendmentButtons(u, r, now) \cup CancellationButtons(u, r, now)) \ {"Accept"} # {}

(* What is due is offered.  Whoever is owed what is left of an escrow is    *)
(* offered it, nobody else is, and never when the contract would refuse;    *)
(* every proposal that can still be taken is answerable, and a carrier is   *)
(* led to a new plan or to its own pending one as the contract has it.      *)
(* While a shipment runs, the checkpoint the page opens on is the one the   *)
(* contract accepts work for, with one proof box for the carrier, or one    *)
(* review for the shipper.                                                  *)
(* And what is offered is accepted.  The handlers that read the request     *)
(* again before they send (cancel, tip, refund) send nothing the contract         *)
(* refuses, however late the click is.  Whatever became of the shipment     *)
(* meanwhile, a pending negotiation can be ended from the page by somebody  *)
(* who is offered to, and every answer that is offered is one the contract  *)
(* takes.  An acceptance is the exception: it is offered also when the      *)
(* agreement moved on or a deadline passed (the one proposed can be reached *)
(* at the very end of the response window).                                 *)
OfferedIffAccepted ==
  /\ RefundOfferedIffDue /\ SelectedCheckpointIsNext /\ OpenProposalsAreAnswerable
  /\ RereadSendsAreAccepted /\ OfferedAnswersAreTaken

(* An unpaid checkpoint that the funding goes to.                           *)
FundsFor(r, funding) ==
  IF funding = 0 THEN <<>>
  ELSE LET unpaid == CHOOSE m \in MilestoneIds : MilestoneExists(r, m) /\ milestones[r][m].status # "Paid"
       IN  [m \in {unpaid} |-> funding]

(* The forms and the contract draw the same lines: where the page shows a   *)
(* form and the slot is free, what is filled in passes the form's checks if *)
(* and only if the contract accepts it: a new deadline and funding as a     *)
(* direct extension or an amendment, a response deadline as a cancellation. *)
FormsAgreeWithContract ==
  \A r \in RequestIds : \A u \in Users :
    (RequestExists(r) /\ activeNegotiation[r].kind = "None") =>
      /\ ChangeFormOffered(u, r, now) =>
           \A deadline \in 0 .. MaxTime + 2, answerBy \in 0 .. MaxTime + 1,
              funding \in 0 .. MinAdditionalFunding :
             ChangeFormAccepts(u, r, now, deadline, answerBy, funding)
               <=> IF DirectExtensionChosen(u, r, deadline, funding)
                   THEN ExtensionTerms(r, deadline)
                   ELSE AmendmentTerms(r, u, deadline, answerBy, FundsFor(r, funding), <<>>)
      /\ CancellationFormOffered(u, r, now) =>
           \A answerBy \in 0 .. MaxTime + 1 :
             CancellationFormAccepts(r, now, answerBy) <=> CancellationTerms(r, u, answerBy)

=============================================================================
