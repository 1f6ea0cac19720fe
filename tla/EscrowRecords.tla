----------------------------- MODULE EscrowRecords -----------------------------
(***************************************************************************)
(* What the contracts' events tell afterwards.  Every transaction of the    *)
(* escrow, of the manager and of the ReputationRegistry is a block of the   *)
(* log with its events in the order they are emitted; out of the log the    *)
(* browser makes its payment history (utils/paymentHistory.js), the notices *)
(* of each carrier's chat (utils/chatTimeline.js) and a carrier's           *)
(* reputation (services/reputationService.js).  A wallet is a shipper or a  *)
(* carrier here, which keeps the instances small; nothing else depends on   *)
(* it.  Wording, icons and tones of a notice are left out.                  *)
(***************************************************************************)
EXTENDS LifecycleManager

CONSTANTS
  Shippers, Carriers,
  Scores, Tags, MaxTags,    \* of a rating: 1 to 5, the feedback tags, three at most
  MaxBlocks                 \* bound: after so many blocks a shipment is only settled

ASSUME RecordsAssumption ==
  /\ Shippers \cup Carriers \subseteq Users /\ Shippers \cap Carriers = {}
  /\ Scores \subseteq 1 .. 5 /\ MaxTags \in Nat /\ MaxBlocks \in Nat

VARIABLES
  log,                      \* the blocks so far, each with its events
  ratings,                  \* of requests, None before
  ratingCounts, ratingScoreTotals, carrierTagCounts

ratingVars == <<ratings, ratingCounts, ratingScoreTotals, carrierTagCounts>>
recordVars == <<chainVars, log, ratingVars>>

NoRating == [score |-> 0, tags |-> {}]

RecordsInit ==
  /\ ChainInit
  /\ log = <<>>
  /\ ratings = [r \in RequestIds |-> NoRating]
  /\ ratingCounts = [u \in Carriers |-> 0]
  /\ ratingScoreTotals = [u \in Carriers |-> 0]
  /\ carrierTagCounts = [u \in Carriers |-> [t \in Tags |-> 0]]

-----------------------------------------------------------------------------
(* Events.  party is the indexed carrier or the recipient, milestone -1     *)
(* where an event is about none.                                            *)

Event(r, name) ==
  [request |-> r, name |-> name, party |-> NoUser, amount |-> 0, milestone |-> -1,
   approved |-> TRUE, completedAt |-> 0]
Of(r, name, who) == [Event(r, name) EXCEPT !.party = who]
Money(r, name, who, amount) == [Of(r, name, who) EXCEPT !.amount = amount]
Step(r, name, m) == [Event(r, name) EXCEPT !.milestone = m]
IfAny(event) == IF event.amount > 0 THEN <<event>> ELSE <<>>

EmitEnd(events) == log' = Append(log, events)
Emit(events) == Len(log) < MaxBlocks /\ EmitEnd(events)

(* What a step does to the request's figures, as its events report it.      *)
Reimbursed(r) == requests'[r].operationalSpent - requests[r].operationalSpent

(* _refundOperationalAllowance and _refund.                                 *)
ReserveRefunded(r) ==
  IfAny(Money(r, "OperationalAllowanceRefunded", requests[r].shipper, OperationalRemaining(r)))
Refunded(r) ==
  <<Money(r, "RefundIssued", requests[r].shipper, EscrowBalance(r))>> \o ReserveRefunded(r)

(* finalizeAmendment; its RequestAmended is read by nobody.                 *)
Amended(r, funding, operational) ==
  IfAny(Money(r, "EscrowFunded", Escrow, funding))
    \o IfAny(Money(r, "OperationalAllowanceFunded", Escrow, operational))

-----------------------------------------------------------------------------
(* One disjunct per transaction of the escrow.                              *)

ProposalEvents(r) ==
  \/ \E u \in Carriers :
       \/ \E plan \in Plans :
            ProposeMilestones(u, r, plan) /\ Emit(<<Of(r, "MilestonePlanProposed", u)>>)
       \/ RevokeMilestoneProposal(u, r) /\ Emit(<<Of(r, "MilestonePlanRevoked", u)>>)
  \/ \E p \in 1 .. MaxProposals :
       RejectMilestoneProposal(r, p)
         /\ Emit(<<Of(r, "MilestonePlanRejected", proposals[r][p].carrier)>>)
  \/ CancelRequest(r) /\ Emit(<<Event(r, "RequestCancelled")>>)
  \/ \E p \in DOMAIN proposals[r], price \in ReferenceGasPrices, extra \in ExtraAllowances :
       LET allowance == MinimumOperationalAllowance(r, p, price) + extra
       IN  /\ ApproveAndFund(r, p, price, allowance)
           /\ Emit(<<Of(r, "MilestonePlanAccepted", proposals[r][p].carrier),
                     Money(r, "EscrowFunded", Escrow, requests[r].proposedAmount),
                     Money(r, "OperationalAllowanceFunded", Escrow, allowance)>>)

ProofEvents(r) ==
  \E m \in MilestoneIds :
    \/ \E uri \in ProofUris, gas \in GasReadings, price \in TxGasPrices :
         /\ SubmitProof(r, m, uri, gas, price)
         /\ Emit(IfAny(Money(r, "OperationalAllowanceReimbursed", requests[r].carrier, Reimbursed(r)))
                   \o <<Step(r, "ProofSubmitted", m)>>)
    \/ WithdrawProof(r, m) /\ Emit(<<Step(r, "ProofWithdrawn", m)>>)

ReviewEvents(r) ==
  \E m \in MilestoneIds, n \in 1 .. MaxVersion :
    \/ /\ RejectMilestone(r, m, n)
       /\ Emit(<<[Step(r, "MilestoneVerified", m) EXCEPT !.approved = FALSE],
                 Step(r, "MilestoneRejected", m)>>)
    \/ /\ ApproveMilestone(r, m, n)
       /\ LET amount  == milestones[r][m].payoutAmount + milestones[r][m].additionalPayoutAmount
              carrier == requests[r].carrier
          IN  Emit(<<Step(r, "MilestoneVerified", m),
                     [Step(r, "MilestonePaid", m) EXCEPT !.amount = amount],
                     [Money(r, "PaymentReleased", carrier, amount) EXCEPT !.milestone = m]>>
                   \o IF requests'[r].status = "Completed"
                      THEN <<[Of(r, "RequestCompleted", carrier) EXCEPT !.completedAt = now]>> \o ReserveRefunded(r)
                      ELSE <<>>)

(* A refund for a missed deadline is preceded by the word that it passed.   *)
SettlementEvents(r) ==
  \/ /\ RefundRemaining(r)
     /\ EmitEnd((IF Overdue(r) THEN <<Of(r, "RequestExpired", requests[r].carrier)>> ELSE <<>>)
                  \o Refunded(r))
  \/ \E amount \in FundingAmounts :
       \/ /\ TipCarrier(r, amount)
          /\ Emit(<<Money(r, "CarrierTipped", requests[r].carrier, amount)>>)
       \/ /\ TopUpOperationalAllowance(r, amount)
          /\ Emit(<<Money(r, "OperationalAllowanceFunded", Escrow, amount)>>)

EscrowEvents ==
  \/ Tick /\ UNCHANGED log
  \/ \E u \in Shippers, deadline \in Deadlines, amount \in Amounts :
       CreateRequest(u, deadline, amount) /\ Emit(<<Event(nextRequestId, "RequestCreated")>>)
  \/ \E r \in RequestIds :
       ProposalEvents(r) \/ ProofEvents(r) \/ ReviewEvents(r) \/ SettlementEvents(r)

-----------------------------------------------------------------------------
(* ... and of the manager, whose own events follow those of the escrow.     *)

(* What _reimburseAmendmentResponse and the return of the stake emit.       *)
ResponseSettled(r, amendment, reimbursed) ==
  IfAny(Money(r, "AmendmentResponseReimbursed", amendment.responder, reimbursed))
    \o IfAny(Money(r, "AmendmentResponseAllowanceRefunded", amendment.requester,
                   UnusedAllowance(amendment, reimbursed)))

RequestAmendmentEvents(r) ==
  \E who \in Participants(r), proposedDeadline, responseDeadline \in Deadlines,
     existing \in Fundings(r), additions \in Additions(r),
     price \in ReferenceGasPrices, allowance \in ResponseAllowances :
    /\ RequestAmendment(r, who, proposedDeadline, responseDeadline, existing, additions, price, allowance)
    /\ Emit(<<Event(r, "AmendmentRequested")>>
              \o IfAny(Money(r, "AmendmentResponseAllowanceFunded", Manager, allowance)))

AnswerAmendmentEvents(r, a) ==
  LET amendment == amendmentRequests[r][a] IN
  \/ \E gas \in GasReadings, price \in TxGasPrices :
       LET reimbursed == ResponseReimbursement(amendment, gas, price) IN
       \/ /\ AcceptAmendment(r, a, gas, price)
          /\ Emit(Amended(r, amendment.additionalFunding, amendment.operationalAllowance)
                    \o ResponseSettled(r, amendment, reimbursed) \o <<Event(r, "AmendmentAccepted")>>)
       \/ /\ RejectAmendment(r, a, gas, price)
          /\ Emit(ResponseSettled(r, amendment, reimbursed) \o <<Event(r, "AmendmentRejected")>>)
  \/ /\ WithdrawAmendment(r, a)
     /\ Emit(ResponseSettled(r, amendment, 0) \o <<Event(r, "AmendmentWithdrawn")>>)
  \/ /\ ExpireAmendment(r, a)
     /\ EmitEnd(ResponseSettled(r, amendment, 0) \o <<Event(r, "AmendmentExpired")>>)

AmendmentEvents(r) ==
  \/ \E newDeadline \in Deadlines :
       ExtendShipmentDeadline(r, newDeadline) /\ Emit(<<Event(r, "ShipmentDeadlineExtended")>>)
  \/ RequestAmendmentEvents(r)
  \/ \E a \in 1 .. MaxNegotiations : AnswerAmendmentEvents(r, a)

CancellationEvents(r) ==
  \/ \E who \in Participants(r), responseDeadline \in Deadlines :
       RequestCancellation(r, who, responseDeadline) /\ Emit(<<Event(r, "CancellationRequested")>>)
  \/ \E c \in 1 .. MaxNegotiations :
       \/ /\ AcceptCancellation(r, c)
          /\ Emit(<<Event(r, "RequestCancelled")>> \o Refunded(r) \o <<Event(r, "CancellationAccepted")>>)
       \/ RejectCancellation(r, c) /\ Emit(<<Event(r, "CancellationRejected")>>)
       \/ WithdrawCancellation(r, c) /\ Emit(<<Event(r, "CancellationWithdrawn")>>)
       \/ ExpireCancellation(r, c) /\ EmitEnd(<<Event(r, "CancellationExpired")>>)

-----------------------------------------------------------------------------
(* The ReputationRegistry: one rating for each completed delivery.          *)

SubmitCarrierRating(r, score, tags) ==
  /\ ratings[r] = NoRating
  /\ Cardinality(tags) <= MaxTags
  /\ RequestExists(r) /\ requests[r].status = "Completed"
  /\ LET carrier == requests[r].carrier
     IN  /\ ratings' = [ratings EXCEPT ![r] = [score |-> score, tags |-> tags]]
         /\ ratingCounts' = [ratingCounts EXCEPT ![carrier] = @ + 1]
         /\ ratingScoreTotals' = [ratingScoreTotals EXCEPT ![carrier] = @ + score]
         /\ carrierTagCounts' = [carrierTagCounts EXCEPT ![carrier] =
              [t \in Tags |-> @[t] + (IF t \in tags THEN 1 ELSE 0)]]
         /\ Emit(<<Of(r, "CarrierRated", carrier)>>)
  /\ UNCHANGED chainVars

(* The rating panel: offered to the shipper of a completed request that has *)
(* no rating yet, with a score and as many tags as may be given.            *)
CanRate(r) == requests[r].status = "Completed" /\ ratings[r] = NoRating
Selectable == {tags \in SUBSET Tags : Cardinality(tags) <= MaxTags}

PublishRating(r) ==
  /\ CanRate(r)
  /\ \E score \in Scores, tags \in Selectable : SubmitCarrierRating(r, score, tags)

RecordsNext ==
  \/ EscrowEvents /\ UNCHANGED <<negotiationVars, ratingVars>>
  \/ \E r \in RequestIds : (AmendmentEvents(r) \/ CancellationEvents(r)) /\ UNCHANGED ratingVars
  \/ \E r \in RequestIds : PublishRating(r)

(* As for the chain alone: time passes, a shipper who may take a refund     *)
(* eventually does, and somebody expires what nobody answered.              *)
RecordsFairness ==
  /\ WF_recordVars(Tick /\ UNCHANGED <<negotiationVars, log, ratingVars>>)
  /\ \A r \in RequestIds :
       /\ WF_recordVars(RefundRemaining(r) /\ SettlementEvents(r)
                          /\ UNCHANGED <<negotiationVars, ratingVars>>)
       /\ \A n \in 1 .. MaxNegotiations :
            /\ WF_recordVars(ExpireAmendment(r, n) /\ AmendmentEvents(r) /\ UNCHANGED ratingVars)
            /\ WF_recordVars(ExpireCancellation(r, n) /\ CancellationEvents(r) /\ UNCHANGED ratingVars)

FairRecordsSpec == RecordsInit /\ [][RecordsNext]_recordVars /\ RecordsFairness

-----------------------------------------------------------------------------
(* Reading the log.  An event is known by its block and its place in it.    *)

Places(from, to) == UNION {{b} \X DOMAIN log[b] : b \in from .. to}
AllPlaces == Places(1, Len(log))
EventAt(place) == log[place[1]][place[2]]
Before(p, q) == p[1] < q[1] \/ (p[1] = q[1] /\ p[2] < q[2])
LatestOf(places) == CHOOSE p \in places : \A q \in places : p = q \/ Before(q, p)

AmountOf(places) == SumOver([p \in places |-> EventAt(p).amount])
Named(places, names) == {p \in places : EventAt(p).name \in names}

(* loadPaymentHistory for a wallet: the money events of the requests whose  *)
(* shipper or carrier it is when they are read.                             *)
(* Slip: the reserve returned at the end is not in the list of events.      *)
PaymentEventsWithoutReturn ==
  {"EscrowFunded", "PaymentReleased", "RefundIssued", "CarrierTipped",
   "OperationalAllowanceFunded", "OperationalAllowanceReimbursed"}

PaymentEvents ==
  {"EscrowFunded", "PaymentReleased", "RefundIssued", "CarrierTipped",
   "OperationalAllowanceFunded", "OperationalAllowanceReimbursed", "OperationalAllowanceRefunded"}

Concerns(u, r) == u \in {requests[r].shipper, requests[r].carrier}

PaymentHistory(u, from, to) ==
  {p \in Places(from, to) : EventAt(p).name \in PaymentEvents /\ Concerns(u, EventAt(p).request)}

Earnings(u, rows) == {p \in rows : /\ EventAt(p).name \in {"PaymentReleased", "CarrierTipped"}
                                   /\ EventAt(p).party = u}

(* The account page reads on from the last block it has seen and merges.    *)
HistoryRefreshed(u, shown, cursor) == shown \cup PaymentHistory(u, cursor + 1, Len(log))

(* loadShipment: one read of everything the page of a shipment shows.  What *)
(* became of the reserve is taken from the log, since a settled request     *)
(* counts what was returned as spent.                                       *)
LoggedFor(r, name) == AmountOf({p \in AllPlaces : EventAt(p).name = name /\ EventAt(p).request = r})

ShipmentRead(r) ==
  [request |-> requests[r],
   remaining |-> EscrowBalance(r),
   operationalRemaining |-> OperationalRemaining(r),
   operationalReimbursed |-> LoggedFor(r, "OperationalAllowanceReimbursed"),
   operationalReturned |-> LoggedFor(r, "OperationalAllowanceRefunded"),
   tipAmount |-> tipAmounts[r],
   milestones |-> [i \in DOMAIN executionOrder[r] |-> milestones[r][executionOrder[r][i]]],
   proposals |-> [p \in DOMAIN proposals[r] |->
                    [proposals[r][p] EXCEPT !.status = ShownProposalStatus(r, p)]],
   cancellations |-> cancellationRequests[r],
   amendments |-> amendmentRequests[r]]

(* The lines of the escrow panel.                                           *)
AmendmentFunding(shipment) ==
  IF shipment.request.totalAmount > shipment.request.proposedAmount
  THEN shipment.request.totalAmount - shipment.request.proposedAmount ELSE 0

EligibleProofs(shipment) ==
  Cardinality({i \in DOMAIN shipment.milestones :
                 /\ ~shipment.milestones[i].proofSubmissionReimbursed
                 /\ shipment.milestones[i].status # "Paid"})

(* fetchRequestNotices, for the chat with one carrier.                      *)
ProposalNames ==
  {"MilestonePlanProposed", "MilestonePlanRevoked", "MilestonePlanRejected", "MilestonePlanAccepted"}
NegotiationNames ==
  {"AmendmentRequested", "AmendmentAccepted", "AmendmentRejected", "AmendmentWithdrawn",
   "AmendmentExpired", "CancellationRequested", "CancellationAccepted", "CancellationRejected",
   "CancellationWithdrawn", "CancellationExpired"}
LifecycleNames ==
  NegotiationNames \cup
  {"ShipmentDeadlineExtended", "AmendmentResponseAllowanceFunded", "AmendmentResponseReimbursed",
   "AmendmentResponseAllowanceRefunded"}
EscrowNames ==
  ProposalNames \cup (PaymentEvents \ {"PaymentReleased"}) \cup
  {"RequestCreated", "ProofSubmitted", "MilestoneVerified", "MilestoneRejected", "MilestonePaid",
   "RequestCancelled", "RequestCompleted", "RequestExpired"}

Entries(r) ==
  {p \in Named(AllPlaces, EscrowNames \cup LifecycleNames \cup {"CarrierRated"}) :
     EventAt(p).request = r}

(* filterRequestNoticesForCarrier takes the accepted carrier from the log.  *)
AcceptedIn(entries) == {EventAt(p).party : p \in Named(entries, {"MilestonePlanAccepted"})}

(* Slip: that a request was cancelled is told in every chat at any time.    *)
SeesCancelledByAll(w, p, accepted) ==
  LET event == EventAt(p) IN
  \/ event.name \in ProposalNames /\ event.party = w
  \/ event.name \in {"RequestCreated", "RequestCancelled"}
  \/ event.name \notin ProposalNames /\ accepted = {w}

Sees(w, p, accepted) ==
  LET event == EventAt(p) IN
  \/ event.name \in ProposalNames /\ event.party = w
  \/ event.name = "RequestCreated"
  \/ event.name = "RequestCancelled" /\ accepted = {}
  \/ event.name \notin ProposalNames /\ accepted = {w}

(* eventLogToNotice makes no notice of a verification that was refused,     *)
(* which has a rejection of its own.                                        *)
IsNotice(event) == event.name = "MilestoneVerified" => event.approved

Notices(r, w) ==
  LET entries  == Entries(r)
      accepted == AcceptedIn(entries)
  IN  {p \in entries : Sees(w, p, accepted) /\ IsNotice(EventAt(p))}

Actionable == {"AmendmentRequested", "CancellationRequested"}

(* loadCarrierReputationProfile: the registry's totals, and the outcomes of *)
(* the requests that have this carrier, completion and expiry by their      *)
(* events.                                                                  *)
AssignedTo(u) == {r \in RequestIds : RequestExists(r) /\ requests[r].carrier = u}

RequestsWith(u, name) ==
  {EventAt(p).request : p \in {q \in AllPlaces : EventAt(q).name = name /\ EventAt(q).party = u}}

CompletedAt(u, r) ==
  LET found == {p \in AllPlaces : EventAt(p).name = "RequestCompleted" /\ EventAt(p).party = u
                                                                      /\ EventAt(p).request = r}
  IN  EventAt(LatestOf(found)).completedAt

CompletedBy(u) == {r \in AssignedTo(u) : requests[r].status = "Completed"}
OnTimeBy(u) ==
  {r \in CompletedBy(u) \cap RequestsWith(u, "RequestCompleted") :
     CompletedAt(u, r) <= requests[r].deadline}

(* Slip: whatever was refunded counts as unsuccessful.                      *)
RefundedWith(u) == {r \in AssignedTo(u) : requests[r].status = "Refunded"}

UnsuccessfulBy(u) == AssignedTo(u) \cap RequestsWith(u, "RequestExpired")
CancellationsBy(u) ==
  {x \in AssignedTo(u) \X (1 .. MaxNegotiations) :
     LET r == x[1] c == x[2] IN
     /\ c \in DOMAIN cancellationRequests[r]
     /\ cancellationRequests[r][c].requester = u
     /\ cancellationRequests[r][c].status = "Accepted"}

-----------------------------------------------------------------------------
(* Properties.                                                              *)

(* The payment history of either participant explains where a request's     *)
(* CARGO is: what its rows put in, less what they took out, is what the     *)
(* escrow still holds for it; the carrier's earnings are what was released  *)
(* and tipped; a row is shown to both of them and to nobody else.  The      *)
(* lines of the escrow panel add up: to what was funded, and for the        *)
(* reserve to what was reimbursed, is left, or went back once it was over.  *)
RowsOf(u, r) == {p \in PaymentHistory(u, 1, Len(log)) : EventAt(p).request = r}

Contributions == {"EscrowFunded", "OperationalAllowanceFunded"}
Payments ==
  {"PaymentReleased", "RefundIssued", "OperationalAllowanceReimbursed", "OperationalAllowanceRefunded"}

PanelAddsUp(r, shipment) ==
  /\ shipment.request.totalAmount > 0 =>
       shipment.request.proposedAmount + AmendmentFunding(shipment) = shipment.request.totalAmount
  /\ shipment.operationalReimbursed + shipment.operationalReturned + shipment.operationalRemaining
       = shipment.request.operationalAllowance
  /\ shipment.operationalReturned > 0 => ~Active(r)
  /\ Active(r) => shipment.operationalRemaining
                    >= EligibleProofs(shipment) * ProofReserve(shipment.request.gasPriceCap)

RowsExplainTheMoney ==
  \A r \in RequestIds : RequestExists(r) =>
  /\ PanelAddsUp(r, ShipmentRead(r))
  /\ \A u \in Users :
    IF Concerns(u, r)
    THEN LET rows == RowsOf(u, r) IN
         /\ AmountOf(Named(rows, Contributions)) - AmountOf(Named(rows, Payments)) = Pot(requests[r])
         /\ AmountOf(Earnings(requests[r].carrier, rows)) = requests[r].releasedAmount + tipAmounts[r]
    ELSE RowsOf(u, r) = {}

(* "The conversation also shows verified activity ..., filtered to the      *)
(* exact carrier": the accepted carrier's chat tells the shipment as it is  *)
(* (outcome, each paid milestone once, the proof under review, a change     *)
(* waiting for an answer exactly while one is), any other carrier's nothing *)
(* but the request and this carrier's own proposals.                        *)
NamesOf(places) == {EventAt(p).name : p \in places}

ChatOfAccepted(r, seen) ==
  /\ "RequestCompleted" \in NamesOf(seen) <=> requests[r].status = "Completed"
  /\ "RefundIssued" \in NamesOf(seen) <=> requests[r].status = "Refunded"
  /\ "CarrierTipped" \in NamesOf(seen) <=> tipAmounts[r] > 0
  /\ \A m \in MilestonesOf(r) :
       LET about == {p \in seen : EventAt(p).milestone = m} IN
       /\ Cardinality(Named(about, {"MilestonePaid"})) = (IF m \in PaidOf(r) THEN 1 ELSE 0)
       /\ milestones[r][m].status = "Submitted" => EventAt(LatestOf(about)).name = "ProofSubmitted"
  /\ LET talks == Named(seen, NegotiationNames)
     IN  activeNegotiation[r].kind # "None" <=>
           talks # {} /\ EventAt(LatestOf(talks)).name \in Actionable

ChatOfOther(r, w, seen) ==
  /\ \A p \in seen : EventAt(p).party \in {w, NoUser}
  /\ NamesOf(seen) \subseteq
       {"RequestCreated"} \cup ProposalNames
         \cup (IF requests[r].carrier = NoUser THEN {"RequestCancelled"} ELSE {})
  /\ LET own == Named(seen, ProposalNames)
     IN  activeProposal[r][w] > 0 <=>
           own # {} /\ EventAt(LatestOf(own)).name = "MilestonePlanProposed"

EveryChatTellsItsStory ==
  \A r \in RequestIds : RequestExists(r) =>
    \A w \in Carriers : IF requests[r].carrier = w THEN ChatOfAccepted(r, Notices(r, w))
                        ELSE ChatOfOther(r, w, Notices(r, w))

(* What is on record counts once and stays.  A carrier's reputation counts  *)
(* every delivery that is over exactly once: completed, or expired, or      *)
(* ended by mutual cancellation, whichever side asked for it; every rating  *)
(* belongs to a completed one; and what was delivered on time is not late   *)
(* afterwards, whatever happens to deadlines.  A payment history that is    *)
(* read on from the last block is the one a fresh page would read.          *)
CancelledByShipper(u) ==
  {r \in AssignedTo(u) : \E c \in DOMAIN cancellationRequests[r] :
     /\ cancellationRequests[r][c].status = "Accepted"
     /\ cancellationRequests[r][c].requester = requests[r].shipper}

OutcomesAddUp(u) ==
  Cardinality({r \in AssignedTo(u) : ~Active(r)})
    = Cardinality(CompletedBy(u)) + Cardinality(UnsuccessfulBy(u))
        + Cardinality(CancellationsBy(u)) + Cardinality(CancelledByShipper(u))

RatingsAddUp(u) ==
  LET rated == {r \in CompletedBy(u) : ratings[r] # NoRating} IN
  /\ ratingCounts[u] = Cardinality(rated)
  /\ ratingScoreTotals[u] = SumOver([r \in AssignedTo(u) |-> ratings[r].score])
  /\ \A t \in Tags : carrierTagCounts[u][t] = Cardinality({r \in rated : t \in ratings[r].tags})

RecordsCountOnceAndStay ==
  [][\A u \in Carriers :
       /\ OutcomesAddUp(u)' /\ RatingsAddUp(u)'
       /\ OnTimeBy(u) \subseteq OnTimeBy(u)'
       /\ \E cursor \in {Len(log)} : \E shown \in {PaymentHistory(u, 1, cursor)} :
            HistoryRefreshed(u, shown, cursor)' = PaymentHistory(u, 1, Len(log))']_recordVars

=============================================================================
