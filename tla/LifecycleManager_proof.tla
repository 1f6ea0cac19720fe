------------------------ MODULE LifecycleManager_proof ------------------------
(***************************************************************************)
(* The theorems about the escrow under the manager that actually drives it  *)
(* (LifecycleManager).  In DeliveryEscrow the manager was an environment    *)
(* that validates each amendment in the instant it is applied; here an      *)
(* amendment is validated when it is asked for and applied when it is       *)
(* accepted, with the whole shipment going on in between.                   *)
(*                                                                          *)
(*   I. The escrow.  Whatever the manager does is, to the escrow, a step it *)
(*      takes anyway, CARGO moving between others, or an amendment as       *)
(*      Part I to III of ShipmentMoney_proof know it.                       *)
(*  II. The negotiations.  An amendment that is pending under the version   *)
(*      it was pinned to is as valid as when it was asked for, because      *)
(*      whatever it was validated against moves with the version.           *)
(* III. The stakes.  Nested sums: what the manager holds is what is staged  *)
(*      for the pending amendments of every shipment.                       *)
(*  IV. What a transaction leaves as it was, how a shipment ended, and what *)
(*      the proofs about its records (EscrowRecords_proof) need of sums.    *)
(***************************************************************************)
EXTENDS LifecycleManager, ShipmentMoney_proof

-----------------------------------------------------------------------------
(* Part I.  The escrow.                                                     *)

EscrowInv == AllInv /\ ActiveCountsMatch

LEMMA EscrowInitOK == Init => EscrowInv
BY InitOK, OrderInitOK, WorthInitOK, HeldInitOK, DealInitOK, CountInitOK
   DEF Init, TipInv, AllInv, EscrowInv

LEMMA PotIsHeld == AllInv => PotIsHeldExactlyWhileActive
BY InvariantsFollowTheWork DEF AllInv, MoneyFollowsTheWork

LEMMA EscrowStepOK == EscrowInv /\ [Next]_vars => EscrowInv'
<1> SUFFICES ASSUME EscrowInv, [Next]_vars PROVE EscrowInv'
  OBVIOUS
<1>1. AllInv /\ ActiveCountsMatch
  BY DEF EscrowInv
<1>2. AllInv'
  BY <1>1, AllStepOK
<1>3. AllInv' => PotIsHeldExactlyWhileActive'
  BY PotIsHeld, PTL
<1>4. ActiveCountsMatch'
  BY <1>1, <1>2, <1>3, CountStepOK DEF AllInv
<1>5. QED BY <1>2, <1>4 DEF EscrowInv

LEMMA BesideOK == EscrowInv /\ BesideTheEscrow => EscrowInv'
<1> SUFFICES ASSUME EscrowInv, BesideTheEscrow PROVE EscrowInv'
  OBVIOUS
<1>1. AllInv /\ ActiveCountsMatch
  BY DEF EscrowInv
<1>2. AllInv'
  BY <1>1, MovesBeside
<1>3. ActiveCountsMatch'
  BY <1>1, CountsStay DEF BesideTheEscrow, CountOf
<1>4. QED BY <1>2, <1>3 DEF EscrowInv

(* An amendment whose CARGO the escrow is paid, by whomever.                *)
PaidAmendment(r, newDeadline, existing, additions, operational) ==
  /\ Amends(r, newDeadline, existing, additions, operational)
  /\ cargo' \in [Accounts -> Nat]
  /\ cargo'[Escrow] = cargo[Escrow] + (Allocated(existing, additions) + operational)

LEMMA PaidAmendmentOK ==
  ASSUME EscrowInv, NEW r \in RequestIds, NEW newDeadline \in Deadlines,
         NEW existing \in Fundings(r), NEW additions \in Additions(r), NEW operational \in Nat,
         PaidAmendment(r, newDeadline, existing, additions, operational)
  PROVE  EscrowInv'
<1>1. IInv /\ OrderInv /\ WorthInv /\ HeldInv /\ DealInv /\ TipInv /\ ActiveCountsMatch
  BY DEF EscrowInv, AllInv
<1>2. Amends(r, newDeadline, existing, additions, operational)
  BY DEF PaidAmendment
<1>3. IInv'
  BY <1>1, <1>2, AmendsOK DEF PaidAmendment
<1>4. OrderInv'
  BY <1>1, <1>2, AmendStepRight DEF Right, OrderInv
<1>5. ASSUME NEW q \in RequestIds, q # r PROVE Same(q)
  BY <1>1, <1>2, <1>5, AmendsOne
<1>6. ASSUME NEW q \in RequestIds PROVE HappensTo(q)
  <2>1. CASE q = r
    <3>1. Renegotiated(r)
      BY <1>2 DEF Renegotiated
    <3>2. QED BY <2>1, <3>1 DEF HappensTo
  <2>2. QED BY <1>5, <2>1 DEF HappensTo, Proceeds
<1>7. WorthInv' /\ HeldInv'
  BY <1>1, <1>6, WorthStepOK, HeldStepOK
<1>8. /\ FieldsKept(r) /\ Running(requests[r]) /\ Running(requests'[r])
  BY <1>1, <1>2, RenegotiatedFigures
<1>9. UNCHANGED marketVars /\ UNCHANGED tipAmounts
  BY <1>2 DEF Amends, FinalizeAmendment
<1>10. ASSUME NEW q \in RequestIds PROVE Deal(q)'
  <2>1. requests[r].status # "Open" /\ requests'[r].status # "Open"
    BY <1>8 DEF Running
  <2>2. DealSame(q)
    BY <1>5, <1>8, <1>9, <2>1 DEF DealSame, FieldsKept, Same, marketVars
  <2>3. QED BY <1>1, <1>9, <2>2, DealKept DEF DealInv, marketVars
<1>11. TipInv'
  <2>1. ASSUME NEW q \in RequestIds, requests[q].status = "Completed"
        PROVE  requests'[q].status = "Completed"
    BY <1>5, <1>8, <2>1 DEF Running, Same
  <2>2. QED BY <1>1, <1>9, <2>1 DEF TipInv
<1>12. ActiveCountsMatch'
  <2>1. PICK total : lockedEscrow' = IncreaseLocked(lockedEscrow, requests[r].shipper, total, FALSE)
    BY <1>2 DEF Amends, FinalizeAmendment, EnterEscrow
  <2>2. \A q \in RequestIds : q # r => requests'[q] = requests[q]
    BY <1>5 DEF Same
  <2>3. QED BY <1>1, <1>8, <2>1, <2>2, CountsIdle
<1>13. QED BY <1>3, <1>4, <1>7, <1>10, <1>11, <1>12 DEF EscrowInv, AllInv, DealInv

-----------------------------------------------------------------------------
(* What a step may do to a shipment that was funded.                        *)

(* Whose it is stays, and the version only goes up.                         *)
Steady(r) ==
  /\ WasFunded(requests'[r])
  /\ requests'[r].shipper = requests[r].shipper /\ requests'[r].carrier = requests[r].carrier
  /\ milestoneStateVersion[r] \in Nat /\ milestoneStateVersion'[r] \in Nat
  /\ milestoneStateVersion'[r] >= milestoneStateVersion[r]

TermsKept(r) ==
  /\ requests'[r].deadline = requests[r].deadline
  /\ executionOrder'[r] = executionOrder[r]
  /\ \A m \in MilestoneIds :
       milestones'[r][m].additionalPayoutAmount = milestones[r][m].additionalPayoutAmount

LEMMA MarkedOnce ==
  ASSUME IInv, NEW r \in RequestIds,
         MarkMilestoneStateChanged(r) \/ UNCHANGED milestoneStateVersion
  PROVE  /\ milestoneStateVersion[r] \in Nat /\ milestoneStateVersion'[r] \in Nat
         /\ milestoneStateVersion'[r] >= milestoneStateVersion[r]
BY StateTypes DEF MarkMilestoneStateChanged

(* A milestone that gets another record keeps what was added to its payout. *)
LEMMA AddedPayoutsKept ==
  ASSUME IInv, NEW r \in RequestIds, NEW k \in MilestoneIds, NEW new,
         new.additionalPayoutAmount = milestones[r][k].additionalPayoutAmount,
         milestones' = [milestones EXCEPT ![r] = [milestones[r] EXCEPT ![k] = new]]
  PROVE  \A m \in MilestoneIds :
           milestones'[r][m].additionalPayoutAmount = milestones[r][m].additionalPayoutAmount
<1>1. milestones \in [RequestIds -> [MilestoneIds -> Milestones]]
  BY StateTypes
<1>2. QED BY <1>1

LEMMA SubmitSteady ==
  ASSUME IInv, NEW r \in RequestIds, NEW m \in MilestoneIds, NEW uri, NEW gas \in Nat,
         NEW price \in Nat, SubmitProof(r, m, uri, gas, price)
  PROVE  Steady(r) /\ TermsKept(r)
<1> DEFINE new == Submitted(milestones[r][m], uri)
           paid == IF milestones[r][m].proofSubmissionReimbursed THEN 0
                   ELSE Reimbursement(r, [milestones[r] EXCEPT ![m] = new], gas, price)
<1>1. /\ milestones' = [milestones EXCEPT ![r] = [milestones[r] EXCEPT ![m] = new]]
      /\ requests' = [requests EXCEPT ![r].status = "InProgress", ![r].operationalSpent = @ + paid]
      /\ MarkMilestoneStateChanged(r) /\ UNCHANGED executionOrder
  BY DEF SubmitProof
<1>2. new.additionalPayoutAmount = milestones[r][m].additionalPayoutAmount
  BY StateTypes DEF Submitted, Milestones
<1> HIDE DEF new, paid
<1>3. \A k \in MilestoneIds :
        milestones'[r][k].additionalPayoutAmount = milestones[r][k].additionalPayoutAmount
  BY <1>1, <1>2, AddedPayoutsKept
<1>4. /\ requests'[r].status = "InProgress" /\ requests'[r].deadline = requests[r].deadline
      /\ requests'[r].shipper = requests[r].shipper /\ requests'[r].carrier = requests[r].carrier
  BY <1>1, StateTypes DEF Requests
<1>5. QED BY <1>1, <1>3, <1>4, MarkedOnce DEF Steady, TermsKept, WasFunded

LEMMA WithdrawSteady ==
  ASSUME IInv, NEW r \in RequestIds, WasFunded(requests[r]), NEW m \in MilestoneIds,
         WithdrawProof(r, m)
  PROVE  Steady(r) /\ TermsKept(r)
<1> DEFINE new == Withdrawn(milestones[r][m])
<1>1. /\ milestones' = [milestones EXCEPT ![r] = [milestones[r] EXCEPT ![m] = new]]
      /\ MarkMilestoneStateChanged(r) /\ UNCHANGED <<requests, executionOrder>>
  BY StateTypes DEF WithdrawProof
<1>2. new.additionalPayoutAmount = milestones[r][m].additionalPayoutAmount
  BY StateTypes DEF Withdrawn, Milestones
<1> HIDE DEF new
<1>3. QED BY <1>1, <1>2, AddedPayoutsKept, MarkedOnce DEF Steady, TermsKept

LEMMA RejectSteady ==
  ASSUME IInv, NEW r \in RequestIds, WasFunded(requests[r]), NEW m \in MilestoneIds, NEW n,
         RejectMilestone(r, m, n)
  PROVE  Steady(r) /\ TermsKept(r)
<1> DEFINE new == [milestones[r][m] EXCEPT !.status = "Rejected", !.proofWithdrawalsThisRound = 0,
                                           !.submittedAfterRejection = FALSE]
<1>1. /\ milestones' = [milestones EXCEPT ![r] = [milestones[r] EXCEPT ![m] = new]]
      /\ MarkMilestoneStateChanged(r) /\ UNCHANGED <<requests, executionOrder>>
  BY StateTypes DEF RejectMilestone
<1>2. new.additionalPayoutAmount = milestones[r][m].additionalPayoutAmount
  BY StateTypes DEF Milestones
<1> HIDE DEF new
<1>3. QED BY <1>1, <1>2, AddedPayoutsKept, MarkedOnce DEF Steady, TermsKept

LEMMA ApproveSteady ==
  ASSUME IInv, NEW r \in RequestIds, WasFunded(requests[r]), NEW m \in MilestoneIds, NEW n,
         ApproveMilestone(r, m, n)
  PROVE  Steady(r) /\ TermsKept(r)
<1> DEFINE new == [milestones[r][m] EXCEPT !.status = "Paid"]
           ms == [milestones[r] EXCEPT ![m].status = "Paid"]
           amount == milestones[r][m].payoutAmount + milestones[r][m].additionalPayoutAmount
           completed == AllPaid(executionOrder[r], ms)
           returned == IF completed THEN OperationalRemaining(r) ELSE 0
<1>1. /\ milestones' = [milestones EXCEPT ![r] = ms]
      /\ requests' = [requests EXCEPT ![r].releasedAmount = @ + amount,
                                      ![r].status = IF completed THEN "Completed" ELSE @,
                                      ![r].operationalSpent = @ + returned]
      /\ MarkMilestoneStateChanged(r) /\ UNCHANGED executionOrder
  BY DEF ApproveMilestone
<1>2. ms = [milestones[r] EXCEPT ![m] = new]
  BY StateTypes
<1>3. new.additionalPayoutAmount = milestones[r][m].additionalPayoutAmount
  BY StateTypes DEF Milestones
<1> HIDE DEF new, ms, amount, completed, returned
<1>4. \A k \in MilestoneIds :
        milestones'[r][k].additionalPayoutAmount = milestones[r][k].additionalPayoutAmount
  BY <1>1, <1>2, <1>3, AddedPayoutsKept
<1>5. /\ requests'[r].status \in {"Completed", requests[r].status}
      /\ requests'[r].deadline = requests[r].deadline
      /\ requests'[r].shipper = requests[r].shipper /\ requests'[r].carrier = requests[r].carrier
  BY <1>1, StateTypes DEF Requests
<1>6. QED BY <1>1, <1>4, <1>5, MarkedOnce DEF Steady, TermsKept, WasFunded

LEMMA RefundSteady ==
  ASSUME IInv, NEW r \in RequestIds, Refund(r)
  PROVE  Steady(r) /\ TermsKept(r)
<1> DEFINE remaining == EscrowBalance(r)
           operational == OperationalRemaining(r)
<1>1. /\ requests' = [requests EXCEPT ![r].refundedAmount = @ + remaining,
                                      ![r].operationalSpent = @ + operational,
                                      ![r].status = "Refunded"]
      /\ UNCHANGED <<milestones, executionOrder, milestoneStateVersion>>
  BY DEF Refund, workVars
<1> HIDE DEF remaining, operational
<1>2. /\ requests'[r].status = "Refunded" /\ requests'[r].deadline = requests[r].deadline
      /\ requests'[r].shipper = requests[r].shipper /\ requests'[r].carrier = requests[r].carrier
  BY <1>1, StateTypes DEF Requests
<1>3. QED BY <1>1, <1>2, MarkedOnce DEF Steady, TermsKept, WasFunded

LEMMA TopUpSteady ==
  ASSUME IInv, NEW r \in RequestIds, NEW amount \in Nat, TopUpOperationalAllowance(r, amount)
  PROVE  Steady(r) /\ TermsKept(r)
<1> DEFINE topped == [requests[r] EXCEPT !.operationalAllowance = @ + amount]
           actions == RemainingProofActions(executionOrder[r], milestones[r])
           cap == FundedCap(topped, actions)
           raised == actions > 0 /\ cap > topped.gasPriceCap
           new == IF raised THEN [topped EXCEPT !.gasPriceCap = cap] ELSE topped
<1>1. /\ requests' = [requests EXCEPT ![r] = new]
      /\ MarkMilestoneStateChanged(r) \/ UNCHANGED milestoneStateVersion
      /\ UNCHANGED <<milestones, executionOrder>>
  BY DEF TopUpOperationalAllowance
<1> HIDE DEF cap, actions, raised
<1>2. requests'[r] = new
  BY <1>1, StateTypes
<1>3. /\ new.shipper = requests[r].shipper /\ new.carrier = requests[r].carrier
      /\ new.deadline = requests[r].deadline
  BY StateTypes DEF Requests
<1>4. WasFunded(requests'[r])
  BY TopUpFigures DEF FieldsKept
<1> HIDE DEF new
<1>5. QED BY <1>1, <1>2, <1>3, <1>4, MarkedOnce DEF Steady, TermsKept

(* The escrow's own steps leave the agreement about a shipment alone.       *)
LEMMA ProceedsSteady ==
  ASSUME IInv, NEW r \in RequestIds, Proceeds(r), WasFunded(requests[r])
  PROVE  Steady(r) /\ TermsKept(r)
<1>1. CASE Same(r)
  BY <1>1, StateTypes DEF Same, Steady, TermsKept
<1>2. ~NewRequest(r)
  <2>1. r = nextRequestId => requests[r] = NoRequest
    BY MarketTypes DEF IInv, RequestsOK
  <2>2. QED BY <2>1 DEF NewRequest, NoRequest, WasFunded
<1>3. ~CancelRequest(r) /\ ~Funded(r)
  <2>1. requests[r].status \in RequestStatus
    BY StateTypes DEF Requests
  <2>2. requests[r].status # "Open" /\ requests[r].status # "PendingApproval"
    BY <2>1 DEF WasFunded, RequestStatus
  <2>3. ASSUME Funded(r) PROVE FALSE
    <3>1. PICK p, price, allowance : ApproveAndFund(r, p, price, allowance)
      BY <2>3 DEF Funded
    <3>2. QED BY <2>2, <3>1 DEF ApproveAndFund
  <2>4. QED BY <2>2, <2>3 DEF CancelRequest
<1>4. CASE Proved(r)
  BY <1>4, SubmitSteady, WithdrawSteady DEF Proved
<1>5. CASE Reviewed(r)
  BY <1>5, RejectSteady, ApproveSteady DEF Reviewed
<1>6. CASE Refund(r)
  BY <1>6, RefundSteady
<1>7. CASE ToppedUp(r)
  BY <1>7, TopUpSteady DEF ToppedUp
<1>8. QED BY <1>1, <1>2, <1>3, <1>4, <1>5, <1>6, <1>7 DEF Proceeds

(* An amendment changes the agreement and says so.                          *)
LEMMA AmendmentSteady ==
  ASSUME IInv, NEW r \in RequestIds, NEW newDeadline \in Deadlines,
         NEW existing \in Fundings(r), NEW additions \in Additions(r), NEW operational \in Nat,
         Amends(r, newDeadline, existing, additions, operational)
  PROVE  Steady(r) /\ milestoneStateVersion'[r] > milestoneStateVersion[r]
<1>1. FieldsKept(r)
  BY RenegotiatedFigures
<1>2. MarkMilestoneStateChanged(r)
  BY DEF Amends, FinalizeAmendment
<1>3. QED BY <1>1, <1>2, StateTypes, MarkedOnce DEF Steady, FieldsKept, MarkMilestoneStateChanged

-----------------------------------------------------------------------------
(* What a step of the escrow, under whichever cause, does to a shipment.    *)

(* Nothing that an amendment was validated against, and nothing that it     *)
(* changes, moves without the version.                                      *)
Moves(r) ==
  WasFunded(requests[r]) =>
    /\ Steady(r)
    /\ milestoneStateVersion'[r] = milestoneStateVersion[r] =>
         /\ TermsKept(r) /\ nextMilestoneId'[r] = nextMilestoneId[r]
         /\ \A m \in MilestoneIds : milestones'[r][m].status = milestones[r][m].status

LEMMA OrderLengths ==
  EscrowInv => \A q \in RequestIds : nextMilestoneId[q] = Len(executionOrder[q])
BY OrderFacts DEF EscrowInv, AllInv, OrderInv

LEMMA SameStatuses ==
  ASSUME IInv, NEW r \in RequestIds, QuotedTerms(r)' = QuotedTerms(r)
  PROVE  \A m \in MilestoneIds : milestones'[r][m].status = milestones[r][m].status
<1> DEFINE before == [m \in MilestoneIds |-> milestones[r][m].status]
           after  == [m \in MilestoneIds |-> milestones'[r][m].status]
<1>1. after = before
  BY DEF QuotedTerms
<1>2. \A m \in MilestoneIds : after[m] = milestones'[r][m].status /\ before[m] = milestones[r][m].status
  OBVIOUS
<1> HIDE DEF before, after
<1>3. QED BY <1>1, <1>2

LEMMA ProceedsMoves ==
  ASSUME EscrowInv, EscrowInv', NEW r \in RequestIds, Proceeds(r), QuoteKept(r)
  PROVE  Moves(r)
<1> SUFFICES ASSUME WasFunded(requests[r])
             PROVE  /\ Steady(r)
                    /\ milestoneStateVersion'[r] = milestoneStateVersion[r] =>
                         /\ TermsKept(r) /\ nextMilestoneId'[r] = nextMilestoneId[r]
                         /\ \A m \in MilestoneIds : milestones'[r][m].status = milestones[r][m].status
  BY DEF Moves
<1>1. IInv
  BY DEF EscrowInv, AllInv
<1>2. Steady(r) /\ TermsKept(r)
  BY <1>1, ProceedsSteady
<1>3. nextMilestoneId'[r] = nextMilestoneId[r]
  <2>1. EscrowInv' => (\A q \in RequestIds : nextMilestoneId[q] = Len(executionOrder[q]))'
    BY OrderLengths, PTL
  <2>2. QED BY <1>2, <2>1, OrderLengths DEF TermsKept
<1>4. ASSUME milestoneStateVersion'[r] = milestoneStateVersion[r]
      PROVE  \A m \in MilestoneIds : milestones'[r][m].status = milestones[r][m].status
  <2>1. milestoneStateVersion[r] \in Nat
    BY <1>1, StateTypes
  <2>2. QuotedTerms(r)' = QuotedTerms(r)
    BY <1>4, <2>1 DEF QuoteKept
  <2>3. QED BY <1>1, <2>2, SameStatuses
<1>5. QED BY <1>2, <1>3, <1>4

LEMMA SameMoves ==
  ASSUME IInv, NEW r \in RequestIds, Same(r)
  PROVE  Moves(r)
BY StateTypes DEF Same, Moves, Steady, TermsKept

(* A step the escrow takes anyway.                                          *)
LEMMA StepMoves ==
  ASSUME EscrowInv, [Next]_vars, NEW r \in RequestIds, Proceeds(r)
  PROVE  Moves(r)
<1>1. EscrowInv'
  BY EscrowStepOK
<1>2. QuoteKept(r)
  BY EveryStepRight DEF EscrowInv, AllInv, Right
<1>3. QED BY <1>1, <1>2, ProceedsMoves

LEMMA PaidAmendmentMoves ==
  ASSUME EscrowInv, NEW r \in RequestIds, NEW newDeadline \in Deadlines,
         NEW existing \in Fundings(r), NEW additions \in Additions(r), NEW operational \in Nat,
         PaidAmendment(r, newDeadline, existing, additions, operational)
  PROVE  \A q \in RequestIds : Moves(q) /\ (q # r => Same(q))
<1>1. IInv /\ Amends(r, newDeadline, existing, additions, operational)
  BY DEF EscrowInv, AllInv, PaidAmendment
<1>2. ASSUME NEW q \in RequestIds, q # r PROVE Same(q)
  BY <1>1, <1>2, AmendsOne
<1>3. Moves(r)
  BY <1>1, AmendmentSteady DEF Moves, Steady
<1>4. QED BY <1>1, <1>2, <1>3, SameMoves

LEMMA BesideMoves ==
  ASSUME EscrowInv, BesideTheEscrow, NEW r \in RequestIds
  PROVE  Moves(r) /\ Same(r)
<1>1. Same(r)
  BY DEF BesideTheEscrow, Same, workVars
<1>2. QED BY <1>1, SameMoves DEF EscrowInv, AllInv

-----------------------------------------------------------------------------
(* Part II.  The negotiations.                                              *)

ExistingFundings == {<<>>} \cup UNION { [{m} -> FundingAmounts] : m \in MilestoneIds }
AnyAddition == [insertBefore : {AppendMilestoneId} \cup MilestoneIds, amount : FundingAmounts]
AnyAdditions == {<<>>} \cup [1 .. 1 -> AnyAddition] \cup [1 .. 2 -> AnyAddition]

Amendments ==
  [requester : Users, responder : Users \cup {NoUser}, previousDeadline : Nat,
   proposedDeadline : Deadlines, existing : ExistingFundings, additions : AnyAdditions,
   additionalFunding : Nat, operationalAllowance : Nat, responseDeadline : Nat,
   status : AmendmentStatus, responseAllowance : Nat, responseAllowanceSpent : Nat,
   responseReimbursed : BOOLEAN, responseGasPriceCap : Nat]

Slots == [kind : {"None", "Amendment", "Cancellation"}, id : Nat, milestoneStateVersion : Nat]

NegotiationTypes ==
  /\ activeNegotiation \in [RequestIds -> Slots]
  /\ amendmentRequests \in [RequestIds -> Seq(Amendments)]
  /\ cancellationRequests \in [RequestIds -> Seq(Cancellations)]

(* A record is pending exactly while it has the slot.                       *)
SlotOK(r) ==
  /\ \A a \in DOMAIN amendmentRequests[r] :
       amendmentRequests[r][a].status = "Pending" <=> IsActiveNegotiation(r, "Amendment", a)
  /\ \A c \in DOMAIN cancellationRequests[r] :
       cancellationRequests[r][c].status = "Pending" <=> IsActiveNegotiation(r, "Cancellation", c)
  /\ activeNegotiation[r].kind = "Amendment" =>
       activeNegotiation[r].id \in DOMAIN amendmentRequests[r]
  /\ activeNegotiation[r].kind = "Cancellation" =>
       activeNegotiation[r].id \in DOMAIN cancellationRequests[r]

PendingOK(amendment) ==
  amendment.status = "Pending" =>
    /\ amendment.responder \in Users
    /\ amendment.responseAllowanceSpent = 0
    /\ amendment.additionalFunding = Allocated(amendment.existing, amendment.additions)

(* Under the pinned version, what was validated still is valid.             *)
PinnedOK(r) ==
  activeNegotiation[r].kind = "Amendment" =>
    /\ activeNegotiation[r].milestoneStateVersion <= milestoneStateVersion[r]
    /\ activeNegotiation[r].milestoneStateVersion = milestoneStateVersion[r] =>
         \A amendment \in Amendments :
           amendment = amendmentRequests[r][activeNegotiation[r].id] => StillValid(r, amendment)

Negotiated(r) ==
  /\ amendmentRequests[r] # <<>> => WasFunded(requests[r])
  /\ \A a \in DOMAIN amendmentRequests[r] : PendingOK(amendmentRequests[r][a])
  /\ SlotOK(r) /\ PinnedOK(r)

NegotiationInv == NegotiationTypes /\ \A r \in RequestIds : Negotiated(r)

LEMMA NegotiationInitOK == ChainInit => NegotiationInv
BY DEF ChainInit, NegotiationInv, NegotiationTypes, Negotiated, SlotOK, PinnedOK, PendingOK,
       NoNegotiation, Slots, IsActiveNegotiation

(* What is valid against the milestones as they are is an amendment the     *)
(* escrow can be given.                                                     *)
LEMMA ValidTerms ==
  ASSUME NEW r \in RequestIds, NEW amendment \in Amendments,
         ValidAllocations(r, amendment.existing, amendment.additions)
  PROVE  /\ amendment.existing \in Fundings(r) /\ amendment.additions \in Additions(r)
         /\ ManagerValidated(r, amendment.existing, amendment.additions)
<1> DEFINE existing == amendment.existing
           additions == amendment.additions
<1>1. existing \in ExistingFundings /\ additions \in AnyAdditions
  BY DEF Amendments
<1>2. /\ \A m \in DOMAIN existing : MilestoneExists(r, m)
      /\ ManagerValidated(r, existing, additions)
  BY DEF ValidAllocations
<1> HIDE DEF existing, additions
<1>3. existing \in Fundings(r)
  <2>1. CASE existing = <<>>
    BY <2>1 DEF Fundings
  <2>2. CASE existing # <<>>
    <3>1. PICK m \in MilestoneIds : existing \in [{m} -> FundingAmounts]
      BY <1>1, <2>2 DEF ExistingFundings
    <3>2. m < nextMilestoneId[r]
      BY <1>2, <3>1 DEF MilestoneExists
    <3>3. QED BY <3>1, <3>2 DEF Fundings
  <2>3. QED BY <2>1, <2>2
<1>4. additions \in Additions(r)
  <2>1. ASSUME NEW j \in DOMAIN additions, additions[j] \in AnyAddition
        PROVE  additions[j] \in Addition(r)
    <3>1. \/ additions[j].insertBefore = AppendMilestoneId
          \/ MilestoneExists(r, additions[j].insertBefore)
      BY <1>2 DEF ManagerValidated
    <3>2. QED BY <2>1, <3>1 DEF MilestoneExists, AnyAddition, Addition
  <2>2. CASE additions = <<>>
    BY <2>2 DEF Additions
  <2>3. CASE additions \in [1 .. 1 -> AnyAddition]
    BY <2>1, <2>3 DEF Additions
  <2>4. CASE additions \in [1 .. 2 -> AnyAddition]
    BY <2>1, <2>4 DEF Additions
  <2>5. QED BY <1>1, <2>2, <2>3, <2>4 DEF AnyAdditions
<1>5. QED BY <1>2, <1>3, <1>4 DEF existing, additions

LEMMA InputsAreTerms ==
  ASSUME NEW r \in RequestIds
  PROVE  Fundings(r) \subseteq ExistingFundings /\ Additions(r) \subseteq AnyAdditions
<1>1. Addition(r) \subseteq AnyAddition
  BY DEF Addition, AnyAddition
<1>2. Fundings(r) \subseteq ExistingFundings
  BY DEF Fundings, ExistingFundings
<1>3. /\ [1 .. 1 -> Addition(r)] \subseteq [1 .. 1 -> AnyAddition]
      /\ [1 .. 2 -> Addition(r)] \subseteq [1 .. 2 -> AnyAddition]
  BY <1>1
<1>4. QED BY <1>2, <1>3 DEF Additions, AnyAdditions

(* Validity is a matter of the statuses, the order and the deadline.        *)
LEMMA StillValidKept ==
  ASSUME NEW r \in RequestIds, NEW amendment \in Amendments, StillValid(r, amendment),
         TermsKept(r), nextMilestoneId'[r] = nextMilestoneId[r],
         \A m \in MilestoneIds : milestones'[r][m].status = milestones[r][m].status
  PROVE  StillValid(r, amendment)'
<1> DEFINE existing == amendment.existing
           additions == amendment.additions
<1>1. /\ \A m \in DOMAIN existing :
           existing[m] > 0 /\ MilestoneExists(r, m) /\ milestones[r][m].status # "Paid"
      /\ Len(executionOrder[r]) + Len(additions) <= MaxTotalMilestones
      /\ ManagerValidated(r, existing, additions)
      /\ requests[r].deadline = amendment.previousDeadline
  BY DEF StillValid, ValidAllocations
<1>2. executionOrder'[r] = executionOrder[r] /\ requests'[r].deadline = requests[r].deadline
  BY DEF TermsKept
<1>3. \A m : MilestoneExists(r, m) => MilestoneExists(r, m)' /\ m \in MilestoneIds
  BY DEF MilestoneExists
<1>4. \A t : InsertionIndex(executionOrder'[r], t) = InsertionIndex(executionOrder[r], t)
  BY <1>2
<1>5. ManagerValidated(r, existing, additions)'
  BY <1>1, <1>3, <1>4 DEF ManagerValidated
<1>6. \A m \in DOMAIN existing :
        existing[m] > 0 /\ MilestoneExists(r, m)' /\ milestones'[r][m].status # "Paid"
  BY <1>1, <1>3
<1>7. QED BY <1>1, <1>2, <1>5, <1>6 DEF StillValid, ValidAllocations

-----------------------------------------------------------------------------
(* What happens to the negotiations of one shipment.                        *)

NegotiationSame(r) ==
  /\ activeNegotiation'[r] = activeNegotiation[r]
  /\ amendmentRequests'[r] = amendmentRequests[r]
  /\ cancellationRequests'[r] = cancellationRequests[r]

(* A record is added or one is answered, of either kind.                    *)
Answered(list, list2, n) ==
  /\ n \in DOMAIN list /\ DOMAIN list2 = DOMAIN list
  /\ list2[n].status # "Pending"
  /\ \A k \in DOMAIN list : k # n => list2[k] = list[k]

LEMMA NegotiationsKept ==
  ASSUME NegotiationTypes, NEW r \in RequestIds, Negotiated(r), Moves(r), NegotiationSame(r)
  PROVE  Negotiated(r)'
<1>1. /\ amendmentRequests'[r] # <<>> => WasFunded(requests'[r])
      /\ \A a \in DOMAIN amendmentRequests'[r] : PendingOK(amendmentRequests'[r][a])
  BY DEF Negotiated, NegotiationSame, Moves, Steady
<1>2. SlotOK(r)'
  BY DEF Negotiated, NegotiationSame, SlotOK, IsActiveNegotiation
<1>3. ASSUME activeNegotiation[r].kind = "Amendment"
      PROVE  activeNegotiation[r].milestoneStateVersion <= milestoneStateVersion'[r]
  <2>1. amendmentRequests[r] # <<>>
    BY <1>3 DEF Negotiated, SlotOK, NegotiationTypes
  <2>2. Steady(r)
    BY <2>1 DEF Negotiated, Moves
  <2>3. QED BY <1>3, <2>2 DEF NegotiationTypes, Slots, Steady, Negotiated, PinnedOK
<1>4. ASSUME activeNegotiation[r].kind = "Amendment",
             activeNegotiation[r].milestoneStateVersion = milestoneStateVersion'[r],
             NEW amendment \in Amendments,
             amendment = amendmentRequests[r][activeNegotiation[r].id]
      PROVE  StillValid(r, amendment)'
  <2>1. amendmentRequests[r] # <<>>
    BY <1>4 DEF Negotiated, SlotOK, NegotiationTypes
  <2>2. /\ Steady(r)
        /\ milestoneStateVersion'[r] = milestoneStateVersion[r] =>
             /\ TermsKept(r) /\ nextMilestoneId'[r] = nextMilestoneId[r]
             /\ \A m \in MilestoneIds : milestones'[r][m].status = milestones[r][m].status
    BY <2>1 DEF Negotiated, Moves
  <2>3. milestoneStateVersion'[r] = milestoneStateVersion[r]
    BY <1>4, <2>2 DEF NegotiationTypes, Slots, Steady, Negotiated, PinnedOK
  <2>4. StillValid(r, amendment)
    BY <1>4, <2>3 DEF Negotiated, PinnedOK
  <2>5. QED BY <2>2, <2>3, <2>4, StillValidKept
<1>5. PinnedOK(r)'
  <2>1. /\ activeNegotiation'[r] = activeNegotiation[r]
        /\ amendmentRequests'[r] = amendmentRequests[r]
    BY DEF NegotiationSame
  <2>2. QED BY <1>3, <1>4, <2>1 DEF PinnedOK
<1>6. QED BY <1>1, <1>2, <1>5 DEF Negotiated

LEMMA AmendmentAdded ==
  ASSUME NegotiationTypes, NEW r \in RequestIds, Negotiated(r), activeNegotiation[r].kind = "None",
         WasFunded(requests'[r]), milestoneStateVersion'[r] \in Nat,
         NEW new \in Amendments, PendingOK(new),
         amendmentRequests'[r] = Append(amendmentRequests[r], new),
         cancellationRequests'[r] = cancellationRequests[r],
         IF new.status = "Pending"
         THEN /\ activeNegotiation'[r] = [kind |-> "Amendment", id |-> Len(amendmentRequests[r]) + 1,
                                          milestoneStateVersion |-> milestoneStateVersion'[r]]
              /\ StillValid(r, new)'
         ELSE activeNegotiation'[r] = activeNegotiation[r]
  PROVE  Negotiated(r)'
<1> DEFINE list == amendmentRequests[r]
           n == Len(amendmentRequests[r]) + 1
<1>1. /\ list \in Seq(Amendments) /\ n \in Nat /\ n \notin DOMAIN list
      /\ DOMAIN amendmentRequests'[r] = 1 .. n /\ amendmentRequests'[r][n] = new
      /\ \A a \in DOMAIN list : amendmentRequests'[r][a] = list[a] /\ a \in 1 .. n
      /\ \A a \in 1 .. n : a = n \/ a \in DOMAIN list
  BY DEF NegotiationTypes
<1>2. \A a \in DOMAIN list : list[a].status # "Pending" /\ PendingOK(list[a])
  BY DEF Negotiated, SlotOK, IsActiveNegotiation
<1>3. \A c \in DOMAIN cancellationRequests[r] : cancellationRequests[r][c].status # "Pending"
  BY DEF Negotiated, SlotOK, IsActiveNegotiation
<1> HIDE DEF n
<1>4. \A a \in DOMAIN amendmentRequests'[r] : PendingOK(amendmentRequests'[r][a])
  BY <1>1, <1>2
<1>5. SlotOK(r)' /\ PinnedOK(r)'
  <2>1. CASE new.status = "Pending"
    <3>1. /\ activeNegotiation'[r].kind = "Amendment" /\ activeNegotiation'[r].id = n
          /\ activeNegotiation'[r].milestoneStateVersion = milestoneStateVersion'[r]
          /\ StillValid(r, new)'
      BY <2>1 DEF n
    <3>2. SlotOK(r)'
      BY <1>1, <1>2, <1>3, <2>1, <3>1 DEF SlotOK, IsActiveNegotiation
    <3>3. amendmentRequests'[r][activeNegotiation'[r].id] = new
      BY <1>1, <3>1
    <3>4. PinnedOK(r)'
      BY <3>1, <3>3 DEF PinnedOK
    <3>5. QED BY <3>2, <3>4
  <2>2. CASE new.status # "Pending"
    <3>1. activeNegotiation'[r].kind = "None"
      BY <2>2
    <3>2. SlotOK(r)'
      BY <1>1, <1>2, <1>3, <2>2, <3>1 DEF SlotOK, IsActiveNegotiation
    <3>3. PinnedOK(r)'
      BY <3>1 DEF PinnedOK
    <3>4. QED BY <3>2, <3>3
  <2>3. QED BY <2>1, <2>2
<1>6. QED BY <1>4, <1>5 DEF Negotiated

LEMMA AmendmentAnswered ==
  ASSUME NegotiationTypes, NEW r \in RequestIds, Negotiated(r), WasFunded(requests'[r]),
         NEW a, IsActiveNegotiation(r, "Amendment", a), activeNegotiation'[r] = NoNegotiation,
         Answered(amendmentRequests[r], amendmentRequests'[r], a),
         cancellationRequests'[r] = cancellationRequests[r]
  PROVE  Negotiated(r)'
<1>1. activeNegotiation'[r].kind = "None"
  BY DEF NoNegotiation
<1>2. \A k \in DOMAIN amendmentRequests'[r] :
        amendmentRequests'[r][k].status # "Pending"
  BY DEF Answered, Negotiated, SlotOK, IsActiveNegotiation
<1>3. \A c \in DOMAIN cancellationRequests[r] : cancellationRequests[r][c].status # "Pending"
  BY DEF Negotiated, SlotOK, IsActiveNegotiation
<1>4. SlotOK(r)' /\ PinnedOK(r)'
  BY <1>1, <1>2, <1>3 DEF SlotOK, PinnedOK, IsActiveNegotiation
<1>5. QED BY <1>2, <1>4 DEF Negotiated, PendingOK

LEMMA CancellationAdded ==
  ASSUME NegotiationTypes, NEW r \in RequestIds, Negotiated(r), activeNegotiation[r].kind = "None",
         WasFunded(requests'[r]), NEW new, new.status = "Pending",
         activeNegotiation'[r].kind = "Cancellation",
         activeNegotiation'[r].id = Len(cancellationRequests[r]) + 1,
         cancellationRequests'[r] = Append(cancellationRequests[r], new),
         amendmentRequests'[r] = amendmentRequests[r]
  PROVE  Negotiated(r)'
<1> DEFINE list == cancellationRequests[r]
           n == Len(cancellationRequests[r]) + 1
<1>1. /\ list \in Seq(Cancellations) /\ n \in Nat /\ n \notin DOMAIN list
      /\ DOMAIN cancellationRequests'[r] = 1 .. n /\ cancellationRequests'[r][n] = new
      /\ \A a \in DOMAIN list : cancellationRequests'[r][a] = list[a] /\ a \in 1 .. n
      /\ \A a \in 1 .. n : a = n \/ a \in DOMAIN list
  BY DEF NegotiationTypes
<1>2. /\ \A a \in DOMAIN amendmentRequests[r] :
           amendmentRequests[r][a].status # "Pending" /\ PendingOK(amendmentRequests[r][a])
      /\ \A c \in DOMAIN list : list[c].status # "Pending"
  BY DEF Negotiated, SlotOK, IsActiveNegotiation
<1>3. activeNegotiation'[r].id = n
  OBVIOUS
<1> HIDE DEF n
<1>4. SlotOK(r)'
  BY <1>1, <1>2, <1>3 DEF SlotOK, IsActiveNegotiation
<1>5. PinnedOK(r)'
  BY DEF PinnedOK
<1>6. QED BY <1>2, <1>4, <1>5 DEF Negotiated

LEMMA CancellationAnswered ==
  ASSUME NegotiationTypes, NEW r \in RequestIds, Negotiated(r), Moves(r),
         NEW c, IsActiveNegotiation(r, "Cancellation", c), activeNegotiation'[r] = NoNegotiation,
         Answered(cancellationRequests[r], cancellationRequests'[r], c),
         amendmentRequests'[r] = amendmentRequests[r]
  PROVE  Negotiated(r)'
<1>1. activeNegotiation'[r].kind = "None"
  BY DEF NoNegotiation
<1>2. \A k \in DOMAIN cancellationRequests'[r] :
        cancellationRequests'[r][k].status # "Pending"
  BY DEF Answered, Negotiated, SlotOK, IsActiveNegotiation
<1>3. \A a \in DOMAIN amendmentRequests[r] :
        amendmentRequests[r][a].status # "Pending" /\ PendingOK(amendmentRequests[r][a])
  BY DEF Negotiated, SlotOK, IsActiveNegotiation
<1>4. SlotOK(r)' /\ PinnedOK(r)'
  BY <1>1, <1>2, <1>3 DEF SlotOK, PinnedOK, IsActiveNegotiation
<1>5. QED BY <1>3, <1>4 DEF Negotiated, Moves, Steady

-----------------------------------------------------------------------------
(* What each call of the manager is, to the escrow and to its own records.  *)

LEMMA NewAmendmentOK ==
  ASSUME IInv, NEW r \in RequestIds, NegotiableShipment(r), NEW who \in Participants(r),
         NEW newDeadline \in Deadlines, NEW existing \in Fundings(r), NEW additions \in Additions(r)
  PROVE  LET new == NewAmendment(r, who, newDeadline, existing, additions)
         IN  /\ new \in Amendments /\ new.responder \in Users /\ new.requester = who
             /\ new.additionalFunding = Allocated(new.existing, new.additions)
             /\ new.existing = existing /\ new.additions = additions
             /\ new.status = "Pending" /\ new.responseAllowanceSpent = 0
             /\ new.previousDeadline = requests[r].deadline
             /\ new.proposedDeadline = newDeadline
             /\ new.operationalAllowance = Len(additions) * ProofReserve(requests[r].gasPriceCap)
             /\ WasFunded(requests[r])
<1> DEFINE reserve == Len(additions) * ProofReserve(requests[r].gasPriceCap)
           funding == Allocated(existing, additions)
<1>1. /\ requests[r].shipper \in Users /\ requests[r].carrier \in Users
      /\ requests[r] \in Requests /\ WasFunded(requests[r])
  BY FundedFacts DEF NegotiableShipment
<1>2. who \in Users /\ Counterparty(r, who) \in Users
  BY <1>1 DEF Participants, Counterparty
<1>3. reserve \in Nat /\ funding \in Nat
  BY ReserveOfAdditionsIsNat, AllocatedIsNat
<1>4. existing \in ExistingFundings /\ additions \in AnyAdditions
  BY InputsAreTerms
<1>5. requests[r].deadline \in Nat /\ now \in Nat
  BY <1>1 DEF Requests, IInv, ClockOK
<1> HIDE DEF reserve, funding
<1>6. NewAmendment(r, who, newDeadline, existing, additions) =
        [requester |-> who, responder |-> Counterparty(r, who),
         previousDeadline |-> requests[r].deadline, proposedDeadline |-> newDeadline,
         existing |-> existing, additions |-> additions,
         additionalFunding |-> funding, operationalAllowance |-> reserve,
         responseDeadline |-> now, status |-> "Pending", responseAllowance |-> 0,
         responseAllowanceSpent |-> 0, responseReimbursed |-> FALSE, responseGasPriceCap |-> 0]
  BY DEF NewAmendment, reserve, funding
<1>7. QED BY <1>1, <1>2, <1>3, <1>4, <1>5, <1>6 DEF Amendments, AmendmentStatus, funding, reserve

LEMMA MinimumIsPositive == MinimumResponseAllowance(1) \in Nat \ {0}
<1>1. ResponseGasUnitCap + ResponseOverhead \in Nat \ {0} /\ CargoPerEth \in Nat \ {0}
  BY NegotiationAssumption, NumberAssumption
<1>2. \A x, y \in Nat \ {0} : x * 1 * y \in Nat \ {0}
  OBVIOUS
<1>3. QED BY <1>1, <1>2 DEF MinimumResponseAllowance

LEMMA QuotientIsNat ==
  ASSUME NEW a \in Nat, NEW b \in Nat \ {0}
  PROVE  a \div b \in Nat
OBVIOUS

(* A new amendment: CARGO goes from the requester to the manager.           *)
LEMMA RequestAmendmentFacts ==
  ASSUME EscrowInv, NEW r \in RequestIds, NEW who \in Users, NEW proposedDeadline \in Deadlines,
         NEW responseDeadline \in Deadlines, NEW existing \in Fundings(r),
         NEW additions \in Additions(r), NEW price, NEW allowance \in ResponseAllowances,
         RequestAmendment(r, who, proposedDeadline, responseDeadline,
                          existing, additions, price, allowance)
  PROVE  /\ BesideTheEscrow /\ WasFunded(requests[r]) /\ UNCHANGED cancellationRequests
         /\ activeNegotiation[r].kind = "None"
         /\ \E new \in Amendments :
              /\ amendmentRequests' =
                   [amendmentRequests EXCEPT ![r] = Append(amendmentRequests[r], new)]
              /\ activeNegotiation' = [activeNegotiation EXCEPT ![r] =
                   [kind |-> "Amendment", id |-> Len(amendmentRequests[r]) + 1,
                    milestoneStateVersion |-> milestoneStateVersion[r]]]
              /\ new.status = "Pending" /\ PendingOK(new) /\ StillValid(r, new)
              /\ StakeOf(r, new) \in Nat /\ cargo'[Manager] = cargo[Manager] + StakeOf(r, new)
<1> DEFINE base == NewAmendment(r, who, proposedDeadline, existing, additions)
           cap  == allowance \div MinimumResponseAllowance(1)
           new  == [base EXCEPT !.responseDeadline = responseDeadline,
                                !.responseAllowance = allowance, !.responseGasPriceCap = cap]
           owed == Allocated(existing, additions)
                     + Len(additions) * ProofReserve(requests[r].gasPriceCap)
           staged == (IF who = requests[r].shipper THEN owed ELSE 0) + allowance
<1>1. IInv /\ cargo \in [Accounts -> Nat]
  BY DEF EscrowInv, AllInv, IInv, PoolOK
<1>2. /\ NegotiableShipment(r) /\ who \in Participants(r)
      /\ ValidAllocations(r, existing, additions)
  BY DEF RequestAmendment, AmendmentTerms
<1>3. /\ cargo' = Transfer(cargo, who, Manager, staged) /\ staged <= cargo[who]
      /\ UNCHANGED <<now, requests, tipAmounts, marketVars, workVars, totalEscrowed, lockedEscrow>>
      /\ UNCHANGED cancellationRequests
  <2>1. /\ cargo' = Transfer(cargo, who, Manager, staged) /\ cargo[who] >= staged
        /\ UNCHANGED <<now, requests, tipAmounts, marketVars, workVars, totalEscrowed, lockedEscrow,
                       cancellationRequests>>
    BY DEF RequestAmendment
  <2> HIDE DEF staged
  <2>2. QED BY <2>1
<1>4. /\ activeNegotiation[r].kind = "None"
      /\ activeNegotiation' = [activeNegotiation EXCEPT ![r] =
           [kind |-> "Amendment", id |-> Len(amendmentRequests[r]) + 1,
            milestoneStateVersion |-> milestoneStateVersion[r]]]
      /\ amendmentRequests' = [amendmentRequests EXCEPT ![r] = Append(amendmentRequests[r], new)]
  BY DEF RequestAmendment, OpenNegotiation
<1>5. /\ base \in Amendments /\ base.responder \in Users /\ base.requester = who
      /\ base.additionalFunding = Allocated(base.existing, base.additions)
      /\ base.existing = existing /\ base.additions = additions
      /\ base.status = "Pending" /\ base.responseAllowanceSpent = 0
      /\ base.previousDeadline = requests[r].deadline
      /\ base.operationalAllowance = Len(additions) * ProofReserve(requests[r].gasPriceCap)
      /\ WasFunded(requests[r])
  BY <1>1, <1>2, NewAmendmentOK
<1>6. allowance \in Nat /\ responseDeadline \in Nat /\ cap \in Nat
  <2>1. allowance \in Nat /\ responseDeadline \in Nat
    BY NegotiationAssumption, InputAssumption
  <2>2. QED BY <2>1, MinimumIsPositive, QuotientIsNat
<1>7. owed \in Nat
  <2>1. /\ Allocated(existing, additions) \in Nat
        /\ Len(additions) * ProofReserve(requests[r].gasPriceCap) \in Nat
    BY <1>1, AllocatedIsNat, ReserveOfAdditionsIsNat
  <2>2. \A x, y \in Nat : x + y \in Nat
    OBVIOUS
  <2>3. QED BY <2>1, <2>2
<1>8. base.additionalFunding + base.operationalAllowance = owed
  BY <1>5
<1> HIDE DEF base, cap, owed
<1>9. staged \in Nat
  BY <1>6, <1>7
<1>10. /\ new \in Amendments /\ new.status = "Pending" /\ new.responder \in Users
       /\ new.responseAllowanceSpent = 0 /\ new.responseAllowance = allowance
       /\ new.requester = who /\ new.existing = existing /\ new.additions = additions
       /\ new.additionalFunding = base.additionalFunding
       /\ new.operationalAllowance = base.operationalAllowance
       /\ new.previousDeadline = requests[r].deadline
  BY <1>5, <1>6 DEF Amendments
<1> HIDE DEF new
<1>11. PendingOK(new) /\ StillValid(r, new)
  BY <1>2, <1>5, <1>10 DEF PendingOK, StillValid
<1>12. StakeOf(r, new) = staged
  <2>1. StagedFunding(r, new) = IF who = requests[r].shipper THEN owed ELSE 0
    BY <1>8, <1>10 DEF StagedFunding
  <2>2. StakeOf(r, new) = StagedFunding(r, new) + allowance - 0
    BY <1>10 DEF StakeOf
  <2>3. QED BY <1>6, <1>7, <2>1, <2>2
<1> HIDE DEF staged
<1>13. who \in Accounts /\ Manager \in Accounts /\ who # Manager /\ Escrow \notin {who, Manager}
       /\ Escrow \in Accounts
  BY AccountAssumption DEF Accounts
<1>14. /\ cargo' \in [Accounts -> Nat] /\ cargo'[Escrow] = cargo[Escrow]
       /\ cargo'[Manager] = cargo[Manager] + staged
  BY <1>1, <1>3, <1>9, <1>13, TransferMoves
<1>15. BesideTheEscrow
  BY <1>3, <1>14 DEF BesideTheEscrow
<1>16. QED BY <1>3, <1>4, <1>5, <1>9, <1>10, <1>11, <1>12, <1>14, <1>15

LEMMA ReimbursementWithin ==
  ASSUME NEW amendment \in Amendments, amendment.responseAllowanceSpent = 0,
         NEW gas \in Nat, NEW price \in Nat
  PROVE  /\ ResponseReimbursement(amendment, gas, price) \in Nat
         /\ ResponseReimbursement(amendment, gas, price) <= amendment.responseAllowance
<1> DEFINE units == Smaller(gas + ResponseOverhead, ResponseGasUnitCap)
           rate  == Smaller(price, amendment.responseGasPriceCap)
           owed  == units * rate * CargoPerEth
           least == Smaller(owed, MaxResponseReimbursement)
           left  == amendment.responseAllowance - amendment.responseAllowanceSpent
<1>1. /\ amendment.responseAllowance \in Nat /\ amendment.responseGasPriceCap \in Nat
      /\ left = amendment.responseAllowance
  BY DEF Amendments
<1>2. /\ ResponseOverhead \in Nat /\ ResponseGasUnitCap \in Nat /\ CargoPerEth \in Nat
      /\ MaxResponseReimbursement \in Nat /\ gas + ResponseOverhead \in Nat
  BY NegotiationAssumption, NumberAssumption
<1>3. units \in Nat /\ rate \in Nat
  BY <1>1, <1>2, SmallerIsNat
<1> HIDE DEF units, rate, left
<1>4. owed \in Nat
  BY <1>2, <1>3, TimesNat
<1> HIDE DEF owed
<1>5. least \in Nat
  BY <1>2, <1>4, SmallerIsNat
<1> HIDE DEF least
<1>6. ResponseReimbursement(amendment, gas, price) = Smaller(least, left)
  BY DEF ResponseReimbursement, least, owed, units, rate, left
<1>7. QED BY <1>1, <1>5, <1>6, SmallerIsNat

(* The end of an amendment: what was staged leaves the manager.             *)
LEMMA StagedReturned ==
  ASSUME NegotiationTypes, NEW r \in RequestIds, requests[r].shipper \in Users,
         NEW a \in DOMAIN amendmentRequests[r],
         NEW amendment \in Amendments, amendment = amendmentRequests[r][a],
         amendment.status = "Pending", PendingOK(amendment),
         NEW outcome \in AmendmentStatus \ {"Pending"},
         NEW reimbursed \in Nat, reimbursed <= amendment.responseAllowance,
         NEW balances \in [Accounts -> Nat],
         NEW returned \in Nat, returned = IF outcome = "Accepted" THEN 0 ELSE StagedFunding(r, amendment),
         returned + amendment.responseAllowance <= balances[Manager],
         ReturnStaged(r, a, outcome, reimbursed, balances)
  PROVE  /\ cargo' \in [Accounts -> Nat] /\ cargo'[Escrow] = balances[Escrow]
         /\ cargo'[Manager] = balances[Manager] - (returned + amendment.responseAllowance)
         /\ amendmentRequests' \in [RequestIds -> Seq(Amendments)]
         /\ \A q \in RequestIds : q # r => amendmentRequests'[q] = amendmentRequests[q]
         /\ Answered(amendmentRequests[r], amendmentRequests'[r], a)
         /\ amendmentRequests'[r][a].status = outcome
<1> DEFINE list == amendmentRequests[r]
           new  == [amendment EXCEPT !.status = outcome,
                      !.responseAllowanceSpent = amendment.responseAllowance,
                      !.responseReimbursed = (outcome \in {"Accepted", "Rejected"}
                                                /\ amendment.responseAllowance > 0)]
           allowance == amendment.responseAllowance
           unused   == UnusedAllowance(amendment, reimbursed)
           paidBack == IF reimbursed > 0
                       THEN Transfer(balances, Manager, amendment.responder, reimbursed) ELSE balances
           refunded == Transfer(paidBack, Manager, requests[r].shipper, returned)
<1>1. amendmentRequests \in [RequestIds -> Seq(Amendments)] /\ list \in Seq(Amendments)
  BY DEF NegotiationTypes
<1>2. amendmentRequests' = [amendmentRequests EXCEPT ![r] = [list EXCEPT ![a] = new]]
  BY <1>1 DEF ReturnStaged
<1>3. new \in Amendments /\ new.status = outcome
  BY DEF Amendments
<1>4. /\ allowance \in Nat /\ unused = allowance - reimbursed /\ unused \in Nat
      /\ amendment.responder \in Users /\ amendment.requester \in Users
  <2>1. /\ amendment.responseAllowance \in Nat /\ amendment.requester \in Users
        /\ amendment.responseAllowanceSpent = 0 /\ amendment.responder \in Users
    BY DEF Amendments, PendingOK
  <2>2. QED BY <2>1 DEF UnusedAllowance
<1> HIDE DEF new
<1>5. /\ amendmentRequests' \in [RequestIds -> Seq(Amendments)]
      /\ \A q \in RequestIds : q # r => amendmentRequests'[q] = amendmentRequests[q]
      /\ amendmentRequests'[r] = [list EXCEPT ![a] = new]
  <2>1. [list EXCEPT ![a] = new] \in Seq(Amendments)
    BY <1>1, <1>3
  <2>2. QED BY <1>1, <1>2, <2>1
<1>6. Answered(list, amendmentRequests'[r], a) /\ amendmentRequests'[r][a].status = outcome
  BY <1>1, <1>3, <1>5 DEF Answered
<1>7. cargo' = Transfer(refunded, Manager, amendment.requester, unused)
  BY DEF ReturnStaged
<1> HIDE DEF unused, refunded, list
<1>8. /\ requests[r].shipper \in Accounts /\ amendment.responder \in Accounts
      /\ amendment.requester \in Accounts /\ Manager \in Accounts /\ Escrow \in Accounts
      /\ Manager \notin {requests[r].shipper, amendment.responder, amendment.requester, Escrow}
      /\ Escrow \notin {requests[r].shipper, amendment.responder, amendment.requester}
  BY <1>4, AccountAssumption DEF Accounts
<1>9. /\ paidBack \in [Accounts -> Nat] /\ paidBack[Escrow] = balances[Escrow]
      /\ paidBack[Manager] = balances[Manager] - reimbursed
  <2>1. balances[Manager] \in Nat /\ reimbursed <= balances[Manager]
    BY <1>4, <1>8
  <2>2. CASE reimbursed > 0
    <3>1. paidBack = Transfer(balances, Manager, amendment.responder, reimbursed)
      BY <2>2
    <3>2. QED BY <1>8, <2>1, <3>1, TransferMoves
  <2>3. CASE ~(reimbursed > 0)
    BY <2>1, <2>3
  <2>4. QED BY <2>2, <2>3
<1> HIDE DEF paidBack
<1>10. /\ refunded \in [Accounts -> Nat] /\ refunded[Escrow] = balances[Escrow]
       /\ refunded[Manager] = balances[Manager] - reimbursed - returned
  <2>1. returned <= paidBack[Manager] /\ balances[Manager] \in Nat
    BY <1>4, <1>8, <1>9
  <2>2. refunded = Transfer(paidBack, Manager, requests[r].shipper, returned)
    BY DEF refunded
  <2>3. QED BY <1>8, <1>9, <2>1, <2>2, TransferMoves
<1>11. unused <= refunded[Manager] /\ balances[Manager] \in Nat
  BY <1>4, <1>8, <1>10
<1>12. /\ cargo' \in [Accounts -> Nat] /\ cargo'[Escrow] = balances[Escrow]
       /\ cargo'[Manager] = refunded[Manager] - unused
  BY <1>4, <1>7, <1>8, <1>10, <1>11, TransferMoves
<1>13. cargo'[Manager] = balances[Manager] - (returned + allowance)
  BY <1>4, <1>10, <1>11, <1>12
<1>14. QED BY <1>5, <1>6, <1>12, <1>13 DEF list

LEMMA FundedShipper ==
  ASSUME IInv, NEW r \in RequestIds, WasFunded(requests[r])
  PROVE  requests[r].shipper \in Users
<1>1. requests[r] # NoRequest
  BY DEF WasFunded, NoRequest
<1>2. r \in Nat /\ nextRequestId \in Nat
  BY MarketTypes
<1>3. r < nextRequestId
  BY <1>1, <1>2 DEF IInv, RequestsOK
<1>4. QED BY <1>3 DEF IInv, RequestsOK

(* The stakes as amounts.                                                   *)
LEMMA StakeIsNat ==
  ASSUME NEW r, NEW amendment \in Amendments, PendingOK(amendment)
  PROVE  /\ StagedFunding(r, amendment) \in Nat /\ StakeOf(r, amendment) \in Nat
         /\ amendment.responseAllowance \in Nat
         /\ StakeOf(r, amendment) = IF amendment.status = "Pending"
                                    THEN StagedFunding(r, amendment) + amendment.responseAllowance
                                    ELSE 0
<1>1. /\ amendment.additionalFunding \in Nat /\ amendment.operationalAllowance \in Nat
      /\ amendment.responseAllowance \in Nat
  BY DEF Amendments
<1>2. StagedFunding(r, amendment) \in Nat
  BY <1>1 DEF StagedFunding
<1>3. StakeOf(r, amendment) = IF amendment.status = "Pending"
                              THEN StagedFunding(r, amendment) + amendment.responseAllowance ELSE 0
  BY <1>1, <1>2 DEF StakeOf, PendingOK
<1>4. QED BY <1>1, <1>2, <1>3

StakesOn(r) == [a \in DOMAIN amendmentRequests[r] |-> StakeOf(r, amendmentRequests[r][a])]
AllStakes == [r \in RequestIds |-> StakedOn(r)]

LEMMA StakesTyped ==
  ASSUME NegotiationInv
  PROVE  /\ AllStakes \in [RequestIds -> Nat] /\ IsFiniteSet(RequestIds)
         /\ \A r \in RequestIds :
              /\ StakesOn(r) \in [DOMAIN amendmentRequests[r] -> Nat]
              /\ IsFiniteSet(DOMAIN amendmentRequests[r]) /\ StakedOn(r) = SumOver(StakesOn(r))
<1>1. ASSUME NEW r \in RequestIds
      PROVE  /\ StakesOn(r) \in [DOMAIN amendmentRequests[r] -> Nat]
             /\ IsFiniteSet(DOMAIN amendmentRequests[r]) /\ StakedOn(r) = SumOver(StakesOn(r))
             /\ StakedOn(r) \in Nat
  <2>1. amendmentRequests[r] \in Seq(Amendments)
    BY DEF NegotiationInv, NegotiationTypes
  <2>2. ASSUME NEW a \in DOMAIN amendmentRequests[r]
        PROVE  StakeOf(r, amendmentRequests[r][a]) \in Nat
    <3>1. amendmentRequests[r][a] \in Amendments /\ PendingOK(amendmentRequests[r][a])
      BY <2>1 DEF NegotiationInv, Negotiated
    <3>2. QED BY <3>1, StakeIsNat
  <2>3. StakesOn(r) \in [DOMAIN amendmentRequests[r] -> Nat]
    BY <2>2 DEF StakesOn
  <2>4. DOMAIN amendmentRequests[r] = 1 .. Len(amendmentRequests[r])
        /\ Len(amendmentRequests[r]) \in Nat
    BY <2>1
  <2>5. IsFiniteSet(DOMAIN amendmentRequests[r])
    BY <2>4, FS_Interval
  <2>6. StakedOn(r) = SumOver(StakesOn(r))
    BY DEF StakedOn, StakesOn
  <2>7. QED BY <2>3, <2>5, <2>6, SumIsNat
<1>2. AllStakes \in [RequestIds -> Nat]
  BY <1>1 DEF AllStakes
<1>3. QED BY <1>1, <1>2, RequestIdsFinite

(* Every stake can be returned.                                             *)
LEMMA StakeIsHeld ==
  ASSUME NegotiationInv, ManagerHoldsTheStakes, cargo[Manager] \in Nat,
         NEW r \in RequestIds, NEW a \in DOMAIN amendmentRequests[r]
  PROVE  StakeOf(r, amendmentRequests[r][a]) <= cargo[Manager]
<1>1. cargo[Manager] = SumOver(AllStakes)
  BY DEF ManagerHoldsTheStakes, AllStakes
<1>2. StakesOn(r)[a] <= SumOver(StakesOn(r)) /\ StakesOn(r)[a] \in Nat
  BY StakesTyped, TermBelowSum
<1>3. AllStakes[r] <= SumOver(AllStakes) /\ AllStakes[r] = StakedOn(r) /\ AllStakes[r] \in Nat
  <2>1. AllStakes[r] <= SumOver(AllStakes) /\ AllStakes[r] \in Nat
    BY StakesTyped, TermBelowSum
  <2>2. QED BY <2>1 DEF AllStakes
<1>4. StakesOn(r)[a] = StakeOf(r, amendmentRequests[r][a])
  BY DEF StakesOn
<1>5. StakedOn(r) = SumOver(StakesOn(r))
  BY StakesTyped
<1>6. QED BY <1>1, <1>2, <1>3, <1>4, <1>5

(* What the slot says of the amendment that has it.                         *)
LEMMA PendingFacts ==
  ASSUME EscrowInv, NegotiationInv, ManagerHoldsTheStakes, NEW r \in RequestIds, NEW a,
         PendingAmendment(r, a), NEW amendment, amendment = amendmentRequests[r][a]
  PROVE  /\ IInv /\ cargo \in [Accounts -> Nat] /\ cargo[Manager] \in Nat
         /\ a \in DOMAIN amendmentRequests[r] /\ IsActiveNegotiation(r, "Amendment", a)
         /\ amendment \in Amendments /\ PendingOK(amendment) /\ amendment.status = "Pending"
         /\ WasFunded(requests[r]) /\ requests[r].shipper \in Users
         /\ StagedFunding(r, amendment) \in Nat /\ amendment.responseAllowance \in Nat
         /\ StakeOf(r, amendment) = StagedFunding(r, amendment) + amendment.responseAllowance
         /\ StakeOf(r, amendment) <= cargo[Manager]
<1>1. IInv /\ cargo \in [Accounts -> Nat] /\ cargo[Manager] \in Nat
  BY DEF EscrowInv, AllInv, IInv, PoolOK, Accounts
<1>2. /\ a \in DOMAIN amendmentRequests[r] /\ IsActiveNegotiation(r, "Amendment", a)
      /\ amendment.status = "Pending"
  BY DEF PendingAmendment
<1>3. amendmentRequests[r] \in Seq(Amendments) /\ Negotiated(r)
  BY DEF NegotiationInv, NegotiationTypes
<1>4. amendment \in Amendments /\ PendingOK(amendment) /\ WasFunded(requests[r])
  BY <1>2, <1>3 DEF Negotiated
<1>5. requests[r].shipper \in Users
  BY <1>1, <1>4, FundedShipper
<1>6. StakeOf(r, amendment) <= cargo[Manager]
  BY <1>1, <1>2, StakeIsHeld
<1>7. QED BY <1>1, <1>2, <1>4, <1>5, <1>6, StakeIsNat

(* Rejection, withdrawal, expiry.                                           *)
LEMMA ResolveFacts ==
  ASSUME EscrowInv, NegotiationInv, ManagerHoldsTheStakes, NEW r \in RequestIds, NEW a,
         PendingAmendment(r, a), NEW amendment, amendment = amendmentRequests[r][a],
         NEW outcome \in {"Rejected", "Withdrawn", "Expired"},
         NEW reimbursed \in Nat, reimbursed <= amendment.responseAllowance,
         ResolveAmendment(r, a, outcome, reimbursed)
  PROVE  /\ BesideTheEscrow /\ UNCHANGED cancellationRequests
         /\ activeNegotiation' = [activeNegotiation EXCEPT ![r] = NoNegotiation]
         /\ cargo'[Manager] = cargo[Manager] - StakeOf(r, amendment)
         /\ amendmentRequests' \in [RequestIds -> Seq(Amendments)]
         /\ \A q \in RequestIds : q # r => amendmentRequests'[q] = amendmentRequests[q]
         /\ Answered(amendmentRequests[r], amendmentRequests'[r], a)
         /\ amendmentRequests'[r][a].status = outcome
<1>1. /\ cargo \in [Accounts -> Nat] /\ cargo[Manager] \in Nat
      /\ a \in DOMAIN amendmentRequests[r]
      /\ amendment \in Amendments /\ PendingOK(amendment) /\ amendment.status = "Pending"
      /\ requests[r].shipper \in Users
      /\ StagedFunding(r, amendment) \in Nat /\ amendment.responseAllowance \in Nat
      /\ StakeOf(r, amendment) = StagedFunding(r, amendment) + amendment.responseAllowance
      /\ StakeOf(r, amendment) <= cargo[Manager]
  BY PendingFacts
<1>2. /\ ReturnStaged(r, a, outcome, reimbursed, cargo)
      /\ activeNegotiation' = [activeNegotiation EXCEPT ![r] = NoNegotiation]
      /\ UNCHANGED <<now, requests, tipAmounts, marketVars, workVars, totalEscrowed, lockedEscrow>>
      /\ UNCHANGED cancellationRequests
  BY DEF ResolveAmendment, CloseNegotiation
<1>3. PICK balances : balances = cargo
  OBVIOUS
<1>4. PICK returned : returned = StagedFunding(r, amendment)
  OBVIOUS
<1>5. /\ balances \in [Accounts -> Nat] /\ returned \in Nat
      /\ returned = IF outcome = "Accepted" THEN 0 ELSE StagedFunding(r, amendment)
      /\ returned + amendment.responseAllowance <= balances[Manager]
      /\ ReturnStaged(r, a, outcome, reimbursed, balances)
      /\ outcome \in AmendmentStatus \ {"Pending"}
  BY <1>1, <1>2, <1>3, <1>4 DEF AmendmentStatus
<1>6. NegotiationTypes
  BY DEF NegotiationInv
<1>7. /\ cargo' \in [Accounts -> Nat] /\ cargo'[Escrow] = balances[Escrow]
      /\ cargo'[Manager] = balances[Manager] - (returned + amendment.responseAllowance)
      /\ amendmentRequests' \in [RequestIds -> Seq(Amendments)]
      /\ \A q \in RequestIds : q # r => amendmentRequests'[q] = amendmentRequests[q]
      /\ Answered(amendmentRequests[r], amendmentRequests'[r], a)
      /\ amendmentRequests'[r][a].status = outcome
  BY <1>1, <1>5, <1>6, StagedReturned
<1>8. BesideTheEscrow
  BY <1>2, <1>3, <1>7 DEF BesideTheEscrow
<1>9. QED BY <1>1, <1>2, <1>3, <1>4, <1>7, <1>8

(* Acceptance: what is applied was validated against the milestones as they *)
(* are, and the escrow is paid for it.                                      *)
LEMMA AcceptFacts ==
  ASSUME EscrowInv, NegotiationInv, ManagerHoldsTheStakes, NEW r \in RequestIds, NEW a,
         NEW gas \in Nat, NEW price \in Nat, AcceptAmendment(r, a, gas, price),
         NEW amendment, amendment = amendmentRequests[r][a]
  PROVE  /\ amendment \in Amendments /\ StillValid(r, amendment)
         /\ PaidAmendment(r, amendment.proposedDeadline, amendment.existing, amendment.additions,
                          amendment.operationalAllowance)
         /\ amendment.existing \in Fundings(r) /\ amendment.additions \in Additions(r)
         /\ UNCHANGED cancellationRequests
         /\ activeNegotiation' = [activeNegotiation EXCEPT ![r] = NoNegotiation]
         /\ cargo'[Manager] = cargo[Manager] - StakeOf(r, amendment)
         /\ amendmentRequests' \in [RequestIds -> Seq(Amendments)]
         /\ \A q \in RequestIds : q # r => amendmentRequests'[q] = amendmentRequests[q]
         /\ Answered(amendmentRequests[r], amendmentRequests'[r], a)
         /\ amendmentRequests'[r][a].status = "Accepted"
<1> DEFINE owed      == amendment.additionalFunding + amendment.operationalAllowance
           fresh     == FundingOnAcceptance(r, amendment)
           collected == Transfer(cargo, amendment.responder, Manager, fresh)
           forwarded == Transfer(collected, Manager, Escrow, owed)
           paid      == ResponseReimbursement(amendment, gas, price)
           held      == forwarded[Escrow]
<1>1. PendingAmendment(r, a)
  BY DEF AcceptAmendment
<1>2. /\ IInv /\ cargo \in [Accounts -> Nat] /\ cargo[Manager] \in Nat
      /\ a \in DOMAIN amendmentRequests[r] /\ IsActiveNegotiation(r, "Amendment", a)
      /\ amendment \in Amendments /\ PendingOK(amendment) /\ amendment.status = "Pending"
      /\ requests[r].shipper \in Users
      /\ StagedFunding(r, amendment) \in Nat /\ amendment.responseAllowance \in Nat
      /\ StakeOf(r, amendment) = StagedFunding(r, amendment) + amendment.responseAllowance
      /\ StakeOf(r, amendment) <= cargo[Manager]
  BY <1>1, PendingFacts
<1>3. /\ CurrentMilestoneState(r, "Amendment", a) /\ cargo[amendment.responder] >= fresh
      /\ FinalizeAmendment(r, amendment.proposedDeadline, amendment.existing,
                           amendment.additions, amendment.operationalAllowance, held)
      /\ ReturnStaged(r, a, "Accepted", paid, forwarded)
      /\ activeNegotiation' = [activeNegotiation EXCEPT ![r] = NoNegotiation]
      /\ UNCHANGED cancellationRequests
  BY DEF AcceptAmendment, CloseNegotiation
<1>4. StillValid(r, amendment)
  <2>1. /\ activeNegotiation[r].kind = "Amendment" /\ activeNegotiation[r].id = a
        /\ activeNegotiation[r].milestoneStateVersion = milestoneStateVersion[r]
    BY <1>3 DEF CurrentMilestoneState, IsActiveNegotiation
  <2>2. PinnedOK(r)
    BY DEF NegotiationInv, Negotiated
  <2>3. QED BY <1>2, <2>1, <2>2 DEF PinnedOK
<1>5. /\ amendment.existing \in Fundings(r) /\ amendment.additions \in Additions(r)
      /\ ManagerValidated(r, amendment.existing, amendment.additions)
  BY <1>2, <1>4, ValidTerms DEF StillValid
<1>6. Amends(r, amendment.proposedDeadline, amendment.existing, amendment.additions,
             amendment.operationalAllowance)
  BY <1>3, <1>5 DEF Amends
<1>7. /\ owed \in Nat /\ fresh \in Nat
      /\ owed = Allocated(amendment.existing, amendment.additions) + amendment.operationalAllowance
      /\ IF amendment.requester = requests[r].shipper
         THEN StagedFunding(r, amendment) = owed /\ fresh = 0
         ELSE StagedFunding(r, amendment) = 0 /\ fresh = owed
      /\ amendment.responder \in Users
  BY <1>2 DEF Amendments, PendingOK, StagedFunding, FundingOnAcceptance
<1>8. paid \in Nat /\ paid <= amendment.responseAllowance
  BY <1>2, ReimbursementWithin DEF PendingOK
<1> HIDE DEF paid, owed, fresh
<1>9. /\ amendment.responder \in Accounts /\ Manager \in Accounts /\ Escrow \in Accounts
      /\ amendment.responder # Manager /\ Escrow # Manager /\ amendment.responder # Escrow
  BY <1>7, AccountAssumption DEF Accounts
<1>10. /\ collected \in [Accounts -> Nat] /\ collected[Escrow] = cargo[Escrow]
       /\ collected[Manager] = cargo[Manager] + fresh
  <2>1. fresh <= cargo[amendment.responder]
    BY <1>2, <1>3, <1>7, <1>9
  <2>2. QED BY <1>2, <1>7, <1>9, <2>1, TransferMoves
<1> HIDE DEF collected
<1>11. owed <= collected[Manager] /\ collected[Escrow] \in Nat
  BY <1>2, <1>7, <1>9, <1>10
<1>12. /\ forwarded \in [Accounts -> Nat] /\ forwarded[Escrow] = collected[Escrow] + owed
       /\ forwarded[Manager] = collected[Manager] - owed
  BY <1>7, <1>9, <1>10, <1>11, TransferMoves
<1> HIDE DEF forwarded
<1>13. /\ forwarded[Escrow] = cargo[Escrow] + owed
       /\ forwarded[Manager] = cargo[Manager] - StagedFunding(r, amendment)
  BY <1>2, <1>7, <1>10, <1>12
<1>14. PICK balances : balances = forwarded
  OBVIOUS
<1>15. PICK reimbursed : reimbursed = paid
  OBVIOUS
<1>16. PICK returned : returned = 0
  OBVIOUS
<1>17. PICK outcome : outcome = "Accepted"
  OBVIOUS
<1>18. /\ cargo' \in [Accounts -> Nat] /\ cargo'[Escrow] = balances[Escrow]
       /\ cargo'[Manager] = balances[Manager] - (returned + amendment.responseAllowance)
       /\ amendmentRequests' \in [RequestIds -> Seq(Amendments)]
       /\ \A q \in RequestIds : q # r => amendmentRequests'[q] = amendmentRequests[q]
       /\ Answered(amendmentRequests[r], amendmentRequests'[r], a)
       /\ amendmentRequests'[r][a].status = "Accepted"
  <2>1. /\ balances \in [Accounts -> Nat] /\ reimbursed \in Nat /\ returned \in Nat
        /\ reimbursed <= amendment.responseAllowance
        /\ returned = IF outcome = "Accepted" THEN 0 ELSE StagedFunding(r, amendment)
        /\ returned + amendment.responseAllowance <= balances[Manager]
        /\ ReturnStaged(r, a, outcome, reimbursed, balances)
        /\ outcome \in AmendmentStatus \ {"Pending"}
        /\ NegotiationTypes
    BY <1>2, <1>3, <1>8, <1>12, <1>13, <1>14, <1>15, <1>16, <1>17 DEF AmendmentStatus, NegotiationInv
  <2>2. /\ cargo' \in [Accounts -> Nat] /\ cargo'[Escrow] = balances[Escrow]
        /\ cargo'[Manager] = balances[Manager] - (returned + amendment.responseAllowance)
        /\ amendmentRequests' \in [RequestIds -> Seq(Amendments)]
        /\ \A q \in RequestIds : q # r => amendmentRequests'[q] = amendmentRequests[q]
        /\ Answered(amendmentRequests[r], amendmentRequests'[r], a)
        /\ amendmentRequests'[r][a].status = outcome
    BY <1>2, <2>1, StagedReturned
  <2>3. QED BY <1>17, <2>2
<1>19. cargo'[Manager] = cargo[Manager] - StakeOf(r, amendment)
  BY <1>2, <1>13, <1>14, <1>16, <1>18
<1>20. PaidAmendment(r, amendment.proposedDeadline, amendment.existing, amendment.additions,
                     amendment.operationalAllowance)
  BY <1>6, <1>7, <1>13, <1>14, <1>18 DEF PaidAmendment
<1>21. QED BY <1>2, <1>3, <1>4, <1>5, <1>18, <1>19, <1>20

(* The shipper extends the deadline alone: an amendment of nothing else,    *)
(* and nothing to pay.                                                      *)
LEMMA ExtendFacts ==
  ASSUME EscrowInv, NEW r \in RequestIds, NEW newDeadline \in Deadlines,
         ExtendShipmentDeadline(r, newDeadline)
  PROVE  /\ PaidAmendment(r, newDeadline, <<>>, <<>>, 0) /\ UNCHANGED cargo
         /\ <<>> \in Fundings(r) /\ <<>> \in Additions(r)
         /\ UNCHANGED <<activeNegotiation, cancellationRequests>>
         /\ activeNegotiation[r].kind = "None"
         /\ \E new \in Amendments :
              /\ new.status = "Accepted"
              /\ amendmentRequests' =
                   [amendmentRequests EXCEPT ![r] = Append(amendmentRequests[r], new)]
<1> DEFINE base == NewAmendment(r, requests[r].shipper, newDeadline, <<>>, <<>>)
           new  == [base EXCEPT !.responder = NoUser, !.status = "Accepted"]
<1>1. IInv /\ cargo \in [Accounts -> Nat] /\ cargo[Escrow] \in Nat
  BY DEF EscrowInv, AllInv, IInv, PoolOK, Accounts
<1>2. /\ NegotiableShipment(r) /\ activeNegotiation[r].kind = "None"
      /\ FinalizeAmendment(r, newDeadline, <<>>, <<>>, 0, cargo[Escrow])
      /\ amendmentRequests' = [amendmentRequests EXCEPT ![r] = Append(amendmentRequests[r], new)]
      /\ UNCHANGED cargo /\ UNCHANGED <<activeNegotiation, cancellationRequests>>
  BY DEF ExtendShipmentDeadline, ExtensionTerms, DirectExtension
<1>3. <<>> \in Fundings(r) /\ <<>> \in Additions(r)
  BY DEF Fundings, Additions
<1>4. new \in Amendments /\ new.status = "Accepted"
  <2>1. requests[r].shipper \in Participants(r)
    BY DEF Participants
  <2>2. base \in Amendments
    BY <1>1, <1>2, <1>3, <2>1, NewAmendmentOK
  <2> HIDE DEF base
  <2>3. QED BY <2>2 DEF Amendments, AmendmentStatus
<1>5. Allocated(<<>>, <<>>) = 0
  <2>1. AdditionAmounts(<<>>) = <<>>
    BY DEF AdditionAmounts
  <2>2. SumOver(<<>>) = 0
    <3>1. <<>> = [x \in {} |-> 0]
      OBVIOUS
    <3>2. QED BY <3>1, SumOfZeros
  <2>3. QED BY <2>1, <2>2 DEF Allocated
<1>6. ManagerValidated(r, <<>>, <<>>)
  BY DEF ManagerValidated, AdditionTargets
<1>7. PaidAmendment(r, newDeadline, <<>>, <<>>, 0)
  <2>1. Amends(r, newDeadline, <<>>, <<>>, 0)
    BY <1>2, <1>6 DEF Amends
  <2>2. cargo' \in [Accounts -> Nat] /\ cargo'[Escrow] = cargo[Escrow] + (0 + 0)
    BY <1>1, <1>2
  <2>3. QED BY <1>5, <2>1, <2>2 DEF PaidAmendment
<1> HIDE DEF new
<1>8. QED BY <1>2, <1>3, <1>4, <1>7

-----------------------------------------------------------------------------
(* Every step keeps both invariants.                                        *)

StepSound == EscrowInv' /\ NegotiationInv' /\ \A q \in RequestIds : Moves(q)

LEMMA OneNegotiates ==
  ASSUME NegotiationInv, EscrowInv', \A q \in RequestIds : Moves(q), NegotiationTypes',
         NEW r \in RequestIds, Negotiated(r)', \A q \in RequestIds : q # r => NegotiationSame(q)
  PROVE  StepSound
<1>1. ASSUME NEW q \in RequestIds PROVE Negotiated(q)'
  <2>1. CASE q = r
    BY <2>1
  <2>2. CASE q # r
    BY <2>2, NegotiationsKept DEF NegotiationInv
  <2>3. QED BY <2>1, <2>2
<1>2. QED BY <1>1 DEF StepSound, NegotiationInv

LEMMA EscrowKeeps ==
  ASSUME EscrowInv, NegotiationInv, [OwnStep]_vars, UNCHANGED negotiationVars
  PROVE  StepSound
<1>1. [Next]_vars
  BY DEF Next, OwnStep
<1>2. EscrowInv' /\ IInv
  BY <1>1, EscrowStepOK DEF EscrowInv, AllInv
<1>3. \A q \in RequestIds : Moves(q)
  BY <1>1, <1>2, OwnStepCases, StepMoves
<1>4. \A q \in RequestIds : NegotiationSame(q)
  BY DEF negotiationVars, NegotiationSame
<1>5. NegotiationTypes'
  BY DEF NegotiationInv, NegotiationTypes, negotiationVars
<1>6. QED BY <1>2, <1>3, <1>4, <1>5, NegotiationsKept DEF NegotiationInv, StepSound

LEMMA RequestAmendmentKeeps ==
  ASSUME EscrowInv, NegotiationInv, NEW r \in RequestIds, NEW who \in Users,
         NEW proposedDeadline \in Deadlines, NEW responseDeadline \in Deadlines,
         NEW existing \in Fundings(r), NEW additions \in Additions(r), NEW price,
         NEW allowance \in ResponseAllowances,
         RequestAmendment(r, who, proposedDeadline, responseDeadline,
                          existing, additions, price, allowance)
  PROVE  StepSound
<1>1. /\ BesideTheEscrow /\ WasFunded(requests[r]) /\ UNCHANGED cancellationRequests
      /\ activeNegotiation[r].kind = "None"
  BY RequestAmendmentFacts
<1>2. PICK new \in Amendments :
        /\ amendmentRequests' = [amendmentRequests EXCEPT ![r] = Append(amendmentRequests[r], new)]
        /\ activeNegotiation' = [activeNegotiation EXCEPT ![r] =
             [kind |-> "Amendment", id |-> Len(amendmentRequests[r]) + 1,
              milestoneStateVersion |-> milestoneStateVersion[r]]]
        /\ new.status = "Pending" /\ PendingOK(new) /\ StillValid(r, new)
  BY RequestAmendmentFacts
<1>3. EscrowInv' /\ \A q \in RequestIds : Moves(q) /\ Same(q)
  BY <1>1, BesideOK, BesideMoves
<1>4. IInv
  BY DEF EscrowInv, AllInv
<1>5. milestoneStateVersion[r] \in Nat /\ milestoneStateVersion'[r] = milestoneStateVersion[r]
      /\ WasFunded(requests'[r])
  BY <1>1, <1>3, <1>4, StateTypes DEF Same
<1>6. StillValid(r, new)'
  <2>1. /\ TermsKept(r) /\ nextMilestoneId'[r] = nextMilestoneId[r]
        /\ \A m \in MilestoneIds : milestones'[r][m].status = milestones[r][m].status
    BY <1>3 DEF Same, TermsKept
  <2>2. QED BY <1>2, <2>1, StillValidKept
<1>7. /\ activeNegotiation \in [RequestIds -> Slots]
      /\ amendmentRequests \in [RequestIds -> Seq(Amendments)]
      /\ cancellationRequests \in [RequestIds -> Seq(Cancellations)]
  BY DEF NegotiationInv, NegotiationTypes
<1>8. NegotiationTypes'
  <2>1. amendmentRequests[r] \in Seq(Amendments)
    BY <1>7
  <2>2. Append(amendmentRequests[r], new) \in Seq(Amendments)
        /\ Len(amendmentRequests[r]) + 1 \in Nat
    BY <2>1
  <2>3. activeNegotiation' \in [RequestIds -> Slots]
    BY <1>2, <1>5, <1>7, <2>2 DEF Slots
  <2>4. amendmentRequests' \in [RequestIds -> Seq(Amendments)]
    BY <1>2, <1>7, <2>2
  <2>5. QED BY <1>1, <1>7, <2>3, <2>4 DEF NegotiationTypes
<1>9. Negotiated(r)'
  <2>1. /\ amendmentRequests'[r] = Append(amendmentRequests[r], new)
        /\ cancellationRequests'[r] = cancellationRequests[r]
        /\ activeNegotiation'[r] = [kind |-> "Amendment", id |-> Len(amendmentRequests[r]) + 1,
                                    milestoneStateVersion |-> milestoneStateVersion'[r]]
    BY <1>1, <1>2, <1>5, <1>7
  <2>2. NegotiationTypes /\ Negotiated(r)
    BY DEF NegotiationInv
  <2>3. milestoneStateVersion'[r] \in Nat
    BY <1>5
  <2>4. QED BY <1>1, <1>2, <1>5, <1>6, <2>1, <2>2, <2>3, AmendmentAdded
<1>10. \A q \in RequestIds : q # r => NegotiationSame(q)
  BY <1>1, <1>2, <1>7 DEF NegotiationSame
<1>11. QED BY <1>3, <1>8, <1>9, <1>10, OneNegotiates

LEMMA ExtendKeeps ==
  ASSUME EscrowInv, NegotiationInv, NEW r \in RequestIds, NEW newDeadline \in Deadlines,
         ExtendShipmentDeadline(r, newDeadline)
  PROVE  StepSound
<1>1. /\ PaidAmendment(r, newDeadline, <<>>, <<>>, 0)
      /\ <<>> \in Fundings(r) /\ <<>> \in Additions(r)
      /\ UNCHANGED <<activeNegotiation, cancellationRequests>>
      /\ activeNegotiation[r].kind = "None"
  BY ExtendFacts
<1>2. PICK new \in Amendments :
        /\ new.status = "Accepted"
        /\ amendmentRequests' = [amendmentRequests EXCEPT ![r] = Append(amendmentRequests[r], new)]
  BY ExtendFacts
<1>3. EscrowInv' /\ \A q \in RequestIds : Moves(q)
  BY <1>1, PaidAmendmentOK, PaidAmendmentMoves
<1>4. WasFunded(requests'[r]) /\ milestoneStateVersion'[r] \in Nat
  <2>1. Steady(r)
    BY <1>1, AmendmentSteady DEF PaidAmendment, EscrowInv, AllInv
  <2>2. QED BY <2>1 DEF Steady
<1>5. /\ activeNegotiation \in [RequestIds -> Slots]
      /\ amendmentRequests \in [RequestIds -> Seq(Amendments)]
      /\ cancellationRequests \in [RequestIds -> Seq(Cancellations)]
  BY DEF NegotiationInv, NegotiationTypes
<1>6. NegotiationTypes'
  <2>1. Append(amendmentRequests[r], new) \in Seq(Amendments)
    BY <1>5
  <2>2. QED BY <1>1, <1>2, <1>5, <2>1 DEF NegotiationTypes
<1>7. Negotiated(r)'
  <2>1. /\ amendmentRequests'[r] = Append(amendmentRequests[r], new)
        /\ cancellationRequests'[r] = cancellationRequests[r]
        /\ activeNegotiation'[r] = activeNegotiation[r]
    BY <1>1, <1>2, <1>5
  <2>2. NegotiationTypes /\ Negotiated(r) /\ PendingOK(new)
    BY <1>2 DEF NegotiationInv, PendingOK
  <2>3. QED BY <1>1, <1>2, <1>4, <2>1, <2>2, AmendmentAdded
<1>8. \A q \in RequestIds : q # r => NegotiationSame(q)
  BY <1>1, <1>2, <1>5 DEF NegotiationSame
<1>9. QED BY <1>3, <1>6, <1>7, <1>8, OneNegotiates

(* An amendment that was pending no longer is.                              *)
AnsweredStep(r, a) ==
  /\ UNCHANGED cancellationRequests
  /\ activeNegotiation' = [activeNegotiation EXCEPT ![r] = NoNegotiation]
  /\ amendmentRequests' \in [RequestIds -> Seq(Amendments)]
  /\ \A q \in RequestIds : q # r => amendmentRequests'[q] = amendmentRequests[q]
  /\ Answered(amendmentRequests[r], amendmentRequests'[r], a)

LEMMA AnswerKeeps ==
  ASSUME NegotiationInv, NEW r \in RequestIds, NEW a, IsActiveNegotiation(r, "Amendment", a),
         EscrowInv', \A q \in RequestIds : Moves(q), AnsweredStep(r, a)
  PROVE  StepSound
<1>1. /\ activeNegotiation \in [RequestIds -> Slots]
      /\ cancellationRequests \in [RequestIds -> Seq(Cancellations)]
  BY DEF NegotiationInv, NegotiationTypes
<1>2. NegotiationTypes'
  BY <1>1 DEF AnsweredStep, NegotiationTypes, NoNegotiation, Slots
<1>3. NegotiationTypes /\ Negotiated(r)
  BY DEF NegotiationInv
<1>4. WasFunded(requests'[r])
  <2>1. amendmentRequests[r] # <<>>
    BY DEF AnsweredStep, Answered
  <2>2. QED BY <1>3, <2>1 DEF Negotiated, Moves, Steady
<1>5. Negotiated(r)'
  <2>1. activeNegotiation'[r] = NoNegotiation /\ cancellationRequests'[r] = cancellationRequests[r]
        /\ Answered(amendmentRequests[r], amendmentRequests'[r], a)
    BY <1>1 DEF AnsweredStep
  <2>2. QED BY <1>3, <1>4, <2>1, AmendmentAnswered
<1>6. \A q \in RequestIds : q # r => NegotiationSame(q)
  BY <1>1 DEF NegotiationSame, AnsweredStep
<1>7. QED BY <1>2, <1>5, <1>6, OneNegotiates

LEMMA ResolveKeeps ==
  ASSUME EscrowInv, NegotiationInv, ManagerHoldsTheStakes, NEW r \in RequestIds, NEW a,
         PendingAmendment(r, a), NEW amendment, amendment = amendmentRequests[r][a],
         NEW outcome \in {"Rejected", "Withdrawn", "Expired"},
         NEW reimbursed \in Nat, reimbursed <= amendment.responseAllowance,
         ResolveAmendment(r, a, outcome, reimbursed)
  PROVE  StepSound
<1>1. BesideTheEscrow /\ AnsweredStep(r, a)
  BY ResolveFacts DEF AnsweredStep
<1>2. EscrowInv' /\ \A q \in RequestIds : Moves(q)
  BY <1>1, BesideOK, BesideMoves
<1>3. IsActiveNegotiation(r, "Amendment", a)
  BY DEF PendingAmendment
<1>4. QED BY <1>1, <1>2, <1>3, AnswerKeeps

LEMMA AcceptKeeps ==
  ASSUME EscrowInv, NegotiationInv, ManagerHoldsTheStakes, NEW r \in RequestIds, NEW a,
         NEW gas \in Nat, NEW price \in Nat, AcceptAmendment(r, a, gas, price)
  PROVE  StepSound /\ \A q \in RequestIds : q # r => Same(q)
<1>1. PICK amendment : amendment = amendmentRequests[r][a]
  OBVIOUS
<1>2. /\ amendment \in Amendments
      /\ PaidAmendment(r, amendment.proposedDeadline, amendment.existing, amendment.additions,
                       amendment.operationalAllowance)
      /\ amendment.existing \in Fundings(r) /\ amendment.additions \in Additions(r)
      /\ AnsweredStep(r, a)
  BY <1>1, AcceptFacts DEF AnsweredStep
<1>3. amendment.proposedDeadline \in Deadlines /\ amendment.operationalAllowance \in Nat
  BY <1>2 DEF Amendments
<1>4. EscrowInv' /\ \A q \in RequestIds : Moves(q) /\ (q # r => Same(q))
  BY <1>2, <1>3, PaidAmendmentOK, PaidAmendmentMoves
<1>5. IsActiveNegotiation(r, "Amendment", a)
  BY DEF AcceptAmendment, PendingAmendment
<1>6. QED BY <1>2, <1>4, <1>5, AnswerKeeps

LEMMA RequestCancellationKeeps ==
  ASSUME EscrowInv, NegotiationInv, NEW r \in RequestIds, NEW who \in Users,
         NEW responseDeadline \in Deadlines, RequestCancellation(r, who, responseDeadline)
  PROVE  StepSound
<1> DEFINE new == [requester |-> who, responder |-> Counterparty(r, who),
                   responseDeadline |-> responseDeadline, status |-> "Pending"]
<1>1. IInv
  BY DEF EscrowInv, AllInv
<1>2. /\ NegotiableShipment(r) /\ UNCHANGED vars /\ UNCHANGED amendmentRequests
      /\ activeNegotiation[r].kind = "None"
      /\ activeNegotiation' = [activeNegotiation EXCEPT ![r] =
           [kind |-> "Cancellation", id |-> Len(cancellationRequests[r]) + 1,
            milestoneStateVersion |-> milestoneStateVersion[r]]]
      /\ cancellationRequests' = [cancellationRequests EXCEPT ![r] =
                                    Append(cancellationRequests[r], new)]
  BY DEF RequestCancellation, CancellationTerms, OpenNegotiation
<1>3. /\ WasFunded(requests[r]) /\ requests[r].shipper \in Users /\ requests[r].carrier \in Users
  BY <1>1, <1>2, FundedFacts DEF NegotiableShipment
<1>4. new \in Cancellations /\ new.status = "Pending"
  BY <1>3, InputAssumption DEF Cancellations, Counterparty, AmendmentStatus
<1> HIDE DEF new
<1>5. EscrowInv' /\ \A q \in RequestIds : Moves(q)
  <2>1. [OwnStep]_vars /\ [Next]_vars
    BY <1>2
  <2>2. QED BY <1>1, <2>1, EscrowStepOK, OwnStepCases, StepMoves
<1>6. /\ activeNegotiation \in [RequestIds -> Slots]
      /\ amendmentRequests \in [RequestIds -> Seq(Amendments)]
      /\ cancellationRequests \in [RequestIds -> Seq(Cancellations)]
  BY DEF NegotiationInv, NegotiationTypes
<1>7. NegotiationTypes'
  <2>1. cancellationRequests[r] \in Seq(Cancellations)
    BY <1>6
  <2>2. Append(cancellationRequests[r], new) \in Seq(Cancellations)
        /\ Len(cancellationRequests[r]) + 1 \in Nat
    BY <1>4, <2>1
  <2>3. milestoneStateVersion[r] \in Nat
    BY <1>1, StateTypes
  <2>4. activeNegotiation' \in [RequestIds -> Slots]
    BY <1>2, <1>6, <2>2, <2>3 DEF Slots
  <2>5. cancellationRequests' \in [RequestIds -> Seq(Cancellations)]
    BY <1>2, <1>6, <2>2
  <2>6. QED BY <1>2, <1>6, <2>4, <2>5 DEF NegotiationTypes
<1>8. Negotiated(r)'
  <2>1. /\ amendmentRequests'[r] = amendmentRequests[r]
        /\ cancellationRequests'[r] = Append(cancellationRequests[r], new)
        /\ activeNegotiation'[r].kind = "Cancellation"
        /\ activeNegotiation'[r].id = Len(cancellationRequests[r]) + 1
    BY <1>2, <1>6
  <2>2. NegotiationTypes /\ Negotiated(r)
    BY DEF NegotiationInv
  <2>3. WasFunded(requests'[r])
    BY <1>2, <1>3 DEF vars
  <2>4. QED BY <1>2, <1>4, <2>1, <2>2, <2>3, CancellationAdded
<1>9. \A q \in RequestIds : q # r => NegotiationSame(q)
  BY <1>2, <1>6 DEF NegotiationSame
<1>10. QED BY <1>5, <1>7, <1>8, <1>9, OneNegotiates

(* A mutual cancellation is to the escrow what it does anyway.              *)
LEMMA AcceptedCancellationIsAStep ==
  ASSUME NEW r \in RequestIds, NEW c, AcceptCancellation(r, c)
  PROVE  Next /\ Refund(r) /\ RequestExists(r)
<1>1. ManagerCancels(r)
  BY DEF AcceptCancellation, ManagerCancels
<1>2. Next
  BY <1>1 DEF Next, ManagerStep
<1>3. QED BY <1>1, <1>2 DEF ManagerCancels, FinalizeMutualCancellation

LEMMA ResolveCancellationKeeps ==
  ASSUME EscrowInv, NegotiationInv, NEW r \in RequestIds, NEW c,
         NEW outcome \in AmendmentStatus \ {"Pending"}, ResolveCancellation(r, c, outcome),
         UNCHANGED vars \/ (Next /\ Refund(r) /\ RequestExists(r))
  PROVE  StepSound
<1> DEFINE list == cancellationRequests[r]
<1>1. IInv /\ [Next]_vars /\ EscrowInv'
  BY EscrowStepOK DEF EscrowInv, AllInv
<1>2. ASSUME NEW q \in RequestIds PROVE Moves(q)
  <2>1. Proceeds(q)
    <3>1. CASE UNCHANGED vars
      BY <3>1 DEF vars, workVars, Same, Proceeds
    <3>2. CASE Refund(r) /\ RequestExists(r)
      <4>1. q # r => Same(q)
        BY <1>1, <3>2, StateTypes DEF Refund, workVars, Same
      <4>2. QED BY <3>2, <4>1 DEF Proceeds
    <3>3. QED BY <3>1, <3>2
  <2>2. QED BY <1>1, <2>1, StepMoves
<1>3. /\ activeNegotiation \in [RequestIds -> Slots]
      /\ amendmentRequests \in [RequestIds -> Seq(Amendments)]
      /\ cancellationRequests \in [RequestIds -> Seq(Cancellations)]
  BY DEF NegotiationInv, NegotiationTypes
<1>4. /\ c \in DOMAIN list /\ IsActiveNegotiation(r, "Cancellation", c)
      /\ cancellationRequests' = [cancellationRequests EXCEPT ![r] =
                                    [list EXCEPT ![c] = [list[c] EXCEPT !.status = outcome]]]
      /\ activeNegotiation' = [activeNegotiation EXCEPT ![r] = NoNegotiation]
      /\ UNCHANGED amendmentRequests
  BY <1>3 DEF ResolveCancellation, PendingCancellation, CloseNegotiation
<1>5. list \in Seq(Cancellations) /\ [list[c] EXCEPT !.status = outcome] \in Cancellations
  <2>1. list \in Seq(Cancellations) /\ list[c] \in Cancellations
    BY <1>3, <1>4
  <2>2. QED BY <2>1 DEF Cancellations
<1>6. [list EXCEPT ![c] = [list[c] EXCEPT !.status = outcome]] \in Seq(Cancellations)
      /\ Answered(list, [list EXCEPT ![c] = [list[c] EXCEPT !.status = outcome]], c)
  BY <1>4, <1>5 DEF Answered, Cancellations
<1> HIDE DEF list
<1>7. NegotiationTypes'
  BY <1>3, <1>4, <1>6 DEF NegotiationTypes, NoNegotiation, Slots
<1>8. Negotiated(r)'
  <2>1. /\ activeNegotiation'[r] = NoNegotiation /\ amendmentRequests'[r] = amendmentRequests[r]
        /\ Answered(cancellationRequests[r], cancellationRequests'[r], c)
    BY <1>3, <1>4, <1>6 DEF list
  <2>2. NegotiationTypes /\ Negotiated(r)
    BY DEF NegotiationInv
  <2>3. QED BY <1>2, <1>4, <2>1, <2>2, CancellationAnswered
<1>9. \A q \in RequestIds : q # r => NegotiationSame(q)
  BY <1>3, <1>4 DEF NegotiationSame
<1>10. QED BY <1>1, <1>2, <1>7, <1>8, <1>9, OneNegotiates

-----------------------------------------------------------------------------
(* Part III.  The stakes.                                                   *)

(* The stake of one amendment, and of all of a list, given whose the        *)
(* shipment is.                                                             *)
StakeWith(shipper, amendment) ==
  IF amendment.status = "Pending"
  THEN (IF amendment.requester = shipper
        THEN amendment.additionalFunding + amendment.operationalAllowance ELSE 0)
         + amendment.responseAllowance - amendment.responseAllowanceSpent
  ELSE 0

ListStakes(shipper, list) == [a \in DOMAIN list |-> StakeWith(shipper, list[a])]

LEMMA StakesRead ==
  \A p : /\ StakedOn(p) = SumOver(ListStakes(requests[p].shipper, amendmentRequests[p]))
         /\ \A a : StakeOf(p, amendmentRequests[p][a]) =
                     StakeWith(requests[p].shipper, amendmentRequests[p][a])
BY DEF StakedOn, ListStakes, StakeOf, StagedFunding, StakeWith

LEMMA StakeWithIsNat ==
  ASSUME NEW shipper, NEW amendment \in Amendments, PendingOK(amendment)
  PROVE  StakeWith(shipper, amendment) \in Nat
BY DEF StakeWith, Amendments, PendingOK

LEMMA StakesOfListTyped ==
  ASSUME NEW shipper, NEW list \in Seq(Amendments), \A a \in DOMAIN list : PendingOK(list[a])
  PROVE  /\ ListStakes(shipper, list) \in [DOMAIN list -> Nat]
         /\ DOMAIN list = 1 .. Len(list) /\ Len(list) \in Nat /\ IsFiniteSet(DOMAIN list)
         /\ SumOver(ListStakes(shipper, list)) \in Nat
<1>1. \A a \in DOMAIN list : StakeWith(shipper, list[a]) \in Nat
  BY StakeWithIsNat
<1>2. ListStakes(shipper, list) \in [DOMAIN list -> Nat]
  BY <1>1 DEF ListStakes
<1>3. DOMAIN list = 1 .. Len(list) /\ Len(list) \in Nat
  OBVIOUS
<1>4. IsFiniteSet(DOMAIN list)
  BY <1>3, FS_Interval
<1>5. QED BY <1>2, <1>3, <1>4, SumIsNat

(* A sum with one term more.                                                *)
LEMMA SumGrown ==
  ASSUME NEW S, IsFiniteSet(S), NEW f \in [S -> Nat], NEW n, n \notin S, NEW s \in Nat
  PROVE  SumOver([x \in S \cup {n} |-> IF x = n THEN s ELSE f[x]]) = SumOver(f) + s
<1> DEFINE T == S \cup {n}
           h == [x \in T |-> IF x \in S THEN f[x] ELSE 0]
           g == [x \in T |-> IF x = n THEN s ELSE f[x]]
<1>1. h \in [T -> Nat] /\ h[n] = 0 /\ \A x \in T : h[x] = IF x \in S THEN f[x] ELSE 0
  OBVIOUS
<1>2. S \in SUBSET T /\ n \in T /\ IsFiniteSet(T)
  BY FS_AddElement
<1>3. SumOver(f) \in Nat
  BY SumIsNat
<1>4. g = [h EXCEPT ![n] = s]
  BY <1>1, <1>2
<1> HIDE DEF h, T
<1>5. SumOver(h) = SumOver(f)
  BY <1>1, <1>2, SumPadded
<1> HIDE DEF g
<1>6. SumOver(g) = SumOver(h) - h[n] + s
  <2>1. h \in [T -> Nat] /\ n \in T /\ IsFiniteSet(T)
    BY <1>1, <1>2
  <2>2. SumOver([h EXCEPT ![n] = s]) = SumOver(h) - h[n] + s
    BY ONLY <2>1, SumUpdate
  <2>3. QED BY <1>4, <2>2
<1>7. SumOver(g) = SumOver(f) + s
  BY <1>1, <1>3, <1>5, <1>6
<1>8. QED BY <1>7 DEF g, T

LEMMA StakeAppended ==
  ASSUME NEW shipper, NEW list \in Seq(Amendments), \A a \in DOMAIN list : PendingOK(list[a]),
         NEW new \in Amendments, PendingOK(new)
  PROVE  SumOver(ListStakes(shipper, Append(list, new))) =
           SumOver(ListStakes(shipper, list)) + StakeWith(shipper, new)
<1> DEFINE n == Len(list) + 1
           S == DOMAIN list
           f == ListStakes(shipper, list)
           s == StakeWith(shipper, new)
           g == ListStakes(shipper, Append(list, new))
<1>1. f \in [S -> Nat] /\ s \in Nat /\ IsFiniteSet(S)
  BY StakesOfListTyped, StakeWithIsNat
<1>2. /\ n \notin S /\ DOMAIN Append(list, new) = S \cup {n} /\ Append(list, new)[n] = new
      /\ \A a \in S : Append(list, new)[a] = list[a]
  OBVIOUS
<1>3. /\ DOMAIN g = S \cup {n} /\ g[n] = s /\ \A a \in S : g[a] = f[a]
      /\ g = [x \in S \cup {n} |-> g[x]]
  BY <1>2 DEF ListStakes
<1> HIDE DEF f, g, s, n, S
<1>4. g = [x \in S \cup {n} |-> IF x = n THEN s ELSE f[x]]
  BY <1>2, <1>3
<1>5. SumOver([x \in S \cup {n} |-> IF x = n THEN s ELSE f[x]]) = SumOver(f) + s
  <2>1. IsFiniteSet(S) /\ f \in [S -> Nat] /\ n \notin S /\ s \in Nat
    BY <1>1, <1>2
  <2>2. QED BY ONLY <2>1, SumGrown, Z3
<1>6. QED BY <1>4, <1>5 DEF f, g, s

LEMMA StakeWithdrawn ==
  ASSUME NEW shipper, NEW list \in Seq(Amendments), \A a \in DOMAIN list : PendingOK(list[a]),
         NEW list2, NEW n, Answered(list, list2, n)
  PROVE  SumOver(ListStakes(shipper, list2)) =
           SumOver(ListStakes(shipper, list)) - StakeWith(shipper, list[n])
<1> DEFINE f == ListStakes(shipper, list)
           g == ListStakes(shipper, list2)
           S == DOMAIN list
<1>1. f \in [S -> Nat] /\ SumOver(f) \in Nat /\ IsFiniteSet(S)
  BY StakesOfListTyped
<1>2. /\ n \in S /\ DOMAIN g = S /\ g[n] = 0 /\ g = [x \in S |-> g[x]]
      /\ \A a \in S : a # n => g[a] = f[a]
  BY DEF Answered, ListStakes, StakeWith
<1>3. f[n] = StakeWith(shipper, list[n])
  BY <1>2 DEF ListStakes
<1> HIDE DEF f, g, S
<1>4. g = [f EXCEPT ![n] = 0]
  BY <1>1, <1>2
<1>5. SumOver(g) = SumOver(f) - f[n] + 0 /\ f[n] \in Nat
  BY <1>1, <1>2, <1>4, SumUpdate
<1>6. QED BY <1>1, <1>3, <1>5 DEF f, g

(* One shipment's stakes change, and the manager's balance as much.         *)
LEMMA StakedIsNat ==
  NegotiationInv => \A q \in RequestIds : StakedOn(q) \in Nat
<1> SUFFICES ASSUME NegotiationInv, NEW q \in RequestIds PROVE StakedOn(q) \in Nat
  OBVIOUS
<1>1. amendmentRequests[q] \in Seq(Amendments)
      /\ \A a \in DOMAIN amendmentRequests[q] : PendingOK(amendmentRequests[q][a])
  BY DEF NegotiationInv, NegotiationTypes, Negotiated
<1>2. QED BY <1>1, StakesOfListTyped, StakesRead

LEMMA StakesFollow ==
  ASSUME NegotiationInv, NegotiationInv', ManagerHoldsTheStakes, cargo[Manager] \in Nat,
         NEW r \in RequestIds, \A q \in RequestIds : q # r => StakedOn(q)' = StakedOn(q),
         NEW d \in Int, StakedOn(r)' = StakedOn(r) + d, cargo'[Manager] = cargo[Manager] + d
  PROVE  ManagerHoldsTheStakes'
<1> DEFINE f == [q \in RequestIds |-> StakedOn(q)]
           g == [q \in RequestIds |-> StakedOn(q)']
           n == StakedOn(r)'
<1>1. \A q \in RequestIds : StakedOn(q) \in Nat
  BY StakedIsNat
<1>2. NegotiationInv' => (\A q \in RequestIds : StakedOn(q) \in Nat)'
  BY StakedIsNat, PTL
<1>3. n \in Nat
  BY <1>2
<1>4. f \in [RequestIds -> Nat] /\ f[r] = StakedOn(r)
  BY <1>1
<1>5. g = [f EXCEPT ![r] = n]
  <2>1. \A q \in RequestIds : q # r => g[q] = f[q]
    OBVIOUS
  <2>2. QED BY <2>1
<1>6. cargo[Manager] = SumOver(f)
  BY DEF ManagerHoldsTheStakes
<1>7. n = f[r] + d
  BY <1>4
<1> HIDE DEF f, g, n
<1>8. SumOver(g) = SumOver(f) - f[r] + n
  BY <1>3, <1>4, <1>5, RequestIdsFinite, SumUpdate
<1>9. cargo'[Manager] = SumOver(g)
  BY <1>3, <1>4, <1>6, <1>7, <1>8
<1>10. QED BY <1>9 DEF ManagerHoldsTheStakes, g

LEMMA StakesUntouched ==
  ASSUME NegotiationInv, NEW q \in RequestIds, Moves(q), amendmentRequests'[q] = amendmentRequests[q]
  PROVE  StakedOn(q)' = StakedOn(q)
<1>1. StakedOn(q) = SumOver(ListStakes(requests[q].shipper, amendmentRequests[q]))
  BY StakesRead
<1>2. StakedOn(q)' = SumOver(ListStakes(requests'[q].shipper, amendmentRequests'[q]))
  BY DEF StakedOn, ListStakes, StakeOf, StagedFunding, StakeWith
<1>3. CASE amendmentRequests[q] = <<>>
  <2>1. \A s : ListStakes(s, <<>>) = <<>>
    BY DEF ListStakes
  <2>2. QED BY <1>1, <1>2, <1>3, <2>1
<1>4. CASE amendmentRequests[q] # <<>>
  <2>1. requests'[q].shipper = requests[q].shipper
    BY <1>4 DEF NegotiationInv, Negotiated, Moves, Steady
  <2>2. QED BY <1>1, <1>2, <2>1
<1>5. QED BY <1>3, <1>4

(* The escrow's own steps take CARGO from and to users only.                *)
LEMMA ManagerStandsBy ==
  ASSUME NEW balances, NEW from, NEW to, NEW amount,
         DOMAIN balances = Accounts, from # Manager, to # Manager
  PROVE  /\ DOMAIN Transfer(balances, from, to, amount) = Accounts
         /\ Transfer(balances, from, to, amount)[Manager] = balances[Manager]
BY DEF Transfer, Accounts

LEMMA OwnStepSparesManager ==
  ASSUME IInv, OwnStep
  PROVE  cargo'[Manager] = cargo[Manager]
<1>1. DOMAIN cargo = Accounts /\ Escrow # Manager /\ \A u \in Users : u # Manager
  BY AccountAssumption DEF IInv, PoolOK
<1>2. ASSUME NEW r \in RequestIds, RequestExists(r)
      PROVE  requests[r].shipper \in Users
             /\ (WasFunded(requests[r]) => requests[r].carrier \in Users)
  BY <1>2 DEF IInv, RequestsOK, RequestExists
<1>3. CASE UNCHANGED cargo
  BY <1>3
<1>4. ASSUME NEW r \in RequestIds, MarketStep(r) PROVE cargo'[Manager] = cargo[Manager]
  <2>1. ASSUME NEW p, NEW price, NEW allowance, ApproveAndFund(r, p, price, allowance)
        PROVE  cargo'[Manager] = cargo[Manager]
    <3>1. PICK amount : cargo' = Transfer(cargo, requests[r].shipper, Escrow, amount)
      BY <2>1 DEF ApproveAndFund
    <3>2. requests[r].shipper # Manager
      BY <1>1, <1>2, <2>1 DEF ApproveAndFund
    <3>3. QED BY <1>1, <3>1, <3>2, ManagerStandsBy
  <2>2. ASSUME NEW u, NEW plan, ProposeMilestones(u, r, plan) PROVE UNCHANGED cargo
    BY <2>2 DEF ProposeMilestones, moneyVars
  <2>3. ASSUME NEW u, RevokeMilestoneProposal(u, r) PROVE UNCHANGED cargo
    BY <2>3 DEF RevokeMilestoneProposal, moneyVars
  <2>4. ASSUME NEW p, RejectMilestoneProposal(r, p) PROVE UNCHANGED cargo
    BY <2>4 DEF RejectMilestoneProposal, moneyVars
  <2>5. ASSUME CancelRequest(r) PROVE UNCHANGED cargo
    BY <2>5 DEF CancelRequest, moneyVars
  <2>6. QED BY <1>4, <2>1, <2>2, <2>3, <2>4, <2>5 DEF MarketStep
<1>5. ASSUME NEW r \in RequestIds, CarrierStep(r) PROVE cargo'[Manager] = cargo[Manager]
  <2>1. ASSUME NEW m, NEW uri, NEW gas, NEW price, SubmitProof(r, m, uri, gas, price)
        PROVE  cargo'[Manager] = cargo[Manager]
    <3>1. PICK paid : cargo' = Transfer(cargo, Escrow, requests[r].carrier, paid)
      BY <2>1 DEF SubmitProof
    <3>2. requests[r].carrier # Manager
      BY <1>1, <1>2, <2>1 DEF SubmitProof, Active, WasFunded
    <3>3. QED BY <1>1, <3>1, <3>2, ManagerStandsBy
  <2>2. ASSUME NEW m, WithdrawProof(r, m) PROVE UNCHANGED cargo
    BY <2>2 DEF WithdrawProof, moneyVars
  <2>3. QED BY <1>5, <2>1, <2>2 DEF CarrierStep
<1>6. ASSUME NEW r \in RequestIds, ReviewStep(r) PROVE cargo'[Manager] = cargo[Manager]
  <2>1. ASSUME NEW m, NEW n, ApproveMilestone(r, m, n)
        PROVE  cargo'[Manager] = cargo[Manager]
    <3>1. PICK amount, returned :
            /\ cargo' = Transfer(Transfer(cargo, Escrow, requests[r].carrier, amount),
                                 Escrow, requests[r].shipper, returned)
            /\ amount > 0 /\ EscrowBalance(r) >= amount
      BY <2>1 DEF ApproveMilestone
    <3>2. RequestExists(r)
      BY <2>1 DEF ApproveMilestone, MayReview
    <3>3. WasFunded(requests[r])
      <4>1. ~WasFunded(requests[r]) => nextMilestoneId[r] = 0
        BY DEF IInv, RequestsOK
      <4>2. MilestoneExists(r, m)
        BY <2>1 DEF ApproveMilestone, MayReview
      <4>3. QED BY <4>1, <4>2 DEF MilestoneExists, MilestoneIds
    <3>4. requests[r].shipper # Manager /\ requests[r].carrier # Manager
      BY <1>1, <1>2, <3>2, <3>3
    <3>5. QED BY <1>1, <3>1, <3>4, ManagerStandsBy
  <2>2. ASSUME NEW m, NEW n, RejectMilestone(r, m, n) PROVE UNCHANGED cargo
    BY <2>2 DEF RejectMilestone, moneyVars
  <2>3. QED BY <1>6, <2>1, <2>2 DEF ReviewStep
<1>7. ASSUME NEW r \in RequestIds, RequestExists(r), Refund(r)
      PROVE  cargo'[Manager] = cargo[Manager]
  <2>1. PICK amount : cargo' = Transfer(cargo, Escrow, requests[r].shipper, amount)
    BY <1>7 DEF Refund
  <2>2. requests[r].shipper # Manager
    BY <1>1, <1>2, <1>7
  <2>3. QED BY <1>1, <2>1, <2>2, ManagerStandsBy
<1>8. ASSUME NEW r \in RequestIds, SettlementStep(r) PROVE cargo'[Manager] = cargo[Manager]
  <2>1. ASSUME NEW amount, TipCarrier(r, amount) PROVE cargo'[Manager] = cargo[Manager]
    <3>1. cargo' = Transfer(cargo, requests[r].shipper, requests[r].carrier, amount)
      BY <2>1 DEF TipCarrier
    <3>2. requests[r].shipper # Manager /\ requests[r].carrier # Manager
      BY <1>1, <1>2, <2>1 DEF TipCarrier, WasFunded
    <3>3. QED BY <1>1, <3>1, <3>2, ManagerStandsBy
  <2>2. ASSUME NEW amount, TopUpOperationalAllowance(r, amount)
        PROVE  cargo'[Manager] = cargo[Manager]
    <3>1. cargo' = Transfer(cargo, requests[r].shipper, Escrow, amount)
      BY <2>2 DEF TopUpOperationalAllowance
    <3>2. requests[r].shipper # Manager
      BY <1>1, <1>2, <2>2 DEF TopUpOperationalAllowance
    <3>3. QED BY <1>1, <3>1, <3>2, ManagerStandsBy
  <2>3. QED BY <1>7, <1>8, <2>1, <2>2 DEF SettlementStep, RefundRemaining
<1>9. CASE Tick
  BY <1>9 DEF Tick, moneyVars
<1>10. ASSUME NEW u, NEW deadline, NEW amount, CreateRequest(u, deadline, amount)
       PROVE  UNCHANGED cargo
  BY <1>10 DEF CreateRequest, moneyVars
<1>11. QED BY <1>4, <1>5, <1>6, <1>8, <1>9, <1>10 DEF OwnStep

LEMMA StakesKeep ==
  ASSUME NegotiationInv, StepSound, ManagerHoldsTheStakes,
         UNCHANGED amendmentRequests, cargo'[Manager] = cargo[Manager]
  PROVE  ManagerHoldsTheStakes'
<1>1. \A q \in RequestIds : StakedOn(q)' = StakedOn(q)
  BY StakesUntouched DEF StepSound
<1>2. [q \in RequestIds |-> StakedOn(q)'] = [q \in RequestIds |-> StakedOn(q)]
  BY <1>1
<1>3. QED BY <1>2 DEF ManagerHoldsTheStakes

LEMMA StakesAdd ==
  ASSUME NegotiationInv, StepSound, ManagerHoldsTheStakes, cargo[Manager] \in Nat,
         NEW r \in RequestIds, WasFunded(requests[r]), NEW new \in Amendments, PendingOK(new),
         amendmentRequests' = [amendmentRequests EXCEPT ![r] = Append(amendmentRequests[r], new)],
         cargo'[Manager] = cargo[Manager] + StakeWith(requests[r].shipper, new)
  PROVE  ManagerHoldsTheStakes'
<1> DEFINE d == StakeWith(requests[r].shipper, new)
<1>1. amendmentRequests \in [RequestIds -> Seq(Amendments)]
      /\ \A a \in DOMAIN amendmentRequests[r] : PendingOK(amendmentRequests[r][a])
  BY DEF NegotiationInv, NegotiationTypes, Negotiated
<1>2. ASSUME NEW q \in RequestIds, q # r PROVE StakedOn(q)' = StakedOn(q)
  <2>1. amendmentRequests'[q] = amendmentRequests[q] /\ Moves(q)
    BY <1>1, <1>2 DEF StepSound
  <2>2. QED BY <2>1, StakesUntouched
<1>3. d \in Nat
  BY StakeWithIsNat
<1>4. requests'[r].shipper = requests[r].shipper
  BY DEF StepSound, Moves, Steady
<1>5. StakedOn(r)' = SumOver(ListStakes(requests'[r].shipper, amendmentRequests'[r]))
  BY DEF StakedOn, ListStakes, StakeOf, StagedFunding, StakeWith
<1>6. StakedOn(r) = SumOver(ListStakes(requests[r].shipper, amendmentRequests[r]))
  BY StakesRead
<1>7. amendmentRequests[r] \in Seq(Amendments)
      /\ amendmentRequests'[r] = Append(amendmentRequests[r], new)
  BY <1>1
<1>8. StakedOn(r)' = StakedOn(r) + d
  <2>1. SumOver(ListStakes(requests[r].shipper, Append(amendmentRequests[r], new))) =
          SumOver(ListStakes(requests[r].shipper, amendmentRequests[r])) + d
    BY <1>1, <1>7, StakeAppended
  <2>2. QED BY <1>4, <1>5, <1>6, <1>7, <2>1
<1>9. PICK delta : delta = d
  OBVIOUS
<1>10. delta \in Int /\ StakedOn(r)' = StakedOn(r) + delta /\ cargo'[Manager] = cargo[Manager] + delta
  BY <1>3, <1>8, <1>9
<1>11. NegotiationInv'
  BY DEF StepSound
<1>12. QED BY <1>2, <1>10, <1>11, StakesFollow

LEMMA StakesLeave ==
  ASSUME NegotiationInv, StepSound, ManagerHoldsTheStakes, cargo[Manager] \in Nat,
         NEW r \in RequestIds, NEW a, AnsweredStep(r, a),
         cargo'[Manager] = cargo[Manager] - StakeOf(r, amendmentRequests[r][a])
  PROVE  ManagerHoldsTheStakes'
<1> DEFINE list == amendmentRequests[r]
           s == StakeWith(requests[r].shipper, amendmentRequests[r][a])
<1>1. /\ amendmentRequests \in [RequestIds -> Seq(Amendments)] /\ list \in Seq(Amendments)
      /\ \A k \in DOMAIN list : PendingOK(list[k])
  BY DEF NegotiationInv, NegotiationTypes, Negotiated
<1>2. ASSUME NEW q \in RequestIds, q # r PROVE StakedOn(q)' = StakedOn(q)
  <2>1. amendmentRequests'[q] = amendmentRequests[q] /\ Moves(q)
    BY <1>2 DEF StepSound, AnsweredStep
  <2>2. QED BY <2>1, StakesUntouched
<1>3. Answered(list, amendmentRequests'[r], a) /\ a \in DOMAIN list /\ list # <<>>
  BY DEF AnsweredStep, Answered
<1>4. s \in Nat
  <2>1. list[a] \in Amendments /\ PendingOK(list[a])
    BY <1>1, <1>3
  <2>2. QED BY <2>1, StakeWithIsNat
<1>5. requests'[r].shipper = requests[r].shipper
  <2>1. WasFunded(requests[r])
    BY <1>3 DEF NegotiationInv, Negotiated
  <2>2. QED BY <2>1 DEF StepSound, Moves, Steady
<1>6. StakedOn(r)' = SumOver(ListStakes(requests'[r].shipper, amendmentRequests'[r]))
  BY DEF StakedOn, ListStakes, StakeOf, StagedFunding, StakeWith
<1>7. /\ StakedOn(r) = SumOver(ListStakes(requests[r].shipper, list))
      /\ StakeOf(r, amendmentRequests[r][a]) = s
  BY StakesRead
<1>8. StakedOn(r)' = StakedOn(r) - s
  <2>1. SumOver(ListStakes(requests[r].shipper, amendmentRequests'[r])) =
          SumOver(ListStakes(requests[r].shipper, list)) - StakeWith(requests[r].shipper, list[a])
    BY <1>1, <1>3, StakeWithdrawn
  <2>2. QED BY <1>5, <1>6, <1>7, <2>1
<1> HIDE DEF s
<1>9. StakedOn(r) \in Nat /\ NegotiationInv'
  BY StakedIsNat DEF StepSound
<1>10. PICK delta : delta = 0 - s
  OBVIOUS
<1>11. delta \in Int /\ StakedOn(r)' = StakedOn(r) + delta /\ cargo'[Manager] = cargo[Manager] + delta
  BY <1>4, <1>7, <1>8, <1>9, <1>10
<1>12. QED BY <1>2, <1>9, <1>11, StakesFollow

-----------------------------------------------------------------------------
(* The steps of the composed system.                                        *)

ChainInv == EscrowInv /\ NegotiationInv /\ ManagerHoldsTheStakes

LEMMA ChainInitOK == ChainInit => ChainInv
<1> SUFFICES ASSUME ChainInit PROVE ChainInv
  OBVIOUS
<1>1. EscrowInv /\ NegotiationInv
  BY EscrowInitOK, NegotiationInitOK DEF ChainInit
<1>2. cargo[Manager] = 0
  BY NegotiationAssumption, AccountAssumption DEF ChainInit, Init, Accounts
<1>3. \A r \in RequestIds : StakedOn(r) = 0
  <2>1. ASSUME NEW r \in RequestIds PROVE StakedOn(r) = 0
    <3>1. amendmentRequests[r] = <<>>
      BY DEF ChainInit
    <3>2. [a \in DOMAIN amendmentRequests[r] |-> StakeOf(r, amendmentRequests[r][a])] =
            [a \in {} |-> 0]
      BY <3>1
    <3>3. QED BY <3>2, SumOfZeros DEF StakedOn
  <2>2. QED BY <2>1
<1>4. [r \in RequestIds |-> StakedOn(r)] = [r \in RequestIds |-> 0]
  BY <1>3
<1>5. ManagerHoldsTheStakes
  BY <1>2, <1>4, SumOfZeros DEF ManagerHoldsTheStakes
<1>6. QED BY <1>1, <1>5 DEF ChainInv

LEMMA ChainFacts ==
  ASSUME ChainInv
  PROVE  EscrowInv /\ NegotiationInv /\ ManagerHoldsTheStakes /\ IInv /\ cargo[Manager] \in Nat
BY DEF ChainInv, EscrowInv, AllInv, IInv, PoolOK, Accounts

(* An answer to an amendment, with what it is to the escrow.                *)
Answers(r, a) ==
  \/ \E gas \in Nat, price \in Nat : AcceptAmendment(r, a, gas, price)
  \/ \E outcome \in {"Rejected", "Withdrawn", "Expired"}, reimbursed \in Nat :
       /\ PendingAmendment(r, a) /\ reimbursed <= amendmentRequests[r][a].responseAllowance
       /\ ResolveAmendment(r, a, outcome, reimbursed)

LEMMA AnswersAre ==
  ASSUME ChainInv, NEW r \in RequestIds, NEW a,
         \/ \E gas \in GasReadings, price \in TxGasPrices :
              AcceptAmendment(r, a, gas, price) \/ RejectAmendment(r, a, gas, price)
         \/ WithdrawAmendment(r, a)
         \/ ExpireAmendment(r, a)
  PROVE  Answers(r, a)
<1>1. GasReadings \subseteq Nat /\ TxGasPrices \subseteq Nat
  BY InputAssumption
<1>2. ASSUME PendingAmendment(r, a)
      PROVE  /\ amendmentRequests[r][a] \in Amendments
             /\ amendmentRequests[r][a].responseAllowanceSpent = 0
             /\ 0 <= amendmentRequests[r][a].responseAllowance
  <2>1. PICK amendment : amendment = amendmentRequests[r][a]
    OBVIOUS
  <2>2. amendment \in Amendments /\ PendingOK(amendment) /\ amendment.status = "Pending"
        /\ amendment.responseAllowance \in Nat
    BY <1>2, <2>1, ChainFacts, PendingFacts
  <2>3. amendment.responseAllowanceSpent = 0 /\ 0 <= amendment.responseAllowance
    BY <2>2 DEF PendingOK
  <2>4. QED BY <2>1, <2>2, <2>3
<1>3. ASSUME NEW gas \in GasReadings, NEW price \in TxGasPrices, RejectAmendment(r, a, gas, price)
      PROVE  Answers(r, a)
  <2>1. PendingAmendment(r, a)
        /\ ResolveAmendment(r, a, "Rejected", ResponseReimbursement(amendmentRequests[r][a], gas, price))
    BY <1>3 DEF RejectAmendment
  <2>2. PICK amendment : amendment = amendmentRequests[r][a]
    OBVIOUS
  <2>3. amendment \in Amendments /\ amendment.responseAllowanceSpent = 0
    BY <1>2, <2>1, <2>2
  <2>4. /\ ResponseReimbursement(amendment, gas, price) \in Nat
        /\ ResponseReimbursement(amendment, gas, price) <= amendment.responseAllowance
    BY <1>1, <2>3, ReimbursementWithin
  <2>5. QED BY <2>1, <2>2, <2>4 DEF Answers
<1>4. ASSUME WithdrawAmendment(r, a) PROVE Answers(r, a)
  BY <1>2, <1>4 DEF WithdrawAmendment, Answers
<1>5. ASSUME ExpireAmendment(r, a) PROVE Answers(r, a)
  BY <1>2, <1>5 DEF ExpireAmendment, Answers
<1>6. ASSUME NEW gas \in GasReadings, NEW price \in TxGasPrices, AcceptAmendment(r, a, gas, price)
      PROVE  Answers(r, a)
  BY <1>1, <1>6 DEF Answers
<1>7. QED BY <1>3, <1>4, <1>5, <1>6

LEMMA AnswersOK ==
  ASSUME ChainInv, NEW r \in RequestIds, NEW a, Answers(r, a)
  PROVE  StepSound /\ ManagerHoldsTheStakes'
<1>1. EscrowInv /\ NegotiationInv /\ ManagerHoldsTheStakes /\ IInv /\ cargo[Manager] \in Nat
  BY ChainFacts
<1>2. PICK amendment : amendment = amendmentRequests[r][a]
  OBVIOUS
<1>3. ASSUME NEW gas \in Nat, NEW price \in Nat, AcceptAmendment(r, a, gas, price)
      PROVE  StepSound /\ ManagerHoldsTheStakes'
  <2>1. StepSound
    BY <1>1, <1>3, AcceptKeeps
  <2>2. AnsweredStep(r, a) /\ cargo'[Manager] = cargo[Manager] - StakeOf(r, amendment)
    BY <1>1, <1>2, <1>3, AcceptFacts DEF AnsweredStep
  <2>3. QED BY <1>1, <1>2, <2>1, <2>2, StakesLeave
<1>4. ASSUME NEW outcome \in {"Rejected", "Withdrawn", "Expired"}, NEW reimbursed \in Nat,
             PendingAmendment(r, a), reimbursed <= amendment.responseAllowance,
             ResolveAmendment(r, a, outcome, reimbursed)
      PROVE  StepSound /\ ManagerHoldsTheStakes'
  <2>1. StepSound
    BY <1>1, <1>2, <1>4, ResolveKeeps
  <2>2. AnsweredStep(r, a) /\ cargo'[Manager] = cargo[Manager] - StakeOf(r, amendment)
    BY <1>1, <1>2, <1>4, ResolveFacts DEF AnsweredStep
  <2>3. QED BY <1>1, <1>2, <2>1, <2>2, StakesLeave
<1>5. QED BY <1>2, <1>3, <1>4 DEF Answers

LEMMA AmendmentStepOK ==
  ASSUME ChainInv, NEW r \in RequestIds, AmendmentStep(r)
  PROVE  StepSound /\ ManagerHoldsTheStakes'
<1>1. EscrowInv /\ NegotiationInv /\ ManagerHoldsTheStakes /\ IInv /\ cargo[Manager] \in Nat
  BY ChainFacts
<1>2. ASSUME NEW newDeadline \in Deadlines, ExtendShipmentDeadline(r, newDeadline)
      PROVE  StepSound /\ ManagerHoldsTheStakes'
  <2>1. StepSound
    BY <1>1, <1>2, ExtendKeeps
  <2>2. UNCHANGED cargo /\ PaidAmendment(r, newDeadline, <<>>, <<>>, 0)
        /\ <<>> \in Fundings(r) /\ <<>> \in Additions(r)
    BY <1>1, <1>2, ExtendFacts
  <2>3. PICK new \in Amendments :
          /\ new.status = "Accepted"
          /\ amendmentRequests' = [amendmentRequests EXCEPT ![r] = Append(amendmentRequests[r], new)]
    BY <1>1, <1>2, ExtendFacts
  <2>4. WasFunded(requests[r])
    BY <1>1, <2>2, RenegotiatedFigures DEF PaidAmendment, FieldsKept
  <2>5. PendingOK(new) /\ StakeWith(requests[r].shipper, new) = 0
    BY <2>3 DEF PendingOK, StakeWith
  <2>6. cargo'[Manager] = cargo[Manager] + StakeWith(requests[r].shipper, new)
    BY <1>1, <2>2, <2>5
  <2>7. QED BY <1>1, <2>1, <2>3, <2>4, <2>5, <2>6, StakesAdd
<1>3. ASSUME NEW who \in Users, NEW proposedDeadline \in Deadlines, NEW responseDeadline \in Deadlines,
             NEW existing \in Fundings(r), NEW additions \in Additions(r),
             NEW price \in ReferenceGasPrices, NEW allowance \in ResponseAllowances,
             RequestAmendment(r, who, proposedDeadline, responseDeadline,
                              existing, additions, price, allowance)
      PROVE  StepSound /\ ManagerHoldsTheStakes'
  <2>1. StepSound
    BY <1>1, <1>3, RequestAmendmentKeeps
  <2>2. WasFunded(requests[r])
    BY <1>1, <1>3, RequestAmendmentFacts
  <2>3. PICK new \in Amendments :
          /\ amendmentRequests' = [amendmentRequests EXCEPT ![r] = Append(amendmentRequests[r], new)]
          /\ new.status = "Pending" /\ PendingOK(new)
          /\ cargo'[Manager] = cargo[Manager] + StakeOf(r, new)
    BY <1>1, <1>3, RequestAmendmentFacts
  <2>4. StakeOf(r, new) = StakeWith(requests[r].shipper, new)
    BY DEF StakeOf, StagedFunding, StakeWith
  <2>5. QED BY <1>1, <2>1, <2>2, <2>3, <2>4, StakesAdd
<1>4. ASSUME NEW a \in 1 .. MaxNegotiations,
             \/ \E gas \in GasReadings, price \in TxGasPrices :
                  AcceptAmendment(r, a, gas, price) \/ RejectAmendment(r, a, gas, price)
             \/ WithdrawAmendment(r, a)
             \/ ExpireAmendment(r, a)
      PROVE  StepSound /\ ManagerHoldsTheStakes'
  BY <1>4, AnswersAre, AnswersOK
<1>5. QED BY <1>2, <1>3, <1>4 DEF AmendmentStep

LEMMA CancellationStepOK ==
  ASSUME ChainInv, NEW r \in RequestIds, CancellationStep(r)
  PROVE  StepSound /\ ManagerHoldsTheStakes' /\ UNCHANGED amendmentRequests
         /\ (UNCHANGED vars \/ (Next /\ RequestExists(r) /\ Refund(r)))
<1>1. EscrowInv /\ NegotiationInv /\ ManagerHoldsTheStakes /\ IInv /\ cargo[Manager] \in Nat
  BY ChainFacts
<1>2. ASSUME NEW who \in Users, NEW responseDeadline \in Deadlines,
             RequestCancellation(r, who, responseDeadline)
      PROVE  StepSound /\ UNCHANGED vars /\ UNCHANGED amendmentRequests
  BY <1>1, <1>2, RequestCancellationKeeps DEF RequestCancellation
<1>3. ASSUME NEW c, AcceptCancellation(r, c)
      PROVE  /\ StepSound /\ Next /\ Refund(r) /\ RequestExists(r)
             /\ UNCHANGED amendmentRequests
  <2>1. Next /\ Refund(r) /\ RequestExists(r)
    BY <1>3, AcceptedCancellationIsAStep
  <2>2. ResolveCancellation(r, c, "Accepted") /\ "Accepted" \in AmendmentStatus \ {"Pending"}
    BY <1>3 DEF AcceptCancellation, AmendmentStatus
  <2>3. QED BY <1>1, <2>1, <2>2, ResolveCancellationKeeps DEF ResolveCancellation
<1>4. ASSUME NEW c, RejectCancellation(r, c) \/ WithdrawCancellation(r, c) \/ ExpireCancellation(r, c)
      PROVE  StepSound /\ UNCHANGED vars /\ UNCHANGED amendmentRequests
  <2>1. PICK outcome \in {"Rejected", "Withdrawn", "Expired"} :
          ResolveCancellation(r, c, outcome) /\ UNCHANGED vars
    BY <1>4 DEF RejectCancellation, WithdrawCancellation, ExpireCancellation
  <2>2. outcome \in AmendmentStatus \ {"Pending"}
    BY DEF AmendmentStatus
  <2>3. QED BY <1>1, <2>1, <2>2, ResolveCancellationKeeps DEF ResolveCancellation
<1>5. /\ StepSound /\ UNCHANGED amendmentRequests
      /\ UNCHANGED vars \/ (Next /\ RequestExists(r) /\ Refund(r))
  BY <1>2, <1>3, <1>4 DEF CancellationStep
<1>6. cargo'[Manager] = cargo[Manager]
  <2>1. CASE UNCHANGED vars
    BY <2>1 DEF vars, moneyVars
  <2>2. CASE RequestExists(r) /\ Refund(r)
    <3>1. PICK amount : cargo' = Transfer(cargo, Escrow, requests[r].shipper, amount)
      BY <2>2 DEF Refund
    <3>2. requests[r].shipper \in Users
      BY <1>1, <2>2 DEF IInv, RequestsOK, RequestExists
    <3>3. DOMAIN cargo = Accounts /\ Escrow # Manager /\ requests[r].shipper # Manager
      BY <1>1, <3>2, AccountAssumption DEF IInv, PoolOK
    <3>4. QED BY <3>1, <3>3, ManagerStandsBy
  <2>3. QED BY <1>5, <2>1, <2>2
<1>7. QED BY <1>1, <1>5, <1>6, StakesKeep

LEMMA EscrowStepIsOwn == EscrowStep => OwnStep
BY DEF EscrowStep, OwnStep

LEMMA ChainStepOK ==
  ASSUME ChainInv, [ChainNext]_chainVars
  PROVE  StepSound /\ ManagerHoldsTheStakes'
<1>1. EscrowInv /\ NegotiationInv /\ ManagerHoldsTheStakes /\ IInv
  BY ChainFacts
<1>2. CASE EscrowStep /\ UNCHANGED negotiationVars
  <2>1. StepSound /\ cargo'[Manager] = cargo[Manager] /\ UNCHANGED amendmentRequests
    BY <1>1, <1>2, EscrowStepIsOwn, EscrowKeeps, OwnStepSparesManager DEF negotiationVars
  <2>2. QED BY <1>1, <2>1, StakesKeep
<1>3. CASE UNCHANGED chainVars
  <2>1. UNCHANGED vars /\ UNCHANGED negotiationVars
    BY <1>3 DEF chainVars
  <2>2. StepSound
    BY <1>1, <2>1, EscrowKeeps
  <2>3. UNCHANGED amendmentRequests /\ cargo'[Manager] = cargo[Manager]
    BY <2>1 DEF negotiationVars, vars, moneyVars
  <2>4. QED BY <1>1, <2>2, <2>3, StakesKeep
<1>4. QED BY <1>2, <1>3, AmendmentStepOK, CancellationStepOK DEF ChainNext

LEMMA ChainInvariant == ChainSpec => []ChainInv
<1>1. ChainInv /\ [ChainNext]_chainVars => ChainInv'
  BY ChainStepOK DEF StepSound, ChainInv
<1>2. QED BY <1>1, ChainInitOK, PTL DEF ChainSpec

-----------------------------------------------------------------------------
(* The agreement.                                                           *)

AcceptedOf(list) == {a \in DOMAIN list : list[a].status = "Accepted"}

LEMMA OneMoreAccepted ==
  ASSUME NEW list \in Seq(Amendments), NEW list2, NEW n, n \notin AcceptedOf(list),
         AcceptedOf(list2) = AcceptedOf(list) \cup {n}
  PROVE  Cardinality(AcceptedOf(list2)) = Cardinality(AcceptedOf(list)) + 1
<1>1. AcceptedOf(list) \subseteq 1 .. Len(list)
  BY DEF AcceptedOf
<1>2. IsFiniteSet(AcceptedOf(list))
  BY <1>1, FS_Interval, FS_Subset
<1>3. QED BY <1>2, FS_AddElement

AcceptedIsValid(q) ==
  \A a \in DOMAIN amendmentRequests[q] :
    (amendmentRequests[q][a].status = "Pending" /\ amendmentRequests'[q][a].status = "Accepted")
      => StillValid(q, amendmentRequests[q][a])

(* One step, one shipment: the agreement stays or one more is accepted.     *)
AgreementOK(q) ==
  /\ Active(q) => \/ TermsKept(q)
                  \/ Cardinality(AcceptedOf(amendmentRequests'[q])) =
                       Cardinality(AcceptedOf(amendmentRequests[q])) + 1
  /\ AcceptedIsValid(q)

LEMMA ProceedingKeepsTheAgreement ==
  ASSUME IInv, NEW q \in RequestIds, Proceeds(q)
  PROVE  Active(q) => TermsKept(q)
BY ProceedsSteady DEF Active, WasFunded

LEMMA NothingAccepted ==
  ASSUME NEW q \in RequestIds, Active(q) => TermsKept(q),
         \A a \in DOMAIN amendmentRequests[q] :
           \/ amendmentRequests'[q][a] = amendmentRequests[q][a]
           \/ amendmentRequests'[q][a].status # "Accepted"
  PROVE  AgreementOK(q)
BY DEF AgreementOK, AcceptedIsValid

(* Every step but those that accept something.                              *)
LEMMA OthersKeepTheAgreement ==
  ASSUME NEW r \in RequestIds, NEW q \in RequestIds, q # r, Same(q),
         amendmentRequests'[q] = amendmentRequests[q]
  PROVE  AgreementOK(q)
<1>1. TermsKept(q)
  BY DEF Same, TermsKept
<1>2. QED BY <1>1, NothingAccepted

LEMMA AppendedAgreement ==
  ASSUME NegotiationInv, NEW r \in RequestIds, NEW new \in Amendments,
         amendmentRequests' = [amendmentRequests EXCEPT ![r] = Append(amendmentRequests[r], new)],
         TermsKept(r) \/ new.status = "Accepted"
  PROVE  /\ AgreementOK(r)
         /\ \A q \in RequestIds : q # r => amendmentRequests'[q] = amendmentRequests[q]
<1> DEFINE list == amendmentRequests[r]
           list2 == amendmentRequests'[r]
           n == Len(list) + 1
<1>1. /\ amendmentRequests \in [RequestIds -> Seq(Amendments)] /\ list \in Seq(Amendments)
      /\ list2 = Append(list, new)
      /\ \A q \in RequestIds : q # r => amendmentRequests'[q] = amendmentRequests[q]
  BY DEF NegotiationInv, NegotiationTypes
<1>2. /\ n \notin DOMAIN list /\ DOMAIN list2 = DOMAIN list \cup {n} /\ list2[n] = new
      /\ \A a \in DOMAIN list : list2[a] = list[a]
  BY <1>1
<1>3. AcceptedIsValid(r)
  BY <1>2 DEF AcceptedIsValid
<1>4. CASE TermsKept(r)
  BY <1>1, <1>3, <1>4 DEF AgreementOK
<1>5. CASE new.status = "Accepted"
  <2> HIDE DEF n
  <2>1. n \notin AcceptedOf(list) /\ AcceptedOf(list2) = AcceptedOf(list) \cup {n}
    BY <1>2, <1>5 DEF AcceptedOf
  <2>2. Cardinality(AcceptedOf(list2)) = Cardinality(AcceptedOf(list)) + 1
    BY <1>1, <2>1, OneMoreAccepted
  <2>3. QED BY <1>1, <1>3, <2>2 DEF AgreementOK
<1>6. QED BY <1>1, <1>4, <1>5

LEMMA AnsweredAgreement ==
  ASSUME ChainInv, NEW r \in RequestIds, NEW a, Answers(r, a), NEW q \in RequestIds
  PROVE  AgreementOK(q)
<1>1. EscrowInv /\ NegotiationInv /\ ManagerHoldsTheStakes /\ IInv /\ cargo[Manager] \in Nat
  BY ChainFacts
<1>2. PICK amendment : amendment = amendmentRequests[r][a]
  OBVIOUS
<1>3. ASSUME NEW gas \in Nat, NEW price \in Nat, AcceptAmendment(r, a, gas, price)
      PROVE  AgreementOK(q)
  <2>1. /\ StillValid(r, amendment) /\ AnsweredStep(r, a)
        /\ amendmentRequests'[r][a].status = "Accepted"
    BY <1>1, <1>2, <1>3, AcceptFacts DEF AnsweredStep
  <2>2. CASE q # r
    BY <1>1, <1>3, <2>1, <2>2, AcceptKeeps, OthersKeepTheAgreement DEF AnsweredStep
  <2>3. CASE q = r
    <3> DEFINE list == amendmentRequests[r]
               list2 == amendmentRequests'[r]
    <3>1. /\ list \in Seq(Amendments) /\ a \in DOMAIN list /\ DOMAIN list2 = DOMAIN list
          /\ \A k \in DOMAIN list : k # a => list2[k] = list[k]
      BY <1>1, <2>1 DEF NegotiationInv, NegotiationTypes, AnsweredStep, Answered
    <3>2. list[a].status = "Pending" /\ list2[a].status = "Accepted"
      BY <1>3, <2>1 DEF AcceptAmendment, PendingAmendment
    <3>3. a \notin AcceptedOf(list) /\ AcceptedOf(list2) = AcceptedOf(list) \cup {a}
      BY <3>1, <3>2 DEF AcceptedOf
    <3>4. Cardinality(AcceptedOf(list2)) = Cardinality(AcceptedOf(list)) + 1
      BY <3>1, <3>3, OneMoreAccepted
    <3>5. AcceptedIsValid(r)
      BY <1>2, <2>1, <3>1 DEF AcceptedIsValid
    <3>6. QED BY <2>3, <3>4, <3>5 DEF AgreementOK
  <2>4. QED BY <2>2, <2>3
<1>4. ASSUME NEW outcome \in {"Rejected", "Withdrawn", "Expired"}, NEW reimbursed \in Nat,
             PendingAmendment(r, a), reimbursed <= amendment.responseAllowance,
             ResolveAmendment(r, a, outcome, reimbursed)
      PROVE  AgreementOK(q)
  <2>1. /\ BesideTheEscrow /\ AnsweredStep(r, a)
        /\ amendmentRequests'[r][a].status = outcome
    BY <1>1, <1>2, <1>4, ResolveFacts DEF AnsweredStep
  <2>2. TermsKept(q)
    BY <1>1, <2>1, BesideMoves DEF Same, TermsKept
  <2>3. \A k \in DOMAIN amendmentRequests[q] :
          \/ amendmentRequests'[q][k] = amendmentRequests[q][k]
          \/ amendmentRequests'[q][k].status # "Accepted"
    BY <2>1 DEF AnsweredStep, Answered
  <2>4. QED BY <2>2, <2>3, NothingAccepted
<1>5. QED BY <1>2, <1>3, <1>4 DEF Answers

LEMMA AmendmentAgreement ==
  ASSUME ChainInv, NEW r \in RequestIds, AmendmentStep(r), NEW q \in RequestIds
  PROVE  AgreementOK(q)
<1>1. EscrowInv /\ NegotiationInv /\ ManagerHoldsTheStakes /\ IInv /\ cargo[Manager] \in Nat
  BY ChainFacts
<1>2. ASSUME NEW newDeadline \in Deadlines, ExtendShipmentDeadline(r, newDeadline)
      PROVE  AgreementOK(q)
  <2>1. PaidAmendment(r, newDeadline, <<>>, <<>>, 0) /\ <<>> \in Fundings(r) /\ <<>> \in Additions(r)
    BY <1>1, <1>2, ExtendFacts
  <2>2. PICK new \in Amendments :
          /\ new.status = "Accepted"
          /\ amendmentRequests' = [amendmentRequests EXCEPT ![r] = Append(amendmentRequests[r], new)]
    BY <1>1, <1>2, ExtendFacts
  <2>3. AgreementOK(r) /\ (q # r => amendmentRequests'[q] = amendmentRequests[q])
    BY <1>1, <2>2, AppendedAgreement
  <2>4. q # r => Same(q)
    BY <1>1, <2>1, PaidAmendmentMoves
  <2>5. QED BY <2>3, <2>4, OthersKeepTheAgreement
<1>3. ASSUME NEW who \in Users, NEW proposedDeadline \in Deadlines, NEW responseDeadline \in Deadlines,
             NEW existing \in Fundings(r), NEW additions \in Additions(r),
             NEW price \in ReferenceGasPrices, NEW allowance \in ResponseAllowances,
             RequestAmendment(r, who, proposedDeadline, responseDeadline,
                              existing, additions, price, allowance)
      PROVE  AgreementOK(q)
  <2>1. BesideTheEscrow
    BY <1>1, <1>3, RequestAmendmentFacts
  <2>2. PICK new \in Amendments :
          amendmentRequests' = [amendmentRequests EXCEPT ![r] = Append(amendmentRequests[r], new)]
    BY <1>1, <1>3, RequestAmendmentFacts
  <2>3. Same(q) /\ Same(r)
    BY <1>1, <2>1, BesideMoves
  <2>4. AgreementOK(r) /\ (q # r => amendmentRequests'[q] = amendmentRequests[q])
    BY <1>1, <2>2, <2>3, AppendedAgreement DEF Same, TermsKept
  <2>5. QED BY <2>3, <2>4, OthersKeepTheAgreement
<1>4. ASSUME NEW a \in 1 .. MaxNegotiations,
             \/ \E gas \in GasReadings, price \in TxGasPrices :
                  AcceptAmendment(r, a, gas, price) \/ RejectAmendment(r, a, gas, price)
             \/ WithdrawAmendment(r, a)
             \/ ExpireAmendment(r, a)
      PROVE  AgreementOK(q)
  BY <1>4, AnswersAre, AnsweredAgreement
<1>5. QED BY <1>2, <1>3, <1>4 DEF AmendmentStep

LEMMA AgreementStepOK ==
  ASSUME ChainInv, [ChainNext]_chainVars, NEW q \in RequestIds
  PROVE  AgreementOK(q)
<1>1. IInv
  BY ChainFacts
<1>2. ASSUME Proceeds(q), UNCHANGED amendmentRequests PROVE AgreementOK(q)
  BY <1>1, <1>2, ProceedingKeepsTheAgreement, NothingAccepted
<1>3. CASE [OwnStep]_vars /\ UNCHANGED amendmentRequests
  BY <1>1, <1>2, <1>3, OwnStepCases
<1>4. ASSUME NEW r \in RequestIds, CancellationStep(r) PROVE AgreementOK(q)
  <2>1. UNCHANGED amendmentRequests /\ (UNCHANGED vars \/ (RequestExists(r) /\ Refund(r)))
    BY <1>4, CancellationStepOK
  <2>2. CASE UNCHANGED vars
    BY <1>3, <2>1, <2>2
  <2>3. CASE RequestExists(r) /\ Refund(r)
    <3>1. q # r => Same(q)
      BY <1>1, <2>3, StateTypes DEF Refund, workVars, Same
    <3>2. Proceeds(q)
      BY <2>3, <3>1 DEF Proceeds
    <3>3. QED BY <1>2, <2>1, <3>2
  <2>4. QED BY <2>1, <2>2, <2>3
<1>5. CASE UNCHANGED chainVars
  BY <1>3, <1>5 DEF chainVars, negotiationVars
<1>6. CASE EscrowStep /\ UNCHANGED negotiationVars
  BY <1>3, <1>6, EscrowStepIsOwn DEF negotiationVars
<1>7. QED BY <1>4, <1>5, <1>6, AmendmentAgreement DEF ChainNext

-----------------------------------------------------------------------------
(* The theorems.                                                            *)

(* The escrow stays sound under the manager that drives it: its balances,   *)
(* its totals, its reserve, its milestones and its order fit each other     *)
(* although amendments are applied long after they were validated           *)
(* (finalizeAmendment repeats none of the manager's checks), are paid from  *)
(* CARGO the manager held meanwhile, and interleave with proofs, reviews,   *)
(* refunds and mutual cancellations of the same shipment.                   *)
THEOREM EscrowSoundUnderTheManager == ChainSpec => []EscrowStaysSound
<1>1. ChainInv => EscrowStaysSound
  <2> SUFFICES ASSUME ChainInv PROVE EscrowStaysSound
    OBVIOUS
  <2>1. IInv /\ OrderInv /\ WorthInv /\ HeldInv /\ ActiveCountsMatch
    BY DEF ChainInv, EscrowInv, AllInv
  <2>2. EscrowIsBacked /\ LockedTotalsMatch /\ ExecutionOrderIsComplete
    BY <2>1 DEF IInv, PoolOK, WorkOK
  <2>3. MoneyFollowsTheWork
    BY <2>1, InvariantsFollowTheWork
  <2>4. MilestonesDoneInOrder
    BY <2>1 DEF OrderInv, Sound, InOrder, Begun, MilestonesDoneInOrder
  <2>5. QED BY <2>1, <2>2, <2>3, <2>4 DEF MoneyFollowsTheWork, EscrowStaysSound
<1>2. QED BY <1>1, ChainInvariant, PTL

LEMMA PendingIsTheSlot ==
  ASSUME NegotiationInv, NEW r \in RequestIds
  PROVE  PendingNegotiations(r) =
           IF activeNegotiation[r].kind = "None" THEN {}
           ELSE {<<activeNegotiation[r].kind, activeNegotiation[r].id>>}
<1> DEFINE kind == activeNegotiation[r].kind
           id == activeNegotiation[r].id
<1>1. SlotOK(r) /\ kind \in {"None", "Amendment", "Cancellation"}
  BY DEF NegotiationInv, NegotiationTypes, Negotiated, Slots
<1>2. \A a : a \in DOMAIN amendmentRequests[r] /\ amendmentRequests[r][a].status = "Pending"
               <=> kind = "Amendment" /\ id = a
  BY <1>1 DEF SlotOK, IsActiveNegotiation
<1>3. \A c : c \in DOMAIN cancellationRequests[r] /\ cancellationRequests[r][c].status = "Pending"
               <=> kind = "Cancellation" /\ id = c
  BY <1>1 DEF SlotOK, IsActiveNegotiation
<1> HIDE DEF kind, id
<1>4. PendingNegotiations(r) = IF kind = "None" THEN {} ELSE {<<kind, id>>}
  BY <1>1, <1>2, <1>3 DEF PendingNegotiations
<1>5. QED BY <1>4 DEF kind, id

(* Whatever is pending has its stake with the manager and the slot to       *)
(* itself, for any number of shipments: _closeNegotiation, the refund of    *)
(* what was staged and the reimbursement of the responder, each in its own  *)
(* place in eight functions, never free one without the other, and no       *)
(* reimbursement or return is paid from another amendment's stake.          *)
THEOREM PendingAlwaysKeepsItsStake == ChainSpec => []PendingKeepsStakeAndSlot
<1>1. ChainInv => PendingKeepsStakeAndSlot
  BY PendingIsTheSlot DEF ChainInv, PendingKeepsStakeAndSlot, OneNegotiationSlot
<1>2. QED BY <1>1, ChainInvariant, PTL

LEMMA KeptAgreement ==
  ASSUME NEW r \in RequestIds, TermsKept(r)
  PROVE  Agreement(r)' = Agreement(r)
BY DEF TermsKept, Agreement

LEMMA AgreementRead ==
  ASSUME NEW r \in RequestIds, AgreementOK(r)
  PROVE  /\ (Active(r) /\ Agreement(r)' # Agreement(r)) => AcceptedCount(r)' = AcceptedCount(r) + 1
         /\ AcceptedIsValid(r)
BY KeptAgreement DEF AgreementOK, AcceptedCount, AcceptedOf

(* Deadline, execution order and added payouts of a shipment in progress    *)
(* change only as one more amendment is recorded as accepted, and at that   *)
(* moment its allocations are valid against the milestones and the deadline *)
(* as they are then: comparing the pinned milestoneStateVersion is enough,  *)
(* because everything _validateAmendmentAllocations looked at moves with it.*)
THEOREM AgreementAlwaysChangesByAcceptance == ChainSpec => AgreementChangesByValidAcceptance
<1>1. ChainInv /\ [ChainNext]_chainVars =>
        [\A r \in RequestIds :
           /\ (Active(r) /\ Agreement(r)' # Agreement(r)) => AcceptedCount(r)' = AcceptedCount(r) + 1
           /\ \A a \in DOMAIN amendmentRequests[r] :
                (amendmentRequests[r][a].status = "Pending" /\ amendmentRequests'[r][a].status = "Accepted")
                  => StillValid(r, amendmentRequests[r][a])]_chainVars
  BY AgreementStepOK, AgreementRead DEF AcceptedIsValid
<1>2. QED BY <1>1, ChainInvariant, PTL DEF ChainSpec, AgreementChangesByValidAcceptance

LEMMA AmendmentsAreTyped ==
  ASSUME NEW amendment \in Amendments
  PROVE  IsAmendment(amendment)
<1>1. /\ amendment.requester \in Users /\ amendment.responder \in Users \cup {NoUser}
      /\ amendment.previousDeadline \in Nat /\ amendment.proposedDeadline \in Deadlines
      /\ amendment.existing \in ExistingFundings /\ amendment.additions \in AnyAdditions
      /\ amendment.additionalFunding \in Nat /\ amendment.operationalAllowance \in Nat
      /\ amendment.responseDeadline \in Nat /\ amendment.status \in AmendmentStatus
      /\ amendment.responseAllowance \in Nat /\ amendment.responseAllowanceSpent \in Nat
      /\ amendment.responseReimbursed \in BOOLEAN /\ amendment.responseGasPriceCap \in Nat
  BY DEF Amendments
<1>2. amendment.proposedDeadline \in Nat /\ FundingAmounts \subseteq Nat
  BY <1>1, InputAssumption
<1>3. /\ amendment.existing \in [DOMAIN amendment.existing -> Nat]
      /\ DOMAIN amendment.existing \subseteq MilestoneIds
  <2>1. PICK existing : existing = amendment.existing
    OBVIOUS
  <2>2. CASE existing = <<>>
    BY <2>1, <2>2
  <2>3. CASE \E m \in MilestoneIds : existing \in [{m} -> FundingAmounts]
    BY <1>2, <2>1, <2>3
  <2>4. QED BY <1>1, <2>1, <2>2, <2>3 DEF ExistingFundings
<1>4. amendment.additions \in Seq([insertBefore : MilestoneIds \cup {AppendMilestoneId}, amount : Nat])
  <2> DEFINE All == [insertBefore : MilestoneIds \cup {AppendMilestoneId}, amount : Nat]
  <2>1. PICK additions : additions = amendment.additions
    OBVIOUS
  <2>2. AnyAddition \subseteq All
    BY <1>2 DEF AnyAddition
  <2> HIDE DEF All
  <2>3. CASE additions = <<>>
    BY <2>1, <2>3 DEF All
  <2>4. CASE additions \in [1 .. 1 -> AnyAddition]
    <3>1. additions \in [1 .. 1 -> All]
      BY <2>2, <2>4
    <3>2. additions \in Seq(All)
      BY <3>1
    <3>3. QED BY <2>1, <3>2 DEF All
  <2>5. CASE additions \in [1 .. 2 -> AnyAddition]
    <3>1. additions \in [1 .. 2 -> All]
      BY <2>2, <2>5
    <3>2. PICK n \in Nat : n = 2
      OBVIOUS
    <3>3. additions \in [1 .. n -> All]
      BY <3>1, <3>2
    <3>4. additions \in Seq(All)
      BY <3>3
    <3>5. QED BY <2>1, <3>4 DEF All
  <2>6. QED BY <1>1, <2>1, <2>3, <2>4, <2>5 DEF AnyAdditions
<1>5. QED BY <1>1, <1>2, <1>3, <1>4 DEF IsAmendment

(* Every variable of the two contracts together keeps its type: none of the *)
(* manager's subtractions (staged funds, allowances left, reimbursements)   *)
(* can revert, and no CARGO transfer of either contract is short.           *)
THEOREM ChainTypeCorrect == ChainSpec => []ChainTypeOK
<1>1. ChainInv => ChainTypeOK
  <2> SUFFICES ASSUME ChainInv PROVE ChainTypeOK
    OBVIOUS
  <2>1. TypeOK
    BY DEF ChainInv, EscrowInv, AllInv, IInv, ClockOK, MarketOK, RequestsOK, WorkOK, PoolOK,
           TypeOK, Proposals
  <2>2. NegotiationTypes
    BY DEF ChainInv, NegotiationInv
  <2>3. ASSUME NEW r \in RequestIds, NEW a \in DOMAIN amendmentRequests[r]
        PROVE  IsAmendment(amendmentRequests[r][a])
    BY <2>2, <2>3, AmendmentsAreTyped DEF NegotiationTypes
  <2>4. QED BY <2>1, <2>2, <2>3 DEF NegotiationTypes, Slots, ChainTypeOK
<1>2. QED BY <1>1, ChainInvariant, PTL

-----------------------------------------------------------------------------
(* Part IV.  What a transaction does to each part of a shipment: who has    *)
(* it, how it ended, its milestones, its talks, the offers for it.          *)

LEMMA NegotiableParties ==
  ASSUME IInv, NEW r \in RequestIds, WasFunded(requests[r])
  PROVE  requests[r].shipper \in Users /\ requests[r].carrier \in Users
BY FundedShipper, Figures

LEMMA ParticipantsAreUsers ==
  ASSUME IInv, NEW r \in RequestIds, NegotiableShipment(r)
  PROVE  \A who \in Participants(r) : who \in Users
<1>1. WasFunded(requests[r])
  BY DEF NegotiableShipment, Active, WasFunded
<1>2. QED BY <1>1, NegotiableParties DEF Participants

(* What of a shipment stays as it was.                                      *)
AwardStays(r) == requests'[r].carrier = requests[r].carrier
OutcomeStays(r) ==
  /\ requests'[r].status = "Completed" <=> requests[r].status = "Completed"
  /\ requests'[r].status = "Refunded" <=> requests[r].status = "Refunded"
  /\ tipAmounts'[r] = tipAmounts[r]
MilestoneStays(r, m) ==
  /\ milestones'[r][m].status = "Paid" <=> milestones[r][m].status = "Paid"
  /\ milestones'[r][m].status = "Submitted" => milestones[r][m].status = "Submitted"
  /\ m >= nextMilestoneId'[r] => m >= nextMilestoneId[r]
MilestonesStay(r) == \A m \in MilestoneIds : MilestoneStays(r, m)
TalkStays(r) == activeNegotiation'[r] = activeNegotiation[r]
OffersStay(r) == AwardStays(r) /\ activeProposal'[r] = activeProposal[r]

StoryStays(r) == AwardStays(r) /\ OutcomeStays(r) /\ MilestonesStay(r) /\ TalkStays(r) /\ OffersStay(r)

OthersStand(r) == \A q \in RequestIds : q # r => StoryStays(q)

LEMMA StoryTypes ==
  ASSUME ChainInv
  PROVE  /\ IInv /\ NegotiationInv
         /\ requests \in [RequestIds -> Requests] /\ tipAmounts \in [RequestIds -> Nat]
         /\ milestones \in [RequestIds -> [MilestoneIds -> Milestones]]
         /\ nextMilestoneId \in [RequestIds -> Nat]
         /\ activeProposal \in [RequestIds -> [Users -> Nat]]
         /\ activeNegotiation \in [RequestIds -> Slots]
         /\ \A r \in RequestIds : Deal(r) /\ Sound(r) /\ Balanced(r) /\ Held(r)
         /\ TipInv
         /\ \A m \in MilestoneIds : m \in Nat
<1>1. IInv /\ NegotiationInv /\ EscrowInv
  BY ChainFacts
<1>2. /\ requests \in [RequestIds -> Requests] /\ activeProposal \in [RequestIds -> [Users -> Nat]]
      /\ tipAmounts \in [RequestIds -> Nat]
      /\ milestones \in [RequestIds -> [MilestoneIds -> Milestones]]
      /\ nextMilestoneId \in [RequestIds -> Nat]
  BY <1>1, MarketTypes DEF IInv, ClockOK, WorkOK
<1>3. activeNegotiation \in [RequestIds -> Slots]
  BY <1>1 DEF NegotiationInv, NegotiationTypes
<1>4. TipInv /\ \A r \in RequestIds : Deal(r) /\ Sound(r) /\ Balanced(r) /\ Held(r)
  BY <1>1 DEF EscrowInv, AllInv, DealInv, OrderInv, WorthInv, HeldInv
<1>5. \A m \in MilestoneIds : m \in Nat
  BY DEF MilestoneIds
<1>6. QED BY <1>1, <1>2, <1>3, <1>4, <1>5

(* A transaction about one request changes that one.                        *)
Elsewhere(r) ==
  \A q \in RequestIds : q # r =>
    /\ requests'[q] = requests[q] /\ tipAmounts'[q] = tipAmounts[q]
    /\ milestones'[q] = milestones[q] /\ nextMilestoneId'[q] = nextMilestoneId[q]
    /\ activeProposal'[q] = activeProposal[q] /\ activeNegotiation'[q] = activeNegotiation[q]

LEMMA ElsewhereStands ==
  ASSUME NEW r, Elsewhere(r)
  PROVE  OthersStand(r)
BY DEF Elsewhere, OthersStand, StoryStays, AwardStays, OutcomeStays, MilestonesStay, MilestoneStays,
       TalkStays, OffersStay

(* The parts of a shipment that a transaction leaves alone.                 *)
LEMMA WorkUnchanged ==
  ASSUME NEW r, UNCHANGED <<milestones, nextMilestoneId>>
  PROVE  MilestonesStay(r)
BY DEF MilestonesStay, MilestoneStays

LEMMA QuietMoves ==
  ASSUME ChainInv, NEW r \in RequestIds, UNCHANGED negotiationVars,
         \/ CancelRequest(r)
         \/ \E amount : TopUpOperationalAllowance(r, amount)
         \/ \E m \in MilestoneIds : WithdrawProof(r, m)
  PROVE  OthersStand(r) /\ StoryStays(r)
<1>1. /\ requests \in [RequestIds -> Requests] /\ tipAmounts \in [RequestIds -> Nat]
      /\ milestones \in [RequestIds -> [MilestoneIds -> Milestones]]
      /\ nextMilestoneId \in [RequestIds -> Nat]
  BY StoryTypes
<1>2. UNCHANGED activeNegotiation
  BY DEF negotiationVars
<1>3. CASE CancelRequest(r)
  <2>1. /\ requests' = [requests EXCEPT ![r].status = "Cancelled"]
        /\ requests[r].status \in {"Open", "PendingApproval"}
        /\ UNCHANGED <<tipAmounts, milestones, nextMilestoneId, activeProposal>>
    BY <1>3 DEF CancelRequest, workVars
  <2>2. /\ requests'[r].carrier = requests[r].carrier /\ requests'[r].status = "Cancelled"
        /\ \A q \in RequestIds : q # r => requests'[q] = requests[q]
    BY <1>1, <2>1 DEF Requests
  <2>3. Elsewhere(r)
    BY <1>2, <2>1, <2>2 DEF Elsewhere
  <2>4. MilestonesStay(r)
    BY <2>1, WorkUnchanged
  <2>5. QED
    BY <1>2, <2>1, <2>2, <2>3, <2>4, ElsewhereStands
       DEF StoryStays, AwardStays, OutcomeStays, TalkStays, OffersStay
<1>4. ASSUME NEW amount, TopUpOperationalAllowance(r, amount) PROVE OthersStand(r) /\ StoryStays(r)
  <2>1. UNCHANGED <<tipAmounts, milestones, nextMilestoneId, activeProposal>>
    BY <1>4 DEF TopUpOperationalAllowance, marketVars
  <2>2. PICK cap :
          requests' = [requests EXCEPT ![r] =
            [[requests[r] EXCEPT !.operationalAllowance = @ + amount] EXCEPT !.gasPriceCap = cap]]
    <3> DEFINE topped == [requests[r] EXCEPT !.operationalAllowance = @ + amount]
               actions == RemainingProofActions(executionOrder[r], milestones[r])
               raised == actions > 0 /\ FundedCap(topped, actions) > topped.gasPriceCap
    <3>1. requests' = [requests EXCEPT ![r] =
            IF raised THEN [topped EXCEPT !.gasPriceCap = FundedCap(topped, actions)] ELSE topped]
      BY <1>4 DEF TopUpOperationalAllowance
    <3>2. requests[r] \in Requests
      BY <1>1
    <3>3. topped = [topped EXCEPT !.gasPriceCap = topped.gasPriceCap]
      BY <3>2 DEF Requests
    <3> HIDE DEF raised
    <3>4. CASE raised
      BY <3>1, <3>4
    <3>5. CASE ~raised
      BY <3>1, <3>3, <3>5
    <3>6. QED BY <3>4, <3>5
  <2>3. /\ requests'[r].carrier = requests[r].carrier /\ requests'[r].status = requests[r].status
        /\ \A q \in RequestIds : q # r => requests'[q] = requests[q]
    BY <1>1, <2>2 DEF Requests
  <2>4. Elsewhere(r)
    BY <1>2, <2>1, <2>3 DEF Elsewhere
  <2>5. MilestonesStay(r)
    BY <2>1, WorkUnchanged
  <2>6. QED
    BY <1>2, <2>1, <2>3, <2>4, <2>5, ElsewhereStands
       DEF StoryStays, AwardStays, OutcomeStays, TalkStays, OffersStay
<1>5. ASSUME NEW m \in MilestoneIds, WithdrawProof(r, m) PROVE OthersStand(r) /\ StoryStays(r)
  <2>1. /\ UNCHANGED <<requests, tipAmounts, nextMilestoneId, activeProposal>>
        /\ milestones' = [milestones EXCEPT ![r][m] = Withdrawn(milestones[r][m])]
        /\ milestones[r][m].status = "Submitted"
    BY <1>5 DEF WithdrawProof, marketVars
  <2>2. /\ \A q \in RequestIds : q # r => milestones'[q] = milestones[q]
        /\ \A n \in MilestoneIds : n # m => milestones'[r][n] = milestones[r][n]
        /\ milestones'[r][m] = Withdrawn(milestones[r][m])
    BY <1>1, <2>1
  <2>3. Withdrawn(milestones[r][m]).status \in {"Rejected", "PendingProof"}
    <3>1. milestones[r][m] \in Milestones
      BY <1>1
    <3>2. QED BY <3>1 DEF Withdrawn, Milestones
  <2>4. Elsewhere(r)
    BY <1>2, <2>1, <2>2 DEF Elsewhere
  <2>5. MilestonesStay(r)
    BY <2>1, <2>2, <2>3 DEF MilestonesStay, MilestoneStays
  <2>6. QED
    BY <1>2, <2>1, <2>4, <2>5, ElsewhereStands
       DEF StoryStays, AwardStays, OutcomeStays, TalkStays, OffersStay
<1>6. QED BY <1>3, <1>4, <1>5

(* What a step does to one milestone.                                       *)
LEMMA MilestoneMoves ==
  ASSUME ChainInv, NEW r \in RequestIds, NEW m \in MilestoneIds, NEW new,
         milestones' = [milestones EXCEPT ![r] = [milestones[r] EXCEPT ![m] = new]],
         UNCHANGED <<nextMilestoneId, activeProposal, activeNegotiation, tipAmounts>>,
         \A q \in RequestIds : q # r => requests'[q] = requests[q]
  PROVE  /\ OthersStand(r) /\ TalkStays(r) /\ milestones'[r][m] = new
         /\ \A n \in MilestoneIds : n # m => MilestoneStays(r, n)
<1>1. milestones \in [RequestIds -> [MilestoneIds -> Milestones]]
  BY StoryTypes
<1>2. /\ milestones'[r][m] = new
      /\ \A n \in MilestoneIds : n # m => milestones'[r][n] = milestones[r][n]
      /\ \A q \in RequestIds : q # r => milestones'[q] = milestones[q]
  BY <1>1
<1>3. OthersStand(r)
  BY <1>2, ElsewhereStands DEF Elsewhere
<1>4. \A n \in MilestoneIds : n # m => MilestoneStays(r, n)
  BY <1>2 DEF MilestoneStays
<1>5. QED BY <1>2, <1>3, <1>4 DEF TalkStays

LEMMA RefundMoves ==
  ASSUME ChainInv, NEW r \in RequestIds, RequestExists(r), Refund(r)
  PROVE  /\ Running(requests[r]) /\ requests'[r].status = "Refunded"
         /\ AwardStays(r) /\ MilestonesStay(r) /\ OffersStay(r)
         /\ UNCHANGED <<tipAmounts, milestones, nextMilestoneId, activeProposal>>
         /\ \A q \in RequestIds : q # r => requests'[q] = requests[q]
<1>1. IInv /\ Held(r) /\ requests \in [RequestIds -> Requests]
  BY StoryTypes
<1>2. PICK remaining, operational :
        requests' = [requests EXCEPT ![r].refundedAmount = @ + remaining,
                                     ![r].operationalSpent = @ + operational,
                                     ![r].status = "Refunded"]
  BY DEF Refund
<1>3. /\ requests'[r].status = "Refunded" /\ requests'[r].carrier = requests[r].carrier
      /\ \A q \in RequestIds : q # r => requests'[q] = requests[q]
  BY <1>1, <1>2 DEF Requests
<1>4. Running(requests[r])
  BY <1>1, RefundFigures
<1>5. UNCHANGED <<tipAmounts, milestones, nextMilestoneId, activeProposal>>
  BY DEF Refund, marketVars, workVars
<1>6. QED BY <1>3, <1>4, <1>5, WorkUnchanged DEF AwardStays, OffersStay

(* What a negotiation alone leaves as it is.                                *)
LEMMA TalkMoves ==
  ASSUME ChainInv, NEW r \in RequestIds, NEW slot,
         UNCHANGED <<requests, tipAmounts, milestones, nextMilestoneId, activeProposal>>,
         activeNegotiation' = [activeNegotiation EXCEPT ![r] = slot]
  PROVE  /\ OthersStand(r) /\ AwardStays(r) /\ OutcomeStays(r) /\ MilestonesStay(r) /\ OffersStay(r)
         /\ activeNegotiation'[r] = slot
<1>1. activeNegotiation \in [RequestIds -> Slots]
  BY StoryTypes
<1>2. activeNegotiation'[r] = slot /\ \A q \in RequestIds : q # r => activeNegotiation'[q] = activeNegotiation[q]
  BY <1>1
<1>3. OthersStand(r)
  BY <1>2, ElsewhereStands DEF Elsewhere
<1>4. QED BY <1>2, <1>3, WorkUnchanged DEF AwardStays, OutcomeStays, OffersStay

LEMMA OpenedSlot ==
  ASSUME NEW r, NEW kind, kind # "None", NEW id, OpenNegotiation(r, kind, id)
  PROVE  \E slot : /\ activeNegotiation' = [activeNegotiation EXCEPT ![r] = slot]
                   /\ slot.kind # "None"
<1>1. PICK slot : slot = [kind |-> kind, id |-> id, milestoneStateVersion |-> milestoneStateVersion[r]]
  OBVIOUS
<1>2. slot.kind = kind
  BY <1>1
<1>3. activeNegotiation' = [activeNegotiation EXCEPT ![r] = slot]
  BY <1>1 DEF OpenNegotiation
<1>4. QED BY <1>2, <1>3

-----------------------------------------------------------------------------
(* How a shipment ended, and that a completed one stays as it is.           *)

(* The mutual cancellations of a request that were accepted.                *)
Agreed(q) == {c \in DOMAIN cancellationRequests[q] : cancellationRequests[q][c].status = "Accepted"}

AgreedOK(q) ==
  /\ Len(cancellationRequests[q]) <= MaxNegotiations
  /\ \A c \in DOMAIN cancellationRequests[q] :
       WasFunded(requests[q]) /\ cancellationRequests[q][c].requester \in Participants(q)
  /\ Agreed(q) # {} => requests[q].status = "Refunded"
  /\ \A c, d \in Agreed(q) : c = d

(* What happens to the mutual cancellations: at most a question or a        *)
(* refusal, or the one acceptance.                                          *)
Bargained(q) ==
  \/ cancellationRequests'[q] = cancellationRequests[q]
  \/ /\ Len(cancellationRequests[q]) < MaxNegotiations /\ WasFunded(requests[q])
     /\ \E new \in Cancellations :
          /\ new.status = "Pending" /\ new.requester \in Participants(q)
          /\ cancellationRequests'[q] = Append(cancellationRequests[q], new)
  \/ \E c \in DOMAIN cancellationRequests[q], outcome \in AmendmentStatus \ {"Accepted"} :
       /\ cancellationRequests[q][c].status = "Pending"
       /\ cancellationRequests'[q] = [cancellationRequests[q] EXCEPT ![c].status = outcome]

(* A block about one request says nothing of the end of another.            *)
OthersBargain(r) ==
  \A q \in RequestIds : q # r => cancellationRequests'[q] = cancellationRequests[q]

LEMMA NobodyBargains ==
  ASSUME UNCHANGED cancellationRequests, NEW r
  PROVE  OthersBargain(r) /\ Bargained(r)
BY DEF OthersBargain, Bargained

(* What is completed stays as it is, under the manager too.                 *)
LEMMA OverStays ==
  ASSUME ChainInv, [ChainNext]_chainVars, NEW q \in RequestIds, requests[q].status = "Completed"
  PROVE  requests'[q] = requests[q]
<1>1. EscrowInv /\ NegotiationInv /\ ManagerHoldsTheStakes /\ IInv
  BY ChainFacts
<1>2. OrderInv
  BY <1>1 DEF EscrowInv, AllInv
<1>3. ASSUME [Next]_vars PROVE requests'[q] = requests[q]
  <2>1. Right(q)
    BY <1>1, <1>2, <1>3, EveryStepRight
  <2>2. QED BY <2>1 DEF Right, OverKept
<1>4. ASSUME NEW r \in RequestIds, NEW newDeadline \in Deadlines, NEW existing \in Fundings(r),
             NEW additions \in Additions(r), NEW operational \in Nat,
             PaidAmendment(r, newDeadline, existing, additions, operational)
      PROVE  requests'[q] = requests[q]
  <2>1. Running(requests[r])
    BY <1>1, <1>4, RenegotiatedFigures DEF PaidAmendment
  <2>2. q # r
    BY <2>1 DEF Running
  <2>3. Same(q)
    BY <1>1, <1>4, <2>2, PaidAmendmentMoves
  <2>4. QED BY <2>3 DEF Same
<1>5. ASSUME NEW r \in RequestIds, NEW newDeadline \in Deadlines, ExtendShipmentDeadline(r, newDeadline)
      PROVE  requests'[q] = requests[q]
  <2>1. /\ PaidAmendment(r, newDeadline, <<>>, <<>>, 0)
        /\ <<>> \in Fundings(r) /\ <<>> \in Additions(r)
    BY <1>1, <1>5, ExtendFacts
  <2>2. PICK none : none = <<>>
    OBVIOUS
  <2>3. none \in Fundings(r) /\ none \in Additions(r) /\ 0 \in Nat
    BY <2>1, <2>2
  <2>4. PaidAmendment(r, newDeadline, none, none, 0)
    BY <2>1, <2>2
  <2>5. QED BY <1>4, <2>3, <2>4
<1>6. ASSUME NEW r \in RequestIds, NEW a, Answers(r, a)
      PROVE  requests'[q] = requests[q]
  <2>1. ASSUME NEW gas \in Nat, NEW price \in Nat, AcceptAmendment(r, a, gas, price)
        PROVE  requests'[q] = requests[q]
    <3>1. PICK amendment : amendment = amendmentRequests[r][a]
      OBVIOUS
    <3>2. /\ amendment \in Amendments
          /\ PaidAmendment(r, amendment.proposedDeadline, amendment.existing, amendment.additions,
                           amendment.operationalAllowance)
          /\ amendment.existing \in Fundings(r) /\ amendment.additions \in Additions(r)
      BY <1>1, <2>1, <3>1, AcceptFacts
    <3>3. amendment.proposedDeadline \in Deadlines /\ amendment.operationalAllowance \in Nat
      BY <3>2 DEF Amendments
    <3>4. QED BY <1>4, <3>2, <3>3
  <2>2. ASSUME NEW outcome, NEW reimbursed, ResolveAmendment(r, a, outcome, reimbursed)
        PROVE  requests'[q] = requests[q]
    BY <2>2 DEF ResolveAmendment
  <2>3. QED BY <1>6, <2>1, <2>2 DEF Answers
<1>7. CASE EscrowStep /\ UNCHANGED negotiationVars
  <2>1. [Next]_vars
    BY <1>7 DEF EscrowStep, Next
  <2>2. QED BY <2>1, <1>3
<1>8. ASSUME NEW r \in RequestIds, AmendmentStep(r) PROVE requests'[q] = requests[q]
  <2>1. CASE \E newDeadline \in Deadlines : ExtendShipmentDeadline(r, newDeadline)
    BY <2>1, <1>5
  <2>2. ASSUME NEW who, NEW proposedDeadline, NEW responseDeadline, NEW existing, NEW additions,
               NEW price, NEW allowance,
               RequestAmendment(r, who, proposedDeadline, responseDeadline,
                                existing, additions, price, allowance)
        PROVE  requests'[q] = requests[q]
    BY <2>2 DEF RequestAmendment
  <2>3. ASSUME NEW a \in 1 .. MaxNegotiations,
               \/ \E gas \in GasReadings, price \in TxGasPrices :
                    AcceptAmendment(r, a, gas, price) \/ RejectAmendment(r, a, gas, price)
               \/ WithdrawAmendment(r, a)
               \/ ExpireAmendment(r, a)
        PROVE  requests'[q] = requests[q]
    <3>1. Answers(r, a)
      BY <2>3, AnswersAre
    <3>2. QED BY <3>1, <1>6
  <2>4. QED BY <1>8, <2>1, <2>2, <2>3 DEF AmendmentStep
<1>9. ASSUME NEW r \in RequestIds, CancellationStep(r) PROVE requests'[q] = requests[q]
  <2>1. [Next]_vars
    BY <1>9, CancellationStepOK
  <2>2. QED BY <2>1, <1>3
<1>10. CASE UNCHANGED chainVars
  BY <1>10 DEF chainVars, vars
<1>11. QED BY <1>7, <1>8, <1>9, <1>10 DEF ChainNext

-----------------------------------------------------------------------------
(* Sums and sizes in parts, and the greatest of some numbers.               *)

LEMMA SumOfUnion ==
  ASSUME NEW S, NEW T, NEW U, U = S \cup T, IsFiniteSet(S), IsFiniteSet(T), S \cap T = {},
         NEW f \in [U -> Nat], NEW g \in [S -> Nat], NEW h \in [T -> Nat],
         \A x \in S : f[x] = g[x], \A x \in T : f[x] = h[x]
  PROVE  SumOver(f) = SumOver(g) + SumOver(h)
<1> DEFINE gg == [x \in U |-> IF x \in S THEN g[x] ELSE 0]
           hh == [x \in U |-> IF x \in T THEN h[x] ELSE 0]
<1>1. IsFiniteSet(U)
  BY FS_Union
<1>2. gg \in [U -> Nat] /\ hh \in [U -> Nat]
  OBVIOUS
<1>3. SumOver(gg) = SumOver(g) /\ SumOver(hh) = SumOver(h)
  <2>1. S \in SUBSET U /\ T \in SUBSET U
    OBVIOUS
  <2>2. QED BY <2>1, SumExtended
<1>4. f = [x \in U |-> gg[x] + hh[x]]
  <2>1. \A x \in U : f[x] = gg[x] + hh[x]
    OBVIOUS
  <2>2. f = [x \in U |-> f[x]]
    OBVIOUS
  <2>3. QED BY <2>1, <2>2
<1> HIDE DEF gg, hh
<1>5. SumOver(f) = SumOver(gg) + SumOver(hh)
  BY <1>1, <1>2, <1>4, SumOfTwo
<1>6. QED BY <1>3, <1>5

LEMMA SumOfOneMore ==
  ASSUME NEW n, n \in Nat, NEW f, f \in [1 .. n + 1 -> Nat]
  PROVE  SumOver(f) = SumOver([i \in 1 .. n |-> f[i]]) + f[n + 1]
<1> DEFINE S == 1 .. n
           g == [i \in S |-> f[i]]
           next == n + 1
<1>1. g \in [S -> Nat]
  OBVIOUS
<1>2. IsFiniteSet(S)
  BY FS_Interval
<1>3. next \notin S
  OBVIOUS
<1>4. PICK d : d \in Nat /\ d = f[next]
  OBVIOUS
<1>5. f = [x \in S \cup {next} |-> IF x = next THEN d ELSE g[x]]
  <2>1. 1 .. n + 1 = S \cup {next}
    OBVIOUS
  <2>2. \A i \in S \cup {next} : f[i] = IF i = next THEN d ELSE g[i]
    BY <1>4
  <2>3. f = [i \in 1 .. n + 1 |-> f[i]]
    OBVIOUS
  <2>4. QED BY <2>1, <2>2, <2>3
<1>6. SumOver([x \in S \cup {next} |-> IF x = next THEN d ELSE g[x]]) = SumOver(g) + d
  <2> HIDE DEF S, g, next
  <2>1. d \in Nat
    BY <1>4
  <2>2. QED BY ONLY <1>1, <1>2, <1>3, <2>1, SumGrown, Z3
<1>7. QED BY <1>4, <1>5, <1>6

LEMMA SumOfBoth ==
  ASSUME NEW n \in Nat, NEW k \in Nat, NEW f, f \in [1 .. n + k -> Nat]
  PROVE  SumOver(f) = SumOver([i \in 1 .. n |-> f[i]]) + SumOver([j \in 1 .. k |-> f[n + j]])
<1> DEFINE S == 1 .. n
           T == n + 1 .. n + k
           U == 1 .. n + k
           B == 1 .. k
           g == [i \in S |-> f[i]]
           h == [i \in T |-> f[i]]
           shifted == [j \in B |-> f[n + j]]
           shift == [i \in T |-> i - n]
<1>1. U = S \cup T
  OBVIOUS
<1>2. S \cap T = {}
  OBVIOUS
<1>3. IsFiniteSet(S)
  BY FS_Interval
<1>4. IsFiniteSet(T)
  BY FS_Interval
<1>5. g \in [S -> Nat]
  OBVIOUS
<1>6. h \in [T -> Nat]
  OBVIOUS
<1>7. \A x \in S : f[x] = g[x]
  OBVIOUS
<1>8. \A x \in T : f[x] = h[x]
  OBVIOUS
<1>9. f \in [U -> Nat]
  OBVIOUS
<1>10. SumOver(f) = SumOver(g) + SumOver(h)
  <2> HIDE DEF S, T, U, g, h
  <2>1. QED
    BY ONLY <1>1, <1>2, <1>3, <1>4, <1>5, <1>6, <1>7, <1>8, <1>9, SumOfUnion
<1>11. shift \in Bijection(T, B)
  <2>1. \A i, j \in T : shift[i] = shift[j] => i = j
    OBVIOUS
  <2>2. \A j \in B : j + n \in T /\ shift[j + n] = j
    OBVIOUS
  <2>3. shift \in [T -> B]
    OBVIOUS
  <2> HIDE DEF shift, T, B
  <2>4. QED BY <2>1, <2>2, <2>3 DEF Bijection, Injection, IsInjective, Surjection
<1>12. h = [i \in T |-> shifted[shift[i]]]
  OBVIOUS
<1>13. shifted \in [B -> Nat]
  OBVIOUS
<1>14. SumOver([i \in T |-> shifted[shift[i]]]) = SumOver(shifted)
  <2> HIDE DEF shifted, shift, T, B
  <2>1. QED BY <1>4, <1>11, <1>13, SumRenamed
<1>15. QED BY <1>10, <1>12, <1>14

LEMMA Topmost ==
  ASSUME NEW n \in Nat, NEW T \in SUBSET (1 .. n), T # {}
  PROVE  \E x \in T : \A y \in T : y <= x
<1> DEFINE R == {pair \in Nat \X Nat : pair[1] < pair[2]}
           D == {n - y : y \in T}
<1>1. IsWellFoundedOn(R, Nat)
  BY NatLessThanWellFounded DEF OpToRel
<1>2. \A x, y \in Nat : <<x, y>> \in R <=> x < y
  OBVIOUS
<1>3. D \in SUBSET Nat /\ D # {}
  <2>1. PICK y : y \in T
    OBVIOUS
  <2>2. n - y \in D
    BY <2>1
  <2>3. \A x \in T : n - x \in Nat
    OBVIOUS
  <2>4. QED BY <2>2, <2>3
<1> HIDE DEF R
<1>4. PICK d \in D : \A c \in D : <<c, d>> \notin R
  <2> HIDE DEF D
  <2>1. QED BY <1>1, <1>3, WFMin
<1>5. PICK x \in T : d = n - x
  OBVIOUS
<1>6. ASSUME NEW y \in T PROVE y <= x
  <2>1. n - y \in D /\ n - y \in Nat /\ d \in Nat
    BY <1>3
  <2>2. ~(n - y < d)
    BY <1>2, <1>4, <2>1
  <2>3. QED BY <1>5, <2>2
<1>7. QED BY <1>6

LEMMA TwoParts ==
  ASSUME NEW A, NEW B, IsFiniteSet(A), IsFiniteSet(B), A \cap B = {}, NEW W, W = A \cup B
  PROVE  IsFiniteSet(W) /\ Cardinality(W) = Cardinality(A) + Cardinality(B)
<1>1. /\ IsFiniteSet(A \cup B)
      /\ Cardinality(A \cup B) = Cardinality(A) + Cardinality(B) - Cardinality(A \cap B)
  BY FS_Union
<1>2. Cardinality(A \cap B) = 0
  BY FS_EmptySet
<1>3. Cardinality(A) \in Nat /\ Cardinality(B) \in Nat
  BY FS_CardinalityType
<1>4. QED BY <1>1, <1>2, <1>3

LEMMA FourParts ==
  ASSUME NEW W, IsFiniteSet(W), NEW A, NEW B, NEW C, NEW D, W = A \cup B \cup C \cup D,
         A \cap B = {}, A \cap C = {}, A \cap D = {}, B \cap C = {}, B \cap D = {}, C \cap D = {}
  PROVE  Cardinality(W) = Cardinality(A) + Cardinality(B) + Cardinality(C) + Cardinality(D)
<1>1. A \in SUBSET W /\ B \in SUBSET W /\ C \in SUBSET W /\ D \in SUBSET W
  OBVIOUS
<1>2. IsFiniteSet(A) /\ IsFiniteSet(B) /\ IsFiniteSet(C) /\ IsFiniteSet(D)
  BY <1>1, FS_Subset
<1>3. /\ Cardinality(A) \in Nat /\ Cardinality(B) \in Nat
      /\ Cardinality(C) \in Nat /\ Cardinality(D) \in Nat
  BY <1>2, FS_CardinalityType
<1>4. PICK AB : AB = A \cup B
  OBVIOUS
<1>5. PICK ABC : ABC = AB \cup C
  OBVIOUS
<1>6. A \cap B = {} /\ AB \cap C = {} /\ ABC \cap D = {} /\ W = ABC \cup D
  BY <1>4, <1>5
<1>7. IsFiniteSet(AB) /\ Cardinality(AB) = Cardinality(A) + Cardinality(B)
  BY ONLY <1>2, <1>4, <1>6, TwoParts
<1>8. IsFiniteSet(ABC) /\ Cardinality(ABC) = Cardinality(AB) + Cardinality(C)
  BY ONLY <1>2, <1>5, <1>6, <1>7, TwoParts
<1>9. Cardinality(W) = Cardinality(ABC) + Cardinality(D)
  BY ONLY <1>2, <1>6, <1>8, TwoParts
<1>10. QED BY <1>3, <1>7, <1>8, <1>9

=============================================================================
