---------------------------- MODULE DeliveryEscrow ----------------------------
(***************************************************************************)
(* The DeliveryEscrow contract (contracts/DeliveryEscrow.sol): one shared   *)
(* pot of CARGO out of which every delivery request is paid.  A shipper     *)
(* creates a request, carriers propose milestone plans, the shipper funds   *)
(* one of them, the carrier submits proofs in the execution order, the      *)
(* shipper approves (which pays) or rejects them, and whatever is left is   *)
(* refunded when the request fails.  Every transaction is one atomic        *)
(* action; a revert is an action that is not enabled.                       *)
(*                                                                          *)
(* The LifecycleManager contract enters through its two hooks only.  Here   *)
(* it is an environment that may call them whenever it has staged the       *)
(* CARGO and has validated the allocations (ManagerAmends, ManagerCancels). *)
(*                                                                          *)
(* Texts (names, remarks, reasons, locations, items) carry no decision and  *)
(* are left out, except the proof URI, which is what a shipper reviews.     *)
(* Everyone in Users is registered (UserRegistry never unregisters) and     *)
(* has given the token allowance for what they pay (FundingDesk models how). *)
(***************************************************************************)
EXTENDS Integers, Sequences, FiniteSets, CargoSums

CONSTANTS
  Users,                  \* registered wallets
  NoUser,                 \* the zero address
  Escrow, Manager,        \* the two contracts, as holders of CARGO
  ProofUris, NoProof,
  Plans,                  \* milestone plans: sequences of payout percentages
  Amounts,                \* proposed payments a shipper may name
  Deadlines,
  FundingAmounts,         \* amendment, top-up and tip amounts
  ExtraAllowances,        \* operational allowance above the minimum
  ReferenceGasPrices,     \* what referenceGasPrice() may return
  TxGasPrices, GasReadings, \* of a proof submission
  MaxInitialMilestones, MaxTotalMilestones, MaxProofWithdrawalsPerRound,
  ProofGasUnitCap, ReimbursementOverhead, CargoPerEth, MaxProofReimbursement,
  MaxRequests, MaxProposals, MaxVersion, MaxTime,   \* bounds of the model
  Endowment, ManagerEndowment                       \* CARGO held at the start

AppendMilestoneId == -1
RequestIds == 1 .. MaxRequests
MilestoneIds == 0 .. MaxTotalMilestones - 1
Accounts == Users \cup {Escrow, Manager}

ASSUME AccountAssumption ==
  /\ NoUser \notin Users
  /\ Escrow # Manager
  /\ {Escrow, Manager} \cap Users = {}

ASSUME NumberAssumption ==
  /\ MaxRequests \in Nat /\ MaxProposals \in Nat /\ MaxVersion \in Nat /\ MaxTime \in Nat
  /\ MaxInitialMilestones \in Nat \ {0} /\ MaxTotalMilestones \in Nat
  /\ MaxInitialMilestones <= MaxTotalMilestones
  /\ MaxProofWithdrawalsPerRound \in Nat
  /\ ProofGasUnitCap \in Nat \ {0} /\ ReimbursementOverhead \in Nat
  /\ CargoPerEth \in Nat \ {0} /\ MaxProofReimbursement \in Nat
  /\ Endowment \in Nat /\ ManagerEndowment \in Nat

ASSUME InputAssumption ==
  /\ Amounts \subseteq Nat /\ Deadlines \subseteq Nat
  /\ FundingAmounts \subseteq Nat \ {0} /\ ExtraAllowances \subseteq Nat
  /\ ReferenceGasPrices \subseteq Nat
  /\ TxGasPrices \subseteq Nat /\ GasReadings \subseteq Nat
  /\ NoProof \notin ProofUris
  /\ \A plan \in Plans : plan \in Seq(Nat)

VARIABLES
  now,                      \* block.timestamp
  cargo,                    \* CargoToken balances
  nextRequestId,
  requests,
  proposals,                \* requestProposals with their proposalMilestones
  activeProposal,           \* activeProposalIndexPlusOne
  acceptedProposal,         \* acceptedProposalIdPlusOne
  openRequestIds, openRequestIndexPlusOne,
  milestones, nextMilestoneId, executionOrder,
  milestoneStateVersion,
  totalEscrowed, lockedEscrow,
  tipAmounts

marketVars == <<nextRequestId, proposals, activeProposal, acceptedProposal,
                openRequestIds, openRequestIndexPlusOne>>
moneyVars == <<cargo, totalEscrowed, lockedEscrow>>
workVars == <<milestones, nextMilestoneId, executionOrder, milestoneStateVersion>>
vars == <<now, requests, tipAmounts, marketVars, moneyVars, workVars>>

-----------------------------------------------------------------------------
(* The statuses that are ever stored between transactions.  PendingApproval *)
(* is never assigned; Expired and Verified, and Cancelled while there is    *)
(* escrow, are overwritten within the transaction that sets them.           *)
RequestStatus == {"Open", "Funded", "InProgress", "Completed", "Cancelled", "Refunded"}
MilestoneStatus == {"Proposed", "PendingProof", "Submitted", "Rejected", "Paid"}
ProposalStatus == {"Active", "Revoked", "Rejected", "Accepted"}

(* Storage before anything is written: Solidity's zero values.              *)

NoRequest ==
  [shipper |-> NoUser, carrier |-> NoUser, status |-> "Open", deadline |-> 0,
   proposedAmount |-> 0, totalAmount |-> 0, releasedAmount |-> 0, refundedAmount |-> 0,
   operationalAllowance |-> 0, operationalSpent |-> 0, gasPriceCap |-> 0]

NoMilestone ==
  [status |-> "Proposed", payoutAmount |-> 0, additionalPayoutAmount |-> 0,
   proofUri |-> NoProof, proofSubmissionNumber |-> 0, proofWithdrawalsThisRound |-> 0,
   submittedAfterRejection |-> FALSE, proofSubmissionReimbursed |-> FALSE]

Init ==
  /\ now = 0
  /\ cargo = [a \in Accounts |-> CASE a = Escrow  -> 0
                                   [] a = Manager -> ManagerEndowment
                                   [] OTHER       -> Endowment]
  /\ nextRequestId = 1
  /\ requests = [r \in RequestIds |-> NoRequest]
  /\ proposals = [r \in RequestIds |-> <<>>]
  /\ activeProposal = [r \in RequestIds |-> [u \in Users |-> 0]]
  /\ acceptedProposal = [r \in RequestIds |-> 0]
  /\ openRequestIds = <<>>
  /\ openRequestIndexPlusOne = [r \in RequestIds |-> 0]
  /\ milestones = [r \in RequestIds |-> [m \in MilestoneIds |-> NoMilestone]]
  /\ nextMilestoneId = [r \in RequestIds |-> 0]
  /\ executionOrder = [r \in RequestIds |-> <<>>]
  /\ milestoneStateVersion = [r \in RequestIds |-> 0]
  /\ totalEscrowed = 0
  /\ lockedEscrow = [u \in Users |-> [totalLocked |-> 0, activeRequestCount |-> 0]]
  /\ tipAmounts = [r \in RequestIds |-> 0]

-----------------------------------------------------------------------------
(* The views and private helpers of the contract.                           *)

Smaller(a, b) == IF a < b THEN a ELSE b

RequestExists(r) == r \in RequestIds /\ r < nextRequestId

(* Slip: a refunded request still counts as active.                         *)
ActiveOnceFunded(r) == requests[r].status \notin {"Open", "Cancelled", "Completed"}
Active(r) == requests[r].status \in {"Funded", "InProgress"}

(* Slip: what was released is still counted as escrow.                      *)
EscrowOfForgetsReleased(request) == request.totalAmount - request.refundedAmount
EscrowOf(request) == request.totalAmount - request.releasedAmount - request.refundedAmount
EscrowBalance(r) == EscrowOf(requests[r])

OperationalOf(request) ==
  IF request.operationalAllowance > request.operationalSpent
  THEN request.operationalAllowance - request.operationalSpent ELSE 0
OperationalRemaining(r) == OperationalOf(requests[r])

MilestoneExists(r, m) == m \in MilestoneIds /\ m < nextMilestoneId[r]

ExecutionIndex(r, m) == CHOOSE i \in DOMAIN executionOrder[r] : executionOrder[r][i] = m

(* Slip: the previous milestone need only have been proved, not paid.       *)
PreviousMilestoneProved(r, m) ==
  LET i == ExecutionIndex(r, m)
  IN  i > 1 => milestones[r][executionOrder[r][i - 1]].proofSubmissionNumber > 0
PreviousMilestonePaid(r, m) ==
  LET i == ExecutionIndex(r, m)
  IN  i > 1 => milestones[r][executionOrder[r][i - 1]].status = "Paid"

AllPaid(order, ms) == order # <<>> /\ \A i \in DOMAIN order : ms[order[i]].status = "Paid"

HasPendingMilestoneProof(r) ==
  \E i \in DOMAIN executionOrder[r] : milestones[r][executionOrder[r][i]].status = "Submitted"

ProofReserve(price) == (ProofGasUnitCap + ReimbursementOverhead) * price * CargoPerEth

RemainingProofActions(order, ms) ==
  Cardinality({i \in DOMAIN order : /\ ~ms[order[i]].proofSubmissionReimbursed
                                    /\ ms[order[i]].status # "Paid"})

MinimumOperationalAllowance(r, p, price) == Len(proposals[r][p].plan) * ProofReserve(price)

Overdue(r) == Active(r) /\ now > requests[r].deadline

(* ERC-20 movements and the shipper's running total.                        *)
Transfer(balances, from, to, amount) ==
  [balances EXCEPT ![from] = @ - amount, ![to] = @ + amount]

IncreaseLocked(locked, shipper, amount, opened) ==
  [locked EXCEPT ![shipper] =
     [totalLocked |-> @.totalLocked + amount,
      activeRequestCount |-> @.activeRequestCount + (IF opened THEN 1 ELSE 0)]]

(* Slip: the total is reduced only once a request is settled.               *)
DecreaseLockedWhenSettled(locked, shipper, amount, settled) ==
  IF settled
  THEN [locked EXCEPT ![shipper].totalLocked = @ - amount, ![shipper].activeRequestCount = @ - 1]
  ELSE locked

DecreaseLocked(locked, shipper, amount, settled) ==
  [locked EXCEPT ![shipper] =
     [totalLocked |-> @.totalLocked - amount,
      activeRequestCount |-> @.activeRequestCount - (IF settled THEN 1 ELSE 0)]]

EnterEscrow(shipper, amount, opened) ==
  /\ totalEscrowed' = totalEscrowed + amount
  /\ lockedEscrow' = IncreaseLocked(lockedEscrow, shipper, amount, opened)

(* Slip: the running total is reduced only when a request is settled.       *)
LeaveEscrowWhenSettled(shipper, amount, settled) ==
  /\ totalEscrowed' = IF settled THEN totalEscrowed - amount ELSE totalEscrowed
  /\ lockedEscrow' = DecreaseLocked(lockedEscrow, shipper, amount, settled)

LeaveEscrow(shipper, amount, settled) ==
  /\ totalEscrowed' = totalEscrowed - amount
  /\ lockedEscrow' = DecreaseLocked(lockedEscrow, shipper, amount, settled)

(* Slip: the version is set, as when a plan is accepted, and not counted up.*)
MarkMilestoneStateChangedOnce(r) ==
  milestoneStateVersion' = [milestoneStateVersion EXCEPT ![r] = 2]

MarkMilestoneStateChanged(r) ==
  milestoneStateVersion' = [milestoneStateVersion EXCEPT ![r] = @ + 1]

-----------------------------------------------------------------------------
(* The market: requests, carrier proposals, the list of open requests.      *)

CreateRequest(u, deadline, amount) ==
  /\ nextRequestId <= MaxRequests
  /\ deadline > now
  /\ amount > 0
  /\ LET r == nextRequestId
     IN  /\ requests' = [requests EXCEPT ![r] =
              [NoRequest EXCEPT !.shipper = u, !.deadline = deadline, !.proposedAmount = amount]]
         /\ openRequestIds' = Append(openRequestIds, r)
         /\ openRequestIndexPlusOne' =
              [openRequestIndexPlusOne EXCEPT ![r] = Len(openRequestIds) + 1]
  /\ nextRequestId' = nextRequestId + 1
  /\ UNCHANGED <<now, proposals, activeProposal, acceptedProposal, moneyVars, workVars, tipAmounts>>

(* Swap the last open id into the freed place, then shorten the list.       *)
(* Slip: the removed id's place is cleared before the last id's is set.     *)
RemoveOpenRequestIdClearingFirst(r) ==
  LET place == openRequestIndexPlusOne[r]
      last  == openRequestIds[Len(openRequestIds)]
  IN  /\ openRequestIds' =
           SubSeq([openRequestIds EXCEPT ![place] = last], 1, Len(openRequestIds) - 1)
      /\ openRequestIndexPlusOne' =
           [openRequestIndexPlusOne EXCEPT ![r] = 0, ![last] = place]

RemoveOpenRequestId(r) ==
  LET place == openRequestIndexPlusOne[r]
      last  == openRequestIds[Len(openRequestIds)]
  IN  IF place = 0
      THEN UNCHANGED <<openRequestIds, openRequestIndexPlusOne>>
      ELSE /\ openRequestIds' =
                SubSeq([openRequestIds EXCEPT ![place] = last], 1, Len(openRequestIds) - 1)
           /\ openRequestIndexPlusOne' =
                [openRequestIndexPlusOne EXCEPT ![last] = place, ![r] = 0]

ValidPlan(plan) ==
  /\ Len(plan) \in 1 .. MaxInitialMilestones
  /\ \A i \in DOMAIN plan : plan[i] > 0
  /\ SumOver(plan) = 100

ProposeMilestones(u, r, plan) ==
  /\ Len(proposals[r]) < MaxProposals
  /\ RequestExists(r)
  /\ requests[r].status = "Open"
  /\ u # requests[r].shipper
  /\ activeProposal[r][u] = 0
  /\ ValidPlan(plan)
  /\ proposals' = [proposals EXCEPT ![r] =
                     Append(@, [carrier |-> u, status |-> "Active", plan |-> plan])]
  /\ activeProposal' = [activeProposal EXCEPT ![r][u] = Len(proposals[r]) + 1]
  /\ UNCHANGED <<now, requests, tipAmounts, nextRequestId, acceptedProposal,
                 openRequestIds, openRequestIndexPlusOne, moneyVars, workVars>>

(* A proposal leaves the Active status and its carrier may propose again.   *)
(* Slip: only an acceptance frees the carrier's index.                      *)
CloseProposalKeepingIndex(r, p, outcome) ==
  /\ proposals' = [proposals EXCEPT ![r][p].status = outcome]
  /\ IF outcome = "Accepted"
     THEN activeProposal' = [activeProposal EXCEPT ![r][proposals[r][p].carrier] = 0]
     ELSE UNCHANGED activeProposal

CloseProposal(r, p, outcome) ==
  /\ proposals' = [proposals EXCEPT ![r][p].status = outcome]
  /\ activeProposal' = [activeProposal EXCEPT ![r][proposals[r][p].carrier] = 0]

RevokeMilestoneProposal(u, r) ==
  /\ RequestExists(r)
  /\ requests[r].status = "Open"
  /\ activeProposal[r][u] > 0
  /\ CloseProposal(r, activeProposal[r][u], "Revoked")
  /\ UNCHANGED <<now, requests, tipAmounts, nextRequestId, acceptedProposal,
                 openRequestIds, openRequestIndexPlusOne, moneyVars, workVars>>

RejectMilestoneProposal(r, p) ==
  /\ RequestExists(r)
  /\ requests[r].status = "Open"
  /\ p \in DOMAIN proposals[r]
  /\ proposals[r][p].status = "Active"
  /\ CloseProposal(r, p, "Rejected")
  /\ UNCHANGED <<now, requests, tipAmounts, nextRequestId, acceptedProposal,
                 openRequestIds, openRequestIndexPlusOne, moneyVars, workVars>>

CancelRequest(r) ==
  /\ RequestExists(r)
  /\ requests[r].status \in {"Open", "PendingApproval"}
  /\ IF requests[r].status = "Open" THEN RemoveOpenRequestId(r)
     ELSE UNCHANGED <<openRequestIds, openRequestIndexPlusOne>>
  /\ requests' = [requests EXCEPT ![r].status = "Cancelled"]
  /\ UNCHANGED <<now, tipAmounts, nextRequestId, proposals, activeProposal, acceptedProposal,
                 moneyVars, workVars>>

(* getProposals: what is still active once another one was accepted is shown *)
(* as rejected.                                                             *)
ShownProposalStatus(r, p) ==
  IF proposals[r][p].status = "Active" /\ acceptedProposal[r] \notin {0, p}
  THEN "Rejected" ELSE proposals[r][p].status

(* The last milestone takes what the floors of the others leave over.       *)
Share(amount, percentage) == (amount * percentage) \div 100

(* Slip: the last milestone takes its floor like the others.                *)
PayoutAmountLosingDust(amount, plan, i) == Share(amount, plan[i])

PayoutAmount(amount, plan, i) ==
  IF i < Len(plan)
  THEN Share(amount, plan[i])
  ELSE amount - SumOver([j \in 1 .. Len(plan) - 1 |-> Share(amount, plan[j])])

ApproveAndFund(r, p, price, allowance) ==
  /\ RequestExists(r)
  /\ requests[r].status = "Open"
  /\ now <= requests[r].deadline
  /\ p \in DOMAIN proposals[r]
  /\ allowance >= MinimumOperationalAllowance(r, p, price)
  /\ proposals[r][p].status = "Active"
  /\ LET shipper == requests[r].shipper
         amount  == requests[r].proposedAmount
         carrier == proposals[r][p].carrier
         plan    == proposals[r][p].plan
         first   == nextMilestoneId[r]
         created == first .. first + Len(plan) - 1
     IN  /\ cargo[shipper] >= amount + allowance
         /\ cargo' = Transfer(cargo, shipper, Escrow, amount + allowance)
         /\ EnterEscrow(shipper, amount + allowance, TRUE)
         /\ CloseProposal(r, p, "Accepted")
         /\ acceptedProposal' = [acceptedProposal EXCEPT ![r] = p]
         /\ RemoveOpenRequestId(r)
         /\ executionOrder' = [executionOrder EXCEPT ![r] =
                                 [i \in 1 .. Len(plan) |-> first + i - 1]]
         /\ nextMilestoneId' = [nextMilestoneId EXCEPT ![r] = first + Len(plan)]
         /\ milestones' = [milestones EXCEPT ![r] = [m \in MilestoneIds |->
              IF m \in created
              THEN [NoMilestone EXCEPT !.status = "PendingProof",
                                       !.payoutAmount = PayoutAmount(amount, plan, m - first + 1)]
              ELSE milestones[r][m]]]
         /\ milestoneStateVersion' = [milestoneStateVersion EXCEPT ![r] = 1]
         /\ requests' = [requests EXCEPT
              ![r].carrier = carrier,
              ![r].totalAmount = amount,
              ![r].status = "Funded",
              ![r].operationalAllowance = allowance,
              ![r].gasPriceCap = allowance \div (Len(plan) * ProofReserve(1))]
  /\ UNCHANGED <<now, tipAmounts, nextRequestId>>

-----------------------------------------------------------------------------
(* Proofs: the carrier submits and withdraws, the shipper reviews.          *)

CoveredGas(gas) == Smaller(gas + ReimbursementOverhead, ProofGasUnitCap)

(* What one first submission is paid back, given the milestones after it.   *)
Reimbursement(r, ms, gas, price) ==
  LET calculated == CoveredGas(gas) * Smaller(price, requests[r].gasPriceCap) * CargoPerEth
      future     == RemainingProofActions(executionOrder[r], ms)
                      * ProofReserve(requests[r].gasPriceCap)
      spendable  == IF OperationalRemaining(r) > future
                    THEN OperationalRemaining(r) - future ELSE 0
  IN  Smaller(Smaller(calculated, MaxProofReimbursement), spendable)

(* Every submission gets a number of its own.                               *)
Submitted(milestone, uri) ==
  [milestone EXCEPT
     !.proofUri = uri,
     !.submittedAfterRejection = (milestone.status = "Rejected"),
     !.proofSubmissionNumber = @ + 1,
     !.status = "Submitted",
     !.proofSubmissionReimbursed = TRUE]

SubmitProof(r, m, uri, gas, price) ==
  /\ milestoneStateVersion[r] < MaxVersion
  /\ RequestExists(r)
  /\ Active(r)
  /\ now <= requests[r].deadline
  /\ MilestoneExists(r, m)
  /\ PreviousMilestonePaid(r, m)
  /\ milestones[r][m].status \in {"PendingProof", "Rejected"}
  /\ LET ms   == [milestones[r] EXCEPT ![m] = Submitted(milestones[r][m], uri)]
         paid == IF milestones[r][m].proofSubmissionReimbursed THEN 0
                 ELSE Reimbursement(r, ms, gas, price)
     IN  /\ milestones' = [milestones EXCEPT ![r] = ms]
         /\ requests' = [requests EXCEPT ![r].status = "InProgress",
                                         ![r].operationalSpent = @ + paid]
         /\ LeaveEscrow(requests[r].shipper, paid, FALSE)
         /\ cargo' = Transfer(cargo, Escrow, requests[r].carrier, paid)
  /\ MarkMilestoneStateChanged(r)
  /\ UNCHANGED <<now, tipAmounts, marketVars, nextMilestoneId, executionOrder>>

(* A corrected proof goes back to Rejected, a first one to PendingProof.    *)
Withdrawn(milestone) ==
  [milestone EXCEPT
     !.proofUri = NoProof,
     !.status = IF milestone.submittedAfterRejection THEN "Rejected" ELSE "PendingProof",
     !.submittedAfterRejection = FALSE,
     !.proofWithdrawalsThisRound = @ + 1]

WithdrawProof(r, m) ==
  /\ RequestExists(r)
  /\ Active(r)
  /\ now <= requests[r].deadline
  /\ MilestoneExists(r, m)
  /\ milestones[r][m].status = "Submitted"
  /\ milestones[r][m].proofWithdrawalsThisRound < MaxProofWithdrawalsPerRound
  /\ milestones' = [milestones EXCEPT ![r][m] = Withdrawn(milestones[r][m])]
  /\ MarkMilestoneStateChanged(r)
  /\ UNCHANGED <<now, requests, tipAmounts, marketVars, moneyVars, nextMilestoneId, executionOrder>>

(* Slip: whatever proof is there now is reviewed.                           *)
MayReviewWhateverIsThere(r, m, expectedSubmissionNumber) ==
  /\ RequestExists(r)
  /\ MilestoneExists(r, m)
  /\ PreviousMilestonePaid(r, m)
  /\ milestones[r][m].status = "Submitted"

(* verifyMilestone looks at neither the request's status nor its deadline.  *)
MayReview(r, m, expectedSubmissionNumber) ==
  /\ RequestExists(r)
  /\ MilestoneExists(r, m)
  /\ PreviousMilestonePaid(r, m)
  /\ milestones[r][m].status = "Submitted"
  /\ milestones[r][m].proofSubmissionNumber = expectedSubmissionNumber

RejectMilestone(r, m, expectedSubmissionNumber) ==
  /\ MayReview(r, m, expectedSubmissionNumber)
  /\ milestones' = [milestones EXCEPT ![r][m] = [@ EXCEPT
       !.status = "Rejected",
       !.proofWithdrawalsThisRound = 0,
       !.submittedAfterRejection = FALSE]]
  /\ MarkMilestoneStateChanged(r)
  /\ UNCHANGED <<now, requests, tipAmounts, marketVars, moneyVars, nextMilestoneId, executionOrder>>

(* Approval marks the milestone Verified and, in the same transaction,      *)
(* releases its payment; the last payment completes the request and returns *)
(* the unspent operational allowance to the shipper.                        *)
ApproveMilestone(r, m, expectedSubmissionNumber) ==
  /\ MayReview(r, m, expectedSubmissionNumber)
  /\ LET request   == requests[r]
         amount    == milestones[r][m].payoutAmount + milestones[r][m].additionalPayoutAmount
         ms        == [milestones[r] EXCEPT ![m].status = "Paid"]
         completed == AllPaid(executionOrder[r], ms)
         returned  == IF completed THEN OperationalRemaining(r) ELSE 0
     IN  /\ amount > 0
         /\ EscrowBalance(r) >= amount
         /\ milestones' = [milestones EXCEPT ![r] = ms]
         /\ requests' = [requests EXCEPT
              ![r].releasedAmount = @ + amount,
              ![r].status = IF completed THEN "Completed" ELSE @,
              ![r].operationalSpent = @ + returned]
         /\ LeaveEscrow(request.shipper, amount + returned, EscrowBalance(r) = amount)
         /\ cargo' = Transfer(Transfer(cargo, Escrow, request.carrier, amount),
                              Escrow, request.shipper, returned)
  /\ MarkMilestoneStateChanged(r)
  /\ UNCHANGED <<now, tipAmounts, marketVars, nextMilestoneId, executionOrder>>

-----------------------------------------------------------------------------
(* Settlement and what a shipper may add.                                   *)

(* _refund of everything left, with the unspent operational allowance.      *)
Refund(r) ==
  LET remaining   == EscrowBalance(r)
      operational == OperationalRemaining(r)
      shipper     == requests[r].shipper
  IN  /\ remaining > 0
      /\ requests' = [requests EXCEPT ![r].refundedAmount = @ + remaining,
                                      ![r].operationalSpent = @ + operational,
                                      ![r].status = "Refunded"]
      /\ LeaveEscrow(shipper, remaining + operational, TRUE)
      /\ cargo' = Transfer(cargo, Escrow, shipper, remaining + operational)
      /\ UNCHANGED <<now, tipAmounts, marketVars, workVars>>

RefundRemaining(r) ==
  /\ RequestExists(r)
  /\ \/ requests[r].status \in {"Cancelled", "Expired"}
     \/ Overdue(r)
  /\ Refund(r)

FinalizeMutualCancellation(r) ==
  /\ RequestExists(r)
  /\ Active(r)
  /\ Refund(r)

TipCarrier(r, amount) ==
  /\ RequestExists(r)
  /\ requests[r].status = "Completed"
  /\ amount > 0
  /\ tipAmounts[r] = 0
  /\ cargo[requests[r].shipper] >= amount
  /\ cargo' = Transfer(cargo, requests[r].shipper, requests[r].carrier, amount)
  /\ tipAmounts' = [tipAmounts EXCEPT ![r] = amount]
  /\ UNCHANGED <<now, requests, marketVars, workVars, totalEscrowed, lockedEscrow>>

(* The gas price at which what is left covers every outstanding proof.      *)
FundedCap(request, actions) ==
  (request.operationalAllowance - request.operationalSpent) \div (actions * ProofReserve(1))

TopUpOperationalAllowance(r, amount) ==
  /\ milestoneStateVersion[r] < MaxVersion
  /\ RequestExists(r)
  /\ Active(r)
  /\ amount > 0
  /\ LET shipper   == requests[r].shipper
         topped    == [requests[r] EXCEPT !.operationalAllowance = @ + amount]
         actions   == RemainingProofActions(executionOrder[r], milestones[r])
         raised    == actions > 0 /\ FundedCap(topped, actions) > topped.gasPriceCap
     IN  /\ cargo[shipper] >= amount
         /\ cargo' = Transfer(cargo, shipper, Escrow, amount)
         /\ EnterEscrow(shipper, amount, FALSE)
         /\ requests' = [requests EXCEPT ![r] =
              IF raised THEN [topped EXCEPT !.gasPriceCap = FundedCap(topped, actions)] ELSE topped]
         /\ IF raised THEN MarkMilestoneStateChanged(r) ELSE UNCHANGED milestoneStateVersion
  /\ UNCHANGED <<now, tipAmounts, marketVars, milestones, nextMilestoneId, executionOrder>>

-----------------------------------------------------------------------------
(* Amendments.  existing maps milestone ids to added payouts; additions is a *)
(* sequence of new milestones, each put before an existing one or appended. *)

InsertionIndex(order, target) ==
  IF target = AppendMilestoneId THEN Len(order) + 1
  ELSE CHOOSE i \in DOMAIN order : order[i] = target

(* Where the j-th addition ends up: additions are inserted one by one, each *)
(* directly in front of its target.                                         *)
PositionOfAddition(order, targets, j) ==
  LET at == [k \in DOMAIN targets |-> InsertionIndex(order, targets[k])]
  IN  at[j] + Cardinality({k \in DOMAIN targets : at[k] < at[j] \/ (at[k] = at[j] /\ k < j)})

(* Slip: the next id is counted up before the addition takes it.             *)
WithInsertionsNumberedAfterwards(order, targets, firstId) ==
  LET position == [j \in DOMAIN targets |-> PositionOfAddition(order, targets, j)]
  IN  [p \in 1 .. Len(order) + Len(targets) |->
         IF \E j \in DOMAIN targets : position[j] = p
         THEN firstId + (CHOOSE j \in DOMAIN targets : position[j] = p)
         ELSE order[p - Cardinality({j \in DOMAIN targets : position[j] < p})]]

WithInsertions(order, targets, firstId) ==
  LET position == [j \in DOMAIN targets |-> PositionOfAddition(order, targets, j)]
  IN  [p \in 1 .. Len(order) + Len(targets) |->
         IF \E j \in DOMAIN targets : position[j] = p
         THEN firstId + (CHOOSE j \in DOMAIN targets : position[j] = p) - 1
         ELSE order[p - Cardinality({j \in DOMAIN targets : position[j] < p})]]

AdditionTargets(additions) == [j \in DOMAIN additions |-> additions[j].insertBefore]
AdditionAmounts(additions) == [j \in DOMAIN additions |-> additions[j].amount]

(* Slip: whatever was created can be funded, paid or not.                   *)
FundablePaidToo(milestone) == milestone.status # "Proposed"

Fundable(milestone) == milestone.status # "Paid"

Allocated(existing, additions) == SumOver(existing) + SumOver(AdditionAmounts(additions))

(* held is the escrow's CARGO balance at the call, after the manager paid.  *)
FinalizeAmendment(r, newDeadline, existing, additions, operational, held) ==
  LET funding == Allocated(existing, additions)
      first   == nextMilestoneId[r]
      added   == first .. first + Len(additions) - 1
      shipper == requests[r].shipper
  IN  /\ RequestExists(r)
      /\ Active(r)
      /\ newDeadline > now
      /\ Len(executionOrder[r]) + Len(additions) <= MaxTotalMilestones
      /\ \A m \in DOMAIN existing : MilestoneExists(r, m) /\ Fundable(milestones[r][m])
      /\ operational >= Len(additions) * ProofReserve(requests[r].gasPriceCap)
      /\ held >= totalEscrowed + funding + operational
      /\ milestones' = [milestones EXCEPT ![r] = [m \in MilestoneIds |->
           IF m \in added
           THEN [NoMilestone EXCEPT !.status = "PendingProof",
                                    !.additionalPayoutAmount = additions[m - first + 1].amount]
           ELSE IF m \in DOMAIN existing
           THEN [milestones[r][m] EXCEPT !.additionalPayoutAmount = @ + existing[m]]
           ELSE milestones[r][m]]]
      /\ nextMilestoneId' = [nextMilestoneId EXCEPT ![r] = first + Len(additions)]
      /\ executionOrder' = [executionOrder EXCEPT ![r] =
           WithInsertions(executionOrder[r], AdditionTargets(additions), first)]
      /\ requests' = [requests EXCEPT ![r].deadline = newDeadline,
                                      ![r].totalAmount = @ + funding,
                                      ![r].operationalAllowance = @ + operational]
      /\ EnterEscrow(shipper, funding + operational, FALSE)
      /\ MarkMilestoneStateChanged(r)
      /\ UNCHANGED <<now, tipAmounts, marketVars>>

(* "The immutable LifecycleManager validates unique allocations, names,      *)
(* insertion eligibility/order and amounts before transferring funds."       *)
ManagerValidated(r, existing, additions) ==
  /\ \A m \in DOMAIN existing : existing[m] > 0
  /\ \A j \in DOMAIN additions :
       /\ additions[j].amount > 0
       /\ \/ additions[j].insertBefore = AppendMilestoneId
          \/ /\ MilestoneExists(r, additions[j].insertBefore)
             /\ milestones[r][additions[j].insertBefore].status \in {"PendingProof", "Rejected"}
  /\ LET targets == AdditionTargets(additions)
     IN  \A j, k \in DOMAIN targets : j < k =>
           InsertionIndex(executionOrder[r], targets[j])
             <= InsertionIndex(executionOrder[r], targets[k])

ManagerAmends(r, newDeadline, existing, additions, operational) ==
  LET paid == Allocated(existing, additions) + operational
  IN  /\ milestoneStateVersion[r] < MaxVersion
      /\ ManagerValidated(r, existing, additions)
      /\ cargo[Manager] >= paid
      /\ cargo' = Transfer(cargo, Manager, Escrow, paid)
      /\ FinalizeAmendment(r, newDeadline, existing, additions, operational, cargo[Escrow] + paid)

ManagerCancels(r) ==
  /\ ~HasPendingMilestoneProof(r)
  /\ FinalizeMutualCancellation(r)

-----------------------------------------------------------------------------
Tick ==
  /\ now < MaxTime
  /\ now' = now + 1
  /\ UNCHANGED <<requests, tipAmounts, marketVars, moneyVars, workVars>>

(* At most two milestones are added and one funded per amendment (bounds).  *)
Fundings(r) ==
  {<<>>} \cup UNION { [{m} -> FundingAmounts] : m \in {n \in MilestoneIds : n < nextMilestoneId[r]} }

Addition(r) ==
  [insertBefore : {AppendMilestoneId} \cup {n \in MilestoneIds : n < nextMilestoneId[r]},
   amount : FundingAmounts]

Additions(r) == {<<>>} \cup [1 .. 1 -> Addition(r)] \cup [1 .. 2 -> Addition(r)]

MarketStep(r) ==
  \/ \E u \in Users, plan \in Plans : ProposeMilestones(u, r, plan)
  \/ \E u \in Users : RevokeMilestoneProposal(u, r)
  \/ \E p \in 1 .. MaxProposals : RejectMilestoneProposal(r, p)
  \/ CancelRequest(r)
  \/ \E p \in DOMAIN proposals[r], price \in ReferenceGasPrices, extra \in ExtraAllowances :
       ApproveAndFund(r, p, price, MinimumOperationalAllowance(r, p, price) + extra)

CarrierStep(r) ==
  \E m \in MilestoneIds :
    \/ \E uri \in ProofUris, gas \in GasReadings, price \in TxGasPrices :
         SubmitProof(r, m, uri, gas, price)
    \/ WithdrawProof(r, m)

ReviewStep(r) ==
  \E m \in MilestoneIds, n \in 1 .. MaxVersion : RejectMilestone(r, m, n) \/ ApproveMilestone(r, m, n)

SettlementStep(r) ==
  \/ RefundRemaining(r)
  \/ \E amount \in FundingAmounts : TipCarrier(r, amount) \/ TopUpOperationalAllowance(r, amount)

ManagerStep(r) ==
  \/ ManagerCancels(r)
  \/ \E newDeadline \in Deadlines, existing \in Fundings(r), additions \in Additions(r) :
       ManagerAmends(r, newDeadline, existing, additions,
                     Len(additions) * ProofReserve(requests[r].gasPriceCap))

Next ==
  \/ Tick
  \/ \E u \in Users, deadline \in Deadlines, amount \in Amounts : CreateRequest(u, deadline, amount)
  \/ \E r \in RequestIds :
       MarketStep(r) \/ CarrierStep(r) \/ ReviewStep(r) \/ SettlementStep(r) \/ ManagerStep(r)

Spec == Init /\ [][Next]_vars

-----------------------------------------------------------------------------
(* Properties.                                                              *)

Requests ==
  [shipper : Users \cup {NoUser}, carrier : Users \cup {NoUser}, status : RequestStatus,
   deadline : Nat, proposedAmount : Nat, totalAmount : Nat, releasedAmount : Nat,
   refundedAmount : Nat, operationalAllowance : Nat, operationalSpent : Nat, gasPriceCap : Nat]

Milestones ==
  [status : MilestoneStatus, payoutAmount : Nat, additionalPayoutAmount : Nat,
   proofUri : ProofUris \cup {NoProof}, proofSubmissionNumber : Nat,
   proofWithdrawalsThisRound : Nat, submittedAfterRejection : BOOLEAN,
   proofSubmissionReimbursed : BOOLEAN]

(* Every variable has its type; in particular no checked subtraction of the *)
(* contract underflows and no balance is overdrawn (all amounts are Nat; of *)
(* activeRequestCount it is ActiveCountsMatch that says so).                *)
TypeOK ==
  /\ now \in Nat
  /\ nextRequestId \in 1 .. MaxRequests + 1
  /\ requests \in [RequestIds -> Requests]
  /\ proposals \in [RequestIds -> Seq([carrier : Users, status : ProposalStatus, plan : Plans])]
  /\ activeProposal \in [RequestIds -> [Users -> Nat]]
  /\ acceptedProposal \in [RequestIds -> Nat]
  /\ openRequestIds \in Seq(RequestIds)
  /\ openRequestIndexPlusOne \in [RequestIds -> Nat]
  /\ milestones \in [RequestIds -> [MilestoneIds -> Milestones]]
  /\ nextMilestoneId \in [RequestIds -> Nat]
  /\ executionOrder \in [RequestIds -> Seq(MilestoneIds)]
  /\ milestoneStateVersion \in [RequestIds -> Nat]
  /\ cargo \in [Accounts -> Nat]
  /\ totalEscrowed \in Nat
  /\ lockedEscrow \in [Users -> [totalLocked : Nat, activeRequestCount : Int]]
  /\ tipAmounts \in [RequestIds -> Nat]

(* The CARGO a request has in the escrow.                                   *)
Pot(request) == EscrowOf(request) + OperationalOf(request)
Pots == [r \in RequestIds |-> Pot(requests[r])]

(* The one pooled balance is enough for all requests at once: the running   *)
(* total is the sum of what each request has left, escrow and operational   *)
(* reserve, and the contract holds at least that much CARGO.                *)
EscrowIsBacked ==
  /\ totalEscrowed = SumOver(Pots)
  /\ cargo[Escrow] >= totalEscrowed

(* getLockedEscrow: a shipper's total is that of the shipper's own requests, *)
(* across every release, reimbursement, refund and amendment.               *)
PotsOf(u) == [r \in RequestIds |-> IF requests[r].shipper = u THEN Pot(requests[r]) ELSE 0]
LockedTotalsMatch ==
  \A u \in Users : lockedEscrow[u].totalLocked = SumOver(PotsOf(u))

(* The shipper's count of active requests is decided by amounts (the last   *)
(* CARGO left), the status by milestones (all paid): they never disagree.   *)
ActiveRequestsOf(u) == {r \in RequestIds : requests[r].shipper = u /\ Active(r)}

ActiveCountsMatch ==
  \A u \in Users : lockedEscrow[u].activeRequestCount = Cardinality(ActiveRequestsOf(u))

(* What has been released is what the paid milestones were worth, and what  *)
(* remains in escrow is what the unpaid ones are worth, so that an approval *)
(* never finds too little escrow (InsufficientEscrow) and never leaves dust.*)
Worth(r, ms) ==
  SumOver([m \in ms |-> milestones[r][m].payoutAmount + milestones[r][m].additionalPayoutAmount])
MilestonesOf(r) == {m \in MilestoneIds : MilestoneExists(r, m)}
PaidOf(r) == {m \in MilestonesOf(r) : milestones[r][m].status = "Paid"}

EscrowMatchesMilestones ==
  \A r \in RequestIds :
    /\ requests[r].releasedAmount = Worth(r, PaidOf(r))
    /\ Active(r) => EscrowBalance(r) = Worth(r, MilestonesOf(r) \ PaidOf(r))

(* A shipment in progress always has escrow left (so it can be settled by   *)
(* refund or mutual cancellation), and a request that is over, or not yet   *)
(* funded, has nothing left in the contract, reserve included.              *)
PotIsHeldExactlyWhileActive ==
  \A r \in RequestIds :
    IF Active(r) THEN EscrowBalance(r) > 0 ELSE Pot(requests[r]) = 0

(* "Contract preserves enough operational reserve for later checkpoints":   *)
(* what is left always covers the first proof of every milestone still to   *)
(* be proved, at the request's own gas price cap.                           *)
ReserveCoversRemainingProofs ==
  \A r \in RequestIds : Active(r) =>
    OperationalRemaining(r) >= RemainingProofActions(executionOrder[r], milestones[r])
                                 * ProofReserve(requests[r].gasPriceCap)

(* However often a carrier withdraws and resubmits, each milestone costs    *)
(* the reserve one capped reimbursement at most.                            *)
OneReimbursementPerMilestone ==
  \A r \in RequestIds : Active(r) =>
    requests[r].operationalSpent <=
      Cardinality({m \in MilestonesOf(r) : milestones[r][m].proofSubmissionReimbursed})
        * Smaller(MaxProofReimbursement, ProofGasUnitCap * requests[r].gasPriceCap * CargoPerEth)

(* Money follows the work: a shipment's escrow, reserve and release figures *)
(* are at all times those its milestones and their proofs call for.         *)
MoneyFollowsTheWork ==
  /\ EscrowMatchesMilestones
  /\ PotIsHeldExactlyWhileActive
  /\ ReserveCoversRemainingProofs
  /\ OneReimbursementPerMilestone

(* Milestones are worked through in the execution order, insertions         *)
(* included: whatever lies before a paid or submitted milestone is paid.    *)
MilestonesDoneInOrder ==
  \A r \in RequestIds : \A i, j \in DOMAIN executionOrder[r] :
    (i < j /\ milestones[r][executionOrder[r][j]].status \in {"Paid", "Submitted"})
      => milestones[r][executionOrder[r][i]].status = "Paid"

(* The execution order lists every created milestone exactly once.          *)
ExecutionOrderIsComplete ==
  \A r \in RequestIds :
    /\ Len(executionOrder[r]) = nextMilestoneId[r]
    /\ \A m \in MilestonesOf(r) : \E i \in DOMAIN executionOrder[r] : executionOrder[r][i] = m

(* getOpenRequests lists exactly the open requests, and the index used for  *)
(* swap-and-pop removal points at each of them.                             *)
OpenListMatches ==
  \A r \in RequestIds :
    IF RequestExists(r) /\ requests[r].status = "Open"
    THEN /\ openRequestIndexPlusOne[r] \in DOMAIN openRequestIds
         /\ openRequestIds[openRequestIndexPlusOne[r]] = r
    ELSE /\ openRequestIndexPlusOne[r] = 0
         /\ \A i \in DOMAIN openRequestIds : openRequestIds[i] # r

(* A carrier has at most one active proposal on an open request, the index  *)
(* finds it, and a funded request has one accepted proposal: its carrier's. *)
ProposalsMatch ==
  \A r \in RequestIds :
    /\ requests[r].status = "Open" =>
         \A p \in DOMAIN proposals[r] : proposals[r][p].status = "Active"
           <=> activeProposal[r][proposals[r][p].carrier] = p
    /\ \A p \in DOMAIN proposals[r] :
         proposals[r][p].status = "Accepted"
           <=> acceptedProposal[r] = p /\ requests[r].carrier = proposals[r][p].carrier
    /\ requests[r].carrier # NoUser =>
         /\ acceptedProposal[r] \in DOMAIN proposals[r]
         /\ \A p \in DOMAIN proposals[r] : ShownProposalStatus(r, p) # "Active"

(* "Original milestone payouts and completed progress are never rewritten": *)
(* a paid milestone keeps its record, and its place in the order, forever,  *)
(* and so does the record of a request that is over, whatever proofs were   *)
(* still under review (verifyMilestone does not look at its status).        *)
SettledWorkIsFinal ==
  [][\A r \in RequestIds :
       /\ \A i \in DOMAIN executionOrder[r] :
            milestones[r][executionOrder[r][i]].status = "Paid" =>
              /\ executionOrder'[r][i] = executionOrder[r][i]
              /\ milestones'[r][executionOrder[r][i]] = milestones[r][executionOrder[r][i]]
       /\ requests[r].status \in {"Completed", "Refunded", "Cancelled"} =>
            requests'[r] = requests[r]]_vars

(* Whatever a pending amendment was quoted on (progress, order, gas price   *)
(* cap) cannot change without the version the amendment was pinned to       *)
(* going up.                                                                *)
QuotedTerms(r) ==
  <<[m \in MilestoneIds |-> milestones[r][m].status], executionOrder[r], requests[r].gasPriceCap>>

QuotedTermsAreVersioned ==
  [][\A r \in RequestIds :
       QuotedTerms(r)' # QuotedTerms(r) => milestoneStateVersion'[r] > milestoneStateVersion[r]]_vars

EveryFundedShipmentSettles == \A r \in RequestIds : Active(r) ~> ~Active(r)

-----------------------------------------------------------------------------
(* What the contract promises (EscrowPromise), read off its records.        *)

Phase(r) ==
  IF ~RequestExists(r) THEN "none"
  ELSE CASE requests[r].status = "Open"      -> "offered"
         [] requests[r].status = "Cancelled" -> "withdrawn"
         [] requests[r].status = "Refunded"  -> "returned"
         [] requests[r].status = "Completed" -> IF tipAmounts[r] = 0 THEN "delivered" ELSE "tipped"
         [] OTHER                            -> "running"

Promise == INSTANCE EscrowPromise WITH
  Requests <- RequestIds, Wallets <- Users, Fund <- Manager, Nobody <- NoUser,
  phase    <- [r \in RequestIds |-> Phase(r)],
  shipper  <- [r \in RequestIds |-> requests[r].shipper],
  carrier  <- [r \in RequestIds |-> requests[r].carrier],
  promised <- [r \in RequestIds |-> EscrowBalance(r)],
  reserve  <- [r \in RequestIds |-> OperationalRemaining(r)],
  wallet   <- [a \in Users \cup {Manager} |-> cargo[a]]

(* With its pooled balance and its running totals, dust in the percentages, *)
(* capped reimbursements, amendments and proofs that are still reviewed     *)
(* after a refund, the contract does to every wallet what the promise says: *)
(* each CARGO leaves the shipper once, reaches that request's carrier or    *)
(* returns, and the last milestone's approval, and no other step, delivers. *)
KeepsPromise == Promise!Spec

=============================================================================
