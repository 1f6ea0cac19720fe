--------------------------- MODULE LifecycleManager ---------------------------
(***************************************************************************)
(* The LifecycleManager contract (contracts/LifecycleManager.sol) composed  *)
(* with the DeliveryEscrow it was initialised with: one negotiation slot    *)
(* per shipment, shared by amendments and mutual cancellations, the CARGO   *)
(* staged for a pending amendment, and the two calls into the escrow.       *)
(*                                                                          *)
(* A call from one contract into the other happens inside one transaction,  *)
(* so a manager action takes the escrow's FinalizeAmendment or              *)
(* FinalizeMutualCancellation as one of its conjuncts.  The caller of an    *)
(* action is the one user its guards allow, except where it is a parameter. *)
(***************************************************************************)
EXTENDS DeliveryEscrow

CONSTANTS
  MinLeadTime,             \* MIN_AMENDMENT_LEAD_TIME = MIN_CANCELLATION_LEAD_TIME
  MinDeadlineChange,
  MinAdditionalFunding,
  ResponseGasUnitCap, ResponseOverhead, MaxResponseReimbursement,
  ResponseAllowances,      \* 0 (EachPaysOwn) or what the requester stages
  MaxNegotiations          \* bound: amendments, and cancellations, per request

ASSUME NegotiationAssumption ==
  /\ MinLeadTime \in Nat /\ MinDeadlineChange \in Nat \ {0}
  /\ MinAdditionalFunding \in Nat \ {0}
  /\ ResponseGasUnitCap \in Nat \ {0} /\ ResponseOverhead \in Nat
  /\ MaxResponseReimbursement \in Nat /\ ResponseAllowances \subseteq Nat
  /\ MaxNegotiations \in Nat
  /\ ManagerEndowment = 0      \* nobody pays the manager before it is asked for an amendment

VARIABLES
  activeNegotiation,       \* activeNegotiations: kind, id, version snapshot
  amendmentRequests,       \* with amendmentExistingFunding, amendmentNewMilestones
  cancellationRequests

negotiationVars == <<activeNegotiation, amendmentRequests, cancellationRequests>>
chainVars == <<vars, negotiationVars>>

NoNegotiation == [kind |-> "None", id |-> 0, milestoneStateVersion |-> 0]

ChainInit ==
  /\ Init
  /\ activeNegotiation = [r \in RequestIds |-> NoNegotiation]
  /\ amendmentRequests = [r \in RequestIds |-> <<>>]
  /\ cancellationRequests = [r \in RequestIds |-> <<>>]

-----------------------------------------------------------------------------
(* Checks shared by both kinds of negotiation.                              *)

NegotiableShipment(r) == RequestExists(r) /\ Active(r) /\ now <= requests[r].deadline

Participants(r) == {requests[r].shipper, requests[r].carrier}
Counterparty(r, who) == IF who = requests[r].shipper THEN requests[r].carrier ELSE requests[r].shipper

ValidResponseDeadline(r, responseDeadline) ==
  now < responseDeadline /\ responseDeadline <= requests[r].deadline

OpenNegotiation(r, kind, id) ==
  /\ activeNegotiation[r].kind = "None"
  /\ activeNegotiation' = [activeNegotiation EXCEPT ![r] =
       [kind |-> kind, id |-> id, milestoneStateVersion |-> milestoneStateVersion[r]]]

IsActiveNegotiation(r, kind, id) ==
  activeNegotiation[r].kind = kind /\ activeNegotiation[r].id = id

(* Slip: the version pinned when the negotiation opened is not compared.    *)
CurrentAgreement(r, kind, id) == IsActiveNegotiation(r, kind, id)

CurrentMilestoneState(r, kind, id) ==
  /\ IsActiveNegotiation(r, kind, id)
  /\ activeNegotiation[r].milestoneStateVersion = milestoneStateVersion[r]

(* Slip: the slot is freed by an acceptance only.                           *)
CloseNegotiationIfAmended(r, kind, id) ==
  /\ IsActiveNegotiation(r, kind, id)
  /\ activeNegotiation' =
       IF kind = "Amendment" THEN [activeNegotiation EXCEPT ![r] = NoNegotiation]
       ELSE activeNegotiation

CloseNegotiation(r, kind, id) ==
  /\ IsActiveNegotiation(r, kind, id)
  /\ activeNegotiation' = [activeNegotiation EXCEPT ![r] = NoNegotiation]

-----------------------------------------------------------------------------
(* Amendments.                                                              *)

NewAmendment(r, who, proposedDeadline, existing, additions) ==
  [requester |-> who, responder |-> Counterparty(r, who),
   previousDeadline |-> requests[r].deadline, proposedDeadline |-> proposedDeadline,
   existing |-> existing, additions |-> additions,
   additionalFunding |-> Allocated(existing, additions),
   operationalAllowance |-> Len(additions) * ProofReserve(requests[r].gasPriceCap),
   responseDeadline |-> now, status |-> "Pending", responseAllowance |-> 0,
   responseAllowanceSpent |-> 0, responseReimbursed |-> FALSE, responseGasPriceCap |-> 0]

(* Slip: the record of a direct extension is pushed as a pending one.       *)
DirectExtensionLeftPending(r, newDeadline) ==
  [NewAmendment(r, requests[r].shipper, newDeadline, <<>>, <<>>) EXCEPT !.responder = NoUser]

DirectExtension(r, newDeadline) ==
  [NewAmendment(r, requests[r].shipper, newDeadline, <<>>, <<>>) EXCEPT
     !.responder = NoUser, !.status = "Accepted"]

ExtensionTerms(r, newDeadline) ==
  NegotiableShipment(r) /\ newDeadline >= requests[r].deadline + MinDeadlineChange

ExtendShipmentDeadline(r, newDeadline) ==
  /\ Len(amendmentRequests[r]) < MaxNegotiations
  /\ ExtensionTerms(r, newDeadline)
  /\ activeNegotiation[r].kind = "None"
  /\ FinalizeAmendment(r, newDeadline, <<>>, <<>>, 0, cargo[Escrow])
  /\ amendmentRequests' =
       [amendmentRequests EXCEPT ![r] = Append(@, DirectExtension(r, newDeadline))]
  /\ UNCHANGED <<cargo, activeNegotiation, cancellationRequests>>

(* _validateAmendmentAllocations: positive amounts, no paid milestone, room  *)
(* for the additions, targets still to be proved and named in order.        *)
ValidAllocations(r, existing, additions) ==
  /\ \A m \in DOMAIN existing :
       existing[m] > 0 /\ MilestoneExists(r, m) /\ milestones[r][m].status # "Paid"
  /\ Len(executionOrder[r]) + Len(additions) <= MaxTotalMilestones
  /\ ManagerValidated(r, existing, additions)

MinimumResponseAllowance(price) == (ResponseGasUnitCap + ResponseOverhead) * price * CargoPerEth

(* What may be asked for, whoever pays for it.                              *)
AmendmentTerms(r, who, proposedDeadline, responseDeadline, existing, additions) ==
  LET shipper         == requests[r].shipper
      currentDeadline == requests[r].deadline
      funding         == Allocated(existing, additions)
      operational     == Len(additions) * ProofReserve(requests[r].gasPriceCap)
  IN  /\ NegotiableShipment(r)
      /\ who \in Participants(r)
      /\ ValidResponseDeadline(r, responseDeadline)
      /\ proposedDeadline > now
      /\ currentDeadline > now + MinLeadTime
      /\ \/ proposedDeadline = currentDeadline
         \/ proposedDeadline >= currentDeadline + MinDeadlineChange
         \/ proposedDeadline + MinDeadlineChange <= currentDeadline
      /\ who = shipper \/ proposedDeadline >= currentDeadline
      /\ ValidAllocations(r, existing, additions)
      /\ proposedDeadline # currentDeadline \/ funding > 0
      /\ funding > 0 => funding >= MinAdditionalFunding
      /\ proposedDeadline < currentDeadline =>
           funding >= MinAdditionalFunding /\ responseDeadline <= proposedDeadline
      /\ ~(/\ who = shipper /\ proposedDeadline > currentDeadline
           /\ funding = 0 /\ operational = 0)

RequestAmendment(r, who, proposedDeadline, responseDeadline, existing, additions, price, allowance) ==
  LET funding     == Allocated(existing, additions)
      operational == Len(additions) * ProofReserve(requests[r].gasPriceCap)
      staged      == (IF who = requests[r].shipper THEN funding + operational ELSE 0) + allowance
  IN  /\ Len(amendmentRequests[r]) < MaxNegotiations
      /\ AmendmentTerms(r, who, proposedDeadline, responseDeadline, existing, additions)
      /\ allowance > 0 => allowance >= MinimumResponseAllowance(price)
      /\ cargo[who] >= staged
      /\ cargo' = Transfer(cargo, who, Manager, staged)
      /\ OpenNegotiation(r, "Amendment", Len(amendmentRequests[r]) + 1)
      /\ amendmentRequests' = [amendmentRequests EXCEPT ![r] = Append(@,
           [NewAmendment(r, who, proposedDeadline, existing, additions) EXCEPT
              !.responseDeadline = responseDeadline,
              !.responseAllowance = allowance,
              !.responseGasPriceCap = allowance \div MinimumResponseAllowance(1)])]
      /\ UNCHANGED <<now, requests, tipAmounts, marketVars, workVars,
                     totalEscrowed, lockedEscrow, cancellationRequests>>

(* Slip: only the amendments of a shipment in progress can be resolved.     *)
PendingAmendmentOfActive(r, a) ==
  /\ a \in DOMAIN amendmentRequests[r]
  /\ amendmentRequests[r][a].status = "Pending"
  /\ IsActiveNegotiation(r, "Amendment", a)
  /\ Active(r)

PendingAmendment(r, a) ==
  /\ a \in DOMAIN amendmentRequests[r]
  /\ amendmentRequests[r][a].status = "Pending"
  /\ IsActiveNegotiation(r, "Amendment", a)

(* What the shipper staged for the escrow itself when asking.               *)
StagedFunding(r, amendment) ==
  IF amendment.requester = requests[r].shipper
  THEN amendment.additionalFunding + amendment.operationalAllowance ELSE 0

ResponseReimbursement(amendment, gas, price) ==
  Smaller(Smaller(Smaller(gas + ResponseOverhead, ResponseGasUnitCap)
                    * Smaller(price, amendment.responseGasPriceCap) * CargoPerEth,
                  MaxResponseReimbursement),
          amendment.responseAllowance - amendment.responseAllowanceSpent)

UnusedAllowance(amendment, reimbursed) ==
  amendment.responseAllowance - amendment.responseAllowanceSpent - reimbursed

(* _refundStagedAmendment, and before it what the responder is paid back;   *)
(* balances is what the accounts hold when the response is settled.         *)
ReturnStaged(r, a, outcome, reimbursed, balances) ==
  LET amendment == amendmentRequests[r][a]
      returned  == IF outcome = "Accepted" THEN 0 ELSE StagedFunding(r, amendment)
      paidBack  == IF reimbursed > 0
                   THEN Transfer(balances, Manager, amendment.responder, reimbursed) ELSE balances
      unused    == UnusedAllowance(amendment, reimbursed)
  IN  /\ cargo' = Transfer(Transfer(paidBack, Manager, requests[r].shipper, returned),
                           Manager, amendment.requester, unused)
      /\ amendmentRequests' = [amendmentRequests EXCEPT
           ![r][a].status = outcome,
           ![r][a].responseAllowanceSpent = amendment.responseAllowance,
           ![r][a].responseReimbursed = (outcome \in {"Accepted", "Rejected"}
                                          /\ amendment.responseAllowance > 0)]

(* What an accepting shipper still has to pay in: a carrier stages nothing. *)
FundingOnAcceptance(r, amendment) ==
  IF amendment.requester = requests[r].shipper THEN 0
  ELSE amendment.additionalFunding + amendment.operationalAllowance

AcceptAmendment(r, a, gas, price) ==
  /\ PendingAmendment(r, a)
  /\ LET amendment == amendmentRequests[r][a]
         owed      == amendment.additionalFunding + amendment.operationalAllowance
         fresh     == FundingOnAcceptance(r, amendment)
         collected == Transfer(cargo, amendment.responder, Manager, fresh)
         forwarded == Transfer(collected, Manager, Escrow, owed)
     IN  /\ now <= amendment.responseDeadline
         /\ NegotiableShipment(r)
         /\ CurrentMilestoneState(r, "Amendment", a)
         /\ cargo[amendment.responder] >= fresh
         /\ CloseNegotiation(r, "Amendment", a)
         /\ FinalizeAmendment(r, amendment.proposedDeadline, amendment.existing,
                              amendment.additions, amendment.operationalAllowance,
                              forwarded[Escrow])
         /\ ReturnStaged(r, a, "Accepted", ResponseReimbursement(amendment, gas, price), forwarded)
  /\ UNCHANGED cancellationRequests

(* The other three ends of an amendment touch the escrow not at all.        *)
ResolveAmendment(r, a, outcome, reimbursed) ==
  /\ CloseNegotiation(r, "Amendment", a)
  /\ ReturnStaged(r, a, outcome, reimbursed, cargo)
  /\ UNCHANGED <<now, requests, tipAmounts, marketVars, workVars,
                 totalEscrowed, lockedEscrow, cancellationRequests>>

RejectAmendment(r, a, gas, price) ==
  /\ PendingAmendment(r, a)
  /\ now <= amendmentRequests[r][a].responseDeadline
  /\ ResolveAmendment(r, a, "Rejected",
                      ResponseReimbursement(amendmentRequests[r][a], gas, price))

WithdrawAmendment(r, a) == PendingAmendment(r, a) /\ ResolveAmendment(r, a, "Withdrawn", 0)

ExpireAmendment(r, a) ==
  /\ PendingAmendment(r, a)
  /\ now > amendmentRequests[r][a].responseDeadline
  /\ ResolveAmendment(r, a, "Expired", 0)

-----------------------------------------------------------------------------
(* Mutual cancellations stage nothing and are not pinned to a version.      *)

CancellationTerms(r, who, responseDeadline) ==
  /\ NegotiableShipment(r)
  /\ who \in Participants(r)
  /\ requests[r].deadline > now + MinLeadTime
  /\ ValidResponseDeadline(r, responseDeadline)

RequestCancellation(r, who, responseDeadline) ==
  /\ Len(cancellationRequests[r]) < MaxNegotiations
  /\ CancellationTerms(r, who, responseDeadline)
  /\ OpenNegotiation(r, "Cancellation", Len(cancellationRequests[r]) + 1)
  /\ cancellationRequests' = [cancellationRequests EXCEPT ![r] = Append(@,
       [requester |-> who, responder |-> Counterparty(r, who),
        responseDeadline |-> responseDeadline, status |-> "Pending"])]
  /\ UNCHANGED <<vars, amendmentRequests>>

PendingCancellation(r, c) ==
  /\ c \in DOMAIN cancellationRequests[r]
  /\ cancellationRequests[r][c].status = "Pending"
  /\ IsActiveNegotiation(r, "Cancellation", c)

ResolveCancellation(r, c, outcome) ==
  /\ PendingCancellation(r, c)
  /\ cancellationRequests' = [cancellationRequests EXCEPT ![r][c].status = outcome]
  /\ CloseNegotiation(r, "Cancellation", c)
  /\ UNCHANGED amendmentRequests

AcceptCancellation(r, c) ==
  /\ ResolveCancellation(r, c, "Accepted")
  /\ now <= cancellationRequests[r][c].responseDeadline
  /\ NegotiableShipment(r)
  /\ ~HasPendingMilestoneProof(r)
  /\ FinalizeMutualCancellation(r)

RejectCancellation(r, c) ==
  /\ ResolveCancellation(r, c, "Rejected")
  /\ now <= cancellationRequests[r][c].responseDeadline
  /\ UNCHANGED vars

WithdrawCancellation(r, c) == ResolveCancellation(r, c, "Withdrawn") /\ UNCHANGED vars

ExpireCancellation(r, c) ==
  /\ ResolveCancellation(r, c, "Expired")
  /\ now > cancellationRequests[r][c].responseDeadline
  /\ UNCHANGED vars

-----------------------------------------------------------------------------
(* The composed system: the escrow's own transactions and the manager's.    *)

AmendmentStep(r) ==
  \/ \E newDeadline \in Deadlines : ExtendShipmentDeadline(r, newDeadline)
  \/ \E who \in Users, proposedDeadline, responseDeadline \in Deadlines,
        existing \in Fundings(r), additions \in Additions(r),
        price \in ReferenceGasPrices, allowance \in ResponseAllowances :
       RequestAmendment(r, who, proposedDeadline, responseDeadline,
                        existing, additions, price, allowance)
  \/ \E a \in 1 .. MaxNegotiations :
       \/ \E gas \in GasReadings, price \in TxGasPrices :
            AcceptAmendment(r, a, gas, price) \/ RejectAmendment(r, a, gas, price)
       \/ WithdrawAmendment(r, a)
       \/ ExpireAmendment(r, a)

CancellationStep(r) ==
  \/ \E who \in Users, responseDeadline \in Deadlines : RequestCancellation(r, who, responseDeadline)
  \/ \E c \in 1 .. MaxNegotiations :
       \/ AcceptCancellation(r, c)
       \/ RejectCancellation(r, c)
       \/ WithdrawCancellation(r, c)
       \/ ExpireCancellation(r, c)

EscrowStep ==
  \/ Tick
  \/ \E u \in Users, deadline \in Deadlines, amount \in Amounts : CreateRequest(u, deadline, amount)
  \/ \E r \in RequestIds : MarketStep(r) \/ CarrierStep(r) \/ ReviewStep(r) \/ SettlementStep(r)

ChainNext ==
  \/ EscrowStep /\ UNCHANGED negotiationVars
  \/ \E r \in RequestIds : AmendmentStep(r) \/ CancellationStep(r)

ChainSpec == ChainInit /\ [][ChainNext]_chainVars

(* Time passes, a shipper who may take a refund eventually does, and        *)
(* somebody (anybody may) expires what nobody answered.                     *)
ChainFairness ==
  /\ WF_chainVars(Tick /\ UNCHANGED negotiationVars)
  /\ \A r \in RequestIds :
       /\ WF_chainVars(RefundRemaining(r) /\ UNCHANGED negotiationVars)
       /\ \A n \in 1 .. MaxNegotiations :
            WF_chainVars(ExpireAmendment(r, n)) /\ WF_chainVars(ExpireCancellation(r, n))

FairChainSpec == ChainSpec /\ ChainFairness

-----------------------------------------------------------------------------
(* Properties.                                                              *)

AmendmentStatus == {"Pending", "Accepted", "Rejected", "Withdrawn", "Expired"}

IsAmendment(amendment) ==
  /\ amendment.requester \in Users /\ amendment.responder \in Users \cup {NoUser}
  /\ {amendment.previousDeadline, amendment.proposedDeadline, amendment.responseDeadline,
      amendment.additionalFunding, amendment.operationalAllowance, amendment.responseAllowance,
      amendment.responseAllowanceSpent, amendment.responseGasPriceCap} \subseteq Nat
  /\ amendment.status \in AmendmentStatus
  /\ amendment.responseReimbursed \in BOOLEAN
  /\ amendment.existing \in [DOMAIN amendment.existing -> Nat]
  /\ DOMAIN amendment.existing \subseteq MilestoneIds
  /\ amendment.additions \in Seq([insertBefore : MilestoneIds \cup {AppendMilestoneId}, amount : Nat])

Cancellations ==
  [requester : Users, responder : Users, responseDeadline : Nat, status : AmendmentStatus]

ChainTypeOK ==
  /\ TypeOK
  /\ activeNegotiation \in [RequestIds -> [kind : {"None", "Amendment", "Cancellation"},
                                           id : Nat, milestoneStateVersion : Nat]]
  /\ \A r \in RequestIds : \A a \in DOMAIN amendmentRequests[r] : IsAmendment(amendmentRequests[r][a])
  /\ cancellationRequests \in [RequestIds -> Seq(Cancellations)]

(* What the escrow guarantees on its own is not lost under the manager that *)
(* actually drives its hooks.                                               *)
EscrowStaysSound ==
  /\ EscrowIsBacked /\ LockedTotalsMatch /\ ActiveCountsMatch /\ EscrowMatchesMilestones
  /\ PotIsHeldExactlyWhileActive /\ ReserveCoversRemainingProofs
  /\ MilestonesDoneInOrder /\ ExecutionOrderIsComplete

StakeOf(r, amendment) ==
  IF amendment.status = "Pending"
  THEN StagedFunding(r, amendment) + amendment.responseAllowance - amendment.responseAllowanceSpent
  ELSE 0

StakedOn(r) == SumOver([a \in DOMAIN amendmentRequests[r] |-> StakeOf(r, amendmentRequests[r][a])])

ManagerHoldsTheStakes == cargo[Manager] = SumOver([r \in RequestIds |-> StakedOn(r)])

PendingNegotiations(r) ==
  {<<"Amendment", a>> : a \in {b \in DOMAIN amendmentRequests[r] :
                                 amendmentRequests[r][b].status = "Pending"}}
    \cup {<<"Cancellation", c>> : c \in {b \in DOMAIN cancellationRequests[r] :
                                           cancellationRequests[r][b].status = "Pending"}}

OneNegotiationSlot ==
  \A r \in RequestIds :
    PendingNegotiations(r) = IF activeNegotiation[r].kind = "None" THEN {}
                             ELSE {<<activeNegotiation[r].kind, activeNegotiation[r].id>>}

(* What is pending keeps its stake and its slot.  The manager holds exactly *)
(* the CARGO staged for pending amendments, so every stake can be returned  *)
(* to whoever paid it, also after the shipment itself was completed or      *)
(* refunded; and "a shipment may have only one pending agreement-change     *)
(* workflow at a time": pending records and the slot say the same.          *)
PendingKeepsStakeAndSlot == ManagerHoldsTheStakes /\ OneNegotiationSlot

(* "Rejection, withdrawal, or expiry leaves the current agreement           *)
(* unchanged", and so does every answer to an amendment that is not its     *)
(* acceptance: deadline, order and added payouts move with an accepted      *)
(* amendment or a direct extension only.  The escrow takes the manager's    *)
(* word for the allocations: at the moment an amendment is accepted,        *)
(* however long after it was validated, they are still valid against the    *)
(* milestones as they are now.                                              *)
Agreement(r) ==
  <<requests[r].deadline, executionOrder[r],
    [m \in MilestoneIds |-> milestones[r][m].additionalPayoutAmount]>>

AcceptedCount(r) ==
  Cardinality({a \in DOMAIN amendmentRequests[r] : amendmentRequests[r][a].status = "Accepted"})

StillValid(r, amendment) ==
  /\ ValidAllocations(r, amendment.existing, amendment.additions)
  /\ requests[r].deadline = amendment.previousDeadline

AgreementChangesByValidAcceptance ==
  [][\A r \in RequestIds :
       /\ (Active(r) /\ Agreement(r)' # Agreement(r)) => AcceptedCount(r)' = AcceptedCount(r) + 1
       /\ \A a \in DOMAIN amendmentRequests[r] :
            (amendmentRequests[r][a].status = "Pending" /\ amendmentRequests'[r][a].status = "Accepted")
              => StillValid(r, amendmentRequests[r][a])]_chainVars

EveryNegotiationEnds ==
  \A r \in RequestIds : activeNegotiation[r].kind # "None" ~> activeNegotiation[r].kind = "None"

(* Nothing stays open for good.  A funded shipment is completed, mutually   *)
(* cancelled or, once overdue, refunded, whatever state its milestones and  *)
(* proofs are in; and of a negotiation the staged CARGO is back with its    *)
(* funder or in the escrow after the response deadline, and the slot free,  *)
(* whatever became of the shipment meanwhile.                               *)
EverythingSettles == EveryFundedShipmentSettles /\ EveryNegotiationEnds

=============================================================================
