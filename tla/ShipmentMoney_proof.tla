-------------------------- MODULE ShipmentMoney_proof --------------------------
(***************************************************************************)
(* The theorems that the work is done in order and that money follows it,   *)
(* in parts, each with an invariant that the next one needs.                *)
(*                                                                          *)
(* I.   Order (OrderInv).  Milestones are done in the execution order       *)
(*      whatever amendments insert, finished work keeps its place and its   *)
(*      record, and what an amendment was quoted on does not change behind  *)
(*      its version.  An amendment is applied long after it was sent, so    *)
(*      the argument is about the order it finds.                           *)
(* II.  Worth (WorthInv).  What has been released is what the paid          *)
(*      milestones were worth, what is left in escrow is what the others    *)
(*      are worth: percentages are rounded down, amendments add to          *)
(*      milestones and insert new ones, a refund leaves proofs under        *)
(*      review, and each step moves the two sums with the two figures.      *)
(* III. Money (HeldInv).  A running shipment always has escrow left and a   *)
(*      reserve for every proof to come, has spent one capped reimbursement *)
(*      per proved milestone at most, and a shipment that is over leaves    *)
(*      nothing behind.                                                     *)
(* IV.  Market (DealInv).  Whom a request's proposals are from, and which   *)
(*      of them counts; with it all invariants hold together (AllInv), also *)
(*      beside what else may happen to CARGO.  A shipper's count of active  *)
(*      requests, decided by amounts, is the number of running shipments.   *)
(* V.   Promise.  Read off its records, every transaction is one step of    *)
(*      the abstract specification EscrowPromise, or none.                  *)
(***************************************************************************)
EXTENDS DeliveryEscrow_proof

-----------------------------------------------------------------------------
(* Part I.  The order of work.                                              *)

-----------------------------------------------------------------------------
(* The invariant, request by request.                                       *)

Begun == {"Paid", "Submitted"}

InOrder(order, ms) ==
  \A i, j \in DOMAIN order :
    (i < j /\ ms[order[j]].status \in Begun) => ms[order[i]].status = "Paid"

EveryPaid(order, ms) == \A i \in DOMAIN order : ms[order[i]].status = "Paid"

Sound(r) ==
  /\ InOrder(executionOrder[r], milestones[r])
  /\ nextMilestoneId[r] <= MaxTotalMilestones
  /\ ~WasFunded(requests[r]) => milestoneStateVersion[r] = 0
  /\ requests[r].status = "Completed" => EveryPaid(executionOrder[r], milestones[r])
  /\ requests[r].status = "Refunded" => EscrowOf(requests[r]) = 0

OrderInv == \A r \in RequestIds : Sound(r)

(* What a step may do to one request.                                       *)
QuoteKept(r) ==
  QuotedTerms(r)' # QuotedTerms(r) => milestoneStateVersion'[r] > milestoneStateVersion[r]

PaidKept(r) ==
  \A i \in DOMAIN executionOrder[r] :
    milestones[r][executionOrder[r][i]].status = "Paid" =>
      /\ executionOrder'[r][i] = executionOrder[r][i]
      /\ milestones'[r][executionOrder[r][i]] = milestones[r][executionOrder[r][i]]

OverKept(r) ==
  requests[r].status \in {"Completed", "Refunded", "Cancelled"} => requests'[r] = requests[r]

Right(r) == Sound(r)' /\ QuoteKept(r) /\ PaidKept(r) /\ OverKept(r)

Same(r) ==
  /\ milestones'[r] = milestones[r] /\ executionOrder'[r] = executionOrder[r]
  /\ nextMilestoneId'[r] = nextMilestoneId[r] /\ requests'[r] = requests[r]
  /\ milestoneStateVersion'[r] = milestoneStateVersion[r]

-----------------------------------------------------------------------------
(* Sequences.                                                               *)

(* A sequence of n ids in which each of the first n is found has each once, *)
(* and no other.                                                            *)
LEMMA EachOnce ==
  ASSUME NEW order \in Seq(MilestoneIds), Len(order) <= MaxTotalMilestones,
         \A m \in MilestoneIds : m < Len(order) => \E i \in DOMAIN order : order[i] = m
  PROVE  /\ \A i \in DOMAIN order : order[i] < Len(order)
         /\ \A i, j \in DOMAIN order : order[i] = order[j] => i = j
<1> DEFINE n == Len(order)
           all == {order[i] : i \in 1 .. n}
<1>1. n \in Nat /\ DOMAIN order = 1 .. n /\ order \in [1 .. n -> all]
  OBVIOUS
<1>2. IsFiniteSet(1 .. n) /\ Cardinality(1 .. n) = n
  <2> HIDE DEF n
  <2>1. 1 \in Int /\ n \in Int
    BY <1>1
  <2>2. /\ IsFiniteSet(1 .. n)
        /\ Cardinality(1 .. n) = IF 1 > n THEN 0 ELSE n - 1 + 1
    BY <2>1, FS_Interval
  <2>3. QED BY <1>1, <2>2
<1>3. IsFiniteSet(0 .. n - 1) /\ Cardinality(0 .. n - 1) = n
  <2> HIDE DEF n
  <2>1. 0 \in Int /\ n - 1 \in Int
    BY <1>1
  <2>2. /\ IsFiniteSet(0 .. n - 1)
        /\ Cardinality(0 .. n - 1) = IF 0 > n - 1 THEN 0 ELSE (n - 1) - 0 + 1
    BY <2>1, FS_Interval
  <2>3. QED BY <1>1, <2>2
<1>4. order \in Surjection(1 .. n, all)
  BY <1>1 DEF Surjection
<1>5. 0 .. n - 1 \subseteq all
  <2>1. ASSUME NEW m \in 0 .. n - 1 PROVE m \in all
    <3>1. m \in MilestoneIds /\ m < n
      BY <1>1, NumberAssumption DEF MilestoneIds
    <3>2. QED BY <3>1, <1>1
  <2>2. QED BY <2>1
<1>6. IsFiniteSet(all) /\ Cardinality(all) <= n
  <2> HIDE DEF all
  <2>1. QED BY <1>2, <1>4, FS_Surjection
<1>7. Cardinality(all) = n /\ all = 0 .. n - 1
  <2> HIDE DEF all
  <2>1. 0 .. n - 1 \in SUBSET all
    BY <1>5
  <2>2. /\ Cardinality(0 .. n - 1) <= Cardinality(all)
        /\ Cardinality(0 .. n - 1) = Cardinality(all) => 0 .. n - 1 = all
    BY <2>1, <1>6, FS_Subset
  <2>3. Cardinality(all) \in Nat
    BY <1>6, FS_CardinalityType
  <2>4. QED BY <2>2, <2>3, <1>1, <1>3, <1>6
<1>8. order \in Injection(1 .. n, all)
  <2> HIDE DEF all
  <2>1. QED BY <1>2, <1>4, <1>7, FS_Surjection
<1>9. \A i, j \in 1 .. n : order[i] = order[j] => i = j
  BY <1>8 DEF Injection, IsInjective
<1>10. \A i \in 1 .. n : order[i] < n
  <2>1. \A i \in 1 .. n : order[i] \in all
    OBVIOUS
  <2> HIDE DEF all
  <2>2. QED BY <2>1, <1>1, <1>7
<1>11. QED BY <1>1, <1>9, <1>10

(* When every addition goes to place b or later, the order in front of b    *)
(* stays.                                                                   *)
LEMMA FrontStays ==
  ASSUME NEW order \in Seq(MilestoneIds), NEW targets \in Seq(Int), NEW firstId \in Nat,
         NEW b \in 1 .. Len(order) + 1,
         \A j \in DOMAIN targets : InsertionIndex(order, targets[j]) \in b .. Len(order) + 1,
         NEW p \in 1 .. b - 1
  PROVE  WithInsertions(order, targets, firstId)[p] = order[p]
<1> DEFINE position == [j \in DOMAIN targets |-> PositionOfAddition(order, targets, j)]
           lower == {j \in DOMAIN targets : position[j] < p}
           Index(q) == CHOOSE j \in DOMAIN targets : position[j] = q
<1>1. /\ Len(order) \in Nat /\ Len(targets) \in Nat /\ DOMAIN targets = 1 .. Len(targets)
      /\ p \in Nat /\ b \in Nat /\ p < b /\ p \in 1 .. Len(order) + Len(targets)
  OBVIOUS
<1>2. ASSUME NEW j \in DOMAIN targets PROVE position[j] \in Int /\ position[j] >= b
  <2> DEFINE at == [k \in DOMAIN targets |-> InsertionIndex(order, targets[k])]
             before == {k \in DOMAIN targets : at[k] < at[j] \/ (at[k] = at[j] /\ k < j)}
  <2>1. at[j] \in b .. Len(order) + 1
    OBVIOUS
  <2>2. Cardinality(before) \in Nat
    <3>1. before \in SUBSET (1 .. Len(targets))
      BY <1>1
    <3> HIDE DEF before
    <3>2. IsFiniteSet(1 .. Len(targets))
      BY <1>1, FS_Interval
    <3>3. IsFiniteSet(before)
      BY <3>1, <3>2, FS_Subset
    <3>4. QED BY <3>3, FS_CardinalityType
  <2>3. position[j] = at[j] + Cardinality(before)
    BY DEF PositionOfAddition
  <2> HIDE DEF at, before, position
  <2>4. QED BY <2>1, <2>2, <2>3, <1>1
<1>3. lower = {}
  <2> HIDE DEF position
  <2>1. QED BY <1>1, <1>2
<1>4. ~\E j \in DOMAIN targets : position[j] = p
  <2> HIDE DEF position
  <2>1. QED BY <1>1, <1>2
<1>5. WithInsertions(order, targets, firstId)[p] =
        IF \E j \in DOMAIN targets : position[j] = p
        THEN firstId + Index(p) - 1
        ELSE order[p - Cardinality(lower)]
  BY <1>1 DEF WithInsertions
<1> HIDE DEF position, lower, Index
<1>6. Cardinality(lower) = 0
  BY <1>3, FS_EmptySet
<1>7. QED BY <1>1, <1>4, <1>5, <1>6

-----------------------------------------------------------------------------
(* What IInv and Sound say of one request.                                  *)
LEMMA OrderFacts ==
  ASSUME IInv, NEW r \in RequestIds, Sound(r)
  PROVE  /\ milestones \in [RequestIds -> [MilestoneIds -> Milestones]]
         /\ milestones[r] \in [MilestoneIds -> Milestones]
         /\ nextMilestoneId \in [RequestIds -> Nat] /\ nextMilestoneId[r] \in Nat
         /\ executionOrder \in [RequestIds -> Seq(MilestoneIds)]
         /\ executionOrder[r] \in Seq(MilestoneIds)
         /\ Len(executionOrder[r]) = nextMilestoneId[r]
         /\ milestoneStateVersion \in [RequestIds -> Nat] /\ milestoneStateVersion[r] \in Nat
         /\ requests \in [RequestIds -> Requests] /\ requests[r] \in Requests
         /\ \A m \in MilestoneIds : m < nextMilestoneId[r]
              => \E i \in DOMAIN executionOrder[r] : executionOrder[r][i] = m
         /\ \A i \in DOMAIN executionOrder[r] :
              executionOrder[r][i] \in MilestoneIds /\ executionOrder[r][i] < nextMilestoneId[r]
         /\ \A i, j \in DOMAIN executionOrder[r] :
              executionOrder[r][i] = executionOrder[r][j] => i = j
<1>1. /\ milestones \in [RequestIds -> [MilestoneIds -> Milestones]]
      /\ nextMilestoneId \in [RequestIds -> Nat]
      /\ executionOrder \in [RequestIds -> Seq(MilestoneIds)]
      /\ milestoneStateVersion \in [RequestIds -> Nat]
      /\ requests \in [RequestIds -> Requests]
  BY DEF IInv, WorkOK, RequestsOK
<1>2. /\ Len(executionOrder[r]) = nextMilestoneId[r]
      /\ \A m \in MilestoneIds : m < nextMilestoneId[r]
           => \E i \in DOMAIN executionOrder[r] : executionOrder[r][i] = m
  BY DEF IInv, WorkOK, ExecutionOrderIsComplete, MilestonesOf, MilestoneExists
<1>3. executionOrder[r] \in Seq(MilestoneIds) /\ nextMilestoneId[r] <= MaxTotalMilestones
  BY <1>1 DEF Sound
<1>4. /\ \A i \in DOMAIN executionOrder[r] : executionOrder[r][i] < nextMilestoneId[r]
      /\ \A i, j \in DOMAIN executionOrder[r] :
           executionOrder[r][i] = executionOrder[r][j] => i = j
  BY <1>2, <1>3, EachOnce
<1>5. \A i \in DOMAIN executionOrder[r] : executionOrder[r][i] \in MilestoneIds
  BY <1>3
<1>6. QED BY <1>1, <1>2, <1>3, <1>4, <1>5

(* A request nothing happens to.                                            *)
LEMMA UntouchedRight ==
  ASSUME NEW r \in RequestIds, Sound(r), Same(r)
  PROVE  Right(r)
<1> USE DEF Same
<1>1. Sound(r)'
  BY DEF Sound, InOrder, EveryPaid, WasFunded, EscrowOf
<1>2. QuoteKept(r)
  BY DEF QuoteKept, QuotedTerms
<1>3. PaidKept(r) /\ OverKept(r)
  BY DEF PaidKept, OverKept
<1>4. QED BY <1>1, <1>2, <1>3 DEF Right

(* The request and its version may change, its milestones do not.           *)
LEMMA RequestRight ==
  ASSUME NEW r \in RequestIds, Sound(r), UNCHANGED <<milestones, executionOrder, nextMilestoneId>>,
         \/ milestoneStateVersion'[r] > milestoneStateVersion[r]
         \/ requests'[r].gasPriceCap = requests[r].gasPriceCap,
         WasFunded(requests'[r]) \/ milestoneStateVersion'[r] = 0,
         requests'[r].status # "Completed" \/ requests'[r] = requests[r],
         requests'[r].status = "Refunded" => EscrowOf(requests'[r]) = 0,
         OverKept(r)
  PROVE  Right(r)
<1>1. Sound(r)'
  BY DEF Sound, InOrder, EveryPaid, WasFunded, EscrowOf
<1>2. QuoteKept(r)
  BY DEF QuoteKept, QuotedTerms
<1>3. PaidKept(r)
  BY DEF PaidKept
<1>4. QED BY <1>1, <1>2, <1>3 DEF Right

-----------------------------------------------------------------------------
(* One milestone changes, by a proof or its review.                         *)

LEMMA OneMilestoneInOrder ==
  ASSUME IInv, NEW r \in RequestIds, Sound(r), NEW m \in MilestoneIds, MilestoneExists(r, m),
         milestones[r][m].status # "Paid",
         NEW new, new.status \in Begun => PreviousMilestonePaid(r, m)
  PROVE  InOrder(executionOrder[r], [milestones[r] EXCEPT ![m] = new])
<1> DEFINE order == executionOrder[r]
           ms == milestones[r]
           changed == [ms EXCEPT ![m] = new]
<1>1. /\ ms \in [MilestoneIds -> Milestones] /\ order \in Seq(MilestoneIds)
      /\ DOMAIN order = 1 .. Len(order) /\ Len(order) \in Nat
      /\ \A i \in DOMAIN order : order[i] \in MilestoneIds
      /\ \A i, j \in DOMAIN order : order[i] = order[j] => i = j
      /\ InOrder(order, ms)
  BY OrderFacts DEF Sound
<1>2. changed[m] = new /\ \A k \in MilestoneIds : k # m => changed[k] = ms[k]
  BY <1>1
<1>3. ASSUME NEW i \in DOMAIN order, NEW j \in DOMAIN order, i < j, changed[order[j]].status \in Begun
      PROVE  changed[order[i]].status = "Paid"
  <2>1. i \in Int /\ j \in Int /\ j \in 1 .. Len(order) /\ i >= 1
    BY <1>1
  <2>2. CASE order[j] = m
    <3>1. ExecutionIndex(r, m) = j
      BY <2>2, <1>1 DEF ExecutionIndex
    <3>2. new.status \in Begun
      BY <1>2, <1>3, <2>2
    <3>3. j - 1 \in DOMAIN order /\ ms[order[j - 1]].status = "Paid"
      BY <3>1, <3>2, <2>1, <1>1, <1>3 DEF PreviousMilestonePaid
    <3>4. ms[order[i]].status = "Paid"
      <4>1. CASE i = j - 1
        BY <4>1, <3>3
      <4>2. CASE i # j - 1
        <5>1. i < j - 1
          BY <4>2, <2>1, <1>3
        <5>2. QED BY <5>1, <3>3, <1>1 DEF InOrder, Begun
      <4>3. QED BY <4>1, <4>2
    <3>5. order[i] # m
      BY <2>1, <2>2, <1>1, <1>3
    <3> HIDE DEF changed, ms, order
    <3>6. QED BY <3>4, <3>5, <1>1, <1>2
  <2>3. CASE order[j] # m
    <3>1. ms[order[j]].status \in Begun
      BY <2>3, <1>1, <1>2, <1>3
    <3>2. ms[order[i]].status = "Paid"
      BY <3>1, <1>1, <1>3 DEF InOrder
    <3>3. order[i] # m
      BY <3>2
    <3> HIDE DEF changed, ms, order
    <3>4. QED BY <3>2, <3>3, <1>1, <1>2
  <2>4. QED BY <2>2, <2>3
<1> HIDE DEF order, changed
<1>4. InOrder(order, changed)
  BY <1>3 DEF InOrder
<1>5. QED BY <1>4 DEF order, changed

LEMMA OneMilestoneRight ==
  ASSUME IInv, NEW r \in RequestIds, Sound(r), NEW m \in MilestoneIds, MilestoneExists(r, m),
         milestones[r][m].status # "Paid",
         NEW new, new.status \in Begun => PreviousMilestonePaid(r, m),
         milestones' = [milestones EXCEPT ![r] = [milestones[r] EXCEPT ![m] = new]],
         UNCHANGED <<nextMilestoneId, executionOrder>>, MarkMilestoneStateChanged(r),
         WasFunded(requests'[r]),
         requests'[r].status = "Completed" => EveryPaid(executionOrder[r], milestones'[r]),
         requests'[r].status = "Refunded" => EscrowOf(requests'[r]) = 0,
         OverKept(r)
  PROVE  Right(r)
<1>1. /\ milestones'[r] = [milestones[r] EXCEPT ![m] = new]
      /\ milestoneStateVersion'[r] = milestoneStateVersion[r] + 1
      /\ milestoneStateVersion[r] \in Nat /\ milestones[r] \in [MilestoneIds -> Milestones]
      /\ \A i \in DOMAIN executionOrder[r] : executionOrder[r][i] \in MilestoneIds
  BY OrderFacts DEF MarkMilestoneStateChanged
<1>2. InOrder(executionOrder[r], milestones'[r])
  BY <1>1, OneMilestoneInOrder
<1>3. Sound(r)'
  BY <1>2 DEF Sound, EveryPaid, InOrder, WasFunded, EscrowOf
<1>4. QuoteKept(r)
  BY <1>1 DEF QuoteKept
<1>5. PaidKept(r)
  BY <1>1 DEF PaidKept
<1>6. QED BY <1>3, <1>4, <1>5 DEF Right

(* A proof is under review in a funded request that is not completed.       *)
LEMMA ReviewedIsUnfinished ==
  ASSUME IInv, NEW r \in RequestIds, Sound(r), NEW m \in MilestoneIds, MilestoneExists(r, m),
         milestones[r][m].status = "Submitted"
  PROVE  WasFunded(requests[r]) /\ requests[r].status # "Completed"
<1>1. nextMilestoneId[r] # 0
  BY DEF MilestoneExists, MilestoneIds
<1>2. WasFunded(requests[r])
  BY <1>1 DEF IInv, RequestsOK
<1>3. PICK i \in DOMAIN executionOrder[r] : executionOrder[r][i] = m
  BY OrderFacts DEF MilestoneExists
<1>4. ~EveryPaid(executionOrder[r], milestones[r])
  BY <1>3 DEF EveryPaid
<1>5. QED BY <1>2, <1>4 DEF Sound

LEMMA SubmitRight ==
  ASSUME IInv, NEW r \in RequestIds, Sound(r), NEW m \in MilestoneIds, NEW uri, NEW gas, NEW price,
         SubmitProof(r, m, uri, gas, price)
  PROVE  Right(r)
<1> DEFINE new == Submitted(milestones[r][m], uri)
<1>1. /\ MilestoneExists(r, m) /\ milestones[r][m].status # "Paid" /\ PreviousMilestonePaid(r, m)
      /\ milestones' = [milestones EXCEPT ![r] = [milestones[r] EXCEPT ![m] = new]]
      /\ UNCHANGED <<nextMilestoneId, executionOrder>> /\ MarkMilestoneStateChanged(r)
      /\ Active(r)
  BY DEF SubmitProof
<1>2. requests'[r].status = "InProgress"
  BY OrderFacts DEF SubmitProof, Requests
<1>3. OverKept(r)
  BY <1>1 DEF OverKept, Active
<1> HIDE DEF new
<1>4. WasFunded(requests'[r])
  BY <1>2 DEF WasFunded
<1>5. QED BY <1>1, <1>2, <1>3, <1>4, OneMilestoneRight

LEMMA WithdrawRight ==
  ASSUME IInv, NEW r \in RequestIds, Sound(r), NEW m \in MilestoneIds, WithdrawProof(r, m)
  PROVE  Right(r)
<1> DEFINE new == Withdrawn(milestones[r][m])
<1>1. /\ MilestoneExists(r, m) /\ milestones[r][m].status = "Submitted"
      /\ milestones' = [milestones EXCEPT ![r][m] = new]
      /\ UNCHANGED <<requests, nextMilestoneId, executionOrder>> /\ MarkMilestoneStateChanged(r)
  BY DEF WithdrawProof
<1>2. new.status \notin Begun
  <2>1. milestones[r][m] \in Milestones
    BY OrderFacts
  <2>2. QED BY <2>1 DEF Withdrawn, Milestones, Begun
<1> HIDE DEF new
<1>3. milestones' = [milestones EXCEPT ![r] = [milestones[r] EXCEPT ![m] = new]]
  BY <1>1
<1>4. WasFunded(requests[r]) /\ requests[r].status # "Completed"
  BY <1>1, ReviewedIsUnfinished
<1>5. OverKept(r)
  BY <1>1 DEF OverKept
<1>6. requests[r].status = "Refunded" => EscrowOf(requests[r]) = 0
  BY DEF Sound
<1>7. QED BY <1>1, <1>2, <1>3, <1>4, <1>5, <1>6, OneMilestoneRight

LEMMA RejectRight ==
  ASSUME IInv, NEW r \in RequestIds, Sound(r), NEW m \in MilestoneIds, NEW n,
         RejectMilestone(r, m, n)
  PROVE  Right(r)
<1> DEFINE new == [milestones[r][m] EXCEPT !.status = "Rejected",
                                           !.proofWithdrawalsThisRound = 0,
                                           !.submittedAfterRejection = FALSE]
<1>1. /\ MilestoneExists(r, m) /\ milestones[r][m].status = "Submitted"
      /\ milestones' = [milestones EXCEPT ![r] = [milestones[r] EXCEPT ![m] = new]]
      /\ UNCHANGED <<requests, nextMilestoneId, executionOrder>> /\ MarkMilestoneStateChanged(r)
  BY DEF RejectMilestone, MayReview
<1>2. new.status \notin Begun
  <2>1. milestones[r][m] \in Milestones
    BY OrderFacts
  <2>2. QED BY <2>1 DEF Milestones, Begun
<1> HIDE DEF new
<1>3. WasFunded(requests[r]) /\ requests[r].status # "Completed"
  BY <1>1, ReviewedIsUnfinished
<1>4. OverKept(r)
  BY <1>1 DEF OverKept
<1>5. requests[r].status = "Refunded" => EscrowOf(requests[r]) = 0
  BY DEF Sound
<1>6. QED BY <1>1, <1>2, <1>3, <1>4, <1>5, OneMilestoneRight

(* verifyMilestone looks at no request status, so a proof left under review *)
(* when the shipment was refunded could be approved: but its escrow is gone.*)
LEMMA ApproveRight ==
  ASSUME IInv, NEW r \in RequestIds, Sound(r), NEW m \in MilestoneIds, NEW n,
         ApproveMilestone(r, m, n)
  PROVE  Right(r)
<1> DEFINE new == [milestones[r][m] EXCEPT !.status = "Paid"]
           ms == [milestones[r] EXCEPT ![m] = new]
           amount == milestones[r][m].payoutAmount + milestones[r][m].additionalPayoutAmount
           completed == AllPaid(executionOrder[r], ms)
<1>1. /\ MilestoneExists(r, m) /\ milestones[r][m].status = "Submitted" /\ PreviousMilestonePaid(r, m)
      /\ milestones' = [milestones EXCEPT ![r] = ms]
      /\ UNCHANGED <<nextMilestoneId, executionOrder>> /\ MarkMilestoneStateChanged(r)
      /\ amount > 0 /\ EscrowBalance(r) >= amount
  BY DEF ApproveMilestone, MayReview
<1>2. requests'[r].status = IF completed THEN "Completed" ELSE requests[r].status
  BY OrderFacts DEF ApproveMilestone, Requests
<1>3. WasFunded(requests[r]) /\ requests[r].status # "Completed"
  BY <1>1, ReviewedIsUnfinished
<1>4. requests[r].status # "Refunded"
  <2>1. amount \in Nat
    <3>1. milestones[r][m] \in Milestones
      BY OrderFacts
    <3>2. QED BY <3>1 DEF Milestones
  <2> HIDE DEF amount
  <2>2. ~(EscrowOf(requests[r]) = 0)
    BY <1>1, <2>1 DEF EscrowBalance
  <2>3. QED BY <2>2 DEF Sound
<1> HIDE DEF new
<1>5. milestones'[r] = ms
  BY <1>1, OrderFacts
<1> HIDE DEF ms, amount
<1>6. WasFunded(requests'[r]) /\ requests'[r].status # "Refunded"
  BY <1>2, <1>3, <1>4 DEF WasFunded
<1>7. requests'[r].status = "Completed" => EveryPaid(executionOrder[r], milestones'[r])
  BY <1>2, <1>3, <1>5 DEF AllPaid, EveryPaid
<1>8. OverKept(r)
  BY <1>3, <1>4 DEF OverKept, WasFunded
<1>9. QED BY <1>1, <1>6, <1>7, <1>8, OneMilestoneRight DEF ms

-----------------------------------------------------------------------------
(* Settlement and top-up.                                                   *)

LEMMA RefundRight ==
  ASSUME IInv, NEW r \in RequestIds, Sound(r), RefundRemaining(r) \/ FinalizeMutualCancellation(r)
  PROVE  Right(r)
<1> DEFINE old == requests[r]
           remaining == EscrowBalance(r)
           new == [old EXCEPT !.refundedAmount = @ + remaining,
                              !.operationalSpent = @ + OperationalRemaining(r),
                              !.status = "Refunded"]
<1>1. Refund(r)
  BY DEF RefundRemaining, FinalizeMutualCancellation
<1>2. remaining > 0 /\ requests' = [requests EXCEPT ![r] = new] /\ UNCHANGED workVars
  BY <1>1 DEF Refund
<1>3. old \in Requests /\ requests'[r] = new
  BY <1>2, OrderFacts
<1>4. new.status = "Refunded" /\ new.gasPriceCap = old.gasPriceCap /\ EscrowOf(new) = 0
  BY <1>3 DEF Requests, EscrowOf, EscrowBalance
<1>5. OverKept(r)
  <2>1. ~(old.totalAmount = 0 /\ old.releasedAmount = 0 /\ old.refundedAmount = 0)
    BY <1>2 DEF EscrowBalance, EscrowOf
  <2>2. WasFunded(old)
    BY <2>1 DEF IInv, RequestsOK, Unfunded
  <2>3. Active(r)
    BY <1>3, <2>2 DEF RefundRemaining, FinalizeMutualCancellation, Overdue, Active, WasFunded,
                      Requests, RequestStatus
  <2>4. QED BY <2>3 DEF OverKept, Active
<1> HIDE DEF new
<1>6. WasFunded(new)
  BY <1>4 DEF WasFunded
<1>7. QED BY <1>2, <1>3, <1>4, <1>5, <1>6, RequestRight DEF workVars

LEMMA TopUpRight ==
  ASSUME IInv, NEW r \in RequestIds, Sound(r), NEW amount, TopUpOperationalAllowance(r, amount)
  PROVE  Right(r)
<1> DEFINE old == requests[r]
           topped == [old EXCEPT !.operationalAllowance = @ + amount]
           actions == RemainingProofActions(executionOrder[r], milestones[r])
           raised == actions > 0 /\ FundedCap(topped, actions) > topped.gasPriceCap
           new == IF raised THEN [topped EXCEPT !.gasPriceCap = FundedCap(topped, actions)] ELSE topped
<1>1. /\ Active(r) /\ requests' = [requests EXCEPT ![r] = new]
      /\ IF raised THEN MarkMilestoneStateChanged(r) ELSE UNCHANGED milestoneStateVersion
      /\ UNCHANGED <<milestones, executionOrder, nextMilestoneId>>
  BY DEF TopUpOperationalAllowance
<1>2. old \in Requests /\ requests'[r] = new
  BY <1>1, OrderFacts
<1>3. /\ new.status = old.status
      /\ ~raised => new.gasPriceCap = old.gasPriceCap
  BY <1>2 DEF Requests
<1> HIDE DEF new, raised
<1>4. raised => milestoneStateVersion'[r] > milestoneStateVersion[r]
  BY <1>1, OrderFacts DEF MarkMilestoneStateChanged
<1>5. WasFunded(new) /\ new.status \notin {"Completed", "Refunded"} /\ OverKept(r)
  BY <1>1, <1>3 DEF Active, WasFunded, OverKept
<1>6. QED BY <1>1, <1>2, <1>3, <1>4, <1>5, RequestRight

-----------------------------------------------------------------------------
(* The market.                                                              *)

LEMMA CreateRight ==
  ASSUME IInv, OrderInv, NEW u \in Users, NEW deadline, NEW amount,
         CreateRequest(u, deadline, amount), NEW q \in RequestIds
  PROVE  Right(q)
<1> DEFINE r == nextRequestId
           new == [NoRequest EXCEPT !.shipper = u, !.deadline = deadline, !.proposedAmount = amount]
<1>1. /\ r \in RequestIds /\ requests' = [requests EXCEPT ![r] = new] /\ UNCHANGED workVars
      /\ Sound(q) /\ requests[r] = NoRequest /\ requests \in [RequestIds -> Requests]
  <2>1. nextRequestId \in 1 .. MaxRequests + 1 /\ nextRequestId <= MaxRequests
    BY DEF CreateRequest, IInv, MarketOK
  <2>2. r \in RequestIds
    BY <2>1, NumberAssumption DEF RequestIds
  <2>3. r >= nextRequestId
    BY <2>1
  <2>4. requests[r] = NoRequest /\ requests \in [RequestIds -> Requests]
    BY <2>2, <2>3 DEF IInv, RequestsOK
  <2>5. QED BY <2>2, <2>4 DEF CreateRequest, OrderInv
<1>2. CASE q # r
  <2>1. requests'[q] = requests[q]
    BY <1>1, <1>2
  <2>2. QED BY <1>1, <2>1, UntouchedRight DEF workVars, Same
<1>3. CASE q = r
  <2>1. requests[q].status = "Open" /\ requests[q].gasPriceCap = 0
    BY <1>1, <1>3 DEF NoRequest
  <2>2. requests'[q] = new /\ new.status = "Open" /\ new.gasPriceCap = 0
    BY <1>1, <1>3 DEF NoRequest
  <2> HIDE DEF new
  <2>3. milestoneStateVersion'[q] = 0 /\ OverKept(q)
    BY <1>1, <2>1 DEF Sound, WasFunded, OverKept, workVars
  <2>4. UNCHANGED <<milestones, executionOrder, nextMilestoneId>>
    BY <1>1 DEF workVars
  <2>5. QED BY <1>1, <2>1, <2>2, <2>3, <2>4, RequestRight
<1>4. QED BY <1>2, <1>3

LEMMA CancelRight ==
  ASSUME IInv, NEW r \in RequestIds, Sound(r), CancelRequest(r)
  PROVE  Right(r)
<1>1. /\ requests' = [requests EXCEPT ![r].status = "Cancelled"]
      /\ UNCHANGED workVars /\ requests[r].status = "Open"
  BY OrderFacts DEF CancelRequest, Requests, RequestStatus
<1>2. /\ requests'[r].status = "Cancelled"
      /\ requests'[r].gasPriceCap = requests[r].gasPriceCap
  BY <1>1, OrderFacts DEF Requests
<1>3. milestoneStateVersion'[r] = 0 /\ OverKept(r)
  BY <1>1 DEF Sound, WasFunded, OverKept, workVars
<1>4. UNCHANGED <<milestones, executionOrder, nextMilestoneId>>
  BY <1>1 DEF workVars
<1>5. QED BY <1>2, <1>3, <1>4, RequestRight

(* Funding finds neither milestones nor an order, and starts all of them as *)
(* pending.                                                                 *)
LEMMA FundRight ==
  ASSUME IInv, NEW r \in RequestIds, Sound(r), NEW p \in DOMAIN proposals[r],
         NEW price \in Nat, NEW allowance, ApproveAndFund(r, p, price, allowance)
  PROVE  Right(r)
<1> DEFINE plan == proposals[r][p].plan
           first == nextMilestoneId[r]
           order == [i \in 1 .. Len(plan) |-> first + i - 1]
           ms == [m \in MilestoneIds |->
                    IF m \in first .. first + Len(plan) - 1
                    THEN [NoMilestone EXCEPT !.status = "PendingProof",
                            !.payoutAmount =
                               PayoutAmount(requests[r].proposedAmount, plan, m - first + 1)]
                    ELSE milestones[r][m]]
<1>1. plan \in Seq(Nat) /\ Len(plan) \in Nat /\ Len(plan) \in 1 .. MaxInitialMilestones
  <2>1. plan \in Seq(Nat) /\ ValidPlan(plan)
    BY MinimumIsNat DEF IInv
  <2>2. QED BY <2>1 DEF ValidPlan
<1>2. /\ requests[r].status = "Open" /\ milestones' = [milestones EXCEPT ![r] = ms]
      /\ executionOrder' = [executionOrder EXCEPT ![r] = order]
      /\ nextMilestoneId' = [nextMilestoneId EXCEPT ![r] = first + Len(plan)]
      /\ milestoneStateVersion' = [milestoneStateVersion EXCEPT ![r] = 1]
  BY DEF ApproveAndFund
<1>3. first = 0 /\ milestoneStateVersion[r] = 0 /\ DOMAIN executionOrder[r] = {}
  <2>1. first = 0 /\ milestoneStateVersion[r] = 0
    BY <1>2 DEF IInv, RequestsOK, Sound, WasFunded
  <2>2. Len(executionOrder[r]) = 0 /\ executionOrder[r] \in Seq(MilestoneIds)
    BY <2>1, OrderFacts
  <2>3. QED BY <2>1, <2>2
<1>4. \A i \in DOMAIN order : ms[order[i]].status = "PendingProof"
  <2>1. ASSUME NEW i \in 1 .. Len(plan) PROVE ms[order[i]].status = "PendingProof"
    <3>1. order[i] = i - 1 /\ i - 1 \in first .. first + Len(plan) - 1
      BY <1>1, <1>3
    <3>2. i - 1 \in MilestoneIds
      BY <1>1, NumberAssumption DEF MilestoneIds
    <3>3. \A m \in MilestoneIds : m \in first .. first + Len(plan) - 1 => ms[m].status = "PendingProof"
      BY DEF NoMilestone
    <3> HIDE DEF ms, order, first
    <3>4. QED BY <3>1, <3>2, <3>3
  <2> HIDE DEF ms
  <2>2. QED BY <2>1
<1>5. requests'[r].status = "Funded"
  <2> DEFINE cap == allowance \div (Len(plan) * ProofReserve(1))
             carrier == proposals[r][p].carrier
  <2>1. requests' = [requests EXCEPT ![r].carrier = carrier,
                                     ![r].totalAmount = requests[r].proposedAmount,
                                     ![r].status = "Funded",
                                     ![r].operationalAllowance = allowance,
                                     ![r].gasPriceCap = cap]
    BY DEF ApproveAndFund
  <2> HIDE DEF cap, carrier
  <2>2. QED BY <2>1, OrderFacts DEF Requests
<1> HIDE DEF ms, order
<1>6. /\ milestones'[r] = ms /\ executionOrder'[r] = order
      /\ nextMilestoneId'[r] = Len(plan) /\ milestoneStateVersion'[r] = 1
  BY <1>1, <1>2, <1>3, OrderFacts
<1>7. InOrder(order, ms)
  BY <1>4 DEF InOrder, Begun
<1>8. Sound(r)'
  <2>1. Len(plan) <= MaxTotalMilestones
    BY <1>1, NumberAssumption
  <2> HIDE DEF plan
  <2>2. QED BY <1>5, <1>6, <1>7, <2>1 DEF Sound, InOrder, WasFunded
<1>9. QuoteKept(r) /\ PaidKept(r) /\ OverKept(r)
  BY <1>2, <1>3, <1>6 DEF QuoteKept, PaidKept, OverKept
<1>10. QED BY <1>8, <1>9 DEF Right

-----------------------------------------------------------------------------
(* Amendments.                                                              *)

(* Wherever something was begun, every addition goes behind it: milestones  *)
(* in front are paid, and additions go before unbegun ones, or to the end.  *)
LEMMA AdditionsGoBehind ==
  ASSUME IInv, NEW r \in RequestIds, Sound(r), NEW additions, NEW existing,
         ManagerValidated(r, existing, additions),
         NEW i \in DOMAIN executionOrder[r], milestones[r][executionOrder[r][i]].status \in Begun,
         NEW j \in DOMAIN additions
  PROVE  InsertionIndex(executionOrder[r], additions[j].insertBefore)
           \in i + 1 .. Len(executionOrder[r]) + 1
<1> DEFINE order == executionOrder[r]
           target == additions[j].insertBefore
           t == InsertionIndex(order, target)
<1>1. /\ order \in Seq(MilestoneIds) /\ Len(order) \in Nat /\ DOMAIN order = 1 .. Len(order)
      /\ InOrder(order, milestones[r])
  BY OrderFacts DEF Sound
<1>2. CASE target = AppendMilestoneId
  BY <1>1, <1>2 DEF InsertionIndex
<1>3. CASE target # AppendMilestoneId
  <2>1. /\ MilestoneExists(r, target)
        /\ milestones[r][target].status \in {"PendingProof", "Rejected"}
    BY <1>3 DEF ManagerValidated
  <2>2. \E k \in DOMAIN order : order[k] = target
    BY <2>1, OrderFacts DEF MilestoneExists
  <2>3. t \in DOMAIN order /\ order[t] = target
    BY <1>3, <2>2 DEF InsertionIndex
  <2> HIDE DEF t, target
  <2>4. t # i
    BY <2>1, <2>3 DEF Begun
  <2>5. ~(t < i)
    BY <1>1, <2>1, <2>3 DEF InOrder
  <2>6. t \in i + 1 .. Len(order) + 1
    <3>1. i \in DOMAIN order
      OBVIOUS
    <3> HIDE DEF order
    <3>2. QED BY <1>1, <2>3, <2>4, <2>5, <3>1
  <2>7. QED BY <2>6 DEF t, target
<1>4. QED BY <1>2, <1>3

LEMMA AmendRight ==
  ASSUME IInv, NEW r \in RequestIds, Sound(r), NEW newDeadline \in Deadlines,
         NEW existing \in Fundings(r), NEW additions \in Additions(r), NEW operational \in Nat,
         Amends(r, newDeadline, existing, additions, operational)
  PROVE  Right(r)
<1> DEFINE first == nextMilestoneId[r]
           n == Len(additions)
           order == executionOrder[r]
           targets == AdditionTargets(additions)
           new == WithInsertions(order, targets, first)
           added == first .. first + n - 1
           ms == [m \in MilestoneIds |->
                    IF m \in first .. first + n - 1
                    THEN [NoMilestone EXCEPT !.status = "PendingProof",
                                             !.additionalPayoutAmount = additions[m - first + 1].amount]
                    ELSE IF m \in DOMAIN existing
                    THEN [milestones[r][m] EXCEPT !.additionalPayoutAmount = @ + existing[m]]
                    ELSE milestones[r][m]]
<1>1. /\ Active(r) /\ ManagerValidated(r, existing, additions)
      /\ milestones' = [milestones EXCEPT ![r] = ms]
      /\ executionOrder' = [executionOrder EXCEPT ![r] = new]
      /\ nextMilestoneId' = [nextMilestoneId EXCEPT ![r] = first + n]
      /\ MarkMilestoneStateChanged(r)
      /\ \A m \in DOMAIN existing : milestones[r][m].status # "Paid"
      /\ Len(order) + n <= MaxTotalMilestones
  BY DEF Amends, FinalizeAmendment, Fundable
<1>2. /\ n \in Nat /\ targets \in Seq(Int) /\ DOMAIN targets = DOMAIN additions
      /\ \A j \in DOMAIN targets : targets[j] = additions[j].insertBefore
  BY AmendmentInputs DEF AdditionTargets
<1>3. /\ first \in Nat /\ order \in Seq(MilestoneIds) /\ Len(order) = first
      /\ DOMAIN order = 1 .. first /\ InOrder(order, milestones[r])
      /\ \A i \in DOMAIN order : order[i] \in MilestoneIds /\ order[i] < first
      /\ \A m \in MilestoneIds : m < first => \E i \in DOMAIN order : order[i] = m
      /\ milestones[r] \in [MilestoneIds -> Milestones]
  BY OrderFacts DEF Sound
<1>4. \A m \in MilestoneIds :
        /\ m \in added => ms[m].status = "PendingProof"
        /\ m \notin added => ms[m].status = milestones[r][m].status
        /\ m \notin added /\ milestones[r][m].status = "Paid" => ms[m] = milestones[r][m]
  <2>1. ASSUME NEW m \in MilestoneIds, m \in added PROVE ms[m].status = "PendingProof"
    BY <2>1 DEF NoMilestone
  <2>2. ASSUME NEW m \in MilestoneIds, m \notin added
        PROVE  /\ ms[m].status = milestones[r][m].status
               /\ milestones[r][m].status = "Paid" => ms[m] = milestones[r][m]
    <3>1. milestones[r][m] \in Milestones
      BY <1>3
    <3>2. CASE m \in DOMAIN existing
      <4>1. ms[m] = [milestones[r][m] EXCEPT !.additionalPayoutAmount = @ + existing[m]]
        BY <2>2, <3>2
      <4> HIDE DEF ms
      <4>2. QED BY <1>1, <3>1, <3>2, <4>1 DEF Milestones
    <3>3. CASE m \notin DOMAIN existing
      BY <2>2, <3>3
    <3>4. QED BY <3>2, <3>3
  <2> HIDE DEF ms, added
  <2>3. QED BY <2>1, <2>2
<1>5. /\ milestones'[r] = ms /\ executionOrder'[r] = new /\ nextMilestoneId'[r] = first + n
      /\ milestoneStateVersion'[r] = milestoneStateVersion[r] + 1
      /\ milestoneStateVersion[r] \in Nat
  <2> HIDE DEF ms, new, first, n
  <2>1. QED BY <1>1, OrderFacts DEF MarkMilestoneStateChanged
<1> HIDE DEF ms
<1>6. /\ new \in Seq(MilestoneIds) /\ Len(new) = first + n /\ DOMAIN new = 1 .. first + n
      /\ \A i \in DOMAIN new : new[i] \in MilestoneIds /\ new[i] < first + n
      /\ \A i, j \in DOMAIN new : new[i] = new[j] => i = j
  <2> HIDE DEF new, first, n
  <2>1. WorkOK'
    BY AmendedWorkOK
  <2>2. /\ new \in Seq(MilestoneIds) /\ Len(new) = first + n
        /\ \A m \in MilestoneIds : m < first + n => \E i \in DOMAIN new : new[i] = m
    BY <2>1, <1>5 DEF WorkOK, ExecutionOrderIsComplete, MilestonesOf, MilestoneExists
  <2>3. Len(new) <= MaxTotalMilestones
    BY <2>2, <1>1, <1>3
  <2>4. /\ \A i \in DOMAIN new : new[i] < Len(new)
        /\ \A i, j \in DOMAIN new : new[i] = new[j] => i = j
    BY <2>2, <2>3, EachOnce
  <2>5. QED BY <2>2, <2>4
<1>7. ASSUME NEW i \in DOMAIN order, milestones[r][order[i]].status \in Begun, NEW p \in 1 .. i
      PROVE  new[p] = order[p]
  <2>1. \A j \in DOMAIN targets : InsertionIndex(order, targets[j]) \in i + 1 .. Len(order) + 1
    <3> HIDE DEF targets
    <3>1. QED BY <1>1, <1>2, <1>7, AdditionsGoBehind
  <2>2. i + 1 \in 1 .. Len(order) + 1 /\ p \in 1 .. (i + 1) - 1
    BY <1>3
  <2> HIDE DEF targets, order, first
  <2>3. QED BY <2>1, <2>2, <1>2, <1>3, FrontStays DEF new
<1>8. \A i \in DOMAIN order : order[i] \notin added
  <2> HIDE DEF first, n, order
  <2>1. \A m \in MilestoneIds : m < first => m \notin added
    BY <1>3 DEF MilestoneIds
  <2>2. QED BY <2>1, <1>3
<1> HIDE DEF new
<1>9. InOrder(new, ms)
  <2>1. ASSUME NEW i \in DOMAIN new, NEW j \in DOMAIN new, i < j, ms[new[j]].status \in Begun
        PROVE  ms[new[i]].status = "Paid"
    <3>1. new[j] \in MilestoneIds /\ new[j] \notin added /\ new[j] < first + n
      BY <2>1, <1>4, <1>6 DEF Begun
    <3>2. new[j] < first
      <4> HIDE DEF n, first
      <4>1. QED BY <3>1, <1>2, <1>3 DEF MilestoneIds
    <3>3. PICK k \in DOMAIN order : order[k] = new[j]
      BY <3>1, <3>2, <1>3
    <3> HIDE DEF order, added, first, n
    <3>4. milestones[r][order[k]].status \in Begun
      BY <2>1, <3>1, <3>3, <1>4
    <3>5. k \in 1 .. first /\ k \in DOMAIN new /\ k \in 1 .. k
      BY <1>2, <1>3, <1>6
    <3>6. new[k] = order[k]
      BY <1>7, <3>4, <3>5
    <3>7. j = k
      BY <1>6, <3>3, <3>5, <3>6
    <3>8. i \in 1 .. k /\ i \in DOMAIN order
      BY <2>1, <3>5, <3>7, <1>2, <1>3, <1>6
    <3>9. new[i] = order[i] /\ milestones[r][order[i]].status = "Paid"
      BY <1>3, <1>7, <2>1, <3>4, <3>7, <3>8 DEF InOrder
    <3>10. QED BY <3>8, <3>9, <1>3, <1>4, <1>8
  <2> HIDE DEF order, added, first, n
  <2>2. QED BY <2>1 DEF InOrder
<1>10. requests'[r].status = requests[r].status
  <2> DEFINE funding == Allocated(existing, additions)
  <2>1. requests' = [requests EXCEPT ![r].deadline = newDeadline,
                                     ![r].totalAmount = @ + funding,
                                     ![r].operationalAllowance = @ + operational]
    BY DEF Amends, FinalizeAmendment
  <2> HIDE DEF funding
  <2>2. QED BY <2>1, OrderFacts DEF Requests
<1>11. Sound(r)'
  <2>1. first + n <= MaxTotalMilestones /\ requests[r].status \in {"Funded", "InProgress"}
    BY <1>1, <1>3 DEF Active
  <2> HIDE DEF first, n
  <2>2. QED BY <2>1, <1>5, <1>9, <1>10 DEF Sound, InOrder, WasFunded
<1>12. QuoteKept(r) /\ OverKept(r)
  BY <1>1, <1>5 DEF QuoteKept, OverKept, Active
<1>13. PaidKept(r)
  <2>1. ASSUME NEW i \in DOMAIN order, milestones[r][order[i]].status = "Paid"
        PROVE  new[i] = order[i] /\ ms[order[i]] = milestones[r][order[i]]
    <3>1. i \in 1 .. i
      BY <1>3
    <3> HIDE DEF order, added
    <3>2. new[i] = order[i]
      BY <1>7, <2>1, <3>1 DEF Begun
    <3>3. QED BY <3>2, <2>1, <1>3, <1>4, <1>8
  <2>2. QED BY <2>1, <1>5 DEF PaidKept
<1>14. QED BY <1>11, <1>12, <1>13 DEF Right

-----------------------------------------------------------------------------
(* Every step.                                                              *)

LEMMA StateTypes ==
  ASSUME IInv
  PROVE  /\ milestones \in [RequestIds -> [MilestoneIds -> Milestones]]
         /\ nextMilestoneId \in [RequestIds -> Nat]
         /\ executionOrder \in [RequestIds -> Seq(MilestoneIds)]
         /\ milestoneStateVersion \in [RequestIds -> Nat]
         /\ requests \in [RequestIds -> Requests]
BY DEF IInv, WorkOK, RequestsOK

LEMMA NothingHappens ==
  ASSUME OrderInv, UNCHANGED workVars, UNCHANGED requests, NEW q \in RequestIds
  PROVE  Right(q)
BY UntouchedRight DEF OrderInv, workVars, Same

LEMMA MarketStepRight ==
  ASSUME IInv, OrderInv, NEW r \in RequestIds, MarketStep(r), NEW q \in RequestIds
  PROVE  Right(q)
<1>1. ASSUME NEW u \in Users, NEW plan \in Plans, ProposeMilestones(u, r, plan) PROVE Right(q)
  BY <1>1, NothingHappens DEF ProposeMilestones
<1>2. ASSUME NEW u \in Users, RevokeMilestoneProposal(u, r) PROVE Right(q)
  BY <1>2, NothingHappens DEF RevokeMilestoneProposal
<1>3. ASSUME NEW p \in 1 .. MaxProposals, RejectMilestoneProposal(r, p) PROVE Right(q)
  BY <1>3, NothingHappens DEF RejectMilestoneProposal
<1>4. CASE CancelRequest(r)
  <2>1. CASE q = r
    BY <1>4, <2>1, CancelRight DEF OrderInv
  <2>2. CASE q # r
    BY <1>4, <2>2, StateTypes, UntouchedRight DEF CancelRequest, workVars, Same, OrderInv
  <2>3. QED BY <2>1, <2>2
<1>5. ASSUME NEW p \in DOMAIN proposals[r], NEW price \in ReferenceGasPrices, NEW allowance,
             ApproveAndFund(r, p, price, allowance)
      PROVE  Right(q)
  <2>1. CASE q = r
    <3>1. price \in Nat
      BY InputAssumption
    <3>2. QED BY <1>5, <2>1, <3>1, FundRight DEF OrderInv
  <2>2. CASE q # r
    <3>1. Same(q)
      BY <1>5, <2>2, StateTypes DEF ApproveAndFund, Same
    <3>2. QED BY <3>1, UntouchedRight DEF OrderInv
  <2>3. QED BY <2>1, <2>2
<1>6. QED BY <1>1, <1>2, <1>3, <1>4, <1>5 DEF MarketStep

LEMMA CarrierStepRight ==
  ASSUME IInv, OrderInv, NEW r \in RequestIds, CarrierStep(r), NEW q \in RequestIds
  PROVE  Right(q)
<1>1. ASSUME NEW m \in MilestoneIds, NEW uri \in ProofUris, NEW gas \in GasReadings,
             NEW price \in TxGasPrices, SubmitProof(r, m, uri, gas, price)
      PROVE  Right(q)
  <2>1. CASE q = r
    BY <1>1, <2>1, SubmitRight DEF OrderInv
  <2>2. CASE q # r
    <3>1. Same(q)
      BY <1>1, <2>2, StateTypes DEF SubmitProof, MarkMilestoneStateChanged, Same
    <3>2. QED BY <3>1, UntouchedRight DEF OrderInv
  <2>3. QED BY <2>1, <2>2
<1>2. ASSUME NEW m \in MilestoneIds, WithdrawProof(r, m) PROVE Right(q)
  <2>1. CASE q = r
    BY <1>2, <2>1, WithdrawRight DEF OrderInv
  <2>2. CASE q # r
    <3>1. Same(q)
      BY <1>2, <2>2, StateTypes DEF WithdrawProof, MarkMilestoneStateChanged, Same
    <3>2. QED BY <3>1, UntouchedRight DEF OrderInv
  <2>3. QED BY <2>1, <2>2
<1>3. QED BY <1>1, <1>2 DEF CarrierStep

LEMMA ReviewStepRight ==
  ASSUME IInv, OrderInv, NEW r \in RequestIds, ReviewStep(r), NEW q \in RequestIds
  PROVE  Right(q)
<1>1. ASSUME NEW m \in MilestoneIds, NEW n, RejectMilestone(r, m, n) PROVE Right(q)
  <2>1. CASE q = r
    BY <1>1, <2>1, RejectRight DEF OrderInv
  <2>2. CASE q # r
    <3>1. Same(q)
      BY <1>1, <2>2, StateTypes DEF RejectMilestone, MarkMilestoneStateChanged, Same
    <3>2. QED BY <3>1, UntouchedRight DEF OrderInv
  <2>3. QED BY <2>1, <2>2
<1>2. ASSUME NEW m \in MilestoneIds, NEW n, ApproveMilestone(r, m, n) PROVE Right(q)
  <2>1. CASE q = r
    BY <1>2, <2>1, ApproveRight DEF OrderInv
  <2>2. CASE q # r
    <3>1. Same(q)
      BY <1>2, <2>2, StateTypes DEF ApproveMilestone, MarkMilestoneStateChanged, Same
    <3>2. QED BY <3>1, UntouchedRight DEF OrderInv
  <2>3. QED BY <2>1, <2>2
<1>3. QED BY <1>1, <1>2 DEF ReviewStep

LEMMA RefundStepRight ==
  ASSUME IInv, OrderInv, NEW r \in RequestIds,
         RefundRemaining(r) \/ FinalizeMutualCancellation(r), NEW q \in RequestIds
  PROVE  Right(q)
<1>1. CASE q = r
  BY <1>1, RefundRight DEF OrderInv
<1>2. CASE q # r
  <2>1. Same(q)
    BY <1>2, StateTypes
       DEF RefundRemaining, FinalizeMutualCancellation, Refund, workVars, Same
  <2>2. QED BY <2>1, UntouchedRight DEF OrderInv
<1>3. QED BY <1>1, <1>2

LEMMA SettlementStepRight ==
  ASSUME IInv, OrderInv, NEW r \in RequestIds, SettlementStep(r), NEW q \in RequestIds
  PROVE  Right(q)
<1>1. CASE RefundRemaining(r)
  BY <1>1, RefundStepRight
<1>2. ASSUME NEW amount, TipCarrier(r, amount) PROVE Right(q)
  BY <1>2, NothingHappens DEF TipCarrier
<1>3. ASSUME NEW amount, TopUpOperationalAllowance(r, amount) PROVE Right(q)
  <2>1. CASE q = r
    BY <1>3, <2>1, TopUpRight DEF OrderInv
  <2>2. CASE q # r
    <3>1. Same(q)
      BY <1>3, <2>2, StateTypes DEF TopUpOperationalAllowance, MarkMilestoneStateChanged, Same
    <3>2. QED BY <3>1, UntouchedRight DEF OrderInv
  <2>3. QED BY <2>1, <2>2
<1>4. QED BY <1>1, <1>2, <1>3 DEF SettlementStep

(* An amendment leaves the other requests alone.                            *)
LEMMA AmendsOne ==
  ASSUME IInv, NEW r \in RequestIds, NEW newDeadline, NEW existing, NEW additions,
         NEW operational, Amends(r, newDeadline, existing, additions, operational),
         NEW q \in RequestIds, q # r
  PROVE  Same(q)
BY StateTypes DEF Amends, FinalizeAmendment, MarkMilestoneStateChanged, Same

LEMMA AmendStepRight ==
  ASSUME IInv, OrderInv, NEW r \in RequestIds, NEW newDeadline \in Deadlines,
         NEW existing \in Fundings(r), NEW additions \in Additions(r), NEW operational \in Nat,
         Amends(r, newDeadline, existing, additions, operational), NEW q \in RequestIds
  PROVE  Right(q)
<1>1. CASE q = r
  BY <1>1, AmendRight DEF OrderInv
<1>2. CASE q # r
  BY <1>2, AmendsOne, UntouchedRight DEF OrderInv
<1>3. QED BY <1>1, <1>2

(* The operational allowance that goes with an amendment is an amount.      *)
LEMMA ReserveOfAdditionsIsNat ==
  ASSUME IInv, NEW r \in RequestIds, NEW additions \in Additions(r)
  PROVE  Len(additions) * ProofReserve(requests[r].gasPriceCap) \in Nat
<1>1. Len(additions) \in Nat
  <2>1. {<<>>} \in SUBSET Fundings(r)
    BY DEF Fundings
  <2>2. QED BY <2>1, AmendmentInputs
<1>2. requests[r].gasPriceCap \in Nat
  BY StateTypes DEF Requests
<1>3. ProofReserve(requests[r].gasPriceCap) \in Nat
  BY <1>2, ProofReserveIsNat
<1>4. \A a, b \in Nat : a * b \in Nat
  OBVIOUS
<1>5. QED BY <1>1, <1>3, <1>4

LEMMA ManagerStepRight ==
  ASSUME IInv, OrderInv, NEW r \in RequestIds, ManagerStep(r), NEW q \in RequestIds
  PROVE  Right(q)
<1>1. CASE ManagerCancels(r)
  BY <1>1, RefundStepRight DEF ManagerCancels
<1>2. ASSUME NEW newDeadline \in Deadlines, NEW existing \in Fundings(r),
             NEW additions \in Additions(r),
             ManagerAmends(r, newDeadline, existing, additions,
                           Len(additions) * ProofReserve(requests[r].gasPriceCap))
      PROVE  Right(q)
  BY <1>2, ManagerAmendsIsAmends, ReserveOfAdditionsIsNat, AmendStepRight
<1>3. QED BY <1>1, <1>2 DEF ManagerStep

LEMMA EveryStepRight ==
  ASSUME IInv, OrderInv, [Next]_vars, NEW q \in RequestIds
  PROVE  Right(q)
<1>1. CASE UNCHANGED vars
  BY <1>1, NothingHappens DEF vars
<1>2. CASE Tick
  BY <1>2, NothingHappens DEF Tick
<1>3. ASSUME NEW u \in Users, NEW deadline \in Deadlines, NEW amount \in Amounts,
             CreateRequest(u, deadline, amount)
      PROVE  Right(q)
  BY <1>3, CreateRight
<1>4. ASSUME NEW r \in RequestIds,
             MarketStep(r) \/ CarrierStep(r) \/ ReviewStep(r) \/ SettlementStep(r) \/ ManagerStep(r)
      PROVE  Right(q)
  BY <1>4, MarketStepRight, CarrierStepRight, ReviewStepRight, SettlementStepRight, ManagerStepRight
<1>5. QED BY <1>1, <1>2, <1>3, <1>4 DEF Next

LEMMA OrderInitOK == Init => OrderInv
<1> SUFFICES ASSUME Init, NEW r \in RequestIds PROVE Sound(r)
  BY DEF OrderInv
<1>1. /\ executionOrder[r] = <<>> /\ nextMilestoneId[r] = 0 /\ milestoneStateVersion[r] = 0
      /\ requests[r].status = "Open"
  BY DEF Init, NoRequest
<1>2. QED BY <1>1, NumberAssumption DEF Sound, InOrder

-----------------------------------------------------------------------------
(* The theorems.                                                            *)

LEMMA OrderInvariant == Spec => [](IInv /\ OrderInv)
<1>1. Init => IInv /\ OrderInv
  BY InitOK, OrderInitOK
<1>2. IInv /\ OrderInv /\ [Next]_vars => (IInv /\ OrderInv)'
  BY StepOK, EveryStepRight DEF Right, OrderInv
<1>3. QED BY <1>1, <1>2, PTL DEF Spec

(* However many milestones amendments insert, and wherever, whatever lies   *)
(* before a paid or submitted milestone is paid: no carrier is paid for, or *)
(* proves, a later checkpoint first.                                        *)
THEOREM WorkAlwaysInOrder == Spec => []MilestonesDoneInOrder
<1>1. OrderInv => MilestonesDoneInOrder
  BY DEF OrderInv, Sound, InOrder, Begun, MilestonesDoneInOrder
<1>2. QED BY <1>1, OrderInvariant, PTL

(* A paid milestone keeps its record and its place for ever, and so does    *)
(* the record of a request that is over, although reviews and amendments    *)
(* look at few of these conditions themselves.                              *)
THEOREM SettledWorkStaysFinal == Spec => SettledWorkIsFinal
<1>1. IInv /\ OrderInv /\ [Next]_vars =>
        [\A r \in RequestIds :
           /\ \A i \in DOMAIN executionOrder[r] :
                milestones[r][executionOrder[r][i]].status = "Paid" =>
                  /\ executionOrder'[r][i] = executionOrder[r][i]
                  /\ milestones'[r][executionOrder[r][i]] = milestones[r][executionOrder[r][i]]
           /\ requests[r].status \in {"Completed", "Refunded", "Cancelled"} =>
                requests'[r] = requests[r]]_vars
  BY EveryStepRight DEF Right, PaidKept, OverKept
<1>2. QED BY <1>1, OrderInvariant, PTL DEF Spec, SettledWorkIsFinal

(* Progress, order and gas price cap, all that an amendment was quoted on,  *)
(* never change without the version the manager pinned it to.               *)
THEOREM QuotesAreAlwaysVersioned == Spec => QuotedTermsAreVersioned
<1>1. IInv /\ OrderInv /\ [Next]_vars =>
        [\A r \in RequestIds :
           QuotedTerms(r)' # QuotedTerms(r)
             => milestoneStateVersion'[r] > milestoneStateVersion[r]]_vars
  BY EveryStepRight DEF Right, QuoteKept
<1>2. QED BY <1>1, OrderInvariant, PTL DEF Spec, QuotedTermsAreVersioned

-----------------------------------------------------------------------------
(* Part II.  What a shipment is worth.                                      *)

-----------------------------------------------------------------------------
(* The invariant, request by request.                                       *)

Value(milestone) == milestone.payoutAmount + milestone.additionalPayoutAmount

PaidPart(ms, n) ==
  [m \in MilestoneIds |-> IF m < n /\ ms[m].status = "Paid" THEN Value(ms[m]) ELSE 0]
DuePart(ms, n) ==
  [m \in MilestoneIds |-> IF m < n /\ ms[m].status # "Paid" THEN Value(ms[m]) ELSE 0]

Running(request) == request.status \in {"Funded", "InProgress"}

Accounted(request, ms, n) ==
  /\ request.releasedAmount = SumOver(PaidPart(ms, n))
  /\ Running(request) => EscrowOf(request) = SumOver(DuePart(ms, n))

Balanced(r) == Accounted(requests[r], milestones[r], nextMilestoneId[r])

WorthInv == \A r \in RequestIds : Balanced(r)

LEMMA MilestoneIdsFinite == IsFiniteSet(MilestoneIds)
<1>1. 0 \in Int /\ MaxTotalMilestones - 1 \in Int
  BY NumberAssumption
<1>2. QED BY <1>1, FS_Interval DEF MilestoneIds

LEMMA PartsAreNat ==
  ASSUME NEW ms \in [MilestoneIds -> Milestones], NEW n
  PROVE  /\ PaidPart(ms, n) \in [MilestoneIds -> Nat]
         /\ DuePart(ms, n) \in [MilestoneIds -> Nat]
         /\ SumOver(PaidPart(ms, n)) \in Nat /\ SumOver(DuePart(ms, n)) \in Nat
<1>1. \A m \in MilestoneIds : Value(ms[m]) \in Nat
  BY DEF Value, Milestones
<1>2. PaidPart(ms, n) \in [MilestoneIds -> Nat] /\ DuePart(ms, n) \in [MilestoneIds -> Nat]
  BY <1>1 DEF PaidPart, DuePart
<1>3. QED BY <1>2, MilestoneIdsFinite, SumIsNat

(* Only being paid, and the amounts, count.                                 *)
LEMMA PartsKept ==
  ASSUME NEW ms, NEW new, NEW n,
         \A m \in MilestoneIds : /\ new[m].status = "Paid" <=> ms[m].status = "Paid"
                                 /\ Value(new[m]) = Value(ms[m])
  PROVE  PaidPart(new, n) = PaidPart(ms, n) /\ DuePart(new, n) = DuePart(ms, n)
BY DEF PaidPart, DuePart

(* A step that moves no money of this request.                              *)
LEMMA MoneyKept ==
  ASSUME NEW r \in RequestIds, Balanced(r), IInv,
         nextMilestoneId'[r] = nextMilestoneId[r],
         \A m \in MilestoneIds :
           /\ milestones'[r][m].status = "Paid" <=> milestones[r][m].status = "Paid"
           /\ Value(milestones'[r][m]) = Value(milestones[r][m]),
         requests'[r].releasedAmount = requests[r].releasedAmount,
         Running(requests'[r]) =>
           Running(requests[r]) /\ EscrowOf(requests'[r]) = EscrowOf(requests[r])
  PROVE  Balanced(r)'
<1>1. /\ PaidPart(milestones'[r], nextMilestoneId[r]) = PaidPart(milestones[r], nextMilestoneId[r])
      /\ DuePart(milestones'[r], nextMilestoneId[r]) = DuePart(milestones[r], nextMilestoneId[r])
  BY PartsKept
<1>2. QED BY <1>1 DEF Balanced, Accounted

LEMMA UntouchedBalanced ==
  ASSUME NEW r \in RequestIds, Balanced(r), Same(r)
  PROVE  Balanced(r)'
BY DEF Balanced, Same

-----------------------------------------------------------------------------
(* Proofs and reviews.                                                      *)

(* A milestone that is neither paid before nor after, and keeps its amounts.*)
LEMMA ReviewedBalanced ==
  ASSUME IInv, NEW r \in RequestIds, Balanced(r), NEW m \in MilestoneIds, NEW new,
         milestones' = [milestones EXCEPT ![r] = [milestones[r] EXCEPT ![m] = new]],
         milestones[r][m].status # "Paid", new.status # "Paid",
         Value(new) = Value(milestones[r][m]), UNCHANGED nextMilestoneId,
         requests'[r].releasedAmount = requests[r].releasedAmount,
         Running(requests'[r]) =>
           Running(requests[r]) /\ EscrowOf(requests'[r]) = EscrowOf(requests[r])
  PROVE  Balanced(r)'
<1>1. milestones'[r] = [milestones[r] EXCEPT ![m] = new]
      /\ milestones[r] \in [MilestoneIds -> Milestones]
  BY StateTypes
<1>2. \A k \in MilestoneIds :
        /\ milestones'[r][k].status = "Paid" <=> milestones[r][k].status = "Paid"
        /\ Value(milestones'[r][k]) = Value(milestones[r][k])
  BY <1>1
<1>3. QED BY <1>2, MoneyKept

LEMMA SubmitBalanced ==
  ASSUME IInv, NEW r \in RequestIds, Balanced(r), NEW m \in MilestoneIds, NEW uri, NEW gas, NEW price,
         SubmitProof(r, m, uri, gas, price)
  PROVE  Balanced(r)'
<1> DEFINE old == milestones[r][m]
           new == Submitted(old, uri)
           paid == IF old.proofSubmissionReimbursed THEN 0
                   ELSE Reimbursement(r, [milestones[r] EXCEPT ![m] = new], gas, price)
<1>1. /\ old.status # "Paid" /\ Active(r) /\ UNCHANGED nextMilestoneId
      /\ milestones' = [milestones EXCEPT ![r] = [milestones[r] EXCEPT ![m] = new]]
      /\ requests' = [requests EXCEPT ![r].status = "InProgress", ![r].operationalSpent = @ + paid]
  BY DEF SubmitProof
<1>2. old \in Milestones /\ requests \in [RequestIds -> Requests]
  BY StateTypes
<1>3. new.status # "Paid" /\ Value(new) = Value(old)
  BY <1>2 DEF Submitted, Value, Milestones
<1> HIDE DEF paid, new
<1>4. /\ requests'[r].releasedAmount = requests[r].releasedAmount
      /\ EscrowOf(requests'[r]) = EscrowOf(requests[r])
  BY <1>1, <1>2 DEF Requests, EscrowOf
<1>5. Running(requests[r])
  BY <1>1 DEF Active, Running
<1>6. QED BY <1>1, <1>3, <1>4, <1>5, ReviewedBalanced

LEMMA WithdrawBalanced ==
  ASSUME IInv, NEW r \in RequestIds, Balanced(r), NEW m \in MilestoneIds, WithdrawProof(r, m)
  PROVE  Balanced(r)'
<1> DEFINE old == milestones[r][m]
           new == Withdrawn(old)
<1>1. /\ old.status = "Submitted" /\ UNCHANGED <<nextMilestoneId, requests>>
      /\ milestones' = [milestones EXCEPT ![r] = [milestones[r] EXCEPT ![m] = new]]
  BY DEF WithdrawProof
<1>2. old \in Milestones
  BY StateTypes
<1>3. new.status # "Paid" /\ Value(new) = Value(old)
  BY <1>2 DEF Withdrawn, Value, Milestones
<1> HIDE DEF new
<1>4. QED BY <1>1, <1>3, ReviewedBalanced

LEMMA RejectBalanced ==
  ASSUME IInv, NEW r \in RequestIds, Balanced(r), NEW m \in MilestoneIds, NEW n,
         RejectMilestone(r, m, n)
  PROVE  Balanced(r)'
<1> DEFINE old == milestones[r][m]
           new == [old EXCEPT !.status = "Rejected",
                              !.proofWithdrawalsThisRound = 0,
                              !.submittedAfterRejection = FALSE]
<1>1. /\ old.status = "Submitted" /\ UNCHANGED <<nextMilestoneId, requests>>
      /\ milestones' = [milestones EXCEPT ![r] = [milestones[r] EXCEPT ![m] = new]]
  BY DEF RejectMilestone, MayReview
<1>2. old \in Milestones
  BY StateTypes
<1>3. new.status # "Paid" /\ Value(new) = Value(old)
  BY <1>2 DEF Value, Milestones
<1> HIDE DEF new
<1>4. QED BY <1>1, <1>3, ReviewedBalanced

(* An approval moves the milestone's worth from the due to the paid.        *)
LEMMA ApproveBalanced ==
  ASSUME IInv, NEW r \in RequestIds, Balanced(r), NEW m \in MilestoneIds, NEW n,
         ApproveMilestone(r, m, n)
  PROVE  /\ Balanced(r)'
         /\ Running(requests[r]) =>
              EscrowOf(requests'[r]) = SumOver(DuePart(milestones'[r], nextMilestoneId'[r]))
<1> DEFINE ms == milestones[r]
           next == nextMilestoneId[r]
           new == [ms[m] EXCEPT !.status = "Paid"]
           after == [ms EXCEPT ![m] = new]
           amount == ms[m].payoutAmount + ms[m].additionalPayoutAmount
           completed == AllPaid(executionOrder[r], after)
           returned == IF completed THEN OperationalRemaining(r) ELSE 0
<1>1. /\ ms[m].status = "Submitted" /\ m < next /\ UNCHANGED nextMilestoneId
      /\ milestones' = [milestones EXCEPT ![r] = after]
      /\ requests' = [requests EXCEPT ![r].releasedAmount = @ + amount,
                                      ![r].status = IF completed THEN "Completed" ELSE @,
                                      ![r].operationalSpent = @ + returned]
  BY DEF ApproveMilestone, MayReview, MilestoneExists
<1>2. ms \in [MilestoneIds -> Milestones] /\ requests \in [RequestIds -> Requests]
  BY StateTypes
<1>3. new.status = "Paid" /\ Value(new) = amount /\ Value(ms[m]) = amount /\ amount \in Nat
  BY <1>2 DEF Value, Milestones
<1>4. milestones'[r] = after
  BY <1>1, StateTypes
<1> HIDE DEF completed, returned, new, amount
<1>5. /\ requests'[r].releasedAmount = requests[r].releasedAmount + amount
      /\ EscrowOf(requests'[r]) = EscrowOf(requests[r]) - amount
      /\ Running(requests'[r]) => Running(requests[r])
      /\ requests[r].releasedAmount \in Nat
  BY <1>1, <1>2, <1>3 DEF Requests, EscrowOf, Running
<1>6. /\ PaidPart(after, next) = [PaidPart(ms, next) EXCEPT ![m] = amount]
      /\ DuePart(after, next) = [DuePart(ms, next) EXCEPT ![m] = 0]
      /\ PaidPart(ms, next)[m] = 0 /\ DuePart(ms, next)[m] = amount
  <2>1. after[m] = new /\ \A k \in MilestoneIds : k # m => after[k] = ms[k]
    BY <1>2
  <2> HIDE DEF after, ms, next
  <2>2. QED BY <1>1, <1>3, <2>1 DEF PaidPart, DuePart
<1>7. /\ SumOver(PaidPart(after, next)) = SumOver(PaidPart(ms, next)) - 0 + amount
      /\ SumOver(DuePart(after, next)) = SumOver(DuePart(ms, next)) - amount + 0
  <2>1. /\ PaidPart(ms, next) \in [MilestoneIds -> Nat] /\ DuePart(ms, next) \in [MilestoneIds -> Nat]
    BY <1>2, PartsAreNat
  <2> HIDE DEF after, ms, next
  <2>2. ASSUME NEW f \in [MilestoneIds -> Nat], NEW a \in Nat
        PROVE  SumOver([f EXCEPT ![m] = a]) = SumOver(f) - f[m] + a
    BY MilestoneIdsFinite, SumUpdate
  <2>3. /\ SumOver([PaidPart(ms, next) EXCEPT ![m] = amount])
             = SumOver(PaidPart(ms, next)) - PaidPart(ms, next)[m] + amount
        /\ SumOver([DuePart(ms, next) EXCEPT ![m] = 0])
             = SumOver(DuePart(ms, next)) - DuePart(ms, next)[m] + 0
    BY <1>3, <2>1, <2>2
  <2>4. QED BY <2>3, <1>6
<1>8. /\ SumOver(PaidPart(ms, next)) \in Nat /\ SumOver(DuePart(ms, next)) \in Nat
  BY <1>2, PartsAreNat
<1> HIDE DEF after
<1>9. nextMilestoneId'[r] = next
  BY <1>1
<1>10. QED BY <1>3, <1>4, <1>5, <1>7, <1>8, <1>9 DEF Balanced, Accounted

-----------------------------------------------------------------------------
(* Settlement, top-up and the market.                                       *)

LEMMA RefundBalanced ==
  ASSUME IInv, NEW r \in RequestIds, Balanced(r), Refund(r)
  PROVE  Balanced(r)'
<1> DEFINE remaining == EscrowBalance(r)
           operational == OperationalRemaining(r)
<1>1. /\ requests' = [requests EXCEPT ![r].refundedAmount = @ + remaining,
                                      ![r].operationalSpent = @ + operational,
                                      ![r].status = "Refunded"]
      /\ UNCHANGED <<milestones, nextMilestoneId>>
  BY DEF Refund, workVars
<1>2. requests \in [RequestIds -> Requests]
  BY StateTypes
<1> HIDE DEF remaining, operational
<1>3. requests'[r].releasedAmount = requests[r].releasedAmount /\ ~Running(requests'[r])
  BY <1>1, <1>2 DEF Requests, Running
<1>4. QED BY <1>1, <1>3, MoneyKept

LEMMA TopUpBalanced ==
  ASSUME IInv, NEW r \in RequestIds, Balanced(r), NEW amount, TopUpOperationalAllowance(r, amount)
  PROVE  Balanced(r)'
<1> DEFINE old == requests[r]
           topped == [old EXCEPT !.operationalAllowance = @ + amount]
           actions == RemainingProofActions(executionOrder[r], milestones[r])
           raised == actions > 0 /\ FundedCap(topped, actions) > topped.gasPriceCap
           cap == FundedCap(topped, actions)
           new == IF raised THEN [topped EXCEPT !.gasPriceCap = cap] ELSE topped
<1>1. /\ requests' = [requests EXCEPT ![r] = new] /\ UNCHANGED <<milestones, nextMilestoneId>>
  BY DEF TopUpOperationalAllowance
<1>2. old \in Requests /\ requests'[r] = new
  BY <1>1, StateTypes
<1> HIDE DEF cap, raised
<1>3. /\ new.releasedAmount = old.releasedAmount /\ new.status = old.status
      /\ EscrowOf(new) = EscrowOf(old)
  BY <1>2 DEF Requests, EscrowOf
<1> HIDE DEF new
<1>4. QED BY <1>1, <1>2, <1>3, MoneyKept DEF Running

LEMMA CancelBalanced ==
  ASSUME IInv, NEW r \in RequestIds, Balanced(r), CancelRequest(r)
  PROVE  Balanced(r)'
<1>1. /\ requests' = [requests EXCEPT ![r].status = "Cancelled"]
      /\ UNCHANGED <<milestones, nextMilestoneId>>
  BY DEF CancelRequest, workVars
<1>2. requests \in [RequestIds -> Requests]
  BY StateTypes
<1>3. requests'[r].releasedAmount = requests[r].releasedAmount /\ ~Running(requests'[r])
  BY <1>1, <1>2 DEF Requests, Running
<1>4. QED BY <1>1, <1>3, MoneyKept

LEMMA CreateBalanced ==
  ASSUME IInv, NEW u \in Users, NEW deadline, NEW amount, CreateRequest(u, deadline, amount),
         NEW q \in RequestIds, Balanced(q), q = nextRequestId
  PROVE  Balanced(q)'
<1> DEFINE r == nextRequestId
           new == [NoRequest EXCEPT !.shipper = u, !.deadline = deadline, !.proposedAmount = amount]
<1>1. /\ requests' = [requests EXCEPT ![r] = new] /\ UNCHANGED <<milestones, nextMilestoneId>>
      /\ requests \in [RequestIds -> Requests]
  BY StateTypes DEF CreateRequest, workVars
<1>2. requests[q] = NoRequest
  <2>1. r >= nextRequestId
    BY DEF IInv, MarketOK
  <2>2. QED BY <2>1 DEF IInv, RequestsOK
<1>3. new.releasedAmount = NoRequest.releasedAmount /\ ~Running(new)
  BY DEF NoRequest, Running
<1>4. requests'[q] = new
  BY <1>1
<1> HIDE DEF new
<1>5. QED BY <1>1, <1>2, <1>3, <1>4, MoneyKept

(* The floors of a plan and what its last milestone takes make the amount:  *)
(* no CARGO is lost to rounding.                                            *)
LEMMA PayoutsSumUp ==
  ASSUME NEW amount \in Nat, NEW plan \in Seq(Nat), ValidPlan(plan)
  PROVE  SumOver([i \in 1 .. Len(plan) |-> PayoutAmount(amount, plan, i)]) = amount
<1> DEFINE n == Len(plan)
           floors == [j \in 1 .. n - 1 |-> Share(amount, plan[j])]
           padded == [j \in 1 .. n |-> IF j \in 1 .. n - 1 THEN floors[j] ELSE 0]
           rest == amount - SumOver(floors)
<1>1. /\ n \in Nat /\ n \in 1 .. n /\ n \notin 1 .. n - 1 /\ 1 .. n - 1 \in SUBSET (1 .. n)
      /\ \A j \in 1 .. n - 1 : plan[j] \in Nat /\ j < n
      /\ \A j \in 1 .. n : j \notin 1 .. n - 1 => j = n
      /\ IsFiniteSet(1 .. n)
  <2>1. n \in Nat /\ n \in 1 .. MaxInitialMilestones
    BY DEF ValidPlan
  <2>2. n >= 1
    BY <2>1
  <2>3. IsFiniteSet(1 .. n)
    <3> HIDE DEF n
    <3>1. QED BY <2>1, FS_Interval
  <2>4. \A j \in 1 .. n : plan[j] \in Nat
    OBVIOUS
  <2> HIDE DEF n
  <2>5. QED BY <2>1, <2>2, <2>3, <2>4
<1>2. floors \in [1 .. n - 1 -> Nat]
  BY <1>1, ShareIsFloor
<1>3. PayoutAmount(amount, plan, n) = rest /\ rest \in Nat
  <2>1. PayoutAmount(amount, plan, n) = rest
    BY <1>1 DEF PayoutAmount
  <2>2. PayoutAmount(amount, plan, n) \in Nat
    BY <1>1, PayoutIsNat
  <2>3. QED BY <2>1, <2>2
<1>4. \A j \in 1 .. n - 1 : PayoutAmount(amount, plan, j) = floors[j]
  BY <1>1 DEF PayoutAmount
<1> HIDE DEF floors, n, rest
<1>5. padded \in [1 .. n -> Nat] /\ padded[n] = 0
  BY <1>1, <1>2
<1>6. [i \in 1 .. n |-> PayoutAmount(amount, plan, i)] = [padded EXCEPT ![n] = rest]
  <2>1. ASSUME NEW i \in 1 .. n
        PROVE  PayoutAmount(amount, plan, i) = [padded EXCEPT ![n] = rest][i]
    <3>1. CASE i = n
      BY <3>1, <1>3, <1>5
    <3>2. CASE i # n
      <4>1. i \in 1 .. n - 1
        BY <1>1, <3>2
      <4>2. QED BY <4>1, <3>2, <1>4
    <3>3. QED BY <3>1, <3>2
  <2> HIDE DEF padded
  <2>2. QED BY <2>1, <1>5
<1>7. SumOver(padded) = SumOver(floors)
  <2> DEFINE T == 1 .. n
             S == 1 .. n - 1
  <2>1. S \in SUBSET T
    BY <1>1
  <2>2. floors \in [S -> Nat]
    BY <1>2
  <2>3. padded \in [T -> Nat] /\ \A j \in T : padded[j] = IF j \in S THEN floors[j] ELSE 0
    BY <1>5
  <2> HIDE DEF padded, S, T
  <2>4. QED BY <2>1, <2>2, <2>3, SumPadded
<1> HIDE DEF padded
<1>8. /\ SumOver([padded EXCEPT ![n] = rest]) = SumOver(padded) - padded[n] + rest
      /\ SumOver(padded) \in Nat
  <2> DEFINE T == 1 .. n
  <2>1. IsFiniteSet(T) /\ n \in T /\ padded \in [T -> Nat]
    BY <1>1, <1>5
  <2> HIDE DEF T
  <2>2. QED BY <1>3, <2>1, SumUpdate, SumIsNat
<1>9. QED BY <1>5, <1>6, <1>7, <1>8 DEF n, rest

(* Amounts given to consecutive ids sum up to the sequence's sum.           *)
LEMMA SumOfConsecutive ==
  ASSUME NEW n \in Nat, NEW first \in Nat, first + n <= MaxTotalMilestones,
         NEW f \in [1 .. n -> Nat]
  PROVE  SumOver([m \in MilestoneIds |->
                    IF m \in first .. first + n - 1 THEN f[m - first + 1] ELSE 0]) = SumOver(f)
<1> DEFINE added == first .. first + n - 1
           g == [m \in added |-> m - first + 1]
           h == [m \in added |-> f[g[m]]]
<1>1. IsFiniteSet(added) /\ added \in SUBSET MilestoneIds
  <2>1. first \in Int /\ first + n - 1 \in Int
    OBVIOUS
  <2>2. added \in SUBSET MilestoneIds
    BY NumberAssumption DEF MilestoneIds
  <2>3. QED BY <2>1, <2>2, FS_Interval
<1>2. g \in [added -> 1 .. n] /\ \A m \in added : g[m] = m - first + 1
  OBVIOUS
<1>3. /\ \A a, b \in added : g[a] = g[b] => a = b
      /\ \A t \in 1 .. n : \E m \in added : g[m] = t
  <2>1. \A a, b \in added : g[a] = g[b] => a = b
    BY <1>2
  <2>2. ASSUME NEW t \in 1 .. n PROVE \E m \in added : g[m] = t
    <3>1. first + t - 1 \in added /\ g[first + t - 1] = t
      OBVIOUS
    <3>2. QED BY <3>1
  <2>3. QED BY <2>1, <2>2
<1>4. g \in Bijection(added, 1 .. n)
  <2> HIDE DEF g, added
  <2>1. QED BY <1>2, <1>3 DEF Bijection, Injection, IsInjective, Surjection
<1>5. h \in [added -> Nat] /\ \A m \in added : h[m] = f[m - first + 1]
  BY <1>2
<1>6. SumOver(h) = SumOver(f)
  <2> HIDE DEF g, added
  <2>1. QED BY <1>1, <1>4, SumRenamed
<1> HIDE DEF h, g
<1>7. [m \in MilestoneIds |-> IF m \in added THEN f[m - first + 1] ELSE 0]
        = [m \in MilestoneIds |-> IF m \in added THEN h[m] ELSE 0]
  BY <1>5
<1>8. SumOver([m \in MilestoneIds |-> IF m \in added THEN h[m] ELSE 0]) = SumOver(h)
  <2> HIDE DEF added
  <2>1. QED BY <1>1, <1>5, SumExtended
<1>9. QED BY <1>6, <1>7, <1>8

(* Funding finds no money moved and none due, and the plan's payouts are    *)
(* the amount.                                                              *)
LEMMA FundBalanced ==
  ASSUME IInv, NEW r \in RequestIds, Balanced(r), NEW p \in DOMAIN proposals[r],
         NEW price \in Nat, NEW allowance, ApproveAndFund(r, p, price, allowance)
  PROVE  Balanced(r)'
<1> DEFINE plan == proposals[r][p].plan
           first == nextMilestoneId[r]
           n == Len(plan)
           amount == requests[r].proposedAmount
           payouts == [i \in 1 .. n |-> PayoutAmount(amount, plan, i)]
           ms == [m \in MilestoneIds |->
                    IF m \in first .. first + n - 1
                    THEN [NoMilestone EXCEPT !.status = "PendingProof",
                                             !.payoutAmount = PayoutAmount(amount, plan, m - first + 1)]
                    ELSE milestones[r][m]]
           due == [m \in MilestoneIds |->
                     IF m \in first .. first + n - 1 THEN payouts[m - first + 1] ELSE 0]
<1>1. plan \in Seq(Nat) /\ ValidPlan(plan) /\ n \in Nat /\ n \in 1 .. MaxInitialMilestones
  <2>1. plan \in Seq(Nat) /\ ValidPlan(plan)
    BY MinimumIsNat DEF IInv
  <2>2. QED BY <2>1 DEF ValidPlan
<1>2. /\ requests[r].status = "Open" /\ milestones' = [milestones EXCEPT ![r] = ms]
      /\ nextMilestoneId' = [nextMilestoneId EXCEPT ![r] = first + n]
  BY DEF ApproveAndFund
<1>3. first = 0 /\ Unfunded(requests[r])
  BY <1>2 DEF IInv, RequestsOK, WasFunded
<1>4. amount \in Nat /\ requests \in [RequestIds -> Requests] /\ first + n <= MaxTotalMilestones
  <2>1. requests \in [RequestIds -> Requests]
    BY StateTypes
  <2>2. amount \in Nat
    BY <2>1 DEF Requests
  <2> HIDE DEF first, n, amount
  <2>3. QED BY <1>1, <1>3, <2>1, <2>2, NumberAssumption
<1>5. /\ requests'[r].releasedAmount = 0 /\ EscrowOf(requests'[r]) = amount
  <2> DEFINE cap == allowance \div (Len(plan) * ProofReserve(1))
             carrier == proposals[r][p].carrier
  <2>1. requests' = [requests EXCEPT ![r].carrier = carrier,
                                     ![r].totalAmount = amount,
                                     ![r].status = "Funded",
                                     ![r].operationalAllowance = allowance,
                                     ![r].gasPriceCap = cap]
    BY DEF ApproveAndFund
  <2> HIDE DEF cap, carrier, amount
  <2>2. /\ requests'[r].releasedAmount = requests[r].releasedAmount
        /\ requests'[r].refundedAmount = requests[r].refundedAmount
        /\ requests'[r].totalAmount = amount
    BY <2>1, <1>4 DEF Requests
  <2>3. QED BY <2>2, <1>3, <1>4 DEF Unfunded, EscrowOf
<1>6. payouts \in [1 .. n -> Nat]
  <2>1. \A i \in 1 .. n : PayoutAmount(amount, plan, i) \in Nat
    BY <1>1, <1>4, PayoutIsNat
  <2> HIDE DEF n, amount, plan
  <2>2. QED BY <2>1
<1>7. SumOver(payouts) = amount
  BY <1>1, <1>4, PayoutsSumUp
<1>8. SumOver(due) = SumOver(payouts)
  <2> HIDE DEF payouts, n, first
  <2>1. first \in Nat
    BY <1>3
  <2>2. QED BY <2>1, <1>1, <1>4, <1>6, SumOfConsecutive
<1>9. \A m \in MilestoneIds :
        /\ (m < first + n) <=> m \in first .. first + n - 1
        /\ m \in first .. first + n - 1 =>
             ms[m].status # "Paid" /\ Value(ms[m]) = payouts[m - first + 1]
  <2>1. ASSUME NEW m \in MilestoneIds PROVE (m < first + n) <=> m \in first .. first + n - 1
    <3> HIDE DEF first, n
    <3>1. QED BY <1>1, <1>3, NumberAssumption DEF MilestoneIds
  <2>2. ASSUME NEW m \in MilestoneIds, m \in first .. first + n - 1
        PROVE  ms[m].status # "Paid" /\ Value(ms[m]) = payouts[m - first + 1]
    <3> DEFINE i == m - first + 1
    <3>1. i \in 1 .. n
      <4> HIDE DEF first, n
      <4>1. QED BY <2>2, <1>1, <1>3, NumberAssumption DEF MilestoneIds
    <3>2. payouts[i] = PayoutAmount(amount, plan, i) /\ payouts[i] \in Nat
      BY <3>1, <1>6
    <3>3. ms[m] = [NoMilestone EXCEPT !.status = "PendingProof",
                                      !.payoutAmount = PayoutAmount(amount, plan, i)]
      BY <2>2
    <3> HIDE DEF ms, payouts, i
    <3>4. QED BY <3>2, <3>3 DEF NoMilestone, Value, i
  <2> HIDE DEF ms, first, n, payouts
  <2>3. QED BY <2>1, <2>2
<1>10. milestones'[r] = ms /\ nextMilestoneId'[r] = first + n
  <2> HIDE DEF ms, first, n
  <2>1. QED BY <1>2, StateTypes
<1>11. /\ PaidPart(ms, first + n) = [m \in MilestoneIds |-> 0]
       /\ DuePart(ms, first + n) = due
  <2> HIDE DEF ms, payouts, first, n
  <2>1. QED BY <1>9 DEF PaidPart, DuePart
<1> HIDE DEF ms, due, payouts, first, n, amount
<1>12. QED BY <1>5, <1>7, <1>8, <1>10, <1>11, SumOfZeros DEF Balanced, Accounted

-----------------------------------------------------------------------------
(* Amendments.                                                              *)

(* What an amendment puts in is what it adds to the milestones.             *)
LEMMA AmendBalanced ==
  ASSUME IInv, NEW r \in RequestIds, Sound(r), Balanced(r), NEW newDeadline \in Deadlines,
         NEW existing \in Fundings(r), NEW additions \in Additions(r), NEW operational \in Nat,
         Amends(r, newDeadline, existing, additions, operational)
  PROVE  Balanced(r)'
<1> DEFINE first == nextMilestoneId[r]
           n == Len(additions)
           amounts == AdditionAmounts(additions)
           old == milestones[r]
           added == first .. first + n - 1
           ms == [m \in MilestoneIds |->
                    IF m \in first .. first + n - 1
                    THEN [NoMilestone EXCEPT !.status = "PendingProof",
                                             !.additionalPayoutAmount = additions[m - first + 1].amount]
                    ELSE IF m \in DOMAIN existing
                    THEN [milestones[r][m] EXCEPT !.additionalPayoutAmount = @ + existing[m]]
                    ELSE milestones[r][m]]
           more == [m \in MilestoneIds |-> IF m \in DOMAIN existing THEN existing[m] ELSE 0]
           newly == [m \in MilestoneIds |-> IF m \in added THEN amounts[m - first + 1] ELSE 0]
           funding == Allocated(existing, additions)
<1>1. /\ Active(r)
      /\ milestones' = [milestones EXCEPT ![r] = ms]
      /\ nextMilestoneId' = [nextMilestoneId EXCEPT ![r] = first + n]
      /\ \A m \in DOMAIN existing : m \in MilestoneIds /\ m < first /\ old[m].status # "Paid"
      /\ Len(executionOrder[r]) + n <= MaxTotalMilestones
      /\ requests' = [requests EXCEPT ![r].deadline = newDeadline,
                                      ![r].totalAmount = @ + funding,
                                      ![r].operationalAllowance = @ + operational]
  BY DEF Amends, FinalizeAmendment, Fundable, MilestoneExists
<1>2. /\ n \in Nat /\ existing \in [DOMAIN existing -> Nat] /\ amounts \in [1 .. n -> Nat]
      /\ \A j \in 1 .. n : amounts[j] = additions[j].amount
  <2>1. /\ n \in Nat /\ existing \in [DOMAIN existing -> Nat] /\ DOMAIN additions = 1 .. n
        /\ \A j \in 1 .. n : additions[j].amount \in Nat
    BY AmendmentInputs
  <2>2. QED BY <2>1 DEF AdditionAmounts
<1>3. /\ first \in Nat /\ first + n <= MaxTotalMilestones /\ old \in [MilestoneIds -> Milestones]
      /\ requests \in [RequestIds -> Requests]
  BY <1>1, OrderFacts, StateTypes
<1>4. milestones'[r] = ms /\ nextMilestoneId'[r] = first + n
  <2> HIDE DEF ms, first, n
  <2>1. QED BY <1>1, StateTypes
<1>5. SumOver(more) = SumOver(existing) /\ more \in [MilestoneIds -> Nat]
  <2>1. DOMAIN existing \in SUBSET MilestoneIds
    BY <1>1
  <2>2. SumOver(more) = SumOver(existing)
    BY <1>2, <2>1, SumExtended
  <2>3. QED BY <1>2, <2>2
<1>6. SumOver(newly) = SumOver(amounts) /\ newly \in [MilestoneIds -> Nat]
  <2> HIDE DEF amounts, first, n
  <2>1. SumOver(newly) = SumOver(amounts)
    BY <1>2, <1>3, SumOfConsecutive
  <2>2. ASSUME NEW m \in added PROVE amounts[m - first + 1] \in Nat
    <3>1. m - first + 1 \in 1 .. n
      BY <1>2, <1>3
    <3>2. QED BY <3>1, <1>2
  <2>3. QED BY <2>1, <2>2
<1>7. ASSUME NEW m \in MilestoneIds
      PROVE  /\ m \in added => /\ ~(m < first) /\ m < first + n /\ m \notin DOMAIN existing
                               /\ ms[m].status # "Paid" /\ Value(ms[m]) = amounts[m - first + 1]
             /\ m \notin added => (m < first + n <=> m < first)
             /\ m \notin added => ms[m].status = old[m].status
             /\ m \notin added /\ m \in DOMAIN existing => Value(ms[m]) = Value(old[m]) + existing[m]
             /\ m \notin added /\ m \notin DOMAIN existing => ms[m] = old[m]
  <2>1. old[m] \in Milestones
    BY <1>3
  <2>2. /\ m \in added => ~(m < first) /\ m < first + n
        /\ m \notin added => (m < first + n <=> m < first)
        /\ m \in added => m - first + 1 \in 1 .. n
    <3> HIDE DEF first, n, ms, old, amounts
    <3>1. m \in Int /\ m >= 0 /\ n \in Nat /\ first \in Nat
      BY <1>2, <1>3, NumberAssumption DEF MilestoneIds
    <3>2. QED BY <3>1
  <2>3. CASE m \in added
    <3>1. m \notin DOMAIN existing
      BY <1>1, <2>2, <2>3
    <3>2. ms[m] = [NoMilestone EXCEPT !.status = "PendingProof",
                                      !.additionalPayoutAmount = additions[m - first + 1].amount]
      BY <2>3
    <3>3. amounts[m - first + 1] = additions[m - first + 1].amount /\ amounts[m - first + 1] \in Nat
      <4> HIDE DEF amounts, first, n
      <4>1. QED BY <1>2, <2>2, <2>3
    <3> HIDE DEF ms, amounts
    <3>4. ms[m].status # "Paid" /\ Value(ms[m]) = amounts[m - first + 1]
      BY <3>2, <3>3 DEF NoMilestone, Value
    <3> HIDE DEF added, first, n
    <3>5. QED BY <2>2, <2>3, <3>1, <3>4
  <2>4. CASE m \notin added /\ m \in DOMAIN existing
    <3>1. ms[m] = [old[m] EXCEPT !.additionalPayoutAmount = @ + existing[m]] /\ existing[m] \in Nat
      BY <1>2, <2>4
    <3> HIDE DEF ms, old, added, first, n
    <3>2. ms[m].status = old[m].status /\ Value(ms[m]) = Value(old[m]) + existing[m]
      BY <2>1, <3>1 DEF Milestones, Value
    <3>3. QED BY <2>2, <2>4, <3>2
  <2>5. CASE m \notin added /\ m \notin DOMAIN existing
    <3>1. ms[m] = old[m]
      BY <2>5
    <3> HIDE DEF ms, old, added, first, n
    <3>2. QED BY <2>2, <2>5, <3>1
  <2> HIDE DEF ms, old, added, first, n
  <2>6. QED BY <2>3, <2>4, <2>5
<1> HIDE DEF ms, added, amounts
<1>8. PaidPart(ms, first + n) = PaidPart(old, first)
  <2>1. ASSUME NEW m \in MilestoneIds
        PROVE  PaidPart(ms, first + n)[m] = PaidPart(old, first)[m]
    <3> HIDE DEF first, n, old
    <3>1. QED BY <1>1, <1>7 DEF PaidPart
  <2> HIDE DEF first, n, old
  <2>2. QED BY <2>1 DEF PaidPart
<1>9. DuePart(ms, first + n) = [m \in MilestoneIds |-> DuePart(old, first)[m] + (more[m] + newly[m])]
  <2>1. ASSUME NEW m \in MilestoneIds
        PROVE  DuePart(ms, first + n)[m] = DuePart(old, first)[m] + (more[m] + newly[m])
    <3>1. Value(old[m]) \in Nat
      BY <1>3 DEF Milestones, Value
    <3> HIDE DEF first, n, old
    <3>2. CASE m \in added
      <4>1. newly[m] = amounts[m - first + 1] /\ more[m] = 0 /\ newly[m] \in Nat
        BY <1>6, <1>7, <3>2
      <4>2. DuePart(ms, first + n)[m] = amounts[m - first + 1] /\ DuePart(old, first)[m] = 0
        BY <1>7, <3>2 DEF DuePart
      <4> HIDE DEF newly, more
      <4>3. QED BY <4>1, <4>2
    <3>3. CASE m \notin added /\ m \in DOMAIN existing
      <4>1. newly[m] = 0 /\ more[m] = existing[m] /\ more[m] \in Nat
        BY <1>5, <3>3
      <4>2. /\ DuePart(ms, first + n)[m] = Value(old[m]) + existing[m]
            /\ DuePart(old, first)[m] = Value(old[m])
        BY <1>1, <1>7, <3>3 DEF DuePart
      <4> HIDE DEF newly, more
      <4>3. QED BY <3>1, <4>1, <4>2
    <3>4. CASE m \notin added /\ m \notin DOMAIN existing
      <4>1. newly[m] = 0 /\ more[m] = 0
        BY <3>4
      <4>2. DuePart(ms, first + n)[m] = DuePart(old, first)[m] /\ DuePart(old, first)[m] \in Nat
        BY <1>7, <3>1, <3>4 DEF DuePart
      <4> HIDE DEF newly, more
      <4>3. QED BY <4>1, <4>2
    <3>5. QED BY <3>2, <3>3, <3>4
  <2> HIDE DEF first, n, old, more, newly
  <2>2. QED BY <2>1 DEF DuePart
<1> HIDE DEF more, newly, old, first, n
<1>10. SumOver(DuePart(ms, first + n)) = SumOver(DuePart(old, first)) + (SumOver(more) + SumOver(newly))
  <2> DEFINE both == [m \in MilestoneIds |-> more[m] + newly[m]]
             before == DuePart(old, first)
  <2>1. both \in [MilestoneIds -> Nat] /\ before \in [MilestoneIds -> Nat]
    BY <1>3, <1>5, <1>6, PartsAreNat
  <2>2. SumOver(both) = SumOver(more) + SumOver(newly)
    BY <1>5, <1>6, MilestoneIdsFinite, SumOfTwo
  <2>3. DuePart(ms, first + n) = [m \in MilestoneIds |-> before[m] + both[m]]
    BY <1>9
  <2> HIDE DEF both, before
  <2>4. SumOver([m \in MilestoneIds |-> before[m] + both[m]]) = SumOver(before) + SumOver(both)
    BY <2>1, MilestoneIdsFinite, SumOfTwo
  <2>5. QED BY <2>2, <2>3, <2>4 DEF before
<1>11. funding = SumOver(more) + SumOver(newly) /\ funding \in Nat
  <2>1. funding = SumOver(more) + SumOver(newly)
    BY <1>5, <1>6 DEF Allocated, amounts
  <2>2. SumOver(more) \in Nat /\ SumOver(newly) \in Nat
    BY <1>5, <1>6, MilestoneIdsFinite, SumIsNat
  <2> HIDE DEF funding
  <2>3. QED BY <2>1, <2>2
<1> HIDE DEF funding
<1>12. /\ requests'[r].releasedAmount = requests[r].releasedAmount
       /\ EscrowOf(requests'[r]) = EscrowOf(requests[r]) + funding
  BY <1>1, <1>3, <1>11 DEF Requests, EscrowOf
<1>13. Running(requests[r])
  BY <1>1 DEF Active, Running
<1>14. requests[r].releasedAmount = SumOver(PaidPart(old, first))
       /\ EscrowOf(requests[r]) = SumOver(DuePart(old, first))
  BY <1>13 DEF Balanced, Accounted, old, first
<1>15. QED BY <1>4, <1>8, <1>10, <1>11, <1>12, <1>14 DEF Balanced, Accounted

-----------------------------------------------------------------------------
(* What a step can do to one request.                                       *)

NewRequest(r) ==
  \E u \in Users, deadline \in Deadlines, amount \in Amounts :
    r = nextRequestId /\ CreateRequest(u, deadline, amount)
Funded(r) ==
  \E p \in DOMAIN proposals[r], price \in Nat, allowance \in Nat :
    ApproveAndFund(r, p, price, allowance)
Proved(r) ==
  \E m \in MilestoneIds :
    \/ \E uri \in ProofUris, gas \in Nat, price \in Nat : SubmitProof(r, m, uri, gas, price)
    \/ WithdrawProof(r, m)
Reviewed(r) ==
  \E m \in MilestoneIds, n \in Nat : RejectMilestone(r, m, n) \/ ApproveMilestone(r, m, n)
ToppedUp(r) == \E amount \in Nat : TopUpOperationalAllowance(r, amount)
IsAmended(r) ==
  \E newDeadline \in Deadlines, existing \in Fundings(r), additions \in Additions(r),
     operational \in Nat : ManagerAmends(r, newDeadline, existing, additions, operational)
Renegotiated(r) ==
  \E newDeadline \in Deadlines, existing \in Fundings(r), additions \in Additions(r),
     operational \in Nat : Amends(r, newDeadline, existing, additions, operational)

(* With the agreement as it is, or with another one.                        *)
Proceeds(r) ==
  \/ Same(r)
  \/ NewRequest(r)
  \/ CancelRequest(r)
  \/ Funded(r)
  \/ Proved(r)
  \/ Reviewed(r)
  \/ RequestExists(r) /\ Refund(r)
  \/ ToppedUp(r)

HappensTo(r) == Proceeds(r) \/ Renegotiated(r)

(* A step leaves alone every request but the one it is about.               *)
LEMMA ActsOnOne ==
  ASSUME IInv, NEW r \in RequestIds,
         MarketStep(r) \/ CarrierStep(r) \/ ReviewStep(r) \/ SettlementStep(r) \/ ManagerStep(r),
         NEW q \in RequestIds, q # r
  PROVE  Same(q)
<1> USE StateTypes
<1>1. CASE MarketStep(r)
  <2>1. ASSUME NEW u, NEW plan, ProposeMilestones(u, r, plan) PROVE Same(q)
    BY <2>1 DEF ProposeMilestones, Same, workVars
  <2>2. ASSUME NEW u, RevokeMilestoneProposal(u, r) PROVE Same(q)
    BY <2>2 DEF RevokeMilestoneProposal, Same, workVars
  <2>3. ASSUME NEW p, RejectMilestoneProposal(r, p) PROVE Same(q)
    BY <2>3 DEF RejectMilestoneProposal, Same, workVars
  <2>4. CASE CancelRequest(r)
    BY <2>4 DEF CancelRequest, Same, workVars
  <2>5. ASSUME NEW p, NEW price, NEW allowance, ApproveAndFund(r, p, price, allowance) PROVE Same(q)
    BY <2>5 DEF ApproveAndFund, Same
  <2>6. QED BY <1>1, <2>1, <2>2, <2>3, <2>4, <2>5 DEF MarketStep
<1>2. CASE CarrierStep(r)
  <2>1. ASSUME NEW m, NEW uri, NEW gas, NEW price, SubmitProof(r, m, uri, gas, price) PROVE Same(q)
    BY <2>1 DEF SubmitProof, MarkMilestoneStateChanged, Same
  <2>2. ASSUME NEW m, WithdrawProof(r, m) PROVE Same(q)
    BY <2>2 DEF WithdrawProof, MarkMilestoneStateChanged, Same
  <2>3. QED BY <1>2, <2>1, <2>2 DEF CarrierStep
<1>3. CASE ReviewStep(r)
  <2>1. ASSUME NEW m, NEW n, RejectMilestone(r, m, n) PROVE Same(q)
    BY <2>1 DEF RejectMilestone, MarkMilestoneStateChanged, Same
  <2>2. ASSUME NEW m, NEW n, ApproveMilestone(r, m, n) PROVE Same(q)
    BY <2>2 DEF ApproveMilestone, MarkMilestoneStateChanged, Same
  <2>3. QED BY <1>3, <2>1, <2>2 DEF ReviewStep
<1>4. ASSUME Refund(r) PROVE Same(q)
  BY <1>4 DEF Refund, Same, workVars
<1>5. CASE SettlementStep(r)
  <2>1. ASSUME NEW amount, TipCarrier(r, amount) PROVE Same(q)
    BY <2>1 DEF TipCarrier, Same, workVars
  <2>2. ASSUME NEW amount, TopUpOperationalAllowance(r, amount) PROVE Same(q)
    BY <2>2 DEF TopUpOperationalAllowance, MarkMilestoneStateChanged, Same
  <2>3. QED BY <1>4, <1>5, <2>1, <2>2 DEF SettlementStep, RefundRemaining
<1>6. CASE ManagerStep(r)
  <2>1. ASSUME NEW newDeadline, NEW existing, NEW additions, NEW operational,
               ManagerAmends(r, newDeadline, existing, additions, operational)
        PROVE  Same(q)
    BY <2>1, ManagerAmendsIsAmends, AmendsOne
  <2>2. QED BY <1>4, <1>6, <2>1 DEF ManagerStep, ManagerCancels, FinalizeMutualCancellation
<1>7. QED BY <1>1, <1>2, <1>3, <1>5, <1>6

LEMMA ManagerActs ==
  ASSUME IInv, NEW r \in RequestIds, ManagerStep(r)
  PROVE  (RequestExists(r) /\ Refund(r)) \/ IsAmended(r)
<1>1. CASE ManagerCancels(r)
  BY <1>1 DEF ManagerCancels, FinalizeMutualCancellation
<1>2. ASSUME NEW newDeadline \in Deadlines, NEW existing \in Fundings(r),
             NEW additions \in Additions(r),
             ManagerAmends(r, newDeadline, existing, additions,
                           Len(additions) * ProofReserve(requests[r].gasPriceCap))
      PROVE  IsAmended(r)
  BY <1>2, ReserveOfAdditionsIsNat DEF IsAmended
<1>3. QED BY <1>1, <1>2 DEF ManagerStep

LEMMA AmendedIsRenegotiated ==
  ASSUME NEW r \in RequestIds, IsAmended(r)
  PROVE  Renegotiated(r)
<1>1. PICK newDeadline \in Deadlines, existing \in Fundings(r), additions \in Additions(r),
           operational \in Nat : ManagerAmends(r, newDeadline, existing, additions, operational)
  BY DEF IsAmended
<1>2. Amends(r, newDeadline, existing, additions, operational)
  BY <1>1, ManagerAmendsIsAmends
<1>3. QED BY <1>2 DEF Renegotiated

(* The steps of the escrow that are not the manager's.                      *)
OwnStep ==
  \/ Tick
  \/ \E u \in Users, deadline \in Deadlines, amount \in Amounts : CreateRequest(u, deadline, amount)
  \/ \E r \in RequestIds : MarketStep(r) \/ CarrierStep(r) \/ ReviewStep(r) \/ SettlementStep(r)

LEMMA OwnStepCases ==
  ASSUME IInv, [OwnStep]_vars, NEW q \in RequestIds
  PROVE  Proceeds(q)
<1>1. CASE UNCHANGED vars
  BY <1>1 DEF vars, workVars, Same, Proceeds
<1>2. CASE Tick
  BY <1>2 DEF Tick, workVars, Same, Proceeds
<1>3. ASSUME NEW u \in Users, NEW deadline \in Deadlines, NEW amount \in Amounts,
             CreateRequest(u, deadline, amount)
      PROVE  Proceeds(q)
  <2>1. CASE q = nextRequestId
    BY <1>3, <2>1 DEF NewRequest, Proceeds
  <2>2. CASE q # nextRequestId
    BY <1>3, <2>2, StateTypes DEF CreateRequest, workVars, Same, Proceeds
  <2>3. QED BY <2>1, <2>2
<1>4. CASE MarketStep(q)
  <2>1. ASSUME NEW u, NEW plan, ProposeMilestones(u, q, plan) PROVE Proceeds(q)
    BY <2>1 DEF ProposeMilestones, Same, workVars, Proceeds
  <2>2. ASSUME NEW u, RevokeMilestoneProposal(u, q) PROVE Proceeds(q)
    BY <2>2 DEF RevokeMilestoneProposal, Same, workVars, Proceeds
  <2>3. ASSUME NEW p, RejectMilestoneProposal(q, p) PROVE Proceeds(q)
    BY <2>3 DEF RejectMilestoneProposal, Same, workVars, Proceeds
  <2>4. ASSUME NEW p \in DOMAIN proposals[q], NEW price \in ReferenceGasPrices,
               NEW extra \in ExtraAllowances,
               ApproveAndFund(q, p, price, MinimumOperationalAllowance(q, p, price) + extra)
        PROVE  Proceeds(q)
    <3>1. price \in Nat /\ extra \in Nat
      BY InputAssumption
    <3>2. MinimumOperationalAllowance(q, p, price) \in Nat
      BY <3>1, MinimumIsNat DEF IInv
    <3>3. MinimumOperationalAllowance(q, p, price) + extra \in Nat
      BY <3>1, <3>2
    <3>4. QED BY <2>4, <3>1, <3>3 DEF Funded, Proceeds
  <2>5. QED BY <1>4, <2>1, <2>2, <2>3, <2>4 DEF MarketStep, Proceeds
<1>5. CASE CarrierStep(q)
  <2>1. GasReadings \subseteq Nat /\ TxGasPrices \subseteq Nat
    BY InputAssumption
  <2>2. QED BY <1>5, <2>1 DEF CarrierStep, Proved, Proceeds
<1>6. CASE ReviewStep(q)
  <2>1. 1 .. MaxVersion \subseteq Nat
    BY NumberAssumption
  <2>2. QED BY <1>6, <2>1 DEF ReviewStep, Reviewed, Proceeds
<1>7. CASE SettlementStep(q)
  <2>1. FundingAmounts \subseteq Nat
    BY InputAssumption
  <2>2. ASSUME NEW amount, TipCarrier(q, amount) PROVE Proceeds(q)
    BY <2>2 DEF TipCarrier, Same, workVars, Proceeds
  <2>3. QED BY <1>7, <2>1, <2>2 DEF SettlementStep, RefundRemaining, ToppedUp, Proceeds
<1>8. ASSUME NEW r \in RequestIds, q # r,
             MarketStep(r) \/ CarrierStep(r) \/ ReviewStep(r) \/ SettlementStep(r)
      PROVE  Proceeds(q)
  BY <1>8, ActsOnOne DEF Proceeds
<1>9. QED BY <1>1, <1>2, <1>3, <1>4, <1>5, <1>6, <1>7, <1>8 DEF OwnStep

LEMMA StepCases ==
  ASSUME IInv, [Next]_vars, NEW q \in RequestIds
  PROVE  HappensTo(q)
<1>1. CASE [OwnStep]_vars
  BY <1>1, OwnStepCases DEF HappensTo
<1>2. ASSUME NEW r \in RequestIds, ManagerStep(r) PROVE HappensTo(q)
  <2>1. CASE q = r
    BY <1>2, <2>1, ManagerActs, AmendedIsRenegotiated DEF HappensTo, Proceeds
  <2>2. CASE q # r
    BY <1>2, <2>2, ActsOnOne DEF HappensTo, Proceeds
  <2>3. QED BY <2>1, <2>2
<1>3. QED BY <1>1, <1>2 DEF Next, OwnStep

-----------------------------------------------------------------------------
(* Every step keeps the balance.                                            *)
LEMMA WorthStepOK ==
  ASSUME IInv, OrderInv, WorthInv, \A q \in RequestIds : HappensTo(q)
  PROVE  WorthInv'
<1> SUFFICES ASSUME NEW q \in RequestIds PROVE Balanced(q)'
  BY DEF WorthInv
<1>1. Balanced(q) /\ Sound(q)
  BY DEF WorthInv, OrderInv
<1>2. CASE Same(q)
  BY <1>1, <1>2, UntouchedBalanced
<1>3. CASE NewRequest(q)
  BY <1>1, <1>3, CreateBalanced DEF NewRequest
<1>4. CASE CancelRequest(q)
  BY <1>1, <1>4, CancelBalanced
<1>5. CASE Funded(q)
  BY <1>1, <1>5, FundBalanced DEF Funded
<1>6. CASE Proved(q)
  BY <1>1, <1>6, SubmitBalanced, WithdrawBalanced DEF Proved
<1>7. CASE Reviewed(q)
  BY <1>1, <1>7, RejectBalanced, ApproveBalanced DEF Reviewed
<1>8. CASE Refund(q)
  BY <1>1, <1>8, RefundBalanced
<1>9. CASE ToppedUp(q)
  BY <1>1, <1>9, TopUpBalanced DEF ToppedUp
<1>10. CASE Renegotiated(q)
  BY <1>1, <1>10, AmendBalanced DEF Renegotiated
<1>11. QED
  BY <1>2, <1>3, <1>4, <1>5, <1>6, <1>7, <1>8, <1>9, <1>10 DEF HappensTo, Proceeds

LEMMA WorthInitOK == Init => WorthInv
<1> SUFFICES ASSUME Init, NEW r \in RequestIds PROVE Balanced(r)
  BY DEF WorthInv
<1>1. requests[r] = NoRequest /\ nextMilestoneId[r] = 0 /\ milestones[r] = [m \in MilestoneIds |-> NoMilestone]
  BY DEF Init
<1>2. PaidPart(milestones[r], 0) = [m \in MilestoneIds |-> 0]
  BY <1>1 DEF PaidPart, NoMilestone
<1>3. QED BY <1>1, <1>2, SumOfZeros DEF Balanced, Accounted, Running, NoRequest

-----------------------------------------------------------------------------
(* The theorem.                                                             *)

(* What the invariant says in the words of the property.                    *)
LEMMA WorthMeans ==
  ASSUME IInv, WorthInv
  PROVE  EscrowMatchesMilestones
<1> SUFFICES ASSUME NEW r \in RequestIds
             PROVE  /\ requests[r].releasedAmount = Worth(r, PaidOf(r))
                    /\ Active(r) => EscrowBalance(r) = Worth(r, MilestonesOf(r) \ PaidOf(r))
  BY DEF EscrowMatchesMilestones
<1> DEFINE ms == milestones[r]
           next == nextMilestoneId[r]
           paid == PaidOf(r)
           due == MilestonesOf(r) \ PaidOf(r)
           value == [m \in MilestoneIds |-> ms[m].payoutAmount + ms[m].additionalPayoutAmount]
<1>1. /\ paid \in SUBSET MilestoneIds /\ due \in SUBSET MilestoneIds
      /\ \A m \in MilestoneIds : m \in paid <=> m < next /\ ms[m].status = "Paid"
      /\ \A m \in MilestoneIds : m \in due <=> m < next /\ ms[m].status # "Paid"
  BY DEF PaidOf, MilestonesOf, MilestoneExists
<1>2. \A m \in MilestoneIds : value[m] = Value(ms[m]) /\ value[m] \in Nat
  BY StateTypes DEF Milestones, Value
<1>3. /\ Worth(r, paid) = SumOver([m \in paid |-> value[m]])
      /\ Worth(r, due) = SumOver([m \in due |-> value[m]])
  BY <1>1 DEF Worth
<1>4. PaidPart(ms, next) \in [MilestoneIds -> Nat] /\ DuePart(ms, next) \in [MilestoneIds -> Nat]
  BY StateTypes, PartsAreNat
<1> HIDE DEF ms, next, paid, due, value
<1>5. SumOver(PaidPart(ms, next)) = SumOver([m \in paid |-> value[m]])
  <2> DEFINE f == [m \in paid |-> value[m]]
             h == PaidPart(ms, next)
  <2>1. f \in [paid -> Nat]
    BY <1>1, <1>2
  <2>2. \A m \in MilestoneIds : h[m] = IF m \in paid THEN f[m] ELSE 0
    BY <1>1, <1>2 DEF PaidPart
  <2>3. h \in [MilestoneIds -> Nat]
    BY <1>4
  <2> HIDE DEF f, h
  <2>4. SumOver(h) = SumOver(f)
    BY <1>1, <2>1, <2>2, <2>3, SumPadded
  <2>5. QED BY <2>4 DEF f, h
<1>6. SumOver(DuePart(ms, next)) = SumOver([m \in due |-> value[m]])
  <2> DEFINE f == [m \in due |-> value[m]]
             h == DuePart(ms, next)
  <2>1. f \in [due -> Nat]
    BY <1>1, <1>2
  <2>2. \A m \in MilestoneIds : h[m] = IF m \in due THEN f[m] ELSE 0
    BY <1>1, <1>2 DEF DuePart
  <2>3. h \in [MilestoneIds -> Nat]
    BY <1>4
  <2> HIDE DEF f, h
  <2>4. SumOver(h) = SumOver(f)
    BY <1>1, <2>1, <2>2, <2>3, SumPadded
  <2>5. QED BY <2>4 DEF f, h
<1>7. Balanced(r)
  BY DEF WorthInv
<1>8. QED BY <1>3, <1>5, <1>6, <1>7
          DEF Balanced, Accounted, Running, Active, EscrowBalance, ms, next, paid, due

(* Released is what the paid milestones were worth and, while a shipment is *)
(* running, escrowed is what the others are worth, to the last CARGO,       *)
(* whatever the percentages, the additions and their places: an approval    *)
(* always finds its payment, and the last one leaves nothing behind.        *)
THEOREM EscrowAlwaysMatchesMilestones == Spec => []EscrowMatchesMilestones
<1>1. IInv /\ WorthInv => EscrowMatchesMilestones
  BY WorthMeans
<1>2. Init => WorthInv
  BY WorthInitOK
<1>3. IInv /\ OrderInv /\ WorthInv /\ [Next]_vars => WorthInv'
  BY StepCases, WorthStepOK
<1>4. QED BY <1>1, <1>2, <1>3, OrderInvariant, PTL DEF Spec

-----------------------------------------------------------------------------
(* Part III.  Escrow, reserve and what is over.                             *)

-----------------------------------------------------------------------------
(* The invariant, request by request.                                       *)

OpenIds(ms, n) ==
  {m \in MilestoneIds : m < n /\ ~ms[m].proofSubmissionReimbursed /\ ms[m].status # "Paid"}
SeenIds(ms, n) == {m \in MilestoneIds : m < n /\ ms[m].proofSubmissionReimbursed}

ReimbursementLimit(cap) == Smaller(MaxProofReimbursement, ProofGasUnitCap * cap * CargoPerEth)

Reserved(request, ms, n) ==
  /\ OperationalOf(request) >= Cardinality(OpenIds(ms, n)) * ProofReserve(request.gasPriceCap)
  /\ request.operationalSpent
       <= Cardinality(SeenIds(ms, n)) * ReimbursementLimit(request.gasPriceCap)

(* The last milestone of the order is always worth something, and open:     *)
(* milestones before it may be worth nothing (a small share rounded down)   *)
(* but can then not be paid, and so neither can the last.                   *)
LastIsOpen(order, ms) ==
  /\ Len(order) > 0
  /\ ms[order[Len(order)]].status # "Paid"
  /\ Value(ms[order[Len(order)]]) > 0

Priced(request) == request.shipper \in Users => request.proposedAmount > 0

Emptied(request) == EscrowOf(request) = 0 /\ OperationalOf(request) = 0

Held(r) ==
  /\ Priced(requests[r])
  /\ IF Running(requests[r])
     THEN /\ LastIsOpen(executionOrder[r], milestones[r])
          /\ Reserved(requests[r], milestones[r], nextMilestoneId[r])
     ELSE Emptied(requests[r])

HeldInv == \A r \in RequestIds : Held(r)

-----------------------------------------------------------------------------
(* Arithmetic.                                                              *)

LEMMA TimesNat ==
  ASSUME NEW a \in Nat, NEW b \in Nat
  PROVE  a * b \in Nat
OBVIOUS

LEMMA TimesMonotone ==
  ASSUME NEW a \in Nat, NEW b \in Nat, NEW c \in Nat, NEW d \in Nat, a <= c, b <= d
  PROVE  a * b <= c * d
<1>1. PICK x \in Nat : c = a + x
  <2>1. c - a \in Nat /\ c = a + (c - a)
    OBVIOUS
  <2>2. QED BY <2>1
<1>2. PICK y \in Nat : d = b + y
  <2>1. d - b \in Nat /\ d = b + (d - b)
    OBVIOUS
  <2>2. QED BY <2>1
<1>3. c * d = a * b + a * y + x * b + x * y
  BY <1>1, <1>2
<1>4. a * b \in Nat /\ a * y \in Nat /\ x * b \in Nat /\ x * y \in Nat
  BY TimesNat
<1>5. QED BY <1>3, <1>4

LEMMA Division ==
  ASSUME NEW left \in Nat, NEW k \in Nat, k > 0
  PROVE  left \div k \in Nat /\ (left \div k) * k <= left
OBVIOUS

LEMMA ReserveScales ==
  ASSUME NEW price \in Nat
  PROVE  ProofReserve(price) = price * ProofReserve(1)
<1> DEFINE units == ProofGasUnitCap + ReimbursementOverhead
<1>1. units \in Nat /\ CargoPerEth \in Nat
  BY NumberAssumption
<1>2. ASSUME NEW u \in Nat, NEW c \in Nat PROVE (u * price) * c = price * ((u * 1) * c)
  OBVIOUS
<1> HIDE DEF units
<1>3. (units * price) * CargoPerEth = price * ((units * 1) * CargoPerEth)
  BY <1>1, <1>2
<1>4. QED BY <1>3 DEF ProofReserve, units

(* The gas price cap that an allowance is said to cover, it does cover.     *)
LEMMA CapIsCovered ==
  ASSUME NEW left \in Nat, NEW actions \in Nat, actions > 0
  PROVE  LET cap == left \div (actions * ProofReserve(1))
         IN  cap \in Nat /\ actions * ProofReserve(cap) <= left
<1> DEFINE one == ProofReserve(1)
           k == actions * one
           cap == left \div k
<1>1. one \in Nat /\ one > 0
  BY ProofReserveIsNat
<1> HIDE DEF one
<1>2. k \in Nat /\ k > 0
  BY <1>1
<1> HIDE DEF k
<1>3. cap \in Nat /\ cap * k <= left
  BY <1>2, Division
<1> HIDE DEF cap
<1>4. ProofReserve(cap) = cap * one
  BY <1>3, ReserveScales DEF one
<1>5. actions * (cap * one) = cap * (actions * one)
  BY <1>1, <1>3
<1>6. QED BY <1>3, <1>4, <1>5 DEF k, cap, one

LEMMA LimitGrows ==
  ASSUME NEW a \in Nat, NEW b \in Nat, a <= b
  PROVE  /\ ReimbursementLimit(a) \in Nat /\ ReimbursementLimit(b) \in Nat
         /\ ReimbursementLimit(a) <= ReimbursementLimit(b)
<1>1. ProofGasUnitCap \in Nat /\ CargoPerEth \in Nat /\ MaxProofReimbursement \in Nat
  BY NumberAssumption
<1>2. ProofGasUnitCap * a \in Nat /\ ProofGasUnitCap * b \in Nat /\ ProofGasUnitCap * a <= ProofGasUnitCap * b
  BY <1>1, TimesNat, TimesMonotone
<1>3. /\ (ProofGasUnitCap * a) * CargoPerEth \in Nat /\ (ProofGasUnitCap * b) * CargoPerEth \in Nat
      /\ (ProofGasUnitCap * a) * CargoPerEth <= (ProofGasUnitCap * b) * CargoPerEth
  BY <1>1, <1>2, TimesNat, TimesMonotone
<1>4. ASSUME NEW x \in Nat, NEW y \in Nat, NEW z \in Nat, x <= y
      PROVE  Smaller(z, x) \in Nat /\ Smaller(z, y) \in Nat /\ Smaller(z, x) <= Smaller(z, y)
  BY <1>4 DEF Smaller
<1>5. QED BY <1>1, <1>3, <1>4 DEF ReimbursementLimit

(* A reimbursement is within the limit and within what the reserve can spare. *)
LEMMA ReimbursementIsLimited ==
  ASSUME IInv, NEW r \in RequestIds, NEW ms, NEW gas \in Nat, NEW price \in Nat
  PROVE  LET paid   == Reimbursement(r, ms, gas, price)
             cap    == requests[r].gasPriceCap
             future == RemainingProofActions(executionOrder[r], ms) * ProofReserve(cap)
         IN  /\ paid \in Nat
             /\ paid <= ReimbursementLimit(cap)
             /\ IF OperationalRemaining(r) > future
                THEN paid <= OperationalRemaining(r) - future ELSE paid = 0
<1> USE DEF IInv
<1> DEFINE cap == requests[r].gasPriceCap
           calculated == CoveredGas(gas) * Smaller(price, cap) * CargoPerEth
           actions == RemainingProofActions(executionOrder[r], ms)
           future == actions * ProofReserve(cap)
           spendable == IF OperationalRemaining(r) > future
                        THEN OperationalRemaining(r) - future ELSE 0
           most == ProofGasUnitCap * cap * CargoPerEth
<1>1. cap \in Nat /\ OperationalRemaining(r) \in Nat
  BY PotOfSolvent DEF RequestsOK, Requests, OperationalRemaining
<1>2. calculated \in Nat /\ most \in Nat /\ calculated <= most
  <2>1. gas + ReimbursementOverhead \in Nat /\ ProofGasUnitCap \in Nat /\ CargoPerEth \in Nat
    BY NumberAssumption
  <2>2. CoveredGas(gas) \in Nat /\ CoveredGas(gas) <= ProofGasUnitCap
    BY <2>1, SmallerIsNat DEF CoveredGas
  <2>3. Smaller(price, cap) \in Nat /\ Smaller(price, cap) <= cap
    BY <1>1, SmallerIsNat
  <2> HIDE DEF cap
  <2>4. /\ CoveredGas(gas) * Smaller(price, cap) \in Nat /\ ProofGasUnitCap * cap \in Nat
        /\ CoveredGas(gas) * Smaller(price, cap) <= ProofGasUnitCap * cap
    BY <1>1, <2>1, <2>2, <2>3, TimesNat, TimesMonotone
  <2>5. QED BY <2>1, <2>4, TimesNat, TimesMonotone
<1>3. future \in Nat
  <2>1. actions \in Nat
    BY RemainingIsNat
  <2>2. ProofReserve(cap) \in Nat
    BY <1>1, ProofReserveIsNat
  <2> HIDE DEF actions
  <2>3. QED BY <2>1, <2>2, TimesNat
<1>4. Reimbursement(r, ms, gas, price) = Smaller(Smaller(calculated, MaxProofReimbursement), spendable)
  BY DEF Reimbursement
<1>5. ReimbursementLimit(cap) = Smaller(MaxProofReimbursement, most)
  BY DEF ReimbursementLimit
<1> HIDE DEF calculated, future, most
<1>6. spendable \in Nat
  BY <1>1, <1>3
<1>7. /\ Smaller(calculated, MaxProofReimbursement) \in Nat
      /\ Smaller(calculated, MaxProofReimbursement) <= Smaller(MaxProofReimbursement, most)
  BY <1>2, NumberAssumption DEF Smaller
<1> HIDE DEF spendable
<1>8. /\ Reimbursement(r, ms, gas, price) \in Nat
      /\ Reimbursement(r, ms, gas, price) <= spendable
      /\ Reimbursement(r, ms, gas, price) <= ReimbursementLimit(cap)
  <2>1. Smaller(MaxProofReimbursement, most) \in Nat
    BY <1>2, NumberAssumption, SmallerIsNat
  <2>2. QED BY <1>4, <1>5, <1>6, <1>7, <2>1, SmallerIsNat
<1>9. QED BY <1>1, <1>3, <1>8 DEF spendable, future

-----------------------------------------------------------------------------
(* Counting milestones.                                                     *)

LEMMA CountsAreNat ==
  ASSUME NEW ms, NEW n
  PROVE  /\ IsFiniteSet(OpenIds(ms, n)) /\ Cardinality(OpenIds(ms, n)) \in Nat
         /\ IsFiniteSet(SeenIds(ms, n)) /\ Cardinality(SeenIds(ms, n)) \in Nat
<1>1. OpenIds(ms, n) \in SUBSET MilestoneIds /\ SeenIds(ms, n) \in SUBSET MilestoneIds
  BY DEF OpenIds, SeenIds
<1>2. QED BY <1>1, MilestoneIdsFinite, FS_Subset, FS_CardinalityType

LEMMA SmallerCount ==
  ASSUME NEW S, NEW T, IsFiniteSet(T), S \subseteq T
  PROVE  Cardinality(S) <= Cardinality(T)
BY FS_Subset

(* The contract counts along the execution order, which has each milestone  *)
(* once.                                                                    *)
LEMMA CountById ==
  ASSUME IInv, NEW r \in RequestIds, Sound(r), NEW ms
  PROVE  RemainingProofActions(executionOrder[r], ms)
           = Cardinality(OpenIds(ms, nextMilestoneId[r]))
<1> DEFINE order == executionOrder[r]
           next == nextMilestoneId[r]
           places == {i \in DOMAIN order : /\ ~ms[order[i]].proofSubmissionReimbursed
                                           /\ ms[order[i]].status # "Paid"}
           g == [i \in places |-> order[i]]
<1>1. /\ \A i \in DOMAIN order : order[i] \in MilestoneIds /\ order[i] < next
      /\ \A i, j \in DOMAIN order : order[i] = order[j] => i = j
      /\ \A m \in MilestoneIds : m < next => \E i \in DOMAIN order : order[i] = m
      /\ DOMAIN order = 1 .. Len(order) /\ Len(order) \in Nat
  BY OrderFacts
<1>2. IsFiniteSet(places)
  <2>1. places \in SUBSET (1 .. Len(order))
    BY <1>1
  <2> HIDE DEF places, order
  <2>2. 1 \in Int /\ Len(order) \in Int
    BY <1>1
  <2>3. IsFiniteSet(1 .. Len(order))
    BY <2>2, FS_Interval
  <2>4. QED BY <2>1, <2>3, FS_Subset
<1>3. /\ g \in [places -> OpenIds(ms, next)]
      /\ \A i, j \in places : g[i] = g[j] => i = j
      /\ \A m \in OpenIds(ms, next) : \E i \in places : g[i] = m
  <2> HIDE DEF order, next
  <2>1. QED BY <1>1 DEF OpenIds
<1> HIDE DEF g, places
<1>4. g \in Bijection(places, OpenIds(ms, next))
  BY <1>3 DEF Bijection, Injection, IsInjective, Surjection
<1>5. Cardinality(places) = Cardinality(OpenIds(ms, next))
  <2>1. ExistsBijection(places, OpenIds(ms, next))
    BY <1>4 DEF ExistsBijection
  <2>2. QED BY <1>2, <2>1, FS_Bijection
<1>6. QED BY <1>5 DEF RemainingProofActions, places

(* The last payout of a plan is never nothing: the floors leave at least    *)
(* its own percentage.                                                      *)
LEMMA LastPayoutIsPositive ==
  ASSUME NEW amount \in Nat, amount > 0, NEW plan \in Seq(Nat), ValidPlan(plan)
  PROVE  PayoutAmount(amount, plan, Len(plan)) > 0
<1> DEFINE n == Len(plan)
           T == 1 .. n
           S == 1 .. n - 1
           floors == [j \in S |-> Share(amount, plan[j])]
           scaled == [j \in T |-> amount * plan[j]]
           others == [scaled EXCEPT ![n] = 0]
<1>1. /\ n \in Nat /\ n \in T /\ n \notin S /\ S \subseteq T /\ IsFiniteSet(S) /\ IsFiniteSet(T)
      /\ plan \in [T -> Nat] /\ plan[n] > 0
  <2>1. n \in Nat /\ n \in 1 .. MaxInitialMilestones /\ \A i \in DOMAIN plan : plan[i] > 0
    BY DEF ValidPlan
  <2>2. n >= 1 /\ n \in T
    BY <2>1
  <2>3. IsFiniteSet(S) /\ IsFiniteSet(T)
    <3> HIDE DEF n
    <3>1. n - 1 \in Int /\ 1 \in Int /\ n \in Int
      BY <2>1
    <3>2. QED BY <3>1, FS_Interval
  <2>4. plan \in [T -> Nat]
    OBVIOUS
  <2> HIDE DEF n
  <2>5. QED BY <2>1, <2>2, <2>3, <2>4
<1>2. floors \in [S -> Nat]
  BY <1>1, ShareIsFloor
<1>3. scaled \in [T -> Nat] /\ SumOver(scaled) = amount * 100
  <2>1. scaled \in [T -> Nat]
    <3> HIDE DEF T
    <3>1. QED BY <1>1, TimesNat
  <2>2. SumOver(plan) = 100
    BY DEF ValidPlan
  <2>3. SumOver(scaled) = amount * SumOver(plan)
    <3> HIDE DEF T
    <3>1. QED BY <1>1, SumScaled
  <2>4. QED BY <2>1, <2>2, <2>3
<1>4. /\ others \in [T -> Nat] /\ SumOver(others) = SumOver(scaled) - amount * plan[n] + 0
  <2>1. scaled[n] = amount * plan[n]
    BY <1>1
  <2> HIDE DEF scaled, T, n
  <2>2. others \in [T -> Nat]
    BY <1>1, <1>3
  <2>3. ASSUME NEW f \in [T -> Nat], NEW i \in T, NEW a \in Nat
        PROVE  SumOver([f EXCEPT ![i] = a]) = SumOver(f) - f[i] + a
    BY <1>1, SumUpdate
  <2>4. SumOver(others) = SumOver(scaled) - scaled[n] + 0
    <3>1. 0 \in Nat
      OBVIOUS
    <3>2. QED BY <1>1, <1>3, <2>3, <3>1
  <2>5. QED BY <2>1, <2>2, <2>4
<1>5. \A j \in S : 100 * floors[j] <= others[j]
  <2>1. ASSUME NEW j \in S PROVE 100 * floors[j] <= others[j]
    <3>1. j \in T /\ j # n /\ plan[j] \in Nat
      BY <1>1
    <3>2. others[j] = amount * plan[j] /\ floors[j] = Share(amount, plan[j])
      BY <3>1
    <3> HIDE DEF others, floors
    <3>3. QED BY <3>1, <3>2, ShareIsFloor
  <2>2. QED BY <2>1
<1>6. 100 * SumOver(floors) <= SumOver(others)
  <2> HIDE DEF S, T, floors, others
  <2>1. 100 \in Nat \ {0}
    OBVIOUS
  <2>2. QED BY <2>1, <1>1, <1>2, <1>4, <1>5, UnitsInjected
<1>7. SumOver(floors) \in Nat /\ amount * plan[n] \in Nat /\ amount * plan[n] > 0
  <2>1. SumOver(floors) \in Nat
    <3> HIDE DEF S, floors
    <3>1. QED BY <1>1, <1>2, SumIsNat
  <2>2. plan[n] \in Nat /\ plan[n] > 0
    BY <1>1
  <2>3. ASSUME NEW a \in Nat, NEW b \in Nat, a > 0, b > 0 PROVE a * b \in Nat /\ a * b > 0
    BY <2>3
  <2> HIDE DEF n, floors
  <2>4. QED BY <2>1, <2>2, <2>3
<1>8. SumOver(floors) < amount
  <2> DEFINE last == amount * plan[n]
             sum == SumOver(floors)
  <2>1. 100 * sum <= amount * 100 - last /\ last \in Nat /\ last > 0 /\ sum \in Nat
    BY <1>3, <1>4, <1>6, <1>7
  <2> HIDE DEF last, sum
  <2>2. sum < amount
    BY <2>1
  <2>3. QED BY <2>2 DEF sum
<1>9. PayoutAmount(amount, plan, n) = amount - SumOver(floors)
  BY <1>1 DEF PayoutAmount
<1> HIDE DEF floors, n
<1>10. PayoutAmount(amount, plan, n) > 0
  BY <1>7, <1>8, <1>9
<1>11. QED BY <1>10 DEF n

-----------------------------------------------------------------------------
(* What stays when milestones keep what the counts and the last one look at. *)

LEMMA CountsKept ==
  ASSUME NEW ms, NEW new, NEW n,
         \A m \in MilestoneIds :
           /\ new[m].status = "Paid" <=> ms[m].status = "Paid"
           /\ new[m].proofSubmissionReimbursed = ms[m].proofSubmissionReimbursed
  PROVE  OpenIds(new, n) = OpenIds(ms, n) /\ SeenIds(new, n) = SeenIds(ms, n)
BY DEF OpenIds, SeenIds

LEMMA LastKept ==
  ASSUME NEW order \in Seq(MilestoneIds), NEW ms, NEW new, LastIsOpen(order, ms),
         \A m \in MilestoneIds : /\ new[m].status = "Paid" <=> ms[m].status = "Paid"
                                 /\ Value(new[m]) = Value(ms[m])
  PROVE  LastIsOpen(order, new)
<1>1. Len(order) \in DOMAIN order /\ order[Len(order)] \in MilestoneIds
  BY DEF LastIsOpen
<1>2. QED BY <1>1 DEF LastIsOpen

LEMMA UntouchedHeld ==
  ASSUME NEW r \in RequestIds, Held(r), Same(r)
  PROVE  Held(r)'
BY DEF Held, Same, Priced, Running, LastIsOpen, Reserved, Emptied, OpenIds, SeenIds

(* The figures of the request stay, and so does what its milestones show.   *)
LEMMA ReviewedHeld ==
  ASSUME IInv, NEW r \in RequestIds, Held(r), NEW m \in MilestoneIds, NEW new,
         milestones' = [milestones EXCEPT ![r] = [milestones[r] EXCEPT ![m] = new]],
         milestones[r][m].status # "Paid", new.status # "Paid",
         Value(new) = Value(milestones[r][m]),
         new.proofSubmissionReimbursed = milestones[r][m].proofSubmissionReimbursed,
         UNCHANGED <<requests, nextMilestoneId, executionOrder>>
  PROVE  Held(r)'
<1>1. /\ milestones'[r] = [milestones[r] EXCEPT ![m] = new]
      /\ milestones[r] \in [MilestoneIds -> Milestones]
      /\ executionOrder[r] \in Seq(MilestoneIds)
  BY StateTypes
<1>2. \A k \in MilestoneIds :
        /\ milestones'[r][k].status = "Paid" <=> milestones[r][k].status = "Paid"
        /\ milestones'[r][k].proofSubmissionReimbursed = milestones[r][k].proofSubmissionReimbursed
        /\ Value(milestones'[r][k]) = Value(milestones[r][k])
  BY <1>1
<1>3. /\ OpenIds(milestones'[r], nextMilestoneId[r]) = OpenIds(milestones[r], nextMilestoneId[r])
      /\ SeenIds(milestones'[r], nextMilestoneId[r]) = SeenIds(milestones[r], nextMilestoneId[r])
  <2> DEFINE ms == milestones[r]
             after == milestones'[r]
             n == nextMilestoneId[r]
  <2>1. \A k \in MilestoneIds :
          /\ after[k].status = "Paid" <=> ms[k].status = "Paid"
          /\ after[k].proofSubmissionReimbursed = ms[k].proofSubmissionReimbursed
    BY <1>2
  <2> HIDE DEF ms, after, n
  <2>2. OpenIds(after, n) = OpenIds(ms, n) /\ SeenIds(after, n) = SeenIds(ms, n)
    BY <2>1, CountsKept
  <2>3. QED BY <2>2 DEF ms, after, n
<1>4. LastIsOpen(executionOrder[r], milestones[r]) => LastIsOpen(executionOrder[r], milestones'[r])
  BY <1>1, <1>2, LastKept
<1>5. QED BY <1>3, <1>4 DEF Held, Priced, Running, Reserved, Emptied

LEMMA WithdrawHeld ==
  ASSUME IInv, NEW r \in RequestIds, Held(r), NEW m \in MilestoneIds, WithdrawProof(r, m)
  PROVE  Held(r)'
<1> DEFINE old == milestones[r][m]
           new == Withdrawn(old)
<1>1. /\ old.status = "Submitted" /\ UNCHANGED <<requests, nextMilestoneId, executionOrder>>
      /\ milestones' = [milestones EXCEPT ![r] = [milestones[r] EXCEPT ![m] = new]]
  BY DEF WithdrawProof
<1>2. old \in Milestones
  BY StateTypes
<1>3. /\ new.status # "Paid" /\ Value(new) = Value(old)
      /\ new.proofSubmissionReimbursed = old.proofSubmissionReimbursed
  BY <1>2 DEF Withdrawn, Value, Milestones
<1> HIDE DEF new
<1>4. QED BY <1>1, <1>3, ReviewedHeld

LEMMA RejectHeld ==
  ASSUME IInv, NEW r \in RequestIds, Held(r), NEW m \in MilestoneIds, NEW n,
         RejectMilestone(r, m, n)
  PROVE  Held(r)'
<1> DEFINE old == milestones[r][m]
           new == [old EXCEPT !.status = "Rejected",
                              !.proofWithdrawalsThisRound = 0,
                              !.submittedAfterRejection = FALSE]
<1>1. /\ old.status = "Submitted" /\ UNCHANGED <<requests, nextMilestoneId, executionOrder>>
      /\ milestones' = [milestones EXCEPT ![r] = [milestones[r] EXCEPT ![m] = new]]
  BY DEF RejectMilestone, MayReview
<1>2. old \in Milestones
  BY StateTypes
<1>3. /\ new.status # "Paid" /\ Value(new) = Value(old)
      /\ new.proofSubmissionReimbursed = old.proofSubmissionReimbursed
  BY <1>2 DEF Value, Milestones
<1> HIDE DEF new
<1>4. QED BY <1>1, <1>3, ReviewedHeld

(* A first proof takes its milestone off the count of those to come and is  *)
(* paid out of what that frees; a later one is paid nothing.                *)
LEMMA SubmitHeld ==
  ASSUME IInv, NEW r \in RequestIds, Sound(r), Held(r), NEW m \in MilestoneIds, NEW uri,
         NEW gas \in Nat, NEW price \in Nat, SubmitProof(r, m, uri, gas, price)
  PROVE  Held(r)'
<1> DEFINE old == milestones[r][m]
           new == Submitted(old, uri)
           ms == [milestones[r] EXCEPT ![m] = new]
           n == nextMilestoneId[r]
           cap == requests[r].gasPriceCap
           limit == ReimbursementLimit(cap)
           open == Cardinality(OpenIds(milestones[r], n))
           seen == Cardinality(SeenIds(milestones[r], n))
           paid == IF old.proofSubmissionReimbursed THEN 0 ELSE Reimbursement(r, ms, gas, price)
<1>1. /\ old.status # "Paid" /\ Active(r) /\ UNCHANGED <<nextMilestoneId, executionOrder>> /\ m < n
      /\ milestones' = [milestones EXCEPT ![r] = ms]
      /\ requests' = [requests EXCEPT ![r].status = "InProgress", ![r].operationalSpent = @ + paid]
  BY DEF SubmitProof, MilestoneExists
<1>2. /\ requests \in [RequestIds -> Requests] /\ milestones[r] \in [MilestoneIds -> Milestones]
      /\ executionOrder[r] \in Seq(MilestoneIds) /\ milestones'[r] = ms
  BY <1>1, StateTypes
<1>3. /\ new.status # "Paid" /\ Value(new) = Value(old) /\ new.proofSubmissionReimbursed
      /\ old.proofSubmissionReimbursed \in BOOLEAN
  <2>1. old \in Milestones
    BY <1>2
  <2>2. QED BY <2>1 DEF Submitted, Value, Milestones
<1> HIDE DEF paid, new
<1>4. ms[m] = new /\ \A k \in MilestoneIds : k # m => ms[k] = milestones[r][k]
  BY <1>2
<1> HIDE DEF ms
<1>5. /\ Running(requests[r]) /\ Running(requests'[r])
      /\ requests'[r].gasPriceCap = cap
      /\ requests'[r].operationalSpent = requests[r].operationalSpent + paid
      /\ requests'[r].operationalAllowance = requests[r].operationalAllowance
      /\ requests'[r].shipper = requests[r].shipper
      /\ requests'[r].proposedAmount = requests[r].proposedAmount
  BY <1>1, <1>2 DEF Requests, Running, Active
<1>6. /\ cap \in Nat /\ ProofReserve(cap) \in Nat /\ limit \in Nat
      /\ requests[r].operationalSpent \in Nat
      /\ OperationalOf(requests[r]) = requests[r].operationalAllowance - requests[r].operationalSpent
      /\ OperationalOf(requests[r]) \in Nat
  <2>1. requests[r] \in Requests /\ Solvent(requests[r])
    BY DEF IInv, RequestsOK
  <2>2. cap \in Nat /\ requests[r].operationalSpent \in Nat
    BY <2>1 DEF Requests
  <2> HIDE DEF cap
  <2>3. ProofReserve(cap) \in Nat /\ limit \in Nat
    BY <2>2, ProofReserveIsNat, LimitGrows
  <2>4. QED BY <2>1, <2>2, <2>3, PotOfSolvent
<1>7. /\ LastIsOpen(executionOrder[r], milestones[r])
      /\ OperationalOf(requests[r]) >= open * ProofReserve(cap)
      /\ requests[r].operationalSpent <= seen * limit
      /\ Priced(requests[r])
  BY <1>5 DEF Held, Reserved
<1>8. LastIsOpen(executionOrder[r], ms)
  <2>1. \A k \in MilestoneIds : /\ ms[k].status = "Paid" <=> milestones[r][k].status = "Paid"
                                /\ Value(ms[k]) = Value(milestones[r][k])
    BY <1>1, <1>3, <1>4
  <2>2. QED BY <2>1, <1>2, <1>7, LastKept
<1>9. open \in Nat /\ seen \in Nat
  BY CountsAreNat
<1> HIDE DEF open, seen, limit
<1>10. CASE old.proofSubmissionReimbursed
  <2>1. paid = 0
    BY <1>10 DEF paid
  <2>2. \A k \in MilestoneIds :
          /\ ms[k].status = "Paid" <=> milestones[r][k].status = "Paid"
          /\ ms[k].proofSubmissionReimbursed = milestones[r][k].proofSubmissionReimbursed
    <3>1. new.proofSubmissionReimbursed = old.proofSubmissionReimbursed
      BY <1>3, <1>10
    <3>2. QED BY <3>1, <1>1, <1>3, <1>4
  <2>3. Cardinality(OpenIds(ms, n)) = open /\ Cardinality(SeenIds(ms, n)) = seen
    BY <2>2, CountsKept DEF open, seen
  <2>4. OperationalOf(requests'[r]) = OperationalOf(requests[r])
    BY <2>1, <1>5, <1>6 DEF OperationalOf
  <2>5. requests'[r].operationalSpent = requests[r].operationalSpent
    BY <2>1, <1>5, <1>6
  <2>6. Reserved(requests'[r], ms, n)
    BY <2>3, <2>4, <2>5, <1>5, <1>7 DEF Reserved, limit
  <2>7. QED BY <2>6, <1>1, <1>2, <1>5, <1>7, <1>8 DEF Held, Priced
<1>11. CASE ~old.proofSubmissionReimbursed
  <2> DEFINE now1 == Cardinality(OpenIds(ms, n))
             future == now1 * ProofReserve(cap)
  <2>1. OpenIds(ms, n) \subseteq OpenIds(milestones[r], n)
    BY <1>1, <1>3, <1>4 DEF OpenIds
  <2>2. now1 \in Nat /\ now1 <= open
    BY <2>1, CountsAreNat, SmallerCount DEF open
  <2>3. Cardinality(SeenIds(ms, n)) = seen + 1
    <3>1. SeenIds(ms, n) = SeenIds(milestones[r], n) \cup {m} /\ m \notin SeenIds(milestones[r], n)
      BY <1>1, <1>3, <1>4, <1>11 DEF SeenIds
    <3>2. QED BY <3>1, CountsAreNat, FS_AddElement DEF seen
  <2>4. /\ paid \in Nat /\ paid <= limit
        /\ IF OperationalOf(requests[r]) > future
           THEN paid <= OperationalOf(requests[r]) - future ELSE paid = 0
    <3>1. RemainingProofActions(executionOrder[r], ms) = now1
      BY CountById
    <3>2. paid = Reimbursement(r, ms, gas, price)
      BY <1>11 DEF paid
    <3> HIDE DEF now1, cap
    <3>3. QED BY <3>1, <3>2, ReimbursementIsLimited DEF OperationalRemaining, limit, cap
  <2>5. future \in Nat /\ future <= open * ProofReserve(cap)
    BY <2>2, <1>6, <1>9, TimesNat, TimesMonotone
  <2>6. open * ProofReserve(cap) \in Nat /\ seen * limit \in Nat /\ (seen + 1) * limit = seen * limit + limit
    BY <1>6, <1>9, TimesNat
  <2> HIDE DEF future, cap, now1
  <2>7. OperationalOf(requests'[r]) = OperationalOf(requests[r]) - paid
        /\ OperationalOf(requests'[r]) >= future
    <3> DEFINE reserve == open * ProofReserve(cap)
               left == OperationalOf(requests[r])
    <3>1. reserve \in Nat /\ future <= reserve /\ left >= reserve /\ left \in Nat
      BY <2>5, <2>6, <1>6, <1>7
    <3>2. paid <= left
      <4> HIDE DEF reserve, left
      <4>1. QED BY <3>1, <2>4, <2>5 DEF left
    <3>3. OperationalOf(requests'[r]) = left - paid
      <4>1. /\ requests'[r].operationalAllowance - requests'[r].operationalSpent = left - paid
            /\ requests'[r].operationalAllowance \in Nat /\ requests'[r].operationalSpent \in Nat
        <5>1. requests[r].operationalAllowance \in Nat
          BY <1>2 DEF Requests
        <5>2. QED BY <5>1, <1>5, <1>6, <2>4
      <4> HIDE DEF left
      <4>2. left - paid \in Nat
        BY <3>1, <3>2, <2>4
      <4>3. QED BY <4>1, <4>2 DEF OperationalOf
    <3> HIDE DEF reserve, left
    <3>4. left - paid >= future
      BY <3>1, <2>4, <2>5 DEF left
    <3>5. QED BY <3>3, <3>4 DEF left
  <2>8. requests'[r].operationalSpent <= (seen + 1) * limit
    <3> DEFINE product == seen * limit
    <3>1. requests'[r].operationalSpent = requests[r].operationalSpent + paid
          /\ requests[r].operationalSpent <= product /\ product \in Nat
      BY <1>5, <1>7, <2>6
    <3> HIDE DEF product
    <3>2. requests'[r].operationalSpent <= product + limit
      BY <3>1, <2>4, <1>6
    <3>3. QED BY <3>2, <2>6 DEF product
  <2>9. Reserved(requests'[r], ms, n)
    BY <2>3, <2>7, <2>8, <1>5 DEF Reserved, limit, future, now1, cap
  <2>10. QED BY <2>9, <1>1, <1>2, <1>5, <1>7, <1>8 DEF Held, Priced
<1>12. QED BY <1>3, <1>10, <1>11

(* An approval finds its shipment running, or there is nothing to pay from. *)
(* The last one leaves neither escrow nor reserve; any other leaves the     *)
(* last milestone open, for it was not that one's turn.                     *)
LEMMA ApproveHeld ==
  ASSUME IInv, NEW r \in RequestIds, Sound(r), Balanced(r), Held(r), NEW m \in MilestoneIds, NEW k,
         ApproveMilestone(r, m, k)
  PROVE  Held(r)'
<1> DEFINE old == milestones[r]
           new == [old[m] EXCEPT !.status = "Paid"]
           ms == [old EXCEPT ![m] = new]
           n == nextMilestoneId[r]
           order == executionOrder[r]
           amount == old[m].payoutAmount + old[m].additionalPayoutAmount
           completed == AllPaid(order, ms)
           returned == IF completed THEN OperationalRemaining(r) ELSE 0
<1>1. /\ MilestoneExists(r, m) /\ UNCHANGED <<nextMilestoneId, executionOrder>>
      /\ amount > 0 /\ EscrowOf(requests[r]) >= amount
      /\ milestones' = [milestones EXCEPT ![r] = ms]
      /\ requests' = [requests EXCEPT ![r].releasedAmount = @ + amount,
                                      ![r].status = IF completed THEN "Completed" ELSE @,
                                      ![r].operationalSpent = @ + returned]
  BY DEF ApproveMilestone, MayReview, EscrowBalance
<1>2. /\ requests \in [RequestIds -> Requests] /\ old \in [MilestoneIds -> Milestones]
      /\ order \in Seq(MilestoneIds) /\ milestones'[r] = ms
  BY <1>1, StateTypes
<1>3. /\ new.status = "Paid" /\ Value(new) = Value(old[m]) /\ amount \in Nat
      /\ new.proofSubmissionReimbursed = old[m].proofSubmissionReimbursed
  <2>1. old[m] \in Milestones
    BY <1>2
  <2>2. QED BY <2>1 DEF Value, Milestones
<1>4. Running(requests[r])
  <2> HIDE DEF amount
  <2>1. EscrowOf(requests[r]) # 0
    BY <1>1, <1>3
  <2>2. QED BY <2>1 DEF Held, Emptied
<1> HIDE DEF new
<1>5. ms[m] = new /\ \A i \in MilestoneIds : i # m => ms[i] = old[i]
  BY <1>2
<1>6. /\ requests[r] \in Requests /\ Solvent(requests[r])
      /\ OperationalOf(requests[r]) = requests[r].operationalAllowance - requests[r].operationalSpent
      /\ OperationalOf(requests[r]) \in Nat
  <2>1. requests[r] \in Requests /\ Solvent(requests[r])
    BY DEF IInv, RequestsOK
  <2>2. QED BY <2>1, PotOfSolvent
<1> HIDE DEF ms, completed, returned, amount
<1>7. /\ requests'[r].status = IF completed THEN "Completed" ELSE requests[r].status
      /\ requests'[r].operationalSpent = requests[r].operationalSpent + returned
      /\ requests'[r].operationalAllowance = requests[r].operationalAllowance
      /\ requests'[r].gasPriceCap = requests[r].gasPriceCap
      /\ requests'[r].shipper = requests[r].shipper
      /\ requests'[r].proposedAmount = requests[r].proposedAmount
  BY <1>1, <1>2 DEF Requests
<1>8. Priced(requests'[r])
  BY <1>7 DEF Held, Priced
<1>9. CASE completed
  <2>1. ~Running(requests'[r])
    BY <1>7, <1>9 DEF Running
  <2>2. \A i \in MilestoneIds : i < n => ms[i].status = "Paid"
    <3>1. \A j \in DOMAIN order : ms[order[j]].status = "Paid"
      BY <1>9 DEF completed, AllPaid
    <3>2. \A i \in MilestoneIds : i < n => \E j \in DOMAIN order : order[j] = i
      BY OrderFacts
    <3> HIDE DEF order, n
    <3>3. QED BY <3>1, <3>2
  <2>3. DuePart(ms, n) = [i \in MilestoneIds |-> 0]
    BY <2>2 DEF DuePart
  <2>4. EscrowOf(requests'[r]) = SumOver(DuePart(ms, n))
    BY <1>1, <1>2, <1>4, ApproveBalanced
  <2>5. OperationalOf(requests'[r]) = 0
    <3>1. returned = OperationalOf(requests[r])
      BY <1>9 DEF returned, OperationalRemaining
    <3>2. requests'[r].operationalSpent = requests'[r].operationalAllowance
          /\ requests'[r].operationalAllowance \in Nat
      BY <3>1, <1>6, <1>7 DEF Requests
    <3>3. QED BY <3>2 DEF OperationalOf
  <2>6. QED BY <2>1, <2>3, <2>4, <2>5, <1>8, SumOfZeros DEF Held, Emptied
<1>10. CASE ~completed
  <2>1. /\ Running(requests'[r])
        /\ requests'[r].operationalSpent = requests[r].operationalSpent
        /\ OperationalOf(requests'[r]) = OperationalOf(requests[r])
    <3>1. returned = 0
      BY <1>10 DEF returned
    <3>2. requests'[r].operationalSpent = requests[r].operationalSpent
      BY <3>1, <1>6, <1>7 DEF Requests
    <3>3. QED BY <3>2, <1>4, <1>7, <1>10 DEF Running, OperationalOf
  <2>2. LastIsOpen(order, old) /\ Reserved(requests[r], old, n)
    BY <1>4 DEF Held
  <2>3. LastIsOpen(order, ms)
    <3> DEFINE last == Len(order)
    <3>1. /\ last \in Nat /\ DOMAIN order = 1 .. last /\ last \in DOMAIN order
          /\ order[last] \in MilestoneIds
      BY <2>2, <1>2 DEF LastIsOpen
    <3>2. PICK i \in DOMAIN order : ms[order[i]].status # "Paid"
      <4>1. order # <<>>
        BY <3>1
      <4>2. QED BY <4>1, <1>10 DEF completed, AllPaid
    <3>3. InOrder(order, ms)
      BY <1>1, <1>2, ApproveRight DEF Right, Sound
    <3>4. ms[order[last]].status # "Paid"
      <4>1. CASE i = last
        BY <4>1, <3>2
      <4>2. CASE i # last
        <5>1. i < last
          <6> HIDE DEF last, order
          <6>1. QED BY <4>2, <3>1
        <5> HIDE DEF last, order
        <5>2. QED BY <5>1, <3>1, <3>2, <3>3 DEF InOrder, Begun
      <4>3. QED BY <4>1, <4>2
    <3>5. Value(ms[order[last]]) = Value(old[order[last]])
      BY <3>1, <1>3, <1>5
    <3>6. QED BY <3>4, <3>5, <2>2 DEF LastIsOpen
  <2>4. SeenIds(ms, n) = SeenIds(old, n)
    <3>1. \A i \in MilestoneIds : ms[i].proofSubmissionReimbursed = old[i].proofSubmissionReimbursed
      BY <1>3, <1>5
    <3> HIDE DEF old, n
    <3>2. QED BY <3>1 DEF SeenIds
  <2>5. Cardinality(OpenIds(ms, n)) <= Cardinality(OpenIds(old, n))
        /\ Cardinality(OpenIds(ms, n)) \in Nat /\ Cardinality(OpenIds(old, n)) \in Nat
    <3>1. OpenIds(ms, n) \subseteq OpenIds(old, n)
      BY <1>3, <1>5 DEF OpenIds
    <3>2. QED BY <3>1, CountsAreNat, SmallerCount
  <2>6. Reserved(requests'[r], ms, n)
    <3> DEFINE reserve == ProofReserve(requests[r].gasPriceCap)
               before == Cardinality(OpenIds(old, n))
               after == Cardinality(OpenIds(ms, n))
    <3>1. reserve \in Nat
      <4>1. requests[r].gasPriceCap \in Nat
        BY <1>6 DEF Requests
      <4>2. QED BY <4>1, ProofReserveIsNat
    <3>2. after \in Nat /\ before \in Nat /\ after <= before
      BY <2>5
    <3>3. OperationalOf(requests[r]) >= before * reserve
      BY <2>2 DEF Reserved
    <3> HIDE DEF reserve, before, after
    <3>4. after * reserve \in Nat /\ before * reserve \in Nat /\ after * reserve <= before * reserve
      BY <3>1, <3>2, TimesNat, TimesMonotone
    <3>5. OperationalOf(requests[r]) >= after * reserve
      <4> DEFINE left == OperationalOf(requests[r])
      <4>1. left \in Nat /\ left >= before * reserve
        BY <3>3, <1>6
      <4> HIDE DEF left
      <4>2. left >= after * reserve
        BY <4>1, <3>4
      <4>3. QED BY <4>2 DEF left
    <3>6. QED BY <3>5, <2>1, <2>2, <2>4, <1>7 DEF Reserved, after, reserve
  <2>7. QED BY <2>1, <2>3, <2>6, <1>1, <1>2, <1>8 DEF Held
<1>11. QED BY <1>9, <1>10

-----------------------------------------------------------------------------
(* Settlement and the market.                                               *)

LEMMA RefundHeld ==
  ASSUME IInv, NEW r \in RequestIds, Held(r), Refund(r)
  PROVE  Held(r)'
<1> DEFINE remaining == EscrowBalance(r)
           operational == OperationalRemaining(r)
<1>1. requests' = [requests EXCEPT ![r].refundedAmount = @ + remaining,
                                   ![r].operationalSpent = @ + operational,
                                   ![r].status = "Refunded"]
  BY DEF Refund
<1>2. /\ requests \in [RequestIds -> Requests] /\ requests[r] \in Requests
      /\ remaining = requests[r].totalAmount - requests[r].releasedAmount - requests[r].refundedAmount
      /\ operational = requests[r].operationalAllowance - requests[r].operationalSpent
  <2>1. requests[r] \in Requests /\ Solvent(requests[r])
    BY DEF IInv, RequestsOK
  <2>2. QED BY <2>1, StateTypes, PotOfSolvent DEF EscrowBalance, OperationalRemaining
<1> HIDE DEF remaining, operational
<1>3. /\ requests'[r].refundedAmount = requests[r].refundedAmount + remaining
      /\ requests'[r].operationalSpent = requests[r].operationalSpent + operational
      /\ requests'[r].status = "Refunded"
      /\ requests'[r].totalAmount = requests[r].totalAmount
      /\ requests'[r].releasedAmount = requests[r].releasedAmount
      /\ requests'[r].operationalAllowance = requests[r].operationalAllowance
      /\ requests'[r].shipper = requests[r].shipper
      /\ requests'[r].proposedAmount = requests[r].proposedAmount
  BY <1>1, <1>2 DEF Requests
<1>4. EscrowOf(requests'[r]) = 0
  BY <1>2, <1>3 DEF EscrowOf, Requests
<1>5. OperationalOf(requests'[r]) = 0
  <2>1. requests'[r].operationalSpent = requests'[r].operationalAllowance
        /\ requests'[r].operationalAllowance \in Nat
    BY <1>2, <1>3 DEF Requests
  <2>2. QED BY <2>1 DEF OperationalOf
<1>6. QED BY <1>3, <1>4, <1>5 DEF Held, Priced, Running, Emptied

(* A raised gas price cap is one that the enlarged allowance covers.        *)
LEMMA TopUpHeld ==
  ASSUME IInv, NEW r \in RequestIds, Sound(r), Held(r), NEW amount \in Nat,
         TopUpOperationalAllowance(r, amount)
  PROVE  Held(r)'
<1> DEFINE old == requests[r]
           ms == milestones[r]
           n == nextMilestoneId[r]
           topped == [old EXCEPT !.operationalAllowance = @ + amount]
           actions == RemainingProofActions(executionOrder[r], ms)
           cap == FundedCap(topped, actions)
           raised == actions > 0 /\ cap > topped.gasPriceCap
           new == IF raised THEN [topped EXCEPT !.gasPriceCap = cap] ELSE topped
           price == IF raised THEN cap ELSE old.gasPriceCap
           left == OperationalOf(old) + amount
           seen == Cardinality(SeenIds(ms, n))
<1>1. /\ requests' = [requests EXCEPT ![r] = new] /\ Active(r)
      /\ UNCHANGED <<milestones, nextMilestoneId, executionOrder>>
  BY DEF TopUpOperationalAllowance
<1>2. old \in Requests /\ Solvent(old) /\ requests'[r] = new
  BY <1>1, StateTypes DEF IInv, RequestsOK
<1>3. /\ OperationalOf(old) = old.operationalAllowance - old.operationalSpent
      /\ OperationalOf(old) \in Nat /\ left \in Nat
      /\ old.operationalAllowance \in Nat /\ old.operationalSpent \in Nat /\ old.gasPriceCap \in Nat
  <2>1. /\ OperationalOf(old) = old.operationalAllowance - old.operationalSpent
        /\ OperationalOf(old) \in Nat
    BY <1>2, PotOfSolvent
  <2>2. /\ old.operationalAllowance \in Nat /\ old.operationalSpent \in Nat /\ old.gasPriceCap \in Nat
    BY <1>2 DEF Requests
  <2> HIDE DEF old
  <2>3. QED BY <2>1, <2>2
<1>4. actions = Cardinality(OpenIds(ms, n)) /\ actions \in Nat /\ seen \in Nat
  BY CountById, CountsAreNat
<1>5. Running(old)
  BY <1>1 DEF Active, Running
<1>6. /\ LastIsOpen(executionOrder[r], ms) /\ Priced(old)
      /\ OperationalOf(old) >= actions * ProofReserve(old.gasPriceCap)
      /\ old.operationalSpent <= seen * ReimbursementLimit(old.gasPriceCap)
  BY <1>4, <1>5 DEF Held, Reserved
<1>7. cap = left \div (actions * ProofReserve(1))
  <2>1. topped.operationalAllowance - topped.operationalSpent = left
    BY <1>2, <1>3 DEF Requests
  <2> HIDE DEF topped, left, actions
  <2>2. QED BY <2>1 DEF FundedCap
<1>8. topped.gasPriceCap = old.gasPriceCap
  BY <1>2 DEF Requests
<1>9. /\ new.gasPriceCap = price /\ new.operationalSpent = old.operationalSpent
      /\ new.operationalAllowance = old.operationalAllowance + amount
      /\ new.status = old.status /\ new.shipper = old.shipper
      /\ new.proposedAmount = old.proposedAmount
  <2> HIDE DEF cap, actions
  <2>1. QED BY <1>2 DEF Requests
<1> HIDE DEF cap, actions, seen, topped
<1>10. OperationalOf(new) = left
  <2> HIDE DEF new
  <2>1. new.operationalAllowance - new.operationalSpent = left
        /\ new.operationalAllowance \in Nat /\ new.operationalSpent \in Nat
    BY <1>3, <1>9
  <2> HIDE DEF left
  <2>2. QED BY <2>1, <1>3 DEF OperationalOf
<1>11. /\ price \in Nat /\ old.gasPriceCap <= price
       /\ left >= actions * ProofReserve(price)
  <2>1. CASE raised
    <3>1. cap \in Nat /\ actions * ProofReserve(cap) <= left
      <4>1. actions > 0
        BY <2>1
      <4> HIDE DEF left
      <4>2. QED BY <4>1, <1>3, <1>4, <1>7, CapIsCovered
    <3>2. price = cap /\ cap > old.gasPriceCap
      BY <2>1, <1>8
    <3> DEFINE needed == actions * ProofReserve(cap)
    <3>3. needed \in Nat
      BY <3>1, <1>4, ProofReserveIsNat, TimesNat
    <3> HIDE DEF left, price, old, needed
    <3>4. left >= needed
      BY <3>1, <3>3, <1>3 DEF needed
    <3>5. QED BY <3>1, <3>2, <3>4, <1>3 DEF needed
  <2>2. CASE ~raised
    <3>1. price = old.gasPriceCap
      BY <2>2
    <3> DEFINE needed == actions * ProofReserve(old.gasPriceCap)
    <3>2. needed \in Nat /\ OperationalOf(old) >= needed
      BY <1>3, <1>4, <1>6, ProofReserveIsNat, TimesNat
    <3> HIDE DEF needed, price
    <3>3. left >= needed
      BY <3>2, <1>3
    <3> HIDE DEF left
    <3>4. QED BY <3>1, <3>3, <1>3 DEF needed
  <2>3. QED BY <2>1, <2>2
<1> HIDE DEF raised, price, new, left
<1>12. old.operationalSpent <= seen * ReimbursementLimit(price)
  <2> DEFINE low == ReimbursementLimit(old.gasPriceCap)
             high == ReimbursementLimit(price)
  <2>1. low \in Nat /\ high \in Nat /\ low <= high
    BY <1>3, <1>11, LimitGrows
  <2> HIDE DEF low, high
  <2>2. seen * low \in Nat /\ seen * high \in Nat /\ seen * low <= seen * high
    BY <2>1, <1>4, TimesNat, TimesMonotone
  <2>3. old.operationalSpent <= seen * low
    BY <1>6 DEF low
  <2> HIDE DEF old
  <2>4. old.operationalSpent <= seen * high
    BY <2>2, <2>3, <1>3
  <2>5. QED BY <2>4 DEF high
<1>13. Reserved(new, ms, n)
  BY <1>4, <1>9, <1>10, <1>11, <1>12 DEF Reserved, seen
<1>14. Running(new) /\ Priced(new)
  BY <1>5, <1>6, <1>9 DEF Running, Priced
<1> HIDE DEF old
<1>15. QED BY <1>1, <1>2, <1>6, <1>13, <1>14 DEF Held

LEMMA CancelHeld ==
  ASSUME IInv, NEW r \in RequestIds, Held(r), CancelRequest(r)
  PROVE  Held(r)'
<1>1. /\ requests' = [requests EXCEPT ![r].status = "Cancelled"]
      /\ requests \in [RequestIds -> Requests] /\ requests[r].status = "Open"
  BY StateTypes DEF CancelRequest, Requests, RequestStatus
<1>2. requests'[r] = [requests[r] EXCEPT !.status = "Cancelled"]
  BY <1>1
<1>3. /\ Priced(requests[r]) /\ Emptied(requests[r])
  BY <1>1 DEF Held, Running
<1>4. Priced(requests'[r]) /\ Emptied(requests'[r]) /\ ~Running(requests'[r])
  BY <1>1, <1>2, <1>3 DEF Requests, Priced, Emptied, Running, EscrowOf, OperationalOf
<1>5. QED BY <1>4 DEF Held

LEMMA CreateHeld ==
  ASSUME IInv, NEW u \in Users, NEW deadline, NEW amount, CreateRequest(u, deadline, amount),
         NEW q \in RequestIds, q = nextRequestId
  PROVE  Held(q)'
<1> DEFINE new == [NoRequest EXCEPT !.shipper = u, !.deadline = deadline, !.proposedAmount = amount]
<1>1. /\ requests' = [requests EXCEPT ![q] = new] /\ requests \in [RequestIds -> Requests]
      /\ amount > 0
  BY StateTypes DEF CreateRequest
<1>2. requests'[q] = new
  BY <1>1
<1>3. Priced(new) /\ Emptied(new) /\ ~Running(new)
  BY <1>1 DEF NoRequest, Priced, Emptied, Running, EscrowOf, OperationalOf
<1> HIDE DEF new
<1>4. QED BY <1>2, <1>3 DEF Held

(* Funding pays in the first proof of every milestone of the plan.          *)
LEMMA FundHeld ==
  ASSUME IInv, NEW r \in RequestIds, Sound(r), Held(r), NEW p \in DOMAIN proposals[r],
         NEW price \in Nat, NEW allowance \in Nat, ApproveAndFund(r, p, price, allowance)
  PROVE  Held(r)'
<1> DEFINE plan == proposals[r][p].plan
           first == nextMilestoneId[r]
           n == Len(plan)
           amount == requests[r].proposedAmount
           carrier == proposals[r][p].carrier
           cap == allowance \div (n * ProofReserve(1))
           order == [i \in 1 .. n |-> first + i - 1]
           ms == [m \in MilestoneIds |->
                    IF m \in first .. first + n - 1
                    THEN [NoMilestone EXCEPT !.status = "PendingProof",
                                             !.payoutAmount = PayoutAmount(amount, plan, m - first + 1)]
                    ELSE milestones[r][m]]
<1>1. plan \in Seq(Nat) /\ ValidPlan(plan) /\ n \in Nat /\ n > 0 /\ n - 1 \in MilestoneIds
  <2>1. plan \in Seq(Nat) /\ ValidPlan(plan)
    BY MinimumIsNat DEF IInv
  <2>2. n \in Nat /\ n \in 1 .. MaxInitialMilestones
    BY <2>1 DEF ValidPlan
  <2> HIDE DEF n
  <2>3. n > 0 /\ n - 1 \in MilestoneIds
    BY <2>2, NumberAssumption DEF MilestoneIds
  <2>4. QED BY <2>1, <2>2, <2>3
<1>2. /\ requests[r].status = "Open" /\ milestones' = [milestones EXCEPT ![r] = ms]
      /\ nextMilestoneId' = [nextMilestoneId EXCEPT ![r] = first + n]
      /\ executionOrder' = [executionOrder EXCEPT ![r] = order]
      /\ requests' = [requests EXCEPT ![r].carrier = carrier,
                                      ![r].totalAmount = amount,
                                      ![r].status = "Funded",
                                      ![r].operationalAllowance = allowance,
                                      ![r].gasPriceCap = cap]
      /\ RequestExists(r)
  BY DEF ApproveAndFund
<1>3. /\ first = 0 /\ Unfunded(requests[r]) /\ requests \in [RequestIds -> Requests]
      /\ requests[r].shipper \in Users
  BY <1>2 DEF IInv, RequestsOK, WasFunded, RequestExists
<1>4. amount \in Nat /\ amount > 0
  <2>1. amount \in Nat
    BY <1>3 DEF Requests
  <2>2. amount > 0
    BY <1>3 DEF Held, Priced
  <2>3. QED BY <2>1, <2>2
<1>5. order[n] = n - 1 /\ Len(order) = n
  <2> HIDE DEF n
  <2>1. QED BY <1>1, <1>3
<1>6. ms[n - 1].status # "Paid" /\ Value(ms[n - 1]) > 0
  <2>1. PayoutAmount(amount, plan, n) \in Nat /\ PayoutAmount(amount, plan, n) > 0
    <3>1. n \in 1 .. n
      <4> HIDE DEF n
      <4>1. QED BY <1>1
    <3>2. QED BY <3>1, <1>1, <1>4, PayoutIsNat, LastPayoutIsPositive
  <2>2. n - 1 \in first .. first + n - 1 /\ (n - 1) - first + 1 = n
    <3> HIDE DEF n, first
    <3>1. QED BY <1>1, <1>3
  <2>3. ms[n - 1] = [NoMilestone EXCEPT !.status = "PendingProof",
                                        !.payoutAmount = PayoutAmount(amount, plan, n)]
    <3> HIDE DEF n, first, amount, plan
    <3>1. QED BY <2>2, <1>1
  <2> HIDE DEF ms, n, amount, plan
  <2>4. QED BY <2>1, <2>3 DEF NoMilestone, Value
<1> HIDE DEF ms, cap, carrier, order
<1>7. /\ requests'[r].status = "Funded" /\ requests'[r].gasPriceCap = cap
      /\ requests'[r].operationalAllowance = allowance
      /\ requests'[r].operationalSpent = 0
      /\ requests'[r].shipper = requests[r].shipper
      /\ requests'[r].proposedAmount = requests[r].proposedAmount
  BY <1>2, <1>3 DEF Requests, Unfunded
<1>8. /\ milestones'[r] = ms /\ nextMilestoneId'[r] = n /\ executionOrder'[r] = order
  <2> HIDE DEF n
  <2>1. QED BY <1>1, <1>2, <1>3, StateTypes
<1>9. LastIsOpen(order, ms)
  <2> HIDE DEF n
  <2>1. QED BY <1>1, <1>5, <1>6 DEF LastIsOpen
<1>10. OperationalOf(requests'[r]) = allowance
  BY <1>7 DEF OperationalOf
<1>11. cap \in Nat /\ n * ProofReserve(cap) <= allowance
  <2> HIDE DEF n
  <2>1. QED BY <1>1, CapIsCovered DEF cap
<1>12. Cardinality(OpenIds(ms, n)) \in Nat /\ Cardinality(OpenIds(ms, n)) <= n
  <2> HIDE DEF n
  <2>1. OpenIds(ms, n) \subseteq 0 .. n - 1
    BY <1>1, NumberAssumption DEF OpenIds, MilestoneIds
  <2>2. IsFiniteSet(0 .. n - 1) /\ Cardinality(0 .. n - 1) = n
    <3>1. 0 \in Int /\ n - 1 \in Int
      BY <1>1
    <3>2. /\ IsFiniteSet(0 .. n - 1)
          /\ Cardinality(0 .. n - 1) = IF 0 > n - 1 THEN 0 ELSE (n - 1) - 0 + 1
      BY <3>1, FS_Interval
    <3>3. QED BY <3>2, <1>1
  <2>3. QED BY <2>1, <2>2, CountsAreNat, SmallerCount
<1>13. Reserved(requests'[r], ms, n)
  <2> DEFINE reserve == ProofReserve(cap)
             open == Cardinality(OpenIds(ms, n))
             seen == Cardinality(SeenIds(ms, n))
             limit == ReimbursementLimit(cap)
  <2>1. reserve \in Nat /\ seen \in Nat /\ limit \in Nat
    <3>1. cap \in Nat /\ cap <= cap
      BY <1>11
    <3>2. limit \in Nat
      BY <3>1, LimitGrows
    <3>3. QED BY <3>1, <3>2, CountsAreNat, ProofReserveIsNat
  <2>2. open \in Nat /\ open <= n /\ n * reserve <= allowance
    BY <1>11, <1>12
  <2> HIDE DEF reserve, open, seen, limit, n
  <2>3. open * reserve \in Nat /\ n * reserve \in Nat /\ open * reserve <= n * reserve /\ seen * limit \in Nat
    BY <1>1, <2>1, <2>2, TimesNat, TimesMonotone
  <2>4. allowance >= open * reserve /\ 0 <= seen * limit
    BY <2>2, <2>3
  <2>5. QED BY <2>4, <1>7, <1>10 DEF Reserved, reserve, open, seen, limit
<1> HIDE DEF n, amount
<1>14. QED BY <1>7, <1>8, <1>9, <1>13 DEF Held, Priced, Running

(* An amendment brings a reserve for each milestone it adds, and what it    *)
(* appends is worth something, as whatever was last before.                 *)
LEMMA AmendHeld ==
  ASSUME IInv, NEW r \in RequestIds, Sound(r), Held(r), NEW newDeadline \in Deadlines,
         NEW existing \in Fundings(r), NEW additions \in Additions(r), NEW operational \in Nat,
         Amends(r, newDeadline, existing, additions, operational)
  PROVE  Held(r)'
<1> DEFINE first == nextMilestoneId[r]
           n == Len(additions)
           old == milestones[r]
           order == executionOrder[r]
           targets == AdditionTargets(additions)
           new == WithInsertions(order, targets, first)
           added == first .. first + n - 1
           cap == requests[r].gasPriceCap
           funding == Allocated(existing, additions)
           ms == [m \in MilestoneIds |->
                    IF m \in first .. first + n - 1
                    THEN [NoMilestone EXCEPT !.status = "PendingProof",
                                             !.additionalPayoutAmount = additions[m - first + 1].amount]
                    ELSE IF m \in DOMAIN existing
                    THEN [milestones[r][m] EXCEPT !.additionalPayoutAmount = @ + existing[m]]
                    ELSE milestones[r][m]]
<1>1. /\ Active(r) /\ ManagerValidated(r, existing, additions)
      /\ milestones' = [milestones EXCEPT ![r] = ms]
      /\ executionOrder' = [executionOrder EXCEPT ![r] = new]
      /\ nextMilestoneId' = [nextMilestoneId EXCEPT ![r] = first + n]
      /\ Len(order) + n <= MaxTotalMilestones
      /\ operational >= n * ProofReserve(cap)
      /\ requests' = [requests EXCEPT ![r].deadline = newDeadline,
                                      ![r].totalAmount = @ + funding,
                                      ![r].operationalAllowance = @ + operational]
  BY DEF Amends, FinalizeAmendment
<1>2. /\ n \in Nat /\ targets \in Seq(Int) /\ Len(targets) = n /\ DOMAIN targets = 1 .. n
      /\ \A j \in DOMAIN targets : targets[j] = additions[j].insertBefore
      /\ existing \in [DOMAIN existing -> Nat]
      /\ \A j \in 1 .. n : additions[j].amount \in Nat /\ additions[j].amount > 0
  <2>1. /\ n \in Nat /\ targets \in Seq(Int) /\ Len(targets) = n /\ DOMAIN additions = 1 .. n
        /\ existing \in [DOMAIN existing -> Nat]
        /\ \A j \in 1 .. n : additions[j].amount \in Nat
    BY AmendmentInputs
  <2>2. \A j \in DOMAIN additions : additions[j].amount > 0
    BY <1>1 DEF ManagerValidated
  <2>3. DOMAIN targets = DOMAIN additions
        /\ \A j \in DOMAIN targets : targets[j] = additions[j].insertBefore
    BY DEF AdditionTargets
  <2>4. QED BY <2>1, <2>2, <2>3
<1>3. /\ first \in Nat /\ order \in Seq(MilestoneIds) /\ Len(order) = first
      /\ \A i \in DOMAIN order : order[i] \in MilestoneIds /\ order[i] < first
      /\ \A m \in MilestoneIds : m < first => \E i \in DOMAIN order : order[i] = m
      /\ old \in [MilestoneIds -> Milestones] /\ requests \in [RequestIds -> Requests]
  BY OrderFacts
<1>4. /\ Running(requests[r]) /\ LastIsOpen(order, old) /\ Reserved(requests[r], old, first)
      /\ Priced(requests[r])
  <2>1. Running(requests[r])
    BY <1>1 DEF Active, Running
  <2>2. QED BY <2>1 DEF Held
<1>5. ASSUME NEW m \in MilestoneIds
      PROVE  /\ m \in added => /\ ~(m < first) /\ m < first + n
                               /\ ms[m].status # "Paid" /\ Value(ms[m]) > 0
             /\ m \notin added => /\ m < first + n <=> m < first
                                  /\ ms[m].status = old[m].status
                                  /\ Value(ms[m]) >= Value(old[m])
                                  /\ Value(ms[m]) \in Nat /\ Value(old[m]) \in Nat
                                  /\ ms[m].proofSubmissionReimbursed = old[m].proofSubmissionReimbursed
  <2>1. old[m] \in Milestones
    BY <1>3
  <2>2. /\ m \in added => ~(m < first) /\ m < first + n
        /\ m \notin added => (m < first + n <=> m < first)
        /\ m \in added => m - first + 1 \in 1 .. n
    <3> HIDE DEF first, n, ms, old
    <3>1. m \in Int /\ m >= 0 /\ n \in Nat /\ first \in Nat
      BY <1>2, <1>3, NumberAssumption DEF MilestoneIds
    <3>2. QED BY <3>1
  <2>3. CASE m \in added
    <3>1. ms[m] = [NoMilestone EXCEPT !.status = "PendingProof",
                                      !.additionalPayoutAmount = additions[m - first + 1].amount]
      BY <2>3
    <3>2. additions[m - first + 1].amount \in Nat /\ additions[m - first + 1].amount > 0
      <4> HIDE DEF first, n
      <4>1. QED BY <1>2, <2>2, <2>3
    <3> HIDE DEF ms, first, n
    <3>3. ms[m].status # "Paid" /\ Value(ms[m]) > 0
      BY <3>1, <3>2 DEF NoMilestone, Value
    <3> HIDE DEF added
    <3>4. QED BY <2>2, <2>3, <3>3
  <2>4. CASE m \notin added /\ m \in DOMAIN existing
    <3>1. ms[m] = [old[m] EXCEPT !.additionalPayoutAmount = @ + existing[m]] /\ existing[m] \in Nat
      BY <1>2, <2>4
    <3> HIDE DEF ms, old, added, first, n
    <3>2. /\ ms[m].status = old[m].status
          /\ Value(ms[m]) >= Value(old[m]) /\ Value(ms[m]) \in Nat /\ Value(old[m]) \in Nat
          /\ ms[m].proofSubmissionReimbursed = old[m].proofSubmissionReimbursed
      BY <2>1, <3>1 DEF Milestones, Value
    <3>3. QED BY <2>2, <2>4, <3>2
  <2>5. CASE m \notin added /\ m \notin DOMAIN existing
    <3>1. ms[m] = old[m]
      BY <2>5
    <3> HIDE DEF ms, old, added, first, n
    <3>2. Value(ms[m]) >= Value(old[m]) /\ Value(ms[m]) \in Nat /\ Value(old[m]) \in Nat
      BY <2>1, <3>1 DEF Milestones, Value
    <3>3. QED BY <2>2, <2>5, <3>1, <3>2
  <2> HIDE DEF ms, old, added, first, n
  <2>6. QED BY <2>3, <2>4, <2>5
<1>6. milestones'[r] = ms /\ nextMilestoneId'[r] = first + n /\ executionOrder'[r] = new
  <2> HIDE DEF ms, first, n, new
  <2>1. QED BY <1>1, StateTypes
<1> HIDE DEF ms, funding
<1>7. /\ requests'[r].status = requests[r].status /\ requests'[r].gasPriceCap = cap
      /\ requests'[r].operationalAllowance = requests[r].operationalAllowance + operational
      /\ requests'[r].operationalSpent = requests[r].operationalSpent
      /\ requests'[r].shipper = requests[r].shipper
      /\ requests'[r].proposedAmount = requests[r].proposedAmount
  BY <1>1, <1>3 DEF Requests
<1>8. LastIsOpen(new, ms)
  <2>1. /\ Len(new) = Len(order) + Len(targets) /\ new \in Seq(MilestoneIds)
        /\ Len(order) > 0 =>
             \/ new[Len(new)] \in first .. first + Len(targets) - 1
             \/ new[Len(new)] = order[Len(order)]
    <3>1. \A j \in DOMAIN targets :
            \/ targets[j] = AppendMilestoneId
            \/ \E i \in DOMAIN order : order[i] = targets[j]
      <4> HIDE DEF targets, order, first, n
      <4>1. ASSUME NEW j \in DOMAIN targets, targets[j] # AppendMilestoneId
            PROVE  \E i \in DOMAIN order : order[i] = targets[j]
        <5>1. j \in DOMAIN additions
          BY DEF targets, AdditionTargets
        <5>2. MilestoneExists(r, targets[j])
          BY <1>1, <1>2, <4>1, <5>1 DEF ManagerValidated
        <5>3. QED BY <5>2, <1>3 DEF MilestoneExists, first
      <4>2. QED BY <4>1
    <3>2. first + Len(targets) <= MaxTotalMilestones
      BY <1>1, <1>2, <1>3
    <3> HIDE DEF targets, order, first, n
    <3>3. QED BY <3>1, <3>2, <1>2, <1>3, InsertionsKeepEverything DEF new
  <2>2. /\ Len(order) > 0 /\ Len(order) \in DOMAIN order /\ order[Len(order)] \in MilestoneIds
        /\ order[Len(order)] < first /\ old[order[Len(order)]].status # "Paid"
        /\ Value(old[order[Len(order)]]) > 0
    BY <1>3, <1>4 DEF LastIsOpen
  <2> HIDE DEF new, order, targets, first, n, old
  <2>3. Len(new) > 0 /\ new[Len(new)] \in MilestoneIds
    BY <2>1, <2>2, <1>2
  <2>4. CASE new[Len(new)] \in added
    BY <2>3, <2>4, <1>5 DEF LastIsOpen
  <2>5. CASE new[Len(new)] \notin added
    <3>1. new[Len(new)] = order[Len(order)]
      BY <2>1, <2>2, <2>5, <1>2 DEF added
    <3>2. ms[new[Len(new)]].status # "Paid" /\ Value(ms[new[Len(new)]]) > 0
      <4> DEFINE last == order[Len(order)]
      <4>1. /\ last \in MilestoneIds /\ last \notin added /\ old[last].status # "Paid"
            /\ Value(old[last]) > 0
        BY <2>2, <2>5, <3>1
      <4> HIDE DEF last
      <4>2. ms[last].status # "Paid" /\ Value(ms[last]) > 0
        BY <4>1, <1>5
      <4>3. QED BY <4>2, <3>1 DEF last
    <3>3. QED BY <2>3, <3>2 DEF LastIsOpen
  <2>6. QED BY <2>4, <2>5
<1> HIDE DEF new, order, targets, old
<1>9. Reserved(requests'[r], ms, first + n)
  <2> DEFINE reserve == ProofReserve(cap)
             before == Cardinality(OpenIds(old, first))
             after == Cardinality(OpenIds(ms, first + n))
             seen == Cardinality(SeenIds(old, first))
             seenAfter == Cardinality(SeenIds(ms, first + n))
             limit == ReimbursementLimit(cap)
             left == OperationalOf(requests[r])
             spent == requests[r].operationalSpent
  <2>1. /\ cap \in Nat /\ left = requests[r].operationalAllowance - spent /\ left \in Nat
        /\ spent \in Nat /\ requests[r].operationalAllowance \in Nat
    <3>1. requests[r] \in Requests /\ Solvent(requests[r])
      BY DEF IInv, RequestsOK
    <3>2. cap \in Nat /\ spent \in Nat /\ requests[r].operationalAllowance \in Nat
      BY <3>1 DEF Requests
    <3>3. QED BY <3>1, <3>2, PotOfSolvent
  <2>2. reserve \in Nat /\ limit \in Nat
    <3> HIDE DEF cap
    <3>1. QED BY <2>1, ProofReserveIsNat, LimitGrows
  <2>3. before \in Nat /\ after \in Nat /\ seen \in Nat /\ seenAfter \in Nat
    BY CountsAreNat
  <2>4. after <= before + n
    <3> HIDE DEF first, n
    <3>1. IsFiniteSet(added) /\ Cardinality(added) = n
      <4>1. first \in Int /\ first + n - 1 \in Int
        BY <1>2, <1>3
      <4>2. /\ IsFiniteSet(first .. first + n - 1)
            /\ Cardinality(first .. first + n - 1)
                 = IF first > first + n - 1 THEN 0 ELSE (first + n - 1) - first + 1
        BY <4>1, FS_Interval
      <4>3. QED BY <4>2, <1>2, <1>3
    <3>2. OpenIds(ms, first + n) \subseteq OpenIds(old, first) \cup added
      <4> HIDE DEF added
      <4>1. QED BY <1>5 DEF OpenIds
    <3>3. IsFiniteSet(OpenIds(old, first)) /\ IsFiniteSet(OpenIds(old, first) \cap added)
      BY CountsAreNat, FS_Intersection
    <3> HIDE DEF added
    <3>4. /\ IsFiniteSet(OpenIds(old, first) \cup added)
          /\ Cardinality(OpenIds(old, first) \cup added)
               = Cardinality(OpenIds(old, first)) + Cardinality(added)
                   - Cardinality(OpenIds(old, first) \cap added)
      BY <3>1, <3>3, FS_Union
    <3>5. Cardinality(OpenIds(old, first) \cap added) \in Nat
      BY <3>3, FS_CardinalityType
    <3>6. after <= Cardinality(OpenIds(old, first) \cup added)
      BY <3>2, <3>4, SmallerCount
    <3> DEFINE union == Cardinality(OpenIds(old, first) \cup added)
               both == Cardinality(OpenIds(old, first) \cap added)
    <3>7. /\ union = before + n - both /\ both \in Nat /\ after <= union
          /\ before \in Nat /\ after \in Nat /\ n \in Nat
      BY <3>1, <3>4, <3>5, <3>6, <2>3, <1>2
    <3> HIDE DEF union, both, before, after
    <3>8. QED BY <3>7
  <2>5. seen <= seenAfter
    <3>1. SeenIds(old, first) \subseteq SeenIds(ms, first + n)
      <4> HIDE DEF first, n, added
      <4>1. QED BY <1>5 DEF SeenIds
    <3>2. QED BY <3>1, CountsAreNat, SmallerCount
  <2>6. left >= before * reserve /\ spent <= seen * limit /\ operational >= n * reserve
    BY <1>1, <1>4 DEF Reserved
  <2>7. OperationalOf(requests'[r]) = left + operational
    <3>1. /\ requests'[r].operationalAllowance - requests'[r].operationalSpent = left + operational
          /\ requests'[r].operationalAllowance \in Nat /\ requests'[r].operationalSpent \in Nat
      BY <1>7, <2>1
    <3> HIDE DEF left
    <3>2. left + operational \in Nat
      BY <2>1
    <3>3. QED BY <3>1, <3>2 DEF OperationalOf
  <2> HIDE DEF before, after, seen, seenAfter, reserve, limit, left, spent, n
  <2>8. /\ after * reserve \in Nat /\ (before + n) * reserve \in Nat
        /\ after * reserve <= (before + n) * reserve
        /\ (before + n) * reserve = before * reserve + n * reserve
        /\ before * reserve \in Nat /\ n * reserve \in Nat
    <3>1. before + n \in Nat
      BY <2>3, <1>2
    <3> DEFINE all == before + n
    <3>2. all \in Nat /\ after <= all /\ reserve <= reserve
      BY <3>1, <2>2, <2>4
    <3> HIDE DEF all
    <3>3. after * reserve <= all * reserve
      BY <3>2, <2>2, <2>3, TimesMonotone
    <3>4. /\ after * reserve \in Nat /\ all * reserve \in Nat
          /\ before * reserve \in Nat /\ n * reserve \in Nat
      BY <3>2, <2>2, <2>3, <1>2, TimesNat
    <3>5. (before + n) * reserve = before * reserve + n * reserve
      BY <2>2, <2>3, <1>2
    <3>6. QED BY <3>3, <3>4, <3>5 DEF all
  <2>9. left + operational >= after * reserve
    BY <2>1, <2>6, <2>8
  <2>10. spent <= seenAfter * limit
    <3>1. seen * limit \in Nat /\ seenAfter * limit \in Nat /\ seen * limit <= seenAfter * limit
      BY <2>2, <2>3, <2>5, TimesNat, TimesMonotone
    <3>2. QED BY <3>1, <2>1, <2>6
  <2>11. QED BY <2>7, <2>9, <2>10, <1>7 DEF Reserved, reserve, limit, after, seenAfter, spent
<1>10. QED BY <1>4, <1>6, <1>7, <1>8, <1>9 DEF Held, Running, Priced

-----------------------------------------------------------------------------
(* Every step keeps it.                                                     *)

LEMMA HeldStepOK ==
  ASSUME IInv, OrderInv, WorthInv, HeldInv, \A q \in RequestIds : HappensTo(q)
  PROVE  HeldInv'
<1> SUFFICES ASSUME NEW q \in RequestIds PROVE Held(q)'
  BY DEF HeldInv
<1>1. Held(q) /\ Balanced(q) /\ Sound(q)
  BY DEF HeldInv, WorthInv, OrderInv
<1>2. CASE Same(q)
  BY <1>1, <1>2, UntouchedHeld
<1>3. CASE NewRequest(q)
  BY <1>3, CreateHeld DEF NewRequest
<1>4. CASE CancelRequest(q)
  BY <1>1, <1>4, CancelHeld
<1>5. CASE Funded(q)
  BY <1>1, <1>5, FundHeld DEF Funded
<1>6. CASE Proved(q)
  BY <1>1, <1>6, SubmitHeld, WithdrawHeld DEF Proved
<1>7. CASE Reviewed(q)
  BY <1>1, <1>7, RejectHeld, ApproveHeld DEF Reviewed
<1>8. CASE Refund(q)
  BY <1>1, <1>8, RefundHeld
<1>9. CASE ToppedUp(q)
  BY <1>1, <1>9, TopUpHeld DEF ToppedUp
<1>10. CASE Renegotiated(q)
  BY <1>1, <1>10, AmendHeld DEF Renegotiated
<1>11. QED
  BY <1>2, <1>3, <1>4, <1>5, <1>6, <1>7, <1>8, <1>9, <1>10 DEF HappensTo, Proceeds

LEMMA HeldInitOK == Init => HeldInv
<1> SUFFICES ASSUME Init, NEW r \in RequestIds PROVE Held(r)
  BY DEF HeldInv
<1>1. requests[r] = NoRequest
  BY DEF Init
<1>2. QED BY <1>1, AccountAssumption
          DEF NoRequest, Held, Priced, Running, Emptied, EscrowOf, OperationalOf

-----------------------------------------------------------------------------
(* The theorem.                                                             *)

(* What the invariants say of one request in the words of the properties.   *)
LEMMA HeldMeans ==
  ASSUME IInv, NEW r \in RequestIds, Sound(r), Balanced(r), Held(r)
  PROVE  /\ IF Active(r) THEN EscrowBalance(r) > 0 ELSE Pot(requests[r]) = 0
         /\ Active(r) =>
              /\ OperationalRemaining(r)
                   >= RemainingProofActions(executionOrder[r], milestones[r])
                        * ProofReserve(requests[r].gasPriceCap)
              /\ requests[r].operationalSpent <=
                   Cardinality({m \in MilestonesOf(r) : milestones[r][m].proofSubmissionReimbursed})
                     * ReimbursementLimit(requests[r].gasPriceCap)
<1> DEFINE ms == milestones[r]
           n == nextMilestoneId[r]
           order == executionOrder[r]
<1>1. CASE ~Active(r)
  <2>1. Emptied(requests[r])
    BY <1>1 DEF Held, Running, Active
  <2>2. QED BY <2>1, <1>1 DEF Emptied, Pot
<1>2. CASE Active(r)
  <2>1. Running(requests[r])
    BY <1>2 DEF Active, Running
  <2>2. /\ LastIsOpen(order, ms) /\ Reserved(requests[r], ms, n)
        /\ EscrowOf(requests[r]) = SumOver(DuePart(ms, n))
    BY <2>1 DEF Held, Balanced, Accounted
  <2>3. EscrowBalance(r) > 0
    <3> DEFINE last == order[Len(order)]
               due == DuePart(ms, n)
    <3>1. last \in MilestoneIds /\ last < n /\ ms[last].status # "Paid" /\ Value(ms[last]) > 0
      <4>1. Len(order) \in DOMAIN order
        BY <2>2, OrderFacts DEF LastIsOpen
      <4>2. QED BY <4>1, <2>2, OrderFacts DEF LastIsOpen
    <3>2. due \in [MilestoneIds -> Nat] /\ SumOver(due) \in Nat
      BY StateTypes, PartsAreNat
    <3>3. due[last] > 0
      <4> HIDE DEF last, ms, n
      <4>1. QED BY <3>1 DEF DuePart
    <3> HIDE DEF due, last
    <3>4. due[last] \in Nat /\ due[last] <= SumOver(due)
      BY <3>1, <3>2, MilestoneIdsFinite, TermBelowSum
    <3>5. QED BY <3>2, <3>3, <3>4, <2>2 DEF EscrowBalance, due
  <2>4. RemainingProofActions(order, ms) = Cardinality(OpenIds(ms, n))
    BY CountById
  <2>5. {m \in MilestonesOf(r) : milestones[r][m].proofSubmissionReimbursed} = SeenIds(ms, n)
    BY DEF MilestonesOf, MilestoneExists, SeenIds
  <2> HIDE DEF ms, n, order
  <2>6. QED BY <1>2, <2>2, <2>3, <2>4, <2>5 DEF Reserved, OperationalRemaining, ms, n, order
<1>3. QED BY <1>1, <1>2

LEMMA InvariantsFollowTheWork ==
  IInv /\ OrderInv /\ WorthInv /\ HeldInv => MoneyFollowsTheWork
<1> SUFFICES ASSUME IInv, OrderInv, WorthInv, HeldInv PROVE MoneyFollowsTheWork
  OBVIOUS
<1>1. EscrowMatchesMilestones
  BY WorthMeans
<1>2. ASSUME NEW r \in RequestIds PROVE Sound(r) /\ Balanced(r) /\ Held(r)
  BY DEF OrderInv, WorthInv, HeldInv
<1>3. PotIsHeldExactlyWhileActive
  BY <1>2, HeldMeans DEF PotIsHeldExactlyWhileActive
<1>4. ReserveCoversRemainingProofs
  BY <1>2, HeldMeans DEF ReserveCoversRemainingProofs
<1>5. OneReimbursementPerMilestone
  BY <1>2, HeldMeans DEF OneReimbursementPerMilestone, ReimbursementLimit
<1>6. QED BY <1>1, <1>3, <1>4, <1>5 DEF MoneyFollowsTheWork

(* Money follows the work, whatever the plans, the prices, the additions    *)
(* and the order of calls: the escrow is what the unpaid milestones are     *)
(* worth and never runs dry before they are settled, the reserve covers     *)
(* every proof to come at the request's own gas price cap, however often a  *)
(* proof is withdrawn and sent again, and what is over is empty.            *)
THEOREM MoneyAlwaysFollowsTheWork == Spec => []MoneyFollowsTheWork
<1>1. IInv /\ OrderInv /\ WorthInv /\ HeldInv => MoneyFollowsTheWork
  BY InvariantsFollowTheWork
<1>2. Init => WorthInv /\ HeldInv
  BY WorthInitOK, HeldInitOK
<1>3. IInv /\ OrderInv /\ WorthInv /\ HeldInv /\ [Next]_vars => (WorthInv /\ HeldInv)'
  BY StepCases, WorthStepOK, HeldStepOK
<1>4. QED BY <1>1, <1>2, <1>3, OrderInvariant, PTL DEF Spec

-----------------------------------------------------------------------------
(* Part IV.  The market.                                                    *)

-----------------------------------------------------------------------------
(* What each action does to the figures of its request.                     *)

FieldsKept(r) ==
  /\ requests'[r].shipper = requests[r].shipper /\ requests'[r].carrier = requests[r].carrier
  /\ WasFunded(requests[r]) /\ WasFunded(requests'[r])

FiguresKept(r) ==
  /\ EscrowOf(requests'[r]) = EscrowOf(requests[r])
  /\ OperationalOf(requests'[r]) = OperationalOf(requests[r])

LEMMA Figures ==
  ASSUME IInv, NEW r \in RequestIds
  PROVE  /\ requests \in [RequestIds -> Requests] /\ requests[r] \in Requests
         /\ EscrowOf(requests[r])
              = requests[r].totalAmount - requests[r].releasedAmount - requests[r].refundedAmount
         /\ EscrowOf(requests[r]) \in Nat
         /\ OperationalOf(requests[r])
              = requests[r].operationalAllowance - requests[r].operationalSpent
         /\ OperationalOf(requests[r]) \in Nat
         /\ requests[r].operationalAllowance \in Nat /\ requests[r].operationalSpent \in Nat
         /\ WasFunded(requests[r]) => requests[r].carrier \in Users
         /\ r < nextRequestId => requests[r].shipper \in Users
<1>1. /\ requests \in [RequestIds -> Requests] /\ requests[r] \in Requests /\ Solvent(requests[r])
      /\ WasFunded(requests[r]) => requests[r].carrier \in Users
      /\ r < nextRequestId => requests[r].shipper \in Users
  BY DEF IInv, RequestsOK
<1>2. requests[r].operationalAllowance \in Nat /\ requests[r].operationalSpent \in Nat
  BY <1>1 DEF Requests
<1>3. QED BY <1>1, <1>2, PotOfSolvent

LEMMA SubmitFigures ==
  ASSUME IInv, NEW r \in RequestIds, NEW m \in MilestoneIds, NEW uri, NEW gas \in Nat,
         NEW price \in Nat, SubmitProof(r, m, uri, gas, price)
  PROVE  /\ FieldsKept(r) /\ Running(requests[r]) /\ Running(requests'[r])
         /\ EscrowOf(requests'[r]) = EscrowOf(requests[r])
         /\ \E paid \in 0 .. OperationalOf(requests[r]) :
              /\ OperationalOf(requests'[r]) = OperationalOf(requests[r]) - paid
              /\ cargo' = Transfer(cargo, Escrow, requests[r].carrier, paid)
<1> DEFINE ms == [milestones[r] EXCEPT ![m] = Submitted(milestones[r][m], uri)]
           old == requests[r]
           paid == IF milestones[r][m].proofSubmissionReimbursed THEN 0
                   ELSE Reimbursement(r, ms, gas, price)
<1>1. /\ Active(r) /\ cargo' = Transfer(cargo, Escrow, requests[r].carrier, paid)
      /\ requests' = [requests EXCEPT ![r].status = "InProgress", ![r].operationalSpent = @ + paid]
  BY DEF SubmitProof
<1>2. paid \in Nat /\ paid <= OperationalOf(old) /\ OperationalOf(old) \in Nat
  <2>1. /\ Reimbursement(r, ms, gas, price) \in Nat
        /\ Reimbursement(r, ms, gas, price) <= OperationalOf(old)
    BY ReimbursementIsNat DEF OperationalRemaining
  <2>2. OperationalOf(old) \in Nat
    BY Figures
  <2> HIDE DEF ms, old
  <2>3. QED BY <2>1, <2>2
<1> HIDE DEF paid
<1>3. /\ requests'[r].status = "InProgress"
      /\ requests'[r].operationalSpent = old.operationalSpent + paid
      /\ requests'[r].operationalAllowance = old.operationalAllowance
      /\ requests'[r].totalAmount = old.totalAmount
      /\ requests'[r].releasedAmount = old.releasedAmount
      /\ requests'[r].refundedAmount = old.refundedAmount
      /\ requests'[r].shipper = old.shipper /\ requests'[r].carrier = old.carrier
  BY <1>1, Figures DEF Requests
<1>4. FieldsKept(r) /\ Running(requests[r]) /\ Running(requests'[r])
  BY <1>1, <1>3 DEF FieldsKept, Running, Active, WasFunded
<1>5. EscrowOf(requests'[r]) = EscrowOf(old)
  BY <1>3 DEF EscrowOf
<1>6. OperationalOf(requests'[r]) = OperationalOf(old) - paid
  <2>1. /\ OperationalOf(old) = old.operationalAllowance - old.operationalSpent
        /\ old.operationalAllowance \in Nat /\ old.operationalSpent \in Nat
    BY Figures
  <2> HIDE DEF old
  <2>2. QED BY <2>1, <1>2, <1>3 DEF OperationalOf
<1>7. paid \in 0 .. OperationalOf(old)
  <2> HIDE DEF old
  <2>1. QED BY <1>2
<1>8. QED BY <1>1, <1>4, <1>5, <1>6, <1>7

LEMMA ApproveFigures ==
  ASSUME IInv, NEW r \in RequestIds, Sound(r), Balanced(r), Held(r), NEW m \in MilestoneIds, NEW k,
         ApproveMilestone(r, m, k)
  PROVE  /\ FieldsKept(r) /\ Running(requests[r])
         /\ \E amount \in 1 .. EscrowOf(requests[r]) :
              /\ EscrowOf(requests'[r]) = EscrowOf(requests[r]) - amount
              /\ IF Running(requests'[r])
                 THEN /\ OperationalOf(requests'[r]) = OperationalOf(requests[r])
                      /\ cargo' = Transfer(Transfer(cargo, Escrow, requests[r].carrier, amount),
                                           Escrow, requests[r].shipper, 0)
                 ELSE /\ requests'[r].status = "Completed"
                      /\ OperationalOf(requests'[r]) = 0 /\ amount = EscrowOf(requests[r])
                      /\ cargo' = Transfer(Transfer(cargo, Escrow, requests[r].carrier, amount),
                                           Escrow, requests[r].shipper, OperationalOf(requests[r]))
<1> DEFINE old == requests[r]
           ms == [milestones[r] EXCEPT ![m].status = "Paid"]
           amount == milestones[r][m].payoutAmount + milestones[r][m].additionalPayoutAmount
           completed == AllPaid(executionOrder[r], ms)
           returned == IF completed THEN OperationalRemaining(r) ELSE 0
<1>1. /\ amount > 0 /\ EscrowOf(old) >= amount
      /\ requests' = [requests EXCEPT ![r].releasedAmount = @ + amount,
                                      ![r].status = IF completed THEN "Completed" ELSE @,
                                      ![r].operationalSpent = @ + returned]
      /\ cargo' = Transfer(Transfer(cargo, Escrow, old.carrier, amount), Escrow, old.shipper, returned)
  BY DEF ApproveMilestone, EscrowBalance
<1>2. amount \in Nat /\ EscrowOf(old) \in Nat
  <2>1. milestones[r][m] \in Milestones
    BY StateTypes
  <2>2. QED BY <2>1, Figures DEF Milestones
<1> HIDE DEF amount, completed, ms
<1>3. returned = IF completed THEN OperationalOf(old) ELSE 0
  BY DEF OperationalRemaining
<1> HIDE DEF returned
<1>4. /\ requests'[r].status = IF completed THEN "Completed" ELSE old.status
      /\ requests'[r].operationalSpent = old.operationalSpent + returned
      /\ requests'[r].operationalAllowance = old.operationalAllowance
      /\ requests'[r].totalAmount = old.totalAmount
      /\ requests'[r].releasedAmount = old.releasedAmount + amount
      /\ requests'[r].refundedAmount = old.refundedAmount
      /\ requests'[r].shipper = old.shipper /\ requests'[r].carrier = old.carrier
  BY <1>1, Figures DEF Requests
<1>5. Running(old)
  <2> HIDE DEF old
  <2>1. EscrowOf(old) # 0
    BY <1>1, <1>2
  <2>2. QED BY <2>1 DEF Held, Emptied, old
<1>6. FieldsKept(r)
  BY <1>4, <1>5 DEF FieldsKept, Running, WasFunded
<1>7. EscrowOf(requests'[r]) = EscrowOf(old) - amount
  <2>1. /\ old.totalAmount \in Nat /\ old.releasedAmount \in Nat /\ old.refundedAmount \in Nat
    BY Figures DEF Requests
  <2> HIDE DEF old
  <2>2. QED BY <2>1, <1>2, <1>4 DEF EscrowOf
<1>8. amount \in 1 .. EscrowOf(old)
  <2> HIDE DEF old
  <2>1. QED BY <1>1, <1>2
<1>9. CASE completed
  <2>1. requests'[r].status = "Completed" /\ ~Running(requests'[r])
    BY <1>4, <1>9 DEF Running
  <2>2. Emptied(requests'[r])
    BY <2>1, ApproveHeld DEF Held
  <2>3. amount = EscrowOf(old)
    <3> HIDE DEF old
    <3>1. QED BY <2>2, <1>2, <1>7 DEF Emptied
  <2>4. cargo' = Transfer(Transfer(cargo, Escrow, old.carrier, amount), Escrow, old.shipper,
                          OperationalOf(old))
    BY <1>1, <1>3, <1>9
  <2>5. QED BY <2>1, <2>2, <2>3, <2>4, <1>5, <1>6, <1>7, <1>8 DEF Emptied
<1>10. CASE ~completed
  <2>1. returned = 0 /\ Running(requests'[r])
    BY <1>3, <1>4, <1>5, <1>10 DEF Running
  <2>2. OperationalOf(requests'[r]) = OperationalOf(old)
    <3>1. old.operationalSpent \in Nat
      BY Figures
    <3> HIDE DEF old
    <3>2. requests'[r].operationalSpent = old.operationalSpent
      BY <2>1, <3>1, <1>4
    <3>3. QED BY <3>2, <1>4 DEF OperationalOf
  <2>3. cargo' = Transfer(Transfer(cargo, Escrow, old.carrier, amount), Escrow, old.shipper, 0)
    BY <1>1, <2>1
  <2>4. QED BY <2>1, <2>2, <2>3, <1>5, <1>6, <1>7, <1>8
<1>11. QED BY <1>9, <1>10

LEMMA RefundFigures ==
  ASSUME IInv, NEW r \in RequestIds, Held(r), RequestExists(r), Refund(r)
  PROVE  /\ FieldsKept(r) /\ Running(requests[r]) /\ requests'[r].status = "Refunded"
         /\ EscrowOf(requests'[r]) = 0 /\ OperationalOf(requests'[r]) = 0
         /\ cargo' = Transfer(cargo, Escrow, requests[r].shipper,
                              EscrowOf(requests[r]) + OperationalOf(requests[r]))
<1> DEFINE remaining == EscrowBalance(r)
           operational == OperationalRemaining(r)
<1>1. /\ requests' = [requests EXCEPT ![r].refundedAmount = @ + remaining,
                                      ![r].operationalSpent = @ + operational,
                                      ![r].status = "Refunded"]
      /\ cargo' = Transfer(cargo, Escrow, requests[r].shipper, remaining + operational)
      /\ remaining > 0
  BY DEF Refund
<1>2. remaining = EscrowOf(requests[r]) /\ operational = OperationalOf(requests[r])
  BY DEF EscrowBalance, OperationalRemaining
<1> HIDE DEF remaining, operational
<1>3. /\ requests'[r].status = "Refunded"
      /\ requests'[r].shipper = requests[r].shipper /\ requests'[r].carrier = requests[r].carrier
  BY <1>1, Figures DEF Requests
<1>4. Running(requests[r])
  <2>1. EscrowOf(requests[r]) # 0
    BY <1>1, <1>2
  <2>2. QED BY <2>1 DEF Held, Emptied
<1>5. Emptied(requests'[r])
  BY <1>3, RefundHeld DEF Held, Running
<1>6. QED BY <1>1, <1>2, <1>3, <1>4, <1>5 DEF FieldsKept, Running, WasFunded, Emptied

LEMMA TopUpFigures ==
  ASSUME IInv, NEW r \in RequestIds, NEW amount \in Nat, TopUpOperationalAllowance(r, amount)
  PROVE  /\ FieldsKept(r) /\ Running(requests[r]) /\ Running(requests'[r])
         /\ EscrowOf(requests'[r]) = EscrowOf(requests[r])
         /\ OperationalOf(requests'[r]) = OperationalOf(requests[r]) + amount
         /\ amount <= cargo[requests[r].shipper]
         /\ cargo' = Transfer(cargo, requests[r].shipper, Escrow, amount)
<1> DEFINE old == requests[r]
           topped == [old EXCEPT !.operationalAllowance = @ + amount]
           actions == RemainingProofActions(executionOrder[r], milestones[r])
           cap == FundedCap(topped, actions)
           raised == actions > 0 /\ cap > topped.gasPriceCap
           new == IF raised THEN [topped EXCEPT !.gasPriceCap = cap] ELSE topped
<1>1. /\ requests' = [requests EXCEPT ![r] = new] /\ Active(r)
      /\ cargo[old.shipper] >= amount /\ cargo' = Transfer(cargo, old.shipper, Escrow, amount)
  BY DEF TopUpOperationalAllowance
<1>2. old \in Requests /\ requests'[r] = new
  BY <1>1, Figures
<1> HIDE DEF cap, actions, raised
<1>3. /\ new.operationalAllowance = old.operationalAllowance + amount
      /\ new.operationalSpent = old.operationalSpent
      /\ new.totalAmount = old.totalAmount
      /\ new.releasedAmount = old.releasedAmount
      /\ new.refundedAmount = old.refundedAmount
      /\ new.status = old.status
      /\ new.shipper = old.shipper /\ new.carrier = old.carrier
  BY <1>2 DEF Requests
<1> HIDE DEF new
<1>4. FieldsKept(r) /\ Running(requests[r]) /\ Running(requests'[r])
  BY <1>1, <1>2, <1>3 DEF FieldsKept, Running, Active, WasFunded
<1>5. EscrowOf(new) = EscrowOf(old)
  BY <1>3 DEF EscrowOf
<1>6. OperationalOf(new) = OperationalOf(old) + amount
  <2>1. /\ OperationalOf(old) = old.operationalAllowance - old.operationalSpent
        /\ OperationalOf(old) \in Nat
        /\ old.operationalAllowance \in Nat /\ old.operationalSpent \in Nat
    BY Figures
  <2> HIDE DEF old
  <2>2. QED BY <2>1, <1>3 DEF OperationalOf
<1>7. amount <= cargo[old.shipper]
  BY <1>1
<1>8. QED BY <1>1, <1>2, <1>4, <1>5, <1>6, <1>7

LEMMA RenegotiatedFigures ==
  ASSUME IInv, NEW r \in RequestIds, NEW newDeadline \in Deadlines,
         NEW existing \in Fundings(r), NEW additions \in Additions(r), NEW operational \in Nat,
         Amends(r, newDeadline, existing, additions, operational)
  PROVE  /\ FieldsKept(r) /\ Running(requests[r]) /\ Running(requests'[r])
         /\ Allocated(existing, additions) \in Nat
         /\ EscrowOf(requests'[r]) = EscrowOf(requests[r]) + Allocated(existing, additions)
         /\ OperationalOf(requests'[r]) = OperationalOf(requests[r]) + operational
<1> DEFINE old == requests[r]
           funding == Allocated(existing, additions)
<1>1. /\ Active(r)
      /\ requests' = [requests EXCEPT ![r].deadline = newDeadline,
                                      ![r].totalAmount = @ + funding,
                                      ![r].operationalAllowance = @ + operational]
  BY DEF Amends, FinalizeAmendment
<1>2. funding \in Nat
  BY AllocatedIsNat
<1> HIDE DEF funding
<1>3. /\ requests'[r].operationalAllowance = old.operationalAllowance + operational
      /\ requests'[r].operationalSpent = old.operationalSpent
      /\ requests'[r].totalAmount = old.totalAmount + funding
      /\ requests'[r].releasedAmount = old.releasedAmount
      /\ requests'[r].refundedAmount = old.refundedAmount
      /\ requests'[r].status = old.status
      /\ requests'[r].shipper = old.shipper /\ requests'[r].carrier = old.carrier
  BY <1>1, Figures DEF Requests
<1>4. FieldsKept(r) /\ Running(requests[r]) /\ Running(requests'[r])
  BY <1>1, <1>3 DEF FieldsKept, Running, Active, WasFunded
<1>5. EscrowOf(requests'[r]) = EscrowOf(old) + funding
  <2>1. /\ old.totalAmount \in Nat /\ old.releasedAmount \in Nat /\ old.refundedAmount \in Nat
    BY Figures DEF Requests
  <2> HIDE DEF old
  <2>2. QED BY <2>1, <1>2, <1>3 DEF EscrowOf
<1>6. OperationalOf(requests'[r]) = OperationalOf(old) + operational
  <2>1. /\ OperationalOf(old) = old.operationalAllowance - old.operationalSpent
        /\ OperationalOf(old) \in Nat
        /\ old.operationalAllowance \in Nat /\ old.operationalSpent \in Nat
    BY Figures
  <2> HIDE DEF old
  <2>2. QED BY <2>1, <1>3 DEF OperationalOf
<1>7. QED BY <1>2, <1>4, <1>5, <1>6 DEF funding

LEMMA AmendFigures ==
  ASSUME IInv, NEW r \in RequestIds, NEW newDeadline \in Deadlines,
         NEW existing \in Fundings(r), NEW additions \in Additions(r), NEW operational \in Nat,
         ManagerAmends(r, newDeadline, existing, additions, operational)
  PROVE  /\ FieldsKept(r) /\ Running(requests[r]) /\ Running(requests'[r])
         /\ \E funding \in Nat :
              /\ EscrowOf(requests'[r]) = EscrowOf(requests[r]) + funding
              /\ OperationalOf(requests'[r]) = OperationalOf(requests[r]) + operational
              /\ funding + operational <= cargo[Manager]
              /\ cargo' = Transfer(cargo, Manager, Escrow, funding + operational)
<1> DEFINE funding == Allocated(existing, additions)
<1>1. /\ cargo[Manager] >= funding + operational
      /\ cargo' = Transfer(cargo, Manager, Escrow, funding + operational)
  BY DEF ManagerAmends
<1>2. /\ FieldsKept(r) /\ Running(requests[r]) /\ Running(requests'[r])
      /\ funding \in Nat
      /\ EscrowOf(requests'[r]) = EscrowOf(requests[r]) + funding
      /\ OperationalOf(requests'[r]) = OperationalOf(requests[r]) + operational
  BY ManagerAmendsIsAmends, RenegotiatedFigures
<1> HIDE DEF funding
<1>3. funding + operational <= cargo[Manager]
  <2>1. cargo[Manager] \in Nat
    BY DEF IInv, PoolOK, Accounts
  <2>2. QED BY <2>1, <1>1, <1>2
<1>4. QED BY <1>1, <1>2, <1>3

LEMMA FundFigures ==
  ASSUME IInv, NEW r \in RequestIds, NEW p \in DOMAIN proposals[r],
         NEW price, NEW allowance \in Nat, ApproveAndFund(r, p, price, allowance)
  PROVE  /\ requests'[r].shipper = requests[r].shipper
         /\ requests'[r].carrier = proposals[r][p].carrier
         /\ requests'[r].status = "Funded"
         /\ EscrowOf(requests'[r]) = requests[r].proposedAmount
         /\ OperationalOf(requests'[r]) = allowance
         /\ requests[r].proposedAmount \in Nat
<1> DEFINE cap == allowance \div (Len(proposals[r][p].plan) * ProofReserve(1))
           carrier == proposals[r][p].carrier
           amount == requests[r].proposedAmount
<1>1. /\ requests[r].status = "Open"
      /\ requests' = [requests EXCEPT ![r].carrier = carrier,
                                      ![r].totalAmount = amount,
                                      ![r].status = "Funded",
                                      ![r].operationalAllowance = allowance,
                                      ![r].gasPriceCap = cap]
  BY DEF ApproveAndFund
<1>2. /\ Unfunded(requests[r]) /\ requests \in [RequestIds -> Requests] /\ amount \in Nat
  <2>1. Unfunded(requests[r])
    BY <1>1 DEF IInv, RequestsOK, WasFunded
  <2>2. QED BY <2>1, Figures DEF Requests
<1> HIDE DEF cap, carrier, amount
<1>3. /\ requests'[r].totalAmount = amount /\ requests'[r].releasedAmount = 0
      /\ requests'[r].refundedAmount = 0 /\ requests'[r].operationalAllowance = allowance
      /\ requests'[r].operationalSpent = 0 /\ requests'[r].status = "Funded"
      /\ requests'[r].shipper = requests[r].shipper /\ requests'[r].carrier = carrier
  BY <1>1, <1>2 DEF Requests, Unfunded
<1>4. EscrowOf(requests'[r]) = amount /\ OperationalOf(requests'[r]) = allowance
  BY <1>2, <1>3 DEF EscrowOf, OperationalOf
<1>5. QED BY <1>2, <1>3, <1>4 DEF amount, carrier


-----------------------------------------------------------------------------
(* Whom the proposals of a request are from, and which of them counts.      *)

Indexed(list, active) ==
  /\ \A p \in DOMAIN list : list[p].status = "Active" <=> active[list[p].carrier] = p
  /\ \A u \in Users : active[u] # 0 => active[u] \in DOMAIN list /\ list[active[u]].carrier = u

Deal(r) ==
  /\ r >= nextRequestId => proposals[r] = <<>>
  /\ \A p \in DOMAIN proposals[r] :
       /\ proposals[r][p].carrier # requests[r].shipper
       /\ proposals[r][p].status = "Accepted" <=> acceptedProposal[r] = p
  /\ requests[r].status = "Open" => Indexed(proposals[r], activeProposal[r])
  /\ IF WasFunded(requests[r])
     THEN /\ acceptedProposal[r] \in DOMAIN proposals[r]
          /\ proposals[r][acceptedProposal[r]].carrier = requests[r].carrier
     ELSE acceptedProposal[r] = 0 /\ requests[r].carrier = NoUser

DealInv == \A r \in RequestIds : Deal(r)

DealSame(r) ==
  /\ proposals'[r] = proposals[r] /\ activeProposal'[r] = activeProposal[r]
  /\ acceptedProposal'[r] = acceptedProposal[r]
  /\ requests'[r].shipper = requests[r].shipper /\ requests'[r].carrier = requests[r].carrier
  /\ WasFunded(requests'[r]) <=> WasFunded(requests[r])
  /\ requests'[r].status = "Open" => requests[r].status = "Open"

LEMMA DealKept ==
  ASSUME NEW r \in RequestIds, Deal(r), DealSame(r),
         r >= nextRequestId' => r >= nextRequestId
  PROVE  Deal(r)'
BY DEF Deal, DealSame

LEMMA MarketTypes ==
  ASSUME IInv
  PROVE  /\ proposals \in [RequestIds -> Seq(Proposals)]
         /\ activeProposal \in [RequestIds -> [Users -> Nat]]
         /\ acceptedProposal \in [RequestIds -> Nat]
         /\ requests \in [RequestIds -> Requests]
         /\ nextRequestId \in Nat
         /\ \A r \in RequestIds : r \in Nat /\ Len(proposals[r]) \in Nat
                                  /\ DOMAIN proposals[r] = 1 .. Len(proposals[r])
<1>1. proposals \in [RequestIds -> Seq(Proposals)]
  BY DEF IInv, MarketOK
<1>2. QED BY <1>1 DEF IInv, MarketOK, RequestsOK, RequestIds

LEMMA RunningPhase ==
  ASSUME IInv, NEW r \in RequestIds, Running(requests[r])
  PROVE  /\ RequestExists(r) /\ Phase(r) = "running" /\ WasFunded(requests[r])
         /\ requests[r].shipper \in Users /\ requests[r].carrier \in Users
<1>1. WasFunded(requests[r])
  BY DEF Running, WasFunded
<1>2. r < nextRequestId
  <2>1. requests[r] # NoRequest
    BY <1>1 DEF WasFunded, NoRequest
  <2>2. r \in Nat /\ nextRequestId \in Nat /\ (r >= nextRequestId => requests[r] = NoRequest)
    BY MarketTypes DEF IInv, RequestsOK
  <2>3. QED BY <2>1, <2>2
<1>3. Phase(r) = "running"
  BY <1>2 DEF Phase, RequestExists, Running
<1>4. QED BY <1>1, <1>2, <1>3, Figures DEF RequestExists

LEMMA IndexedAppend ==
  ASSUME NEW list \in Seq(Proposals), NEW active \in [Users -> Nat], Indexed(list, active),
         NEW u \in Users, active[u] = 0, NEW new \in Proposals,
         new.carrier = u, new.status = "Active"
  PROVE  Indexed(Append(list, new), [active EXCEPT ![u] = Len(list) + 1])
<1> DEFINE longer == Append(list, new)
           n == Len(list)
           later == [active EXCEPT ![u] = n + 1]
<1>1. /\ n \in Nat /\ DOMAIN list = 1 .. n /\ DOMAIN longer = 1 .. n + 1
      /\ longer[n + 1] = new /\ \A p \in 1 .. n : longer[p] = list[p]
  OBVIOUS
<1>2. \A p \in 1 .. n : list[p].carrier \in Users
  <2>1. \A p \in 1 .. n : list[p] \in Proposals
    OBVIOUS
  <2>2. QED BY <2>1 DEF Proposals
<1>3. later[u] = n + 1 /\ \A w \in Users : w # u => later[w] = active[w]
  OBVIOUS
<1> HIDE DEF longer, later
<1>4. ASSUME NEW p \in 1 .. n + 1
      PROVE  longer[p].status = "Active" <=> later[longer[p].carrier] = p
  <2>1. CASE p = n + 1
    BY <2>1, <1>1, <1>3
  <2>2. CASE p # n + 1
    <3>1. p \in 1 .. n
      BY <2>2, <1>1
    <3> HIDE DEF n
    <3>2. longer[p] = list[p] /\ (list[p].status = "Active" <=> active[list[p].carrier] = p)
      BY <3>1, <1>1 DEF Indexed
    <3>3. CASE list[p].carrier = u
      BY <3>1, <3>2, <3>3, <1>1, <1>3
    <3>4. CASE list[p].carrier # u
      BY <3>1, <3>2, <3>4, <1>2, <1>3
    <3>5. QED BY <3>3, <3>4
  <2>3. QED BY <2>1, <2>2
<1>5. ASSUME NEW w \in Users, later[w] # 0
      PROVE  later[w] \in 1 .. n + 1 /\ longer[later[w]].carrier = w
  <2>1. CASE w = u
    BY <2>1, <1>1, <1>3
  <2>2. CASE w # u
    <3> HIDE DEF n
    <3>1. later[w] = active[w] /\ active[w] \in 1 .. n /\ list[active[w]].carrier = w
      BY <2>2, <1>1, <1>3, <1>5 DEF Indexed
    <3>2. QED BY <3>1, <1>1
  <2>3. QED BY <2>1, <2>2
<1>6. QED BY <1>1, <1>4, <1>5 DEF Indexed, longer, later

(* A proposal that was active is closed.                                    *)
LEMMA IndexedClose ==
  ASSUME NEW list \in Seq(Proposals), NEW active \in [Users -> Nat], Indexed(list, active),
         NEW p \in DOMAIN list, list[p].status = "Active", NEW outcome, outcome # "Active"
  PROVE  Indexed([list EXCEPT ![p].status = outcome], [active EXCEPT ![list[p].carrier] = 0])
<1> DEFINE u == list[p].carrier
           closed == [list EXCEPT ![p].status = outcome]
           later == [active EXCEPT ![u] = 0]
<1>1. /\ DOMAIN closed = DOMAIN list /\ DOMAIN list \subseteq Nat \ {0}
      /\ \A k \in DOMAIN list : list[k] \in Proposals
      /\ closed[p] = [list[p] EXCEPT !.status = outcome]
      /\ \A k \in DOMAIN list : k # p => closed[k] = list[k]
  OBVIOUS
<1>2. \A k \in DOMAIN list : list[k].carrier \in Users
  BY <1>1 DEF Proposals
<1>3. closed[p].status = outcome /\ closed[p].carrier = u
  BY <1>1 DEF Proposals
<1>4. u \in Users /\ active[u] = p
  BY <1>2 DEF Indexed
<1>5. later[u] = 0 /\ \A w \in Users : w # u => later[w] = active[w]
  BY <1>4
<1> HIDE DEF closed, later, u
<1>6. ASSUME NEW k \in DOMAIN list
      PROVE  closed[k].status = "Active" <=> later[closed[k].carrier] = k
  <2>1. CASE k = p
    BY <2>1, <1>1, <1>3, <1>5
  <2>2. CASE k # p
    <3>1. closed[k] = list[k] /\ (list[k].status = "Active" <=> active[list[k].carrier] = k)
      BY <2>2, <1>1 DEF Indexed
    <3>2. CASE list[k].carrier = u
      BY <3>1, <3>2, <2>2, <1>1, <1>4, <1>5
    <3>3. CASE list[k].carrier # u
      BY <3>1, <3>3, <1>2, <1>5
    <3>4. QED BY <3>2, <3>3
  <2>3. QED BY <2>1, <2>2
<1>7. ASSUME NEW w \in Users, later[w] # 0
      PROVE  later[w] \in DOMAIN list /\ closed[later[w]].carrier = w
  <2>1. w # u
    BY <1>5, <1>7
  <2>2. later[w] = active[w] /\ active[w] \in DOMAIN list /\ list[active[w]].carrier = w
    BY <2>1, <1>5, <1>7 DEF Indexed
  <2>3. active[w] # p
    BY <2>1, <2>2 DEF u
  <2>4. QED BY <2>2, <2>3, <1>1
<1>8. QED BY <1>1, <1>6, <1>7 DEF Indexed, closed, later, u

LEMMA ProposeDeal ==
  ASSUME IInv, NEW r \in RequestIds, Deal(r), NEW u \in Users, NEW plan \in Plans,
         ProposeMilestones(u, r, plan)
  PROVE  Deal(r)'
<1> DEFINE new == [carrier |-> u, status |-> "Active", plan |-> plan]
           list == proposals[r]
           active == activeProposal[r]
<1>1. /\ list \in Seq(Proposals) /\ active \in [Users -> Nat]
      /\ new \in Proposals /\ new.carrier = u /\ new.status = "Active"
  BY MarketTypes DEF Proposals, ProposalStatus
<1>2. /\ RequestExists(r) /\ requests[r].status = "Open" /\ u # requests[r].shipper
      /\ active[u] = 0 /\ UNCHANGED <<requests, nextRequestId, acceptedProposal>>
      /\ proposals' = [proposals EXCEPT ![r] = Append(@, new)]
      /\ activeProposal' = [activeProposal EXCEPT ![r][u] = Len(proposals[r]) + 1]
  BY DEF ProposeMilestones
<1>3. proposals'[r] = Append(list, new) /\ activeProposal'[r] = [active EXCEPT ![u] = Len(list) + 1]
  BY <1>2, MarketTypes
<1>4. ~WasFunded(requests[r]) /\ acceptedProposal[r] = 0 /\ requests[r].carrier = NoUser
  BY <1>2 DEF Deal, WasFunded
<1>5. Indexed(proposals'[r], activeProposal'[r])
  <2>1. Indexed(list, active) /\ active[u] = 0
    BY <1>2 DEF Deal
  <2> HIDE DEF list, active, new
  <2>2. Indexed(Append(list, new), [active EXCEPT ![u] = Len(list) + 1])
    BY <2>1, <1>1, IndexedAppend
  <2>3. QED BY <2>2, <1>3
<1>6. r < nextRequestId /\ r \in Nat /\ nextRequestId \in Nat
  BY <1>2, MarketTypes DEF RequestExists
<1>7. ASSUME NEW p \in DOMAIN proposals'[r]
      PROVE  /\ proposals'[r][p].carrier # requests[r].shipper
             /\ proposals'[r][p].status = "Accepted" <=> acceptedProposal[r] = p
  <2> HIDE DEF new
  <2>1. \/ p \in DOMAIN list /\ proposals'[r][p] = list[p]
        \/ p = Len(list) + 1 /\ proposals'[r][p] = new
    BY <1>1, <1>3
  <2>2. CASE p \in DOMAIN list /\ proposals'[r][p] = list[p]
    BY <2>2 DEF Deal
  <2>3. CASE p = Len(list) + 1 /\ proposals'[r][p] = new
    <3>1. Len(list) \in Nat
      BY <1>1
    <3> HIDE DEF list
    <3>2. p # 0
      BY <2>3, <3>1
    <3>3. QED BY <2>3, <3>2, <1>1, <1>2, <1>4
  <2>4. QED BY <2>1, <2>2, <2>3
<1>8. QED BY <1>2, <1>4, <1>5, <1>6, <1>7 DEF Deal

(* One proposal, which was active, is closed; the request stays as it is.   *)
LEMMA CloseDeal ==
  ASSUME IInv, NEW r \in RequestIds, Deal(r), NEW p \in DOMAIN proposals[r],
         proposals[r][p].status = "Active", NEW outcome \in {"Revoked", "Rejected"},
         CloseProposal(r, p, outcome), UNCHANGED <<requests, nextRequestId, acceptedProposal>>,
         RequestExists(r)
  PROVE  Deal(r)'
<1> DEFINE list == proposals[r]
           active == activeProposal[r]
<1>1. list \in Seq(Proposals) /\ active \in [Users -> Nat]
  BY MarketTypes
<1>2. /\ proposals'[r] = [list EXCEPT ![p].status = outcome]
      /\ activeProposal'[r] = [active EXCEPT ![list[p].carrier] = 0]
  BY MarketTypes DEF CloseProposal
<1>3. requests[r].status = "Open" => Indexed(proposals'[r], activeProposal'[r])
  <2> SUFFICES ASSUME requests[r].status = "Open" PROVE Indexed(proposals'[r], activeProposal'[r])
    OBVIOUS
  <2>1. Indexed(list, active)
    BY DEF Deal
  <2>2. p \in DOMAIN list /\ list[p].status = "Active"
    OBVIOUS
  <2> HIDE DEF list, active
  <2>3. outcome # "Active"
    OBVIOUS
  <2>4. Indexed([list EXCEPT ![p].status = outcome], [active EXCEPT ![list[p].carrier] = 0])
    BY <2>1, <2>2, <2>3, <1>1, IndexedClose
  <2>5. QED BY <2>4, <1>2
<1>4. /\ DOMAIN proposals'[r] = DOMAIN list
      /\ \A k \in DOMAIN list :
           /\ proposals'[r][k].carrier = list[k].carrier
           /\ proposals'[r][k].status = IF k = p THEN outcome ELSE list[k].status
  <2>1. \A k \in DOMAIN list : list[k] \in Proposals
    BY <1>1
  <2>2. /\ DOMAIN proposals'[r] = DOMAIN list
        /\ proposals'[r][p] = [list[p] EXCEPT !.status = outcome]
        /\ \A k \in DOMAIN list : k # p => proposals'[r][k] = list[k]
    BY <1>1, <1>2
  <2> HIDE DEF list
  <2>3. p \in DOMAIN list
    BY DEF list
  <2>4. QED BY <2>1, <2>2, <2>3 DEF Proposals
<1>5. r < nextRequestId /\ r \in Nat /\ nextRequestId \in Nat
  BY MarketTypes DEF RequestExists
<1>6. acceptedProposal[r] # p
  BY DEF Deal
<1>7. ASSUME NEW k \in DOMAIN list
      PROVE  /\ proposals'[r][k].carrier # requests[r].shipper
             /\ proposals'[r][k].status = "Accepted" <=> acceptedProposal[r] = k
  BY <1>4, <1>6 DEF Deal
<1>8. WasFunded(requests[r]) =>
        /\ acceptedProposal[r] \in DOMAIN proposals'[r]
        /\ proposals'[r][acceptedProposal[r]].carrier = requests[r].carrier
  BY <1>4 DEF Deal
<1>9. ~WasFunded(requests[r]) => acceptedProposal[r] = 0 /\ requests[r].carrier = NoUser
  BY DEF Deal
<1>10. QED BY <1>3, <1>4, <1>5, <1>7, <1>8, <1>9 DEF Deal

LEMMA FundDeal ==
  ASSUME IInv, NEW r \in RequestIds, Deal(r), NEW p \in DOMAIN proposals[r],
         NEW price, NEW allowance \in Nat, ApproveAndFund(r, p, price, allowance)
  PROVE  Deal(r)'
<1> DEFINE list == proposals[r]
<1>1. list \in Seq(Proposals) /\ acceptedProposal \in [RequestIds -> Nat] /\ p # 0
  BY MarketTypes
<1>2. /\ RequestExists(r) /\ requests[r].status = "Open" /\ list[p].status = "Active"
      /\ CloseProposal(r, p, "Accepted")
      /\ acceptedProposal' = [acceptedProposal EXCEPT ![r] = p]
      /\ UNCHANGED nextRequestId
  BY DEF ApproveAndFund
<1>3. /\ requests'[r].shipper = requests[r].shipper /\ requests'[r].carrier = list[p].carrier
      /\ requests'[r].status = "Funded"
  BY FundFigures
<1>4. proposals'[r] = [list EXCEPT ![p].status = "Accepted"]
  BY <1>2, MarketTypes DEF CloseProposal
<1>5. /\ DOMAIN proposals'[r] = DOMAIN list
      /\ \A k \in DOMAIN list :
           /\ proposals'[r][k].carrier = list[k].carrier
           /\ proposals'[r][k].status = IF k = p THEN "Accepted" ELSE list[k].status
  <2>1. \A k \in DOMAIN list : list[k] \in Proposals
    BY <1>1
  <2>2. /\ DOMAIN proposals'[r] = DOMAIN list
        /\ proposals'[r][p] = [list[p] EXCEPT !.status = "Accepted"]
        /\ \A k \in DOMAIN list : k # p => proposals'[r][k] = list[k]
    BY <1>1, <1>4
  <2> HIDE DEF list
  <2>3. p \in DOMAIN list
    BY DEF list
  <2>4. QED BY <2>1, <2>2, <2>3 DEF Proposals
<1>6. acceptedProposal'[r] = p /\ acceptedProposal[r] = 0
  BY <1>1, <1>2 DEF Deal, WasFunded
<1>7. r < nextRequestId /\ r \in Nat /\ nextRequestId \in Nat
  BY <1>2, MarketTypes DEF RequestExists
<1>8. ASSUME NEW k \in DOMAIN list
      PROVE  /\ proposals'[r][k].carrier # requests'[r].shipper
             /\ proposals'[r][k].status = "Accepted" <=> acceptedProposal'[r] = k
  <2>1. k # 0
    BY <1>1
  <2>2. QED BY <2>1, <1>3, <1>5, <1>6 DEF Deal
<1>9. WasFunded(requests'[r]) /\ requests'[r].status # "Open"
  BY <1>3 DEF WasFunded
<1>10. QED BY <1>2, <1>3, <1>5, <1>6, <1>7, <1>8, <1>9 DEF Deal

LEMMA CreateDeal ==
  ASSUME IInv, NEW r \in RequestIds, Deal(r), r = nextRequestId,
         NEW u \in Users, NEW deadline, NEW amount, CreateRequest(u, deadline, amount)
  PROVE  Deal(r)'
<1>1. proposals[r] = <<>> /\ nextRequestId \in Nat
  BY MarketTypes DEF Deal
<1>2. ~WasFunded(requests[r]) /\ requests[r].status = "Open"
  <2>1. requests[r] = NoRequest
    BY MarketTypes DEF IInv, RequestsOK
  <2>2. QED BY <2>1 DEF NoRequest, WasFunded
<1>3. /\ requests'[r].carrier = NoUser /\ requests'[r].status = "Open"
      /\ UNCHANGED <<proposals, activeProposal, acceptedProposal>>
      /\ nextRequestId' = nextRequestId + 1
  BY MarketTypes DEF CreateRequest, NoRequest
<1>4. ~WasFunded(requests'[r])
  BY <1>3 DEF WasFunded
<1>5. acceptedProposal[r] = 0 /\ Indexed(proposals[r], activeProposal[r])
  BY <1>2 DEF Deal
<1>6. DOMAIN proposals[r] = {}
  BY <1>1
<1>7. r < nextRequestId'
  BY <1>1, <1>3
<1>8. ~(r >= nextRequestId')
  BY <1>7, <1>1, <1>3
<1>9. QED BY <1>3, <1>4, <1>5, <1>6, <1>8 DEF Deal

(* Once a request is funded nothing touches its market any more.            *)
LEMMA FundedWork ==
  ASSUME IInv, OrderInv, WorthInv, HeldInv, NEW r \in RequestIds,
         CarrierStep(r) \/ ReviewStep(r) \/ SettlementStep(r) \/ ManagerStep(r)
  PROVE  UNCHANGED marketVars /\ (FieldsKept(r) \/ UNCHANGED requests)
<1>1. Sound(r) /\ Balanced(r) /\ Held(r)
  BY DEF OrderInv, WorthInv, HeldInv
<1>2. ASSUME RequestExists(r), Refund(r) PROVE UNCHANGED marketVars /\ FieldsKept(r)
  BY <1>1, <1>2, RefundFigures DEF Refund
<1>3. CASE CarrierStep(r)
  <2>1. ASSUME NEW m \in MilestoneIds, NEW uri \in ProofUris, NEW gas \in GasReadings,
               NEW price \in TxGasPrices, SubmitProof(r, m, uri, gas, price)
        PROVE  UNCHANGED marketVars /\ FieldsKept(r)
    <3>1. gas \in Nat /\ price \in Nat
      BY InputAssumption
    <3>2. UNCHANGED marketVars
      BY <2>1 DEF SubmitProof
    <3>3. QED BY <2>1, <3>1, <3>2, SubmitFigures
  <2>2. ASSUME NEW m, WithdrawProof(r, m) PROVE UNCHANGED marketVars /\ UNCHANGED requests
    BY <2>2 DEF WithdrawProof
  <2>3. QED BY <1>3, <2>1, <2>2 DEF CarrierStep
<1>4. CASE ReviewStep(r)
  <2>1. ASSUME NEW m, NEW n, RejectMilestone(r, m, n)
        PROVE  UNCHANGED marketVars /\ UNCHANGED requests
    BY <2>1 DEF RejectMilestone
  <2>2. ASSUME NEW m \in MilestoneIds, NEW n, ApproveMilestone(r, m, n)
        PROVE  UNCHANGED marketVars /\ FieldsKept(r)
    <3>1. UNCHANGED marketVars
      BY <2>2 DEF ApproveMilestone
    <3>2. QED BY <2>2, <3>1, <1>1, ApproveFigures
  <2>3. QED BY <1>4, <2>1, <2>2 DEF ReviewStep
<1>5. CASE SettlementStep(r)
  <2>1. ASSUME NEW amount, TipCarrier(r, amount) PROVE UNCHANGED marketVars /\ UNCHANGED requests
    BY <2>1 DEF TipCarrier
  <2>2. ASSUME NEW amount \in FundingAmounts, TopUpOperationalAllowance(r, amount)
        PROVE  UNCHANGED marketVars /\ FieldsKept(r)
    <3>1. amount \in Nat
      BY InputAssumption
    <3>2. UNCHANGED marketVars
      BY <2>2 DEF TopUpOperationalAllowance
    <3>3. QED BY <2>2, <3>1, <3>2, TopUpFigures
  <2>3. QED BY <1>2, <1>5, <2>1, <2>2 DEF SettlementStep, RefundRemaining
<1>6. CASE ManagerStep(r)
  <2>1. CASE IsAmended(r)
    <3>1. UNCHANGED marketVars
      <4>1. PICK newDeadline, existing, additions, operational :
              ManagerAmends(r, newDeadline, existing, additions, operational)
        BY <2>1 DEF IsAmended
      <4>2. QED BY <4>1 DEF ManagerAmends, FinalizeAmendment
    <3>2. QED BY <2>1, <3>1, AmendFigures DEF IsAmended
  <2>2. QED BY <1>2, <1>6, <2>1, ManagerActs
<1>7. QED BY <1>3, <1>4, <1>5, <1>6

(* What the open market does to its own request.                            *)
LEMMA MarketDeal ==
  ASSUME IInv, NEW r \in RequestIds, Deal(r), MarketStep(r)
  PROVE  Deal(r)'
<1>1. ASSUME NEW u \in Users, NEW plan \in Plans, ProposeMilestones(u, r, plan) PROVE Deal(r)'
  BY <1>1, ProposeDeal
<1>2. ASSUME NEW u \in Users, RevokeMilestoneProposal(u, r) PROVE Deal(r)'
  <2> DEFINE p == activeProposal[r][u]
  <2>1. /\ RequestExists(r) /\ requests[r].status = "Open" /\ p > 0
        /\ CloseProposal(r, p, "Revoked")
        /\ UNCHANGED <<requests, nextRequestId, acceptedProposal>>
    BY <1>2 DEF RevokeMilestoneProposal
  <2>2. p # 0
    BY <2>1, MarketTypes
  <2>3. p \in DOMAIN proposals[r] /\ proposals[r][p].carrier = u
    BY <2>1, <2>2 DEF Deal, Indexed
  <2>4. proposals[r][p].status = "Active"
    BY <2>1, <2>3 DEF Deal, Indexed
  <2> HIDE DEF p
  <2>5. QED BY <2>1, <2>3, <2>4, CloseDeal
<1>3. ASSUME NEW p, RejectMilestoneProposal(r, p) PROVE Deal(r)'
  <2>1. /\ RequestExists(r) /\ p \in DOMAIN proposals[r] /\ proposals[r][p].status = "Active"
        /\ CloseProposal(r, p, "Rejected")
        /\ UNCHANGED <<requests, nextRequestId, acceptedProposal>>
    BY <1>3 DEF RejectMilestoneProposal
  <2>2. QED BY <2>1, CloseDeal
<1>4. CASE CancelRequest(r)
  <2>1. /\ UNCHANGED <<proposals, activeProposal, acceptedProposal, nextRequestId>>
        /\ requests[r].status \in {"Open", "PendingApproval"}
        /\ requests' = [requests EXCEPT ![r].status = "Cancelled"]
    BY <1>4 DEF CancelRequest
  <2>2. /\ requests'[r].status = "Cancelled" /\ requests[r].status = "Open"
        /\ requests'[r].shipper = requests[r].shipper /\ requests'[r].carrier = requests[r].carrier
    BY <2>1, MarketTypes DEF Requests, RequestStatus
  <2>3. DealSame(r)
    BY <2>1, <2>2 DEF DealSame, WasFunded
  <2>4. QED BY <2>1, <2>3, DealKept
<1>5. ASSUME NEW p \in DOMAIN proposals[r], NEW price \in ReferenceGasPrices,
             NEW extra \in ExtraAllowances,
             ApproveAndFund(r, p, price, MinimumOperationalAllowance(r, p, price) + extra)
      PROVE  Deal(r)'
  <2>1. price \in Nat /\ extra \in Nat
    BY InputAssumption
  <2>2. MinimumOperationalAllowance(r, p, price) \in Nat
    BY <2>1, MinimumIsNat DEF IInv
  <2>3. MinimumOperationalAllowance(r, p, price) + extra \in Nat
    BY <2>1, <2>2
  <2>4. QED BY <1>5, <2>3, FundDeal
<1>6. QED BY <1>1, <1>2, <1>3, <1>4, <1>5 DEF MarketStep

(* It leaves the market of every other request alone.                       *)
LEMMA MarketOfOne ==
  ASSUME IInv, NEW r \in RequestIds, MarketStep(r), NEW q \in RequestIds, q # r
  PROVE  /\ proposals'[q] = proposals[q] /\ activeProposal'[q] = activeProposal[q]
         /\ acceptedProposal'[q] = acceptedProposal[q] /\ nextRequestId' = nextRequestId
<1> USE MarketTypes
<1>1. ASSUME NEW p, NEW outcome, CloseProposal(r, p, outcome)
      PROVE  proposals'[q] = proposals[q] /\ activeProposal'[q] = activeProposal[q]
  BY <1>1 DEF CloseProposal
<1>2. ASSUME NEW u, NEW plan, ProposeMilestones(u, r, plan)
      PROVE  /\ proposals'[q] = proposals[q] /\ activeProposal'[q] = activeProposal[q]
             /\ acceptedProposal'[q] = acceptedProposal[q] /\ nextRequestId' = nextRequestId
  BY <1>2 DEF ProposeMilestones
<1>3. ASSUME NEW u, RevokeMilestoneProposal(u, r)
      PROVE  /\ proposals'[q] = proposals[q] /\ activeProposal'[q] = activeProposal[q]
             /\ acceptedProposal'[q] = acceptedProposal[q] /\ nextRequestId' = nextRequestId
  BY <1>1, <1>3 DEF RevokeMilestoneProposal
<1>4. ASSUME NEW p, RejectMilestoneProposal(r, p)
      PROVE  /\ proposals'[q] = proposals[q] /\ activeProposal'[q] = activeProposal[q]
             /\ acceptedProposal'[q] = acceptedProposal[q] /\ nextRequestId' = nextRequestId
  BY <1>1, <1>4 DEF RejectMilestoneProposal
<1>5. ASSUME NEW p, NEW price, NEW allowance, ApproveAndFund(r, p, price, allowance)
      PROVE  /\ proposals'[q] = proposals[q] /\ activeProposal'[q] = activeProposal[q]
             /\ acceptedProposal'[q] = acceptedProposal[q] /\ nextRequestId' = nextRequestId
  BY <1>1, <1>5 DEF ApproveAndFund
<1>6. QED BY <1>2, <1>3, <1>4, <1>5 DEF MarketStep, CancelRequest

LEMMA DealStepOK ==
  ASSUME IInv, OrderInv, WorthInv, HeldInv, DealInv, [Next]_vars
  PROVE  DealInv'
<1> SUFFICES ASSUME NEW q \in RequestIds PROVE Deal(q)'
  BY DEF DealInv
<1>1. Deal(q)
  BY DEF DealInv
<1>2. CASE UNCHANGED <<requests, marketVars>>
  BY <1>1, <1>2, DealKept DEF marketVars, DealSame
<1>3. CASE Tick \/ UNCHANGED vars
  BY <1>2, <1>3 DEF Tick, vars
<1>4. ASSUME NEW u \in Users, NEW deadline \in Deadlines, NEW amount \in Amounts,
             CreateRequest(u, deadline, amount)
      PROVE  Deal(q)'
  <2>1. CASE q = nextRequestId
    BY <1>1, <1>4, <2>1, CreateDeal
  <2>2. CASE q # nextRequestId
    <3>1. DealSame(q)
      BY <1>4, <2>2, MarketTypes DEF CreateRequest, DealSame
    <3>2. nextRequestId' = nextRequestId + 1 /\ nextRequestId \in Nat /\ q \in Nat
      BY <1>4, MarketTypes DEF CreateRequest
    <3>3. QED BY <1>1, <3>1, <3>2, DealKept
  <2>3. QED BY <2>1, <2>2
<1>5. ASSUME NEW r \in RequestIds, MarketStep(r) PROVE Deal(q)'
  <2>1. CASE q = r
    BY <1>1, <1>5, <2>1, MarketDeal
  <2>2. CASE q # r
    <3>1. Same(q)
      BY <1>5, <2>2, ActsOnOne
    <3>2. DealSame(q) /\ nextRequestId' = nextRequestId
      BY <1>5, <2>2, <3>1, MarketOfOne DEF DealSame, Same
    <3>3. QED BY <1>1, <3>2, DealKept
  <2>3. QED BY <2>1, <2>2
<1>6. ASSUME NEW r \in RequestIds,
             CarrierStep(r) \/ ReviewStep(r) \/ SettlementStep(r) \/ ManagerStep(r)
      PROVE  Deal(q)'
  <2>1. UNCHANGED marketVars /\ (FieldsKept(r) \/ UNCHANGED requests)
    BY <1>6, FundedWork
  <2>2. CASE UNCHANGED requests
    BY <1>2, <2>1, <2>2
  <2>3. CASE FieldsKept(r) /\ q = r
    <3>1. DealSame(q)
      BY <2>1, <2>3 DEF FieldsKept, DealSame, WasFunded, marketVars
    <3>2. QED BY <1>1, <2>1, <3>1, DealKept DEF marketVars
  <2>4. CASE q # r
    <3>1. Same(q)
      BY <1>6, <2>4, ActsOnOne
    <3>2. DealSame(q)
      BY <2>1, <3>1 DEF DealSame, Same, marketVars
    <3>3. QED BY <1>1, <2>1, <3>2, DealKept DEF marketVars
  <2>5. QED BY <2>1, <2>2, <2>3, <2>4
<1>7. QED BY <1>3, <1>4, <1>5, <1>6 DEF Next

LEMMA DealInitOK == Init => DealInv
<1> SUFFICES ASSUME Init, NEW r \in RequestIds PROVE Deal(r)
  BY DEF DealInv
<1>1. /\ requests[r] = NoRequest /\ proposals[r] = <<>> /\ acceptedProposal[r] = 0
      /\ \A u \in Users : activeProposal[r][u] = 0
  BY DEF Init
<1>2. requests[r].status = "Open" /\ requests[r].carrier = NoUser
  BY <1>1 DEF NoRequest
<1>3. QED BY <1>1, <1>2 DEF Deal, Indexed, WasFunded

(* Only what is completed is ever tipped, and it stays completed.           *)
TipInv == \A r \in RequestIds : tipAmounts[r] # 0 => requests[r].status = "Completed"

LEMMA WorkTips ==
  ASSUME NEW r \in RequestIds,
         CarrierStep(r) \/ ReviewStep(r) \/ SettlementStep(r) \/ ManagerStep(r)
  PROVE  tipAmounts' = tipAmounts \/ \E amount \in FundingAmounts : TipCarrier(r, amount)
<1>1. ASSUME Refund(r) PROVE tipAmounts' = tipAmounts
  BY <1>1 DEF Refund
<1>2. CASE CarrierStep(r)
  BY <1>2 DEF CarrierStep, SubmitProof, WithdrawProof
<1>3. CASE ReviewStep(r)
  BY <1>3 DEF ReviewStep, RejectMilestone, ApproveMilestone
<1>4. CASE SettlementStep(r)
  BY <1>1, <1>4 DEF SettlementStep, RefundRemaining, TopUpOperationalAllowance
<1>5. CASE ManagerStep(r)
  <2>1. ASSUME NEW newDeadline, NEW existing, NEW additions, NEW operational,
               ManagerAmends(r, newDeadline, existing, additions, operational)
        PROVE  tipAmounts' = tipAmounts
    BY <2>1 DEF ManagerAmends, FinalizeAmendment
  <2>2. QED BY <1>1, <1>5, <2>1 DEF ManagerStep, ManagerCancels, FinalizeMutualCancellation
<1>6. QED BY <1>2, <1>3, <1>4, <1>5

LEMMA MarketTips ==
  ASSUME NEW r \in RequestIds, MarketStep(r)
  PROVE  UNCHANGED <<nextRequestId, tipAmounts>>
<1>1. ASSUME NEW u, NEW plan, ProposeMilestones(u, r, plan)
      PROVE  UNCHANGED <<nextRequestId, tipAmounts>>
  BY <1>1 DEF ProposeMilestones
<1>2. ASSUME NEW u, RevokeMilestoneProposal(u, r) PROVE UNCHANGED <<nextRequestId, tipAmounts>>
  BY <1>2 DEF RevokeMilestoneProposal
<1>3. ASSUME NEW p, RejectMilestoneProposal(r, p) PROVE UNCHANGED <<nextRequestId, tipAmounts>>
  BY <1>3 DEF RejectMilestoneProposal
<1>4. ASSUME NEW p, NEW price, NEW allowance, ApproveAndFund(r, p, price, allowance)
      PROVE  UNCHANGED <<nextRequestId, tipAmounts>>
  BY <1>4 DEF ApproveAndFund
<1>5. QED BY <1>1, <1>2, <1>3, <1>4 DEF MarketStep, CancelRequest

LEMMA TipStepOK ==
  ASSUME IInv, OrderInv, TipInv, [Next]_vars
  PROVE  TipInv'
<1>1. ASSUME NEW q \in RequestIds
      PROVE  tipAmounts'[q] = tipAmounts[q] \/ requests[q].status = "Completed"
  <2>1. ASSUME NEW r \in RequestIds, NEW amount, TipCarrier(r, amount)
        PROVE  tipAmounts'[q] = tipAmounts[q] \/ requests[q].status = "Completed"
    <3>1. tipAmounts \in [RequestIds -> Nat]
      BY DEF IInv, ClockOK
    <3>2. QED BY <2>1, <3>1 DEF TipCarrier
  <2>2. CASE Tick \/ UNCHANGED vars
    BY <2>2 DEF Tick, vars
  <2>3. QED BY <2>1, <2>2, WorkTips, MarketTips DEF Next, CreateRequest
<1>2. ASSUME NEW q \in RequestIds, requests[q].status = "Completed" PROVE requests'[q] = requests[q]
  BY <1>2, EveryStepRight DEF Right, OverKept
<1>3. QED BY <1>1, <1>2 DEF TipInv

AllInv == IInv /\ OrderInv /\ WorthInv /\ HeldInv /\ DealInv /\ TipInv

LEMMA AllStepOK == AllInv /\ [Next]_vars => AllInv'
<1> SUFFICES ASSUME AllInv, [Next]_vars PROVE AllInv'
  OBVIOUS
<1>1. IInv /\ OrderInv /\ WorthInv /\ HeldInv /\ DealInv /\ TipInv
  BY DEF AllInv
<1>2. IInv' /\ OrderInv'
  BY <1>1, StepOK, EveryStepRight DEF Right, OrderInv
<1>3. WorthInv' /\ HeldInv' /\ DealInv' /\ TipInv'
  BY <1>1, StepCases, WorthStepOK, HeldStepOK, DealStepOK, TipStepOK
<1>4. QED BY <1>2, <1>3 DEF AllInv

LEMMA AllInitOK == Init => AllInv
BY InitOK, OrderInitOK, WorthInitOK, HeldInitOK, DealInitOK DEF Init, TipInv, AllInv

LEMMA EveryInvariant == Spec => []AllInv
BY AllInitOK, AllStepOK, PTL DEF Spec

(* What else the accounts do with their CARGO does not matter.              *)
BesideTheEscrow ==
  /\ UNCHANGED <<now, requests, tipAmounts, marketVars, workVars, totalEscrowed, lockedEscrow>>
  /\ cargo' \in [Accounts -> Nat] /\ cargo'[Escrow] = cargo[Escrow]

LEMMA MovesBeside == AllInv /\ BesideTheEscrow => AllInv'
<1> SUFFICES ASSUME AllInv, BesideTheEscrow PROVE AllInv'
  OBVIOUS
<1>1. IInv /\ OrderInv /\ WorthInv /\ HeldInv /\ DealInv /\ TipInv
  BY DEF AllInv
<1>2. UNCHANGED <<now, requests, tipAmounts, marketVars, workVars, totalEscrowed, lockedEscrow>>
  BY DEF BesideTheEscrow
<1>3. IInv'
  <2>1. ClockOK' /\ WorkOK'
    BY <1>1, <1>2, ClockStays, WorkStays DEF IInv
  <2>2. MarketOK' /\ RequestsOK'
    BY <1>1, <1>2, MarketStays, RequestsStay DEF IInv, marketVars, workVars
  <2>3. PoolOK'
    BY <1>1, <1>2, PotsStay DEF IInv, BesideTheEscrow
  <2>4. QED BY <2>1, <2>2, <2>3 DEF IInv
<1>4. OrderInv'
  BY <1>1, <1>2, NothingHappens DEF Right, OrderInv
<1>5. \A q \in RequestIds : HappensTo(q)
  BY <1>2 DEF HappensTo, Proceeds, Same, workVars
<1>6. WorthInv' /\ HeldInv'
  BY <1>1, <1>5, WorthStepOK, HeldStepOK
<1>7. DealInv'
  BY <1>1, <1>2, DealKept DEF DealInv, DealSame, marketVars
<1>8. TipInv'
  BY <1>1, <1>2 DEF TipInv
<1>9. QED BY <1>3, <1>4, <1>6, <1>7, <1>8 DEF AllInv

(* A request is funded with whatever allowance suffices.                    *)
LEMMA AnyFunding ==
  ASSUME AllInv, NEW r \in RequestIds, NEW p \in DOMAIN proposals[r], NEW price \in ReferenceGasPrices,
         NEW allowance \in Nat, ApproveAndFund(r, p, price, allowance)
  PROVE  AllInv'
<1>1. IInv /\ OrderInv /\ WorthInv /\ HeldInv /\ DealInv /\ TipInv
  BY DEF AllInv
<1>2. price \in Nat
  BY InputAssumption
<1>3. IInv'
  BY <1>1, ApproveAndFundOK
<1>4. ASSUME NEW q \in RequestIds, q # r PROVE Same(q)
  BY <1>1, <1>4, StateTypes DEF ApproveAndFund, Same
<1>5. OrderInv'
  <2>1. ASSUME NEW q \in RequestIds PROVE Right(q)
    <3>1. CASE q = r
      BY <1>1, <1>2, <3>1, FundRight DEF OrderInv
    <3>2. CASE q # r
      BY <1>1, <1>4, <3>2, UntouchedRight DEF OrderInv
    <3>3. QED BY <3>1, <3>2
  <2>2. QED BY <2>1 DEF Right, OrderInv
<1>6. ASSUME NEW q \in RequestIds PROVE HappensTo(q)
  <2>1. CASE q = r
    BY <1>2, <2>1 DEF Funded, Proceeds, HappensTo
  <2>2. CASE q # r
    BY <1>4, <2>2 DEF Proceeds, HappensTo
  <2>3. QED BY <2>1, <2>2
<1>7. WorthInv' /\ HeldInv'
  BY <1>1, <1>6, WorthStepOK, HeldStepOK
<1>8. UNCHANGED <<nextRequestId, tipAmounts>> /\ requests[r].status = "Open"
  BY DEF ApproveAndFund
<1>9. DealInv'
  <2>1. ASSUME NEW q \in RequestIds, q # r
        PROVE  /\ proposals'[q] = proposals[q] /\ activeProposal'[q] = activeProposal[q]
               /\ acceptedProposal'[q] = acceptedProposal[q]
    <3>1. CloseProposal(r, p, "Accepted") /\ acceptedProposal' = [acceptedProposal EXCEPT ![r] = p]
      BY DEF ApproveAndFund
    <3>2. QED BY <1>1, <2>1, <3>1, MarketTypes DEF CloseProposal
  <2>2. ASSUME NEW q \in RequestIds PROVE Deal(q)'
    <3>1. CASE q = r
      BY <1>1, <3>1, FundDeal DEF DealInv
    <3>2. CASE q # r
      <4>1. DealSame(q)
        BY <1>4, <2>1, <3>2 DEF DealSame, Same
      <4>2. QED BY <1>1, <1>8, <4>1, DealKept DEF DealInv
    <3>3. QED BY <3>1, <3>2
  <2>3. QED BY <2>2 DEF DealInv
<1>10. TipInv'
  <2>1. ASSUME NEW q \in RequestIds, requests[q].status = "Completed" PROVE requests'[q] = requests[q]
    BY <1>4, <1>8, <2>1 DEF Same
  <2>2. QED BY <1>1, <1>8, <2>1 DEF TipInv
<1>11. QED BY <1>1, <1>3, <1>5, <1>7, <1>9, <1>10 DEF AllInv

LEMMA MarketIsRight == IInv /\ DealInv => ProposalsMatch
<1> SUFFICES ASSUME IInv, DealInv, NEW r \in RequestIds
             PROVE  /\ requests[r].status = "Open" =>
                         \A p \in DOMAIN proposals[r] : proposals[r][p].status = "Active"
                           <=> activeProposal[r][proposals[r][p].carrier] = p
                    /\ \A p \in DOMAIN proposals[r] :
                         proposals[r][p].status = "Accepted"
                           <=> /\ acceptedProposal[r] = p
                               /\ requests[r].carrier = proposals[r][p].carrier
                    /\ requests[r].carrier # NoUser =>
                         /\ acceptedProposal[r] \in DOMAIN proposals[r]
                         /\ \A p \in DOMAIN proposals[r] : ShownProposalStatus(r, p) # "Active"
  BY DEF ProposalsMatch
<1>1. Deal(r) /\ 0 \notin DOMAIN proposals[r]
  BY MarketTypes DEF DealInv
<1>2. QED BY <1>1 DEF Deal, Indexed, ShownProposalStatus

(* However carriers propose, revoke and propose again, and whatever the     *)
(* shipper rejects: on an open request the index of a carrier finds the one *)
(* proposal of theirs that is active, and a request that was ever funded    *)
(* has exactly one accepted proposal, its carrier's.                        *)
THEOREM ProposalsAlwaysMatch == Spec => []ProposalsMatch
BY MarketIsRight, EveryInvariant, PTL DEF AllInv

-----------------------------------------------------------------------------
(* The shipper's count of active requests.                                  *)

CountOf(locked, u) == locked[u].activeRequestCount

LEMMA ActiveIsRunning ==
  \A u : ActiveRequestsOf(u)
           = {r \in RequestIds : requests[r].shipper = u /\ Running(requests[r])}
BY DEF ActiveRequestsOf, Active, Running

LEMMA ActiveIsFinite == \A u : IsFiniteSet(ActiveRequestsOf(u))
BY RequestIdsFinite, FS_Subset DEF ActiveRequestsOf

LEMMA CountsStay ==
  ASSUME ActiveCountsMatch, \A u \in Users : CountOf(lockedEscrow', u) = CountOf(lockedEscrow, u),
         \A q \in RequestIds :
           /\ Running(requests'[q]) <=> Running(requests[q])
           /\ Running(requests[q]) => requests'[q].shipper = requests[q].shipper
  PROVE  ActiveCountsMatch'
<1>1. \A u : ActiveRequestsOf(u)' = ActiveRequestsOf(u)
  BY DEF ActiveRequestsOf, Active, Running
<1>2. QED BY <1>1 DEF ActiveCountsMatch, CountOf

LEMMA CountsOpen ==
  ASSUME ActiveCountsMatch, NEW r \in RequestIds, NEW s \in Users,
         \A q \in RequestIds : q # r => requests'[q] = requests[q],
         ~Running(requests[r]), Running(requests'[r]), requests'[r].shipper = s,
         CountOf(lockedEscrow', s) = CountOf(lockedEscrow, s) + 1,
         \A u \in Users : u # s => CountOf(lockedEscrow', u) = CountOf(lockedEscrow, u)
  PROVE  ActiveCountsMatch'
<1>1. /\ ActiveRequestsOf(s)' = ActiveRequestsOf(s) \cup {r} /\ r \notin ActiveRequestsOf(s)
      /\ \A u \in Users : u # s => ActiveRequestsOf(u)' = ActiveRequestsOf(u)
  BY DEF ActiveRequestsOf, Active, Running
<1>2. Cardinality(ActiveRequestsOf(s)') = Cardinality(ActiveRequestsOf(s)) + 1
  BY <1>1, ActiveIsFinite, FS_AddElement
<1>3. QED BY <1>1, <1>2 DEF ActiveCountsMatch, CountOf

LEMMA CountsClose ==
  ASSUME ActiveCountsMatch, NEW r \in RequestIds, NEW s \in Users,
         \A q \in RequestIds : q # r => requests'[q] = requests[q],
         Running(requests[r]), ~Running(requests'[r]), requests[r].shipper = s,
         CountOf(lockedEscrow', s) = CountOf(lockedEscrow, s) - 1,
         \A u \in Users : u # s => CountOf(lockedEscrow', u) = CountOf(lockedEscrow, u)
  PROVE  ActiveCountsMatch'
<1>1. /\ ActiveRequestsOf(s)' = ActiveRequestsOf(s) \ {r} /\ r \in ActiveRequestsOf(s)
      /\ \A u \in Users : u # s => ActiveRequestsOf(u)' = ActiveRequestsOf(u)
  BY DEF ActiveRequestsOf, Active, Running
<1>2. Cardinality(ActiveRequestsOf(s)') = Cardinality(ActiveRequestsOf(s)) - 1
  BY <1>1, ActiveIsFinite, FS_RemoveElement
<1>3. QED BY <1>1, <1>2 DEF ActiveCountsMatch, CountOf

LEMMA CountRises ==
  ASSUME IInv, NEW s \in Users, NEW amount, NEW flag,
         lockedEscrow' = IncreaseLocked(lockedEscrow, s, amount, flag)
  PROVE  /\ CountOf(lockedEscrow', s) = CountOf(lockedEscrow, s) + (IF flag THEN 1 ELSE 0)
         /\ \A u \in Users : u # s => CountOf(lockedEscrow', u) = CountOf(lockedEscrow, u)
BY DEF IInv, PoolOK, CountOf, IncreaseLocked

LEMMA CountFalls ==
  ASSUME IInv, NEW s \in Users, NEW amount, NEW flag,
         lockedEscrow' = DecreaseLocked(lockedEscrow, s, amount, flag)
  PROVE  /\ CountOf(lockedEscrow', s) = CountOf(lockedEscrow, s) - (IF flag THEN 1 ELSE 0)
         /\ \A u \in Users : u # s => CountOf(lockedEscrow', u) = CountOf(lockedEscrow, u)
BY DEF IInv, PoolOK, CountOf, DecreaseLocked

(* Nothing is counted that was not, and nothing opens or closes.            *)
LEMMA CountsIdle ==
  ASSUME IInv, ActiveCountsMatch, NEW r \in RequestIds,
         \A q \in RequestIds : q # r => requests'[q] = requests[q],
         FieldsKept(r), Running(requests[r]), Running(requests'[r]),
         NEW amount, \/ lockedEscrow' = IncreaseLocked(lockedEscrow, requests[r].shipper, amount, FALSE)
                     \/ lockedEscrow' = DecreaseLocked(lockedEscrow, requests[r].shipper, amount, FALSE)
  PROVE  ActiveCountsMatch'
<1>1. requests[r].shipper \in Users /\ FALSE \in BOOLEAN
  BY RunningPhase
<1>2. \A u \in Users : CountOf(lockedEscrow, u) \in Int
  BY DEF IInv, PoolOK, CountOf
<1>3. \A u \in Users : CountOf(lockedEscrow', u) = CountOf(lockedEscrow, u)
  <2> DEFINE s == requests[r].shipper
  <2>1. CASE lockedEscrow' = IncreaseLocked(lockedEscrow, s, amount, FALSE)
    <3>1. /\ CountOf(lockedEscrow', s) = CountOf(lockedEscrow, s) + 0
          /\ \A u \in Users : u # s => CountOf(lockedEscrow', u) = CountOf(lockedEscrow, u)
      BY <1>1, <2>1, CountRises
    <3>2. QED BY <3>1, <1>1, <1>2
  <2>2. CASE lockedEscrow' = DecreaseLocked(lockedEscrow, s, amount, FALSE)
    <3>1. /\ CountOf(lockedEscrow', s) = CountOf(lockedEscrow, s) - 0
          /\ \A u \in Users : u # s => CountOf(lockedEscrow', u) = CountOf(lockedEscrow, u)
      BY <1>1, <2>2, CountFalls
    <3>2. QED BY <3>1, <1>1, <1>2
  <2>3. QED BY <2>1, <2>2
<1>4. \A q \in RequestIds :
        /\ Running(requests'[q]) <=> Running(requests[q])
        /\ Running(requests[q]) => requests'[q].shipper = requests[q].shipper
  BY DEF FieldsKept
<1>5. QED BY <1>3, <1>4, CountsStay

LEMMA ApproveCounts ==
  ASSUME AllInv, AllInv', PotIsHeldExactlyWhileActive', ActiveCountsMatch, NEW r \in RequestIds,
         \A q \in RequestIds : q # r => requests'[q] = requests[q],
         NEW m \in MilestoneIds, NEW k, ApproveMilestone(r, m, k)
  PROVE  ActiveCountsMatch'
<1> DEFINE s == requests[r].shipper
           due == milestones[r][m].payoutAmount + milestones[r][m].additionalPayoutAmount
           last == EscrowBalance(r) = due
<1>1. IInv /\ Sound(r) /\ Balanced(r) /\ Held(r)
  BY DEF AllInv, OrderInv, WorthInv, HeldInv
<1>2. /\ FieldsKept(r) /\ Running(requests[r]) /\ s \in Users
      /\ requests \in [RequestIds -> Requests] /\ EscrowOf(requests[r]) \in Nat
  BY <1>1, ApproveFigures, RunningPhase, Figures
<1>3. PICK amount \in 1 .. EscrowOf(requests[r]) :
        /\ EscrowOf(requests'[r]) = EscrowOf(requests[r]) - amount
        /\ ~Running(requests'[r]) => amount = EscrowOf(requests[r])
  BY <1>1, ApproveFigures
<1>4. EscrowOf(requests'[r]) = EscrowOf(requests[r]) - due /\ due \in Nat
  <2>1. /\ requests'[r].totalAmount = requests[r].totalAmount
        /\ requests'[r].releasedAmount = requests[r].releasedAmount + due
        /\ requests'[r].refundedAmount = requests[r].refundedAmount
    BY <1>2 DEF ApproveMilestone, Requests
  <2>2. milestones[r][m] \in Milestones
    BY <1>1, StateTypes
  <2>3. due \in Nat
    BY <2>2 DEF Milestones
  <2>4. /\ requests[r].totalAmount \in Nat /\ requests[r].releasedAmount \in Nat
        /\ requests[r].refundedAmount \in Nat
    BY <1>2 DEF Requests
  <2> HIDE DEF due
  <2>5. QED BY <2>1, <2>3, <2>4 DEF EscrowOf
<1>5. PICK total : lockedEscrow' = DecreaseLocked(lockedEscrow, s, total, last)
  BY DEF ApproveMilestone, LeaveEscrow
<1>6. last <=> ~Running(requests'[r])
  <2>1. last <=> EscrowOf(requests'[r]) = 0
    <3> HIDE DEF due
    <3>1. QED BY <1>2, <1>4 DEF EscrowBalance
  <2>2. ~Running(requests'[r]) => EscrowOf(requests'[r]) = 0
    BY <1>2, <1>3
  <2>3. Running(requests'[r]) => EscrowOf(requests'[r]) # 0
    BY DEF PotIsHeldExactlyWhileActive, Active, Running, EscrowBalance
  <2>4. QED BY <2>1, <2>2, <2>3
<1>7. requests'[r].shipper = s
  BY <1>2 DEF FieldsKept
<1> HIDE DEF last, due
<1>8. CASE last
  <2>1. /\ CountOf(lockedEscrow', s) = CountOf(lockedEscrow, s) - 1
        /\ \A u \in Users : u # s => CountOf(lockedEscrow', u) = CountOf(lockedEscrow, u)
    BY <1>1, <1>2, <1>5, <1>8, CountFalls
  <2>2. QED BY <1>2, <1>6, <1>8, <2>1, CountsClose
<1>9. CASE ~last
  <2>1. Running(requests'[r]) /\ lockedEscrow' = DecreaseLocked(lockedEscrow, s, total, FALSE)
    BY <1>5, <1>6, <1>9
  <2>2. QED BY <1>1, <1>2, <2>1, CountsIdle
<1>10. QED BY <1>8, <1>9

LEMMA RefundCounts ==
  ASSUME AllInv, ActiveCountsMatch, NEW r \in RequestIds,
         \A q \in RequestIds : q # r => requests'[q] = requests[q], RequestExists(r), Refund(r)
  PROVE  ActiveCountsMatch'
<1>1. IInv /\ Held(r)
  BY DEF AllInv, HeldInv
<1>2. Running(requests[r]) /\ requests'[r].status = "Refunded" /\ requests[r].shipper \in Users
  BY <1>1, RefundFigures, RunningPhase
<1>3. PICK total : lockedEscrow' = DecreaseLocked(lockedEscrow, requests[r].shipper, total, TRUE)
  BY DEF Refund, LeaveEscrow
<1>4. /\ CountOf(lockedEscrow', requests[r].shipper) = CountOf(lockedEscrow, requests[r].shipper) - 1
      /\ \A u \in Users : u # requests[r].shipper => CountOf(lockedEscrow', u) = CountOf(lockedEscrow, u)
  BY <1>1, <1>2, <1>3, CountFalls
<1>5. ~Running(requests'[r])
  BY <1>2 DEF Running
<1>6. QED BY <1>2, <1>4, <1>5, CountsClose

LEMMA FundCounts ==
  ASSUME AllInv, ActiveCountsMatch, NEW r \in RequestIds,
         \A q \in RequestIds : q # r => requests'[q] = requests[q],
         NEW p \in DOMAIN proposals[r], NEW price, NEW allowance \in Nat,
         ApproveAndFund(r, p, price, allowance)
  PROVE  ActiveCountsMatch'
<1> DEFINE s == requests[r].shipper
<1>1. IInv
  BY DEF AllInv
<1>2. requests'[r].shipper = s /\ requests'[r].status = "Funded"
  BY <1>1, FundFigures
<1>3. RequestExists(r) /\ requests[r].status = "Open"
  BY DEF ApproveAndFund
<1>4. s \in Users
  BY <1>1, <1>3, Figures DEF RequestExists
<1>5. PICK total : lockedEscrow' = IncreaseLocked(lockedEscrow, s, total, TRUE)
  BY DEF ApproveAndFund, EnterEscrow
<1>6. CountOf(lockedEscrow', s) = CountOf(lockedEscrow, s) + 1 /\ \A u \in Users : u # s => CountOf(lockedEscrow', u) = CountOf(lockedEscrow, u)
  BY <1>1, <1>4, <1>5, CountRises
<1>7. ~Running(requests[r]) /\ Running(requests'[r])
  BY <1>2, <1>3 DEF Running
<1>8. QED BY <1>2, <1>4, <1>6, <1>7, CountsOpen

LEMMA CountStepOK ==
  ASSUME AllInv, AllInv', PotIsHeldExactlyWhileActive', ActiveCountsMatch, [Next]_vars
  PROVE  ActiveCountsMatch'
<1> IInv
  BY DEF AllInv
<1>1. ASSUME UNCHANGED <<requests, lockedEscrow>> PROVE ActiveCountsMatch'
  BY <1>1, CountsStay DEF CountOf
<1>2. CASE Tick \/ UNCHANGED vars
  BY <1>1, <1>2 DEF Tick, vars, moneyVars
<1>3. ASSUME NEW u \in Users, NEW deadline, NEW amount, CreateRequest(u, deadline, amount)
      PROVE  ActiveCountsMatch'
  <2>1. nextRequestId \in RequestIds /\ requests[nextRequestId] = NoRequest
    BY <1>3 DEF CreateRequest, IInv, MarketOK, RequestsOK, RequestIds
  <2>2. /\ requests'[nextRequestId].status = "Open" /\ requests[nextRequestId].status = "Open"
        /\ \A q \in RequestIds : q # nextRequestId => requests'[q] = requests[q]
    BY <1>3, <2>1, MarketTypes DEF CreateRequest, NoRequest
  <2>3. UNCHANGED lockedEscrow
    BY <1>3 DEF CreateRequest, moneyVars
  <2>4. QED BY <2>2, <2>3, CountsStay DEF CountOf, Running
<1>4. ASSUME NEW r \in RequestIds, MarketStep(r) PROVE ActiveCountsMatch'
  <2>1. \A q \in RequestIds : q # r => requests'[q] = requests[q]
    BY <1>4, ActsOnOne DEF Same
  <2>2. ASSUME NEW u, NEW plan, ProposeMilestones(u, r, plan)
        PROVE  UNCHANGED <<requests, lockedEscrow>>
    BY <2>2 DEF ProposeMilestones, moneyVars
  <2>3. ASSUME NEW u, RevokeMilestoneProposal(u, r) PROVE UNCHANGED <<requests, lockedEscrow>>
    BY <2>3 DEF RevokeMilestoneProposal, moneyVars
  <2>4. ASSUME NEW p, RejectMilestoneProposal(r, p) PROVE UNCHANGED <<requests, lockedEscrow>>
    BY <2>4 DEF RejectMilestoneProposal, moneyVars
  <2>5. CASE CancelRequest(r)
    <3>1. /\ requests[r].status \in {"Open", "PendingApproval"} /\ UNCHANGED lockedEscrow
          /\ requests' = [requests EXCEPT ![r].status = "Cancelled"]
      BY <2>5 DEF CancelRequest, moneyVars
    <3>2. requests'[r].status = "Cancelled"
      BY <3>1, MarketTypes DEF Requests
    <3>3. QED BY <2>1, <3>1, <3>2, CountsStay DEF CountOf, Running
  <2>6. ASSUME NEW p \in DOMAIN proposals[r], NEW price \in ReferenceGasPrices,
               NEW extra \in ExtraAllowances,
               ApproveAndFund(r, p, price, MinimumOperationalAllowance(r, p, price) + extra)
        PROVE  ActiveCountsMatch'
    <3>1. price \in Nat /\ extra \in Nat
      BY InputAssumption
    <3>2. MinimumOperationalAllowance(r, p, price) \in Nat
      BY <3>1, MinimumIsNat DEF IInv
    <3>3. MinimumOperationalAllowance(r, p, price) + extra \in Nat
      BY <3>1, <3>2
    <3>4. QED BY <2>1, <2>6, <3>3, FundCounts
  <2>7. QED BY <1>1, <1>4, <2>2, <2>3, <2>4, <2>5, <2>6 DEF MarketStep
<1>5. ASSUME NEW r \in RequestIds,
             CarrierStep(r) \/ ReviewStep(r) \/ SettlementStep(r) \/ ManagerStep(r)
      PROVE  ActiveCountsMatch'
  <2>1. \A q \in RequestIds : q # r => requests'[q] = requests[q]
    BY <1>5, ActsOnOne DEF Same
  <2>2. ASSUME NEW m \in MilestoneIds, NEW uri, NEW gas \in Nat, NEW price \in Nat,
               SubmitProof(r, m, uri, gas, price)
        PROVE  ActiveCountsMatch'
    <3>1. FieldsKept(r) /\ Running(requests[r]) /\ Running(requests'[r])
      BY <2>2, SubmitFigures
    <3>2. PICK paid : lockedEscrow' = DecreaseLocked(lockedEscrow, requests[r].shipper, paid, FALSE)
      BY <2>2 DEF SubmitProof, LeaveEscrow
    <3>3. QED BY <2>1, <3>1, <3>2, CountsIdle
  <2>3. ASSUME NEW amount \in Nat, TopUpOperationalAllowance(r, amount) PROVE ActiveCountsMatch'
    <3>1. FieldsKept(r) /\ Running(requests[r]) /\ Running(requests'[r])
      BY <2>3, TopUpFigures
    <3>2. lockedEscrow' = IncreaseLocked(lockedEscrow, requests[r].shipper, amount, FALSE)
      BY <2>3 DEF TopUpOperationalAllowance, EnterEscrow
    <3>3. QED BY <2>1, <3>1, <3>2, CountsIdle
  <2>4. CASE IsAmended(r)
    <3>1. PICK newDeadline \in Deadlines, existing \in Fundings(r), additions \in Additions(r),
               operational \in Nat : ManagerAmends(r, newDeadline, existing, additions, operational)
      BY <2>4 DEF IsAmended
    <3>2. FieldsKept(r) /\ Running(requests[r]) /\ Running(requests'[r])
      BY <3>1, AmendFigures
    <3>3. PICK total : lockedEscrow' = IncreaseLocked(lockedEscrow, requests[r].shipper, total, FALSE)
      BY <3>1 DEF ManagerAmends, FinalizeAmendment, EnterEscrow
    <3>4. QED BY <2>1, <3>2, <3>3, CountsIdle
  <2>5. ASSUME RequestExists(r), Refund(r) PROVE ActiveCountsMatch'
    BY <2>1, <2>5, RefundCounts
  <2>6. CASE CarrierStep(r)
    <3>1. ASSUME NEW m, WithdrawProof(r, m) PROVE UNCHANGED <<requests, lockedEscrow>>
      BY <3>1 DEF WithdrawProof, moneyVars
    <3>2. GasReadings \subseteq Nat /\ TxGasPrices \subseteq Nat
      BY InputAssumption
    <3>3. QED BY <1>1, <2>2, <2>6, <3>1, <3>2 DEF CarrierStep
  <2>7. CASE ReviewStep(r)
    <3>1. ASSUME NEW m, NEW n, RejectMilestone(r, m, n) PROVE UNCHANGED <<requests, lockedEscrow>>
      BY <3>1 DEF RejectMilestone, moneyVars
    <3>2. ASSUME NEW m \in MilestoneIds, NEW n, ApproveMilestone(r, m, n) PROVE ActiveCountsMatch'
      BY <2>1, <3>2, ApproveCounts
    <3>3. QED BY <1>1, <2>7, <3>1, <3>2 DEF ReviewStep
  <2>8. CASE SettlementStep(r)
    <3>1. ASSUME NEW amount, TipCarrier(r, amount) PROVE UNCHANGED <<requests, lockedEscrow>>
      BY <3>1 DEF TipCarrier
    <3>2. FundingAmounts \subseteq Nat
      BY InputAssumption
    <3>3. QED BY <1>1, <2>3, <2>5, <2>8, <3>1, <3>2 DEF SettlementStep, RefundRemaining
  <2>9. CASE ManagerStep(r)
    BY <2>4, <2>5, <2>9, ManagerActs
  <2>10. QED BY <1>5, <2>6, <2>7, <2>8, <2>9
<1>6. QED BY <1>2, <1>3, <1>4, <1>5 DEF Next

LEMMA CountInitOK == Init => ActiveCountsMatch
<1> SUFFICES ASSUME Init, NEW u \in Users
             PROVE  lockedEscrow[u].activeRequestCount = Cardinality(ActiveRequestsOf(u))
  BY DEF ActiveCountsMatch
<1>1. ActiveRequestsOf(u) = {} /\ lockedEscrow[u].activeRequestCount = 0
  BY DEF Init, NoRequest, ActiveRequestsOf, Active
<1>2. QED BY <1>1, FS_EmptySet

(* getActiveRequestCount of every shipper is the number of the shipper's    *)
(* shipments in progress: the count goes down when the last CARGO leaves,   *)
(* the status changes when the last milestone is paid, and these are always *)
(* the same approval.  In particular the count never goes below zero.       *)
THEOREM ActiveCountsAlwaysMatch == Spec => []ActiveCountsMatch
<1>1. Init => ActiveCountsMatch
  BY CountInitOK
<1>2. AllInv /\ AllInv' /\ PotIsHeldExactlyWhileActive' /\ ActiveCountsMatch /\ [Next]_vars
        => ActiveCountsMatch'
  BY CountStepOK
<1>3. MoneyFollowsTheWork => PotIsHeldExactlyWhileActive
  BY DEF MoneyFollowsTheWork
<1>4. QED BY <1>1, <1>2, <1>3, EveryInvariant, MoneyAlwaysFollowsTheWork, PTL DEF Spec

-----------------------------------------------------------------------------
(* Part V.  The promise.                                                    *)

-----------------------------------------------------------------------------
(* The promise's variables, as functions of the contract's.                 *)

PhaseMap == [r \in RequestIds |-> Phase(r)]
ShipperMap == [r \in RequestIds |-> requests[r].shipper]
CarrierMap == [r \in RequestIds |-> requests[r].carrier]
PromisedMap == [r \in RequestIds |-> EscrowBalance(r)]
ReserveMap == [r \in RequestIds |-> OperationalRemaining(r)]
WalletMap == [a \in Users \cup {Manager} |-> cargo[a]]

(* Every request but r looks the same.                                      *)
Rest(r) ==
  \A q \in RequestIds : q # r => requests'[q] = requests[q] /\ Phase(q)' = Phase(q)

LEMMA OneRequest ==
  ASSUME NEW r \in RequestIds, Rest(r)
  PROVE  /\ PhaseMap' = [PhaseMap EXCEPT ![r] = Phase(r)']
         /\ ShipperMap' = [ShipperMap EXCEPT ![r] = requests'[r].shipper]
         /\ CarrierMap' = [CarrierMap EXCEPT ![r] = requests'[r].carrier]
         /\ PromisedMap' = [PromisedMap EXCEPT ![r] = EscrowOf(requests'[r])]
         /\ ReserveMap' = [ReserveMap EXCEPT ![r] = OperationalOf(requests'[r])]
<1>1. \A q \in RequestIds : q # r => requests'[q] = requests[q] /\ Phase(q)' = Phase(q)
  BY DEF Rest
<1>2. PhaseMap' = [PhaseMap EXCEPT ![r] = Phase(r)']
  BY <1>1 DEF PhaseMap
<1>3. ShipperMap' = [ShipperMap EXCEPT ![r] = requests'[r].shipper]
  BY <1>1 DEF ShipperMap
<1>4. CarrierMap' = [CarrierMap EXCEPT ![r] = requests'[r].carrier]
  BY <1>1 DEF CarrierMap
<1>5. PromisedMap' = [PromisedMap EXCEPT ![r] = EscrowOf(requests'[r])]
  BY <1>1 DEF PromisedMap, EscrowBalance
<1>6. ReserveMap' = [ReserveMap EXCEPT ![r] = OperationalOf(requests'[r])]
  BY <1>1 DEF ReserveMap, OperationalRemaining
<1>7. QED BY <1>2, <1>3, <1>4, <1>5, <1>6

LEMMA MapValues ==
  ASSUME NEW r \in RequestIds
  PROVE  /\ PhaseMap[r] = Phase(r) /\ ShipperMap[r] = requests[r].shipper
         /\ CarrierMap[r] = requests[r].carrier /\ PromisedMap[r] = EscrowOf(requests[r])
         /\ ReserveMap[r] = OperationalOf(requests[r])
         /\ PhaseMap = [PhaseMap EXCEPT ![r] = Phase(r)]
         /\ ShipperMap = [ShipperMap EXCEPT ![r] = requests[r].shipper]
         /\ CarrierMap = [CarrierMap EXCEPT ![r] = requests[r].carrier]
         /\ PromisedMap = [PromisedMap EXCEPT ![r] = EscrowOf(requests[r])]
         /\ ReserveMap = [ReserveMap EXCEPT ![r] = OperationalOf(requests[r])]
BY DEF PhaseMap, ShipperMap, CarrierMap, PromisedMap, ReserveMap, EscrowBalance, OperationalRemaining

(* A step that changes none of a request's figures is none of the promise's.*)
LEMMA NothingPromised ==
  ASSUME NEW r \in RequestIds, Rest(r), Phase(r)' = Phase(r), FiguresKept(r),
         requests'[r].shipper = requests[r].shipper, requests'[r].carrier = requests[r].carrier,
         WalletMap' = WalletMap
  PROVE  UNCHANGED Promise!vars
<1>1. /\ PhaseMap' = PhaseMap /\ ShipperMap' = ShipperMap /\ CarrierMap' = CarrierMap
      /\ PromisedMap' = PromisedMap /\ ReserveMap' = ReserveMap
  BY OneRequest, MapValues DEF FiguresKept
<1>2. QED BY <1>1 DEF Promise!vars, PhaseMap, ShipperMap, CarrierMap, PromisedMap, ReserveMap, WalletMap

LEMMA OfferStep ==
  ASSUME NEW r \in RequestIds, NEW u \in Users, Rest(r), FiguresKept(r),
         Phase(r) = "none", Phase(r)' = "offered", requests'[r].shipper = u,
         requests'[r].carrier = requests[r].carrier, WalletMap' = WalletMap
  PROVE  Promise!Next
<1>1. /\ PhaseMap[r] = "none" /\ PhaseMap' = [PhaseMap EXCEPT ![r] = "offered"]
      /\ ShipperMap' = [ShipperMap EXCEPT ![r] = u]
      /\ CarrierMap' = CarrierMap /\ PromisedMap' = PromisedMap /\ ReserveMap' = ReserveMap
  BY OneRequest, MapValues DEF FiguresKept
<1>2. Promise!Offer(r, u)
  BY <1>1 DEF Promise!Offer, Promise!Becomes, PhaseMap, ShipperMap, CarrierMap, PromisedMap,
              ReserveMap, WalletMap
<1>3. QED BY <1>2 DEF Promise!Next, Promise!Step

LEMMA WithdrawStep ==
  ASSUME NEW r \in RequestIds, Rest(r), FiguresKept(r),
         Phase(r) = "offered", Phase(r)' = "withdrawn",
         requests'[r].shipper = requests[r].shipper, requests'[r].carrier = requests[r].carrier,
         WalletMap' = WalletMap
  PROVE  Promise!Next
<1>1. /\ PhaseMap[r] = "offered" /\ PhaseMap' = [PhaseMap EXCEPT ![r] = "withdrawn"]
      /\ ShipperMap' = ShipperMap
      /\ CarrierMap' = CarrierMap /\ PromisedMap' = PromisedMap /\ ReserveMap' = ReserveMap
  BY OneRequest, MapValues DEF FiguresKept
<1>2. Promise!Withdraw(r)
  BY <1>1 DEF Promise!Withdraw, Promise!Becomes, PhaseMap, ShipperMap, CarrierMap, PromisedMap,
              ReserveMap, WalletMap
<1>3. QED BY <1>2 DEF Promise!Next, Promise!Step

LEMMA EngageStep ==
  ASSUME NEW r \in RequestIds, NEW c \in Users, Rest(r),
         Phase(r) = "offered", Phase(r)' = "running",
         requests[r].shipper \in Users, c # requests[r].shipper,
         requests'[r].shipper = requests[r].shipper, requests'[r].carrier = c,
         NEW compensation \in Nat, NEW expenses \in Nat,
         EscrowOf(requests'[r]) = compensation, OperationalOf(requests'[r]) = expenses,
         cargo[requests[r].shipper] \in Nat,
         compensation + expenses <= cargo[requests[r].shipper],
         WalletMap' = [WalletMap EXCEPT ![requests[r].shipper] = @ - (compensation + expenses)]
  PROVE  Promise!Next
<1> DEFINE u == requests[r].shipper
<1>1. /\ PhaseMap[r] = "offered" /\ PhaseMap' = [PhaseMap EXCEPT ![r] = "running"]
      /\ ShipperMap' = ShipperMap /\ ShipperMap[r] = u
      /\ CarrierMap' = [CarrierMap EXCEPT ![r] = c]
      /\ PromisedMap' = [PromisedMap EXCEPT ![r] = compensation]
      /\ ReserveMap' = [ReserveMap EXCEPT ![r] = expenses]
  BY OneRequest, MapValues
<1>2. WalletMap[u] = cargo[u]
  BY DEF WalletMap
<1>3. /\ compensation \in 0 .. WalletMap[ShipperMap[r]] /\ expenses \in 0 .. WalletMap[ShipperMap[r]]
      /\ compensation + expenses <= WalletMap[ShipperMap[r]]
  <2>1. cargo[u] \in Nat /\ compensation + expenses <= cargo[u]
    OBVIOUS
  <2> HIDE DEF u
  <2>2. QED BY <1>1, <1>2, <2>1
<1>4. WalletMap' = [WalletMap EXCEPT ![ShipperMap[r]] = @ - (compensation + expenses)]
  BY <1>1
<1>5. \E co, ex \in 0 .. WalletMap[ShipperMap[r]] :
        /\ co + ex <= WalletMap[ShipperMap[r]]
        /\ PromisedMap' = [PromisedMap EXCEPT ![r] = co]
        /\ ReserveMap' = [ReserveMap EXCEPT ![r] = ex]
        /\ WalletMap' = [WalletMap EXCEPT ![ShipperMap[r]] = @ - (co + ex)]
  BY <1>1, <1>3, <1>4
<1>6. Promise!Engage(r, c)
  BY <1>1, <1>5 DEF Promise!Engage, Promise!Becomes, PhaseMap, ShipperMap, CarrierMap, PromisedMap,
                    ReserveMap, WalletMap
<1>7. QED BY <1>6 DEF Promise!Next, Promise!Step

LEMMA ContributeStep ==
  ASSUME NEW r \in RequestIds, Rest(r), Phase(r) = "running", Phase(r)' = "running",
         requests'[r].shipper = requests[r].shipper, requests'[r].carrier = requests[r].carrier,
         NEW payer \in Users \cup {Manager}, payer \in {requests[r].shipper, Manager},
         NEW compensation \in Nat, NEW expenses \in Nat,
         EscrowOf(requests'[r]) = EscrowOf(requests[r]) + compensation,
         OperationalOf(requests'[r]) = OperationalOf(requests[r]) + expenses,
         cargo[payer] \in Nat, compensation + expenses <= cargo[payer],
         WalletMap' = [WalletMap EXCEPT ![payer] = @ - (compensation + expenses)]
  PROVE  Promise!Next
<1>1. /\ PhaseMap[r] = "running" /\ PhaseMap' = PhaseMap
      /\ ShipperMap' = ShipperMap /\ ShipperMap[r] = requests[r].shipper
      /\ CarrierMap' = CarrierMap
      /\ PromisedMap' = [PromisedMap EXCEPT ![r] = @ + compensation]
      /\ ReserveMap' = [ReserveMap EXCEPT ![r] = @ + expenses]
  BY OneRequest, MapValues
<1>2. WalletMap[payer] = cargo[payer]
  BY DEF WalletMap
<1>3. /\ compensation \in 0 .. WalletMap[payer] /\ expenses \in 0 .. WalletMap[payer]
      /\ compensation + expenses <= WalletMap[payer]
  BY <1>2
<1>4. \E co, ex \in 0 .. WalletMap[payer] :
        /\ co + ex <= WalletMap[payer]
        /\ PromisedMap' = [PromisedMap EXCEPT ![r] = @ + co]
        /\ ReserveMap' = [ReserveMap EXCEPT ![r] = @ + ex]
        /\ WalletMap' = [WalletMap EXCEPT ![payer] = @ - (co + ex)]
  BY <1>1, <1>3
<1>5. payer \in {ShipperMap[r], Manager}
  BY <1>1
<1>6. Promise!Contribute(r, payer)
  BY <1>1, <1>4, <1>5 DEF Promise!Contribute, PhaseMap, ShipperMap, CarrierMap, PromisedMap,
                          ReserveMap, WalletMap
<1>7. QED BY <1>6 DEF Promise!Next, Promise!Step, Promise!Payers

LEMMA PayStep ==
  ASSUME NEW r \in RequestIds, Rest(r), Phase(r) = "running", Phase(r)' = "running",
         requests'[r].shipper = requests[r].shipper, requests'[r].carrier = requests[r].carrier,
         NEW part \in 1 .. EscrowOf(requests[r]),
         EscrowOf(requests'[r]) = EscrowOf(requests[r]) - part,
         OperationalOf(requests'[r]) = OperationalOf(requests[r]),
         WalletMap' = [WalletMap EXCEPT ![requests[r].carrier] = @ + part]
  PROVE  Promise!Next
<1>1. /\ PhaseMap[r] = "running" /\ PhaseMap' = PhaseMap
      /\ ShipperMap' = ShipperMap /\ CarrierMap' = CarrierMap /\ ReserveMap' = ReserveMap
      /\ CarrierMap[r] = requests[r].carrier /\ PromisedMap[r] = EscrowOf(requests[r])
      /\ PromisedMap' = [PromisedMap EXCEPT ![r] = @ - part]
  BY OneRequest, MapValues
<1>2. /\ part \in 1 .. PromisedMap[r]
      /\ WalletMap' = [WalletMap EXCEPT ![CarrierMap[r]] = @ + part]
  BY <1>1
<1>3. Promise!Pay(r)
  BY <1>1, <1>2 DEF Promise!Pay, PhaseMap, ShipperMap, CarrierMap, PromisedMap, ReserveMap, WalletMap
<1>4. QED BY <1>3 DEF Promise!Next, Promise!Step

LEMMA ReimburseStep ==
  ASSUME NEW r \in RequestIds, Rest(r), Phase(r) = "running", Phase(r)' = "running",
         requests'[r].shipper = requests[r].shipper, requests'[r].carrier = requests[r].carrier,
         NEW expense \in 1 .. OperationalOf(requests[r]),
         EscrowOf(requests'[r]) = EscrowOf(requests[r]),
         OperationalOf(requests'[r]) = OperationalOf(requests[r]) - expense,
         WalletMap' = [WalletMap EXCEPT ![requests[r].carrier] = @ + expense]
  PROVE  Promise!Next
<1>1. /\ PhaseMap[r] = "running" /\ PhaseMap' = PhaseMap
      /\ ShipperMap' = ShipperMap /\ CarrierMap' = CarrierMap /\ PromisedMap' = PromisedMap
      /\ CarrierMap[r] = requests[r].carrier /\ ReserveMap[r] = OperationalOf(requests[r])
      /\ ReserveMap' = [ReserveMap EXCEPT ![r] = @ - expense]
  BY OneRequest, MapValues
<1>2. /\ expense \in 1 .. ReserveMap[r]
      /\ WalletMap' = [WalletMap EXCEPT ![CarrierMap[r]] = @ + expense]
  BY <1>1
<1>3. Promise!Reimburse(r)
  BY <1>1, <1>2 DEF Promise!Reimburse, PhaseMap, ShipperMap, CarrierMap, PromisedMap, ReserveMap,
                    WalletMap
<1>4. QED BY <1>3 DEF Promise!Next, Promise!Step

LEMMA DeliverStep ==
  ASSUME NEW r \in RequestIds, Rest(r), Phase(r) = "running", Phase(r)' = "delivered",
         requests'[r].shipper = requests[r].shipper, requests'[r].carrier = requests[r].carrier,
         EscrowOf(requests'[r]) = 0, OperationalOf(requests'[r]) = 0,
         WalletMap' = [WalletMap EXCEPT ![requests[r].carrier] = @ + EscrowOf(requests[r]),
                                        ![requests[r].shipper] = @ + OperationalOf(requests[r])]
  PROVE  Promise!Next
<1>1. /\ PhaseMap[r] = "running" /\ PhaseMap' = [PhaseMap EXCEPT ![r] = "delivered"]
      /\ ShipperMap' = ShipperMap /\ CarrierMap' = CarrierMap
      /\ PromisedMap' = [PromisedMap EXCEPT ![r] = 0] /\ ReserveMap' = [ReserveMap EXCEPT ![r] = 0]
  BY OneRequest, MapValues
<1>2. WalletMap' = [WalletMap EXCEPT ![CarrierMap[r]] = @ + PromisedMap[r],
                                     ![ShipperMap[r]] = @ + ReserveMap[r]]
  BY MapValues
<1>3. Promise!Deliver(r)
  BY <1>1, <1>2 DEF Promise!Deliver, Promise!Becomes, PhaseMap, ShipperMap, CarrierMap, PromisedMap,
                    ReserveMap, WalletMap
<1>4. QED BY <1>3 DEF Promise!Next, Promise!Step

LEMMA GiveBackStep ==
  ASSUME NEW r \in RequestIds, Rest(r), Phase(r) = "running", Phase(r)' = "returned",
         requests'[r].shipper = requests[r].shipper, requests'[r].carrier = requests[r].carrier,
         EscrowOf(requests'[r]) = 0, OperationalOf(requests'[r]) = 0,
         WalletMap' = [WalletMap EXCEPT ![requests[r].shipper] =
                         @ + (EscrowOf(requests[r]) + OperationalOf(requests[r]))]
  PROVE  Promise!Next
<1>1. /\ PhaseMap[r] = "running" /\ PhaseMap' = [PhaseMap EXCEPT ![r] = "returned"]
      /\ ShipperMap' = ShipperMap /\ CarrierMap' = CarrierMap
      /\ PromisedMap' = [PromisedMap EXCEPT ![r] = 0] /\ ReserveMap' = [ReserveMap EXCEPT ![r] = 0]
  BY OneRequest, MapValues
<1>2. WalletMap' = [WalletMap EXCEPT ![ShipperMap[r]] = @ + (PromisedMap[r] + ReserveMap[r])]
  BY MapValues
<1>3. Promise!GiveBack(r)
  BY <1>1, <1>2 DEF Promise!GiveBack, Promise!Becomes, PhaseMap, ShipperMap, CarrierMap, PromisedMap,
                    ReserveMap, WalletMap
<1>4. QED BY <1>3 DEF Promise!Next, Promise!Step

LEMMA TipStep ==
  ASSUME NEW r \in RequestIds, Rest(r), Phase(r) = "delivered", Phase(r)' = "tipped",
         UNCHANGED requests, requests[r].shipper \in Users,
         NEW amount \in 1 .. cargo[requests[r].shipper],
         WalletMap' = [WalletMap EXCEPT ![requests[r].shipper] = @ - amount,
                                        ![requests[r].carrier] = @ + amount]
  PROVE  Promise!Next
<1>1. /\ PhaseMap[r] = "delivered" /\ PhaseMap' = [PhaseMap EXCEPT ![r] = "tipped"]
      /\ ShipperMap' = ShipperMap /\ CarrierMap' = CarrierMap
      /\ PromisedMap' = PromisedMap /\ ReserveMap' = ReserveMap
  BY OneRequest, MapValues
<1>2. WalletMap[ShipperMap[r]] = cargo[requests[r].shipper]
  BY MapValues DEF WalletMap
<1>3. /\ amount \in 1 .. WalletMap[ShipperMap[r]]
      /\ WalletMap' = [WalletMap EXCEPT ![ShipperMap[r]] = @ - amount,
                                        ![CarrierMap[r]] = @ + amount]
  BY <1>2, MapValues
<1>4. Promise!Tip(r)
  BY <1>1, <1>3 DEF Promise!Tip, Promise!Becomes, PhaseMap, ShipperMap, CarrierMap, PromisedMap,
                    ReserveMap, WalletMap
<1>5. QED BY <1>4 DEF Promise!Next, Promise!Step

-----------------------------------------------------------------------------
(* What the movements of CARGO do to wallets, the pot being none of them.   *)

LEMMA Apart ==
  IInv => /\ cargo \in [Accounts -> Nat] /\ Escrow \notin Users \cup {Manager}
          /\ Users \cup {Manager} \subseteq Accounts
BY AccountAssumption DEF IInv, PoolOK, Accounts

LEMMA WalletPaid ==
  ASSUME IInv, NEW a \in Users \cup {Manager}, NEW amount, cargo' = Transfer(cargo, Escrow, a, amount)
  PROVE  WalletMap' = [WalletMap EXCEPT ![a] = @ + amount]
BY Apart DEF WalletMap, Transfer

LEMMA WalletPays ==
  ASSUME IInv, NEW a \in Users \cup {Manager}, NEW amount, cargo' = Transfer(cargo, a, Escrow, amount)
  PROVE  WalletMap' = [WalletMap EXCEPT ![a] = @ - amount]
BY Apart DEF WalletMap, Transfer

LEMMA WalletsPaid ==
  ASSUME IInv, NEW a \in Users, NEW b \in Users, a # b, NEW m \in Nat, NEW n \in Nat,
         cargo' = Transfer(Transfer(cargo, Escrow, a, m), Escrow, b, n)
  PROVE  /\ WalletMap' = [WalletMap EXCEPT ![a] = @ + m, ![b] = @ + n]
         /\ n = 0 => WalletMap' = [WalletMap EXCEPT ![a] = @ + m]
<1> DEFINE W == Users \cup {Manager}
           once == Transfer(cargo, Escrow, a, m)
           f == [WalletMap EXCEPT ![a] = @ + m]
<1>1. a \in W /\ b \in W /\ Escrow \notin W /\ W \subseteq Accounts /\ cargo \in [Accounts -> Nat]
  BY Apart
<1>2. f \in [W -> Nat] /\ DOMAIN once = Accounts /\ \A c \in W : once[c] = f[c]
  <2> HIDE DEF W
  <2>1. WalletMap = [c \in W |-> cargo[c]]
    BY DEF WalletMap, W
  <2>2. QED BY <1>1, <2>1 DEF Transfer
<1>3. cargo' = Transfer(once, Escrow, b, n)
  OBVIOUS
<1> HIDE DEF W, once, f
<1>4. \A c \in W : cargo'[c] = [f EXCEPT ![b] = @ + n][c]
  BY <1>1, <1>2, <1>3 DEF Transfer
<1>5. WalletMap' = [c \in W |-> cargo'[c]]
  BY DEF WalletMap, W
<1>6. WalletMap' = [f EXCEPT ![b] = @ + n]
  BY <1>2, <1>4, <1>5
<1>7. n = 0 => WalletMap' = f
  BY <1>2, <1>6
<1>8. [f EXCEPT ![b] = @ + n] = [WalletMap EXCEPT ![a] = @ + m, ![b] = @ + n]
  BY <1>1 DEF f, WalletMap, W
<1>9. QED
  <2>1. n = 0 => WalletMap' = [WalletMap EXCEPT ![a] = @ + m]
    BY <1>7 DEF f
  <2>2. QED BY <2>1, <1>6, <1>8

LEMMA WalletTips ==
  ASSUME IInv, NEW a \in Users, NEW b \in Users, NEW amount, cargo' = Transfer(cargo, a, b, amount)
  PROVE  WalletMap' = [WalletMap EXCEPT ![a] = @ - amount, ![b] = @ + amount]
BY Apart DEF WalletMap, Transfer

LEMMA WalletsKept == cargo' = cargo => WalletMap' = WalletMap
BY DEF WalletMap

-----------------------------------------------------------------------------
(* Action by action: a step of the promise, or none.                        *)

LEMMA RestOfSame ==
  ASSUME IInv, NEW r \in RequestIds, \A q \in RequestIds : q # r => Same(q),
         nextRequestId' = nextRequestId, \A q \in RequestIds : q # r => tipAmounts'[q] = tipAmounts[q]
  PROVE  Rest(r)
BY DEF Rest, Same, Phase, RequestExists

LEMMA PhaseOf ==
  ASSUME NEW r \in RequestIds, RequestExists(r), UNCHANGED <<nextRequestId, tipAmounts>>
  PROVE  /\ Running(requests'[r]) => Phase(r)' = "running"
         /\ requests'[r].status = "Cancelled" => Phase(r)' = "withdrawn"
         /\ requests'[r].status = "Refunded" => Phase(r)' = "returned"
         /\ requests'[r].status = "Completed" /\ tipAmounts[r] = 0 => Phase(r)' = "delivered"
BY DEF Phase, RequestExists, Running

LEMMA SubmitPromised ==
  ASSUME IInv, NEW r \in RequestIds, Rest(r), NEW m \in MilestoneIds, NEW uri, NEW gas \in Nat,
         NEW price \in Nat, SubmitProof(r, m, uri, gas, price)
  PROVE  [Promise!Next]_(Promise!vars)
<1>1. /\ FieldsKept(r) /\ Running(requests[r]) /\ Running(requests'[r])
      /\ EscrowOf(requests'[r]) = EscrowOf(requests[r])
  BY SubmitFigures
<1>2. PICK paid \in 0 .. OperationalOf(requests[r]) :
        /\ OperationalOf(requests'[r]) = OperationalOf(requests[r]) - paid
        /\ cargo' = Transfer(cargo, Escrow, requests[r].carrier, paid)
  BY SubmitFigures
<1>3. /\ Phase(r) = "running" /\ RequestExists(r)
      /\ requests[r].carrier \in Users /\ OperationalOf(requests[r]) \in Nat
  BY <1>1, RunningPhase, Figures
<1>4. Phase(r)' = "running"
  BY <1>1, <1>3, PhaseOf DEF SubmitProof, marketVars
<1>5. WalletMap' = [WalletMap EXCEPT ![requests[r].carrier] = @ + paid]
  BY <1>2, <1>3, WalletPaid
<1>6. CASE paid = 0
  <2>1. FiguresKept(r)
    BY <1>1, <1>2, <1>3, <1>6 DEF FiguresKept
  <2>2. WalletMap \in [Users \cup {Manager} -> Nat]
    BY Apart DEF WalletMap
  <2>3. WalletMap' = WalletMap
    <3> HIDE DEF WalletMap
    <3>1. QED BY <1>5, <1>6, <2>2
  <2>4. UNCHANGED Promise!vars
    BY <1>1, <1>3, <1>4, <2>1, <2>3, NothingPromised DEF FieldsKept
  <2>5. QED BY <2>4
<1>7. CASE paid # 0
  <2>1. paid \in 1 .. OperationalOf(requests[r])
    BY <1>2, <1>3, <1>7
  <2>2. Promise!Next
    BY <1>1, <1>2, <1>3, <1>4, <1>5, <2>1, ReimburseStep DEF FieldsKept
  <2>3. QED BY <2>2
<1>8. QED BY <1>6, <1>7

LEMMA ApprovePromised ==
  ASSUME IInv, NEW r \in RequestIds, Rest(r), Sound(r), Balanced(r), Held(r), Deal(r),
         tipAmounts[r] = 0, NEW m \in MilestoneIds, NEW k, ApproveMilestone(r, m, k)
  PROVE  Promise!Next
<1>1. FieldsKept(r) /\ Running(requests[r])
  BY ApproveFigures
<1>2. PICK amount \in 1 .. EscrowOf(requests[r]) :
        /\ EscrowOf(requests'[r]) = EscrowOf(requests[r]) - amount
        /\ IF Running(requests'[r])
           THEN /\ OperationalOf(requests'[r]) = OperationalOf(requests[r])
                /\ cargo' = Transfer(Transfer(cargo, Escrow, requests[r].carrier, amount),
                                     Escrow, requests[r].shipper, 0)
           ELSE /\ requests'[r].status = "Completed"
                /\ OperationalOf(requests'[r]) = 0 /\ amount = EscrowOf(requests[r])
                /\ cargo' = Transfer(Transfer(cargo, Escrow, requests[r].carrier, amount),
                                     Escrow, requests[r].shipper, OperationalOf(requests[r]))
  BY ApproveFigures
<1>3. /\ Phase(r) = "running" /\ RequestExists(r)
      /\ requests[r].carrier \in Users /\ requests[r].shipper \in Users
      /\ requests[r].carrier # requests[r].shipper
      /\ EscrowOf(requests[r]) \in Nat /\ OperationalOf(requests[r]) \in Nat
  BY <1>1, RunningPhase, Figures DEF Deal
<1>4. UNCHANGED <<nextRequestId, tipAmounts>> /\ amount \in Nat
  BY <1>2, <1>3 DEF ApproveMilestone, marketVars
<1>5. CASE Running(requests'[r])
  <2>1. Phase(r)' = "running"
    BY <1>3, <1>4, <1>5, PhaseOf
  <2>2. WalletMap' = [WalletMap EXCEPT ![requests[r].carrier] = @ + amount]
    BY <1>2, <1>3, <1>4, <1>5, WalletsPaid
  <2>3. QED BY <1>1, <1>2, <1>3, <1>5, <2>1, <2>2, PayStep DEF FieldsKept
<1>6. CASE ~Running(requests'[r])
  <2>1. Phase(r)' = "delivered"
    BY <1>2, <1>3, <1>4, <1>6, PhaseOf
  <2>2. WalletMap' = [WalletMap EXCEPT ![requests[r].carrier] = @ + EscrowOf(requests[r]),
                                       ![requests[r].shipper] = @ + OperationalOf(requests[r])]
    BY <1>2, <1>3, <1>4, <1>6, WalletsPaid
  <2>3. EscrowOf(requests'[r]) = 0 /\ OperationalOf(requests'[r]) = 0
    BY <1>2, <1>3, <1>6
  <2>4. QED BY <1>1, <1>3, <2>1, <2>2, <2>3, DeliverStep DEF FieldsKept
<1>7. QED BY <1>5, <1>6

LEMMA RefundPromised ==
  ASSUME IInv, NEW r \in RequestIds, Rest(r), Held(r), RequestExists(r), Refund(r)
  PROVE  Promise!Next
<1>1. /\ FieldsKept(r) /\ Running(requests[r]) /\ requests'[r].status = "Refunded"
      /\ EscrowOf(requests'[r]) = 0 /\ OperationalOf(requests'[r]) = 0
      /\ cargo' = Transfer(cargo, Escrow, requests[r].shipper,
                           EscrowOf(requests[r]) + OperationalOf(requests[r]))
  BY RefundFigures
<1>2. Phase(r) = "running" /\ requests[r].shipper \in Users
  BY <1>1, RunningPhase
<1>3. Phase(r)' = "returned"
  BY <1>1, PhaseOf DEF Refund, marketVars
<1>4. WalletMap' = [WalletMap EXCEPT ![requests[r].shipper] =
                      @ + (EscrowOf(requests[r]) + OperationalOf(requests[r]))]
  BY <1>1, <1>2, WalletPaid
<1>5. QED BY <1>1, <1>2, <1>3, <1>4, GiveBackStep DEF FieldsKept

LEMMA TopUpPromised ==
  ASSUME IInv, NEW r \in RequestIds, Rest(r), NEW amount \in Nat, TopUpOperationalAllowance(r, amount)
  PROVE  Promise!Next
<1>1. /\ FieldsKept(r) /\ Running(requests[r]) /\ Running(requests'[r])
      /\ EscrowOf(requests'[r]) = EscrowOf(requests[r])
      /\ OperationalOf(requests'[r]) = OperationalOf(requests[r]) + amount
      /\ amount <= cargo[requests[r].shipper]
      /\ cargo' = Transfer(cargo, requests[r].shipper, Escrow, amount)
  BY TopUpFigures
<1>2. /\ Phase(r) = "running" /\ RequestExists(r) /\ requests[r].shipper \in Users
      /\ EscrowOf(requests[r]) \in Nat
  BY <1>1, RunningPhase, Figures
<1>3. Phase(r)' = "running"
  BY <1>1, <1>2, PhaseOf DEF TopUpOperationalAllowance, marketVars
<1>4. WalletMap' = [WalletMap EXCEPT ![requests[r].shipper] = @ - (0 + amount)]
  BY <1>1, <1>2, WalletPays
<1>5. cargo[requests[r].shipper] \in Nat /\ 0 + amount <= cargo[requests[r].shipper]
  BY <1>1, <1>2, Apart
<1>6. EscrowOf(requests'[r]) = EscrowOf(requests[r]) + 0
  BY <1>1, <1>2
<1>7. QED BY <1>1, <1>2, <1>3, <1>4, <1>5, <1>6, ContributeStep DEF FieldsKept

LEMMA AmendPromised ==
  ASSUME IInv, NEW r \in RequestIds, Rest(r), IsAmended(r)
  PROVE  Promise!Next
<1>1. PICK newDeadline \in Deadlines, existing \in Fundings(r), additions \in Additions(r),
           operational \in Nat : ManagerAmends(r, newDeadline, existing, additions, operational)
  BY DEF IsAmended
<1>2. FieldsKept(r) /\ Running(requests[r]) /\ Running(requests'[r])
  BY <1>1, AmendFigures
<1>3. PICK funding \in Nat :
        /\ EscrowOf(requests'[r]) = EscrowOf(requests[r]) + funding
        /\ OperationalOf(requests'[r]) = OperationalOf(requests[r]) + operational
        /\ funding + operational <= cargo[Manager]
        /\ cargo' = Transfer(cargo, Manager, Escrow, funding + operational)
  BY <1>1, AmendFigures
<1>4. Phase(r) = "running" /\ RequestExists(r)
  BY <1>2, RunningPhase
<1>5. UNCHANGED <<nextRequestId, tipAmounts>>
  BY <1>1 DEF ManagerAmends, FinalizeAmendment, marketVars
<1>6. Phase(r)' = "running"
  BY <1>2, <1>4, <1>5, PhaseOf
<1>7. WalletMap' = [WalletMap EXCEPT ![Manager] = @ - (funding + operational)]
  BY <1>3, WalletPays
<1>8. cargo[Manager] \in Nat
  BY Apart
<1>9. QED BY <1>2, <1>3, <1>4, <1>6, <1>7, <1>8, ContributeStep DEF FieldsKept

LEMMA UnseenStep ==
  UNCHANGED <<requests, tipAmounts, nextRequestId, cargo>> => UNCHANGED Promise!vars
BY DEF Promise!vars, Phase, RequestExists, EscrowBalance, OperationalRemaining

LEMMA CreatePromised ==
  ASSUME IInv, NEW r \in RequestIds, r = nextRequestId,
         NEW u \in Users, NEW deadline, NEW amount, CreateRequest(u, deadline, amount)
  PROVE  Promise!Next
<1> DEFINE new == [NoRequest EXCEPT !.shipper = u, !.deadline = deadline, !.proposedAmount = amount]
<1>1. /\ requests' = [requests EXCEPT ![r] = new]
      /\ nextRequestId' = r + 1 /\ UNCHANGED <<tipAmounts, cargo>>
  BY DEF CreateRequest, moneyVars
<1>2. r \in Nat /\ \A q \in RequestIds : q \in Nat
  BY MarketTypes
<1>3. requests \in [RequestIds -> Requests] /\ requests[r] = NoRequest
  BY MarketTypes DEF IInv, RequestsOK
<1>4. /\ new.shipper = u /\ new.carrier = NoUser /\ new.status = "Open"
      /\ EscrowOf(new) = EscrowOf(NoRequest) /\ OperationalOf(new) = OperationalOf(NoRequest)
  BY DEF NoRequest, EscrowOf, OperationalOf
<1> HIDE DEF new
<1>5. requests'[r] = new /\ \A q \in RequestIds : q # r => requests'[q] = requests[q]
  BY <1>1, <1>2, <1>3
<1>6. Rest(r)
  <2>1. ASSUME NEW q \in RequestIds, q # r PROVE RequestExists(q)' <=> RequestExists(q)
    <3>1. q \in Nat /\ nextRequestId \in Nat /\ nextRequestId' = nextRequestId + 1
      BY <1>1, <1>2
    <3>2. QED BY <2>1, <3>1 DEF RequestExists
  <2>2. QED BY <2>1, <1>1, <1>5 DEF Rest, Phase
<1>7. Phase(r) = "none" /\ Phase(r)' = "offered"
  <2>1. ~RequestExists(r) /\ RequestExists(r)'
    BY <1>1, <1>2 DEF RequestExists
  <2>2. QED BY <2>1, <1>4, <1>5 DEF Phase
<1>8. FiguresKept(r) /\ requests'[r].shipper = u /\ requests'[r].carrier = requests[r].carrier
  BY <1>3, <1>4, <1>5 DEF FiguresKept, NoRequest
<1>9. QED BY <1>1, <1>6, <1>7, <1>8, WalletsKept, OfferStep

LEMMA CancelPromised ==
  ASSUME IInv, NEW r \in RequestIds, Rest(r), CancelRequest(r)
  PROVE  Promise!Next
<1>1. /\ RequestExists(r) /\ requests[r].status \in {"Open", "PendingApproval"}
      /\ requests' = [requests EXCEPT ![r].status = "Cancelled"]
      /\ UNCHANGED <<tipAmounts, nextRequestId, cargo>>
  BY DEF CancelRequest, moneyVars
<1>2. requests \in [RequestIds -> Requests] /\ requests[r].status = "Open"
  BY <1>1, MarketTypes DEF Requests, RequestStatus
<1>3. /\ requests'[r].status = "Cancelled" /\ FiguresKept(r)
      /\ requests'[r].shipper = requests[r].shipper /\ requests'[r].carrier = requests[r].carrier
  BY <1>1, <1>2 DEF Requests, FiguresKept, EscrowOf, OperationalOf
<1>4. Phase(r) = "offered" /\ Phase(r)' = "withdrawn"
  BY <1>1, <1>2, <1>3, PhaseOf DEF Phase
<1>5. QED BY <1>1, <1>3, <1>4, WalletsKept, WithdrawStep

LEMMA FundPromised ==
  ASSUME IInv, NEW r \in RequestIds, Rest(r), Deal(r), NEW p \in DOMAIN proposals[r],
         NEW price, NEW allowance \in Nat, ApproveAndFund(r, p, price, allowance)
  PROVE  Promise!Next
<1> DEFINE u == requests[r].shipper
           c == proposals[r][p].carrier
           amount == requests[r].proposedAmount
<1>1. /\ requests'[r].shipper = u /\ requests'[r].carrier = c /\ requests'[r].status = "Funded"
      /\ EscrowOf(requests'[r]) = amount /\ OperationalOf(requests'[r]) = allowance
      /\ amount \in Nat
  BY FundFigures
<1>2. /\ RequestExists(r) /\ requests[r].status = "Open"
      /\ cargo[u] >= amount + allowance
      /\ cargo' = Transfer(cargo, u, Escrow, amount + allowance)
      /\ UNCHANGED <<nextRequestId, tipAmounts>>
  BY DEF ApproveAndFund
<1>3. u \in Users /\ c # u
  BY <1>2, Figures DEF RequestExists, Deal
<1>4. c \in Users
  <2>1. proposals[r][p] \in Proposals
    BY MarketTypes
  <2>2. QED BY <2>1 DEF Proposals
<1>5. Phase(r) = "offered" /\ Phase(r)' = "running"
  BY <1>1, <1>2, PhaseOf DEF Phase, Running
<1>6. WalletMap' = [WalletMap EXCEPT ![u] = @ - (amount + allowance)]
  BY <1>2, <1>3, WalletPays
<1>7. cargo[u] \in Nat
  BY <1>3, Apart
<1>8. amount + allowance <= cargo[u]
  <2> HIDE DEF u, amount
  <2>1. QED BY <1>1, <1>2, <1>7
<1>9. QED BY <1>1, <1>3, <1>4, <1>5, <1>6, <1>7, <1>8, EngageStep

LEMMA TipPromised ==
  ASSUME IInv, NEW r \in RequestIds, Rest(r), NEW amount \in FundingAmounts, TipCarrier(r, amount)
  PROVE  Promise!Next
<1>1. /\ RequestExists(r) /\ requests[r].status = "Completed" /\ tipAmounts[r] = 0
      /\ cargo[requests[r].shipper] >= amount
      /\ cargo' = Transfer(cargo, requests[r].shipper, requests[r].carrier, amount)
      /\ tipAmounts' = [tipAmounts EXCEPT ![r] = amount]
      /\ UNCHANGED <<requests, nextRequestId>>
  BY DEF TipCarrier, marketVars
<1>2. requests[r].shipper \in Users /\ requests[r].carrier \in Users
  BY <1>1, Figures DEF RequestExists, WasFunded
<1>3. amount \in Nat /\ amount # 0 /\ cargo[requests[r].shipper] \in Nat
  BY <1>2, InputAssumption, Apart
<1>4. tipAmounts'[r] = amount
  BY <1>1 DEF IInv, ClockOK
<1>5. Phase(r) = "delivered" /\ Phase(r)' = "tipped"
  BY <1>1, <1>3, <1>4 DEF Phase, RequestExists
<1>6. amount \in 1 .. cargo[requests[r].shipper]
  BY <1>1, <1>3
<1>7. WalletMap' = [WalletMap EXCEPT ![requests[r].shipper] = @ - amount,
                                     ![requests[r].carrier] = @ + amount]
  BY <1>1, <1>2, WalletTips
<1>8. QED BY <1>1, <1>2, <1>5, <1>6, <1>7, TipStep

-----------------------------------------------------------------------------
(* Every step.                                                              *)

LEMMA MarketPromised ==
  ASSUME AllInv, NEW r \in RequestIds, MarketStep(r)
  PROVE  [Promise!Next]_(Promise!vars)
<1>1. IInv /\ Deal(r)
  BY DEF AllInv, DealInv
<1>2. Rest(r)
  BY <1>1, ActsOnOne, MarketTips, RestOfSame
<1>3. ASSUME UNCHANGED <<requests, tipAmounts, nextRequestId, moneyVars>>
      PROVE  [Promise!Next]_(Promise!vars)
  BY <1>3, UnseenStep DEF moneyVars
<1>4. ASSUME NEW u, NEW plan, ProposeMilestones(u, r, plan)
      PROVE  UNCHANGED <<requests, tipAmounts, nextRequestId, moneyVars>>
  BY <1>4 DEF ProposeMilestones
<1>5. ASSUME NEW u, RevokeMilestoneProposal(u, r)
      PROVE  UNCHANGED <<requests, tipAmounts, nextRequestId, moneyVars>>
  BY <1>5 DEF RevokeMilestoneProposal
<1>6. ASSUME NEW p, RejectMilestoneProposal(r, p)
      PROVE  UNCHANGED <<requests, tipAmounts, nextRequestId, moneyVars>>
  BY <1>6 DEF RejectMilestoneProposal
<1>7. CASE CancelRequest(r)
  BY <1>1, <1>2, <1>7, CancelPromised
<1>8. ASSUME NEW p \in DOMAIN proposals[r], NEW price \in ReferenceGasPrices,
             NEW extra \in ExtraAllowances,
             ApproveAndFund(r, p, price, MinimumOperationalAllowance(r, p, price) + extra)
      PROVE  Promise!Next
  <2>1. price \in Nat /\ extra \in Nat
    BY InputAssumption
  <2>2. MinimumOperationalAllowance(r, p, price) \in Nat
    BY <2>1, <1>1, MinimumIsNat DEF IInv
  <2>3. MinimumOperationalAllowance(r, p, price) + extra \in Nat
    BY <2>1, <2>2
  <2>4. QED BY <1>1, <1>2, <1>8, <2>3, FundPromised
<1>9. QED BY <1>3, <1>4, <1>5, <1>6, <1>7, <1>8 DEF MarketStep

LEMMA WorkPromised ==
  ASSUME AllInv, NEW r \in RequestIds,
         CarrierStep(r) \/ ReviewStep(r) \/ SettlementStep(r) \/ ManagerStep(r)
  PROVE  [Promise!Next]_(Promise!vars)
<1>1. IInv /\ Sound(r) /\ Balanced(r) /\ Held(r) /\ Deal(r)
  BY DEF AllInv, OrderInv, WorthInv, HeldInv, DealInv
<1>2. nextRequestId' = nextRequestId
  BY FundedWork DEF AllInv, marketVars
<1>3. \A q \in RequestIds : q # r => tipAmounts'[q] = tipAmounts[q]
  <2>1. tipAmounts \in [RequestIds -> Nat]
    BY <1>1 DEF IInv, ClockOK
  <2>2. QED BY <2>1, WorkTips DEF TipCarrier
<1>4. Rest(r)
  BY <1>1, <1>2, <1>3, ActsOnOne, RestOfSame
<1>5. CASE CarrierStep(r)
  <2>1. ASSUME NEW m \in MilestoneIds, NEW uri \in ProofUris, NEW gas \in GasReadings,
               NEW price \in TxGasPrices, SubmitProof(r, m, uri, gas, price)
        PROVE  [Promise!Next]_(Promise!vars)
    <3>1. gas \in Nat /\ price \in Nat
      BY InputAssumption
    <3>2. QED BY <1>1, <1>4, <2>1, <3>1, SubmitPromised
  <2>2. ASSUME NEW m, WithdrawProof(r, m) PROVE UNCHANGED Promise!vars
    BY <2>2, UnseenStep DEF WithdrawProof, marketVars, moneyVars
  <2>3. QED BY <1>5, <2>1, <2>2 DEF CarrierStep
<1>6. CASE ReviewStep(r)
  <2>1. ASSUME NEW m, NEW n, RejectMilestone(r, m, n) PROVE UNCHANGED Promise!vars
    BY <2>1, UnseenStep DEF RejectMilestone, marketVars, moneyVars
  <2>2. ASSUME NEW m \in MilestoneIds, NEW n, ApproveMilestone(r, m, n) PROVE Promise!Next
    <3>1. tipAmounts[r] = 0
      <4>1. Running(requests[r])
        BY <1>1, <2>2, ApproveFigures
      <4>2. QED BY <4>1 DEF AllInv, TipInv, Running
    <3>2. QED BY <1>1, <1>4, <2>2, <3>1, ApprovePromised
  <2>3. QED BY <1>6, <2>1, <2>2 DEF ReviewStep
<1>7. CASE SettlementStep(r)
  <2>1. ASSUME NEW amount \in FundingAmounts, TopUpOperationalAllowance(r, amount)
        PROVE  Promise!Next
    <3>1. amount \in Nat
      BY InputAssumption
    <3>2. QED BY <1>1, <1>4, <2>1, <3>1, TopUpPromised
  <2>2. CASE RefundRemaining(r)
    BY <1>1, <1>4, <2>2, RefundPromised DEF RefundRemaining
  <2>3. ASSUME NEW amount \in FundingAmounts, TipCarrier(r, amount) PROVE Promise!Next
    BY <1>1, <1>4, <2>3, TipPromised
  <2>4. QED BY <1>7, <2>1, <2>2, <2>3 DEF SettlementStep
<1>8. CASE ManagerStep(r)
  BY <1>1, <1>4, <1>8, ManagerActs, RefundPromised, AmendPromised
<1>9. QED BY <1>5, <1>6, <1>7, <1>8

LEMMA PromiseStepOK ==
  ASSUME AllInv, [Next]_vars
  PROVE  [Promise!Next]_(Promise!vars)
<1>1. CASE Tick \/ UNCHANGED vars
  BY <1>1, UnseenStep DEF Tick, vars, marketVars, moneyVars
<1>2. ASSUME NEW u \in Users, NEW deadline \in Deadlines, NEW amount \in Amounts,
             CreateRequest(u, deadline, amount)
      PROVE  Promise!Next
  <2>1. nextRequestId \in RequestIds
    BY <1>2 DEF CreateRequest, AllInv, IInv, MarketOK, RequestIds
  <2>2. QED BY <1>2, <2>1, CreatePromised DEF AllInv
<1>3. QED BY <1>1, <1>2, MarketPromised, WorkPromised DEF Next

LEMMA PromiseInitOK == Init => Promise!Init
<1> SUFFICES ASSUME Init PROVE Promise!Init
  OBVIOUS
<1>1. \A r \in RequestIds : requests[r] = NoRequest /\ Phase(r) = "none"
  BY NumberAssumption DEF Init, Phase, RequestExists, RequestIds
<1>2. /\ NoRequest.shipper = NoUser /\ NoRequest.carrier = NoUser
      /\ EscrowOf(NoRequest) = 0 /\ OperationalOf(NoRequest) = 0
  BY DEF NoRequest, EscrowOf, OperationalOf
<1>3. WalletMap \in [Users \cup {Manager} -> Nat]
  BY InitOK, Apart DEF WalletMap
<1>4. QED BY <1>1, <1>2, <1>3
          DEF Promise!Init, Promise!Payers, WalletMap, EscrowBalance, OperationalRemaining

(* The contract implements the promise: whatever the number of requests,    *)
(* the plans, the prices, the amendments and the order of the calls, each   *)
(* transaction does to every wallet what one step of EscrowPromise does, or *)
(* nothing; and the approval that completes a request, which is decided by  *)
(* milestones, pays out exactly the last CARGO, which is counted in figures.*)
THEOREM EscrowKeepsItsPromise == Spec => KeepsPromise
<1>1. Init => Promise!Init
  BY PromiseInitOK
<1>2. AllInv /\ [Next]_vars => [Promise!Next]_(Promise!vars)
  BY PromiseStepOK
<1>3. QED BY <1>1, <1>2, EveryInvariant, PTL DEF Spec, KeepsPromise, Promise!Spec

=============================================================================
