------------------------- MODULE ShipmentPages_proof -------------------------
(***************************************************************************)
(* The theorems about what people see and what happens when they confirm    *)
(* it.  The pages are never up to date: what they show was read at some     *)
(* moment, and a step sent from them lands at a later one.                  *)
(*                                                                          *)
(*   I. Reviewing (ShipperReview).  What a shipper pays for is what the     *)
(*      page showed.  The escrow's own steps are first shown to be kind to  *)
(*      the submission numbers; the rest is about the page alone.           *)
(*  II. Paying (FundingDesk), at the escrow.  None of the steps that a      *)
(*      wallet did not confirm takes from it, and all of them keep the sum  *)
(*      of all CARGO.                                                       *)
(* III. Paying, at the dialog.  What it names stays what its step costs for *)
(*      as long as it is open: the price of a request never changes, and    *)
(*      the two fields of a conversion match.                               *)
(*  IV. Telling (NextAction, MarketPages).  What one load of a page tells   *)
(*      follows from the escrow's invariants, whoever looks and whenever.   *)
(***************************************************************************)
EXTENDS ShipperReview, FundingDesk, MarketPages, ShipmentMoney_proof

-----------------------------------------------------------------------------
(* Part I.  Reviewing.                                                      *)

-----------------------------------------------------------------------------
(* What one step of the escrow does to one milestone's number and proof.    *)

(* The number never goes down, and a milestone that is submitted after the  *)
(* step has a higher number or is submitted as it was.                      *)
Kept(old, new) ==
  /\ old.proofSubmissionNumber <= new.proofSubmissionNumber
  /\ new.status = "Submitted" =>
       \/ old.proofSubmissionNumber < new.proofSubmissionNumber
       \/ /\ old.status = "Submitted"
          /\ new.proofUri = old.proofUri
          /\ new.proofSubmissionNumber = old.proofSubmissionNumber

ProofsKept == \A r \in RequestIds, m \in MilestoneIds : Kept(milestones[r][m], milestones'[r][m])

NothingPaid ==
  \A r \in RequestIds, m \in MilestoneIds :
    milestones'[r][m].status = "Paid" => milestones[r][m].status = "Paid"

(* A milestone that is still to be created has had no submission.           *)
FreshOK ==
  \A r \in RequestIds, m \in MilestoneIds :
    m >= nextMilestoneId[r] => milestones[r][m].proofSubmissionNumber = 0

LEMMA MilestoneTypes ==
  ASSUME IInv, NEW r \in RequestIds
  PROVE  /\ milestones \in [RequestIds -> [MilestoneIds -> Milestones]]
         /\ milestones[r] \in [MilestoneIds -> Milestones]
         /\ nextMilestoneId \in [RequestIds -> Nat] /\ nextMilestoneId[r] \in Nat
         /\ \A m \in MilestoneIds : milestones[r][m].proofSubmissionNumber \in Nat
         /\ \A m \in MilestoneIds : m \in Int
<1>1. /\ milestones \in [RequestIds -> [MilestoneIds -> Milestones]]
      /\ nextMilestoneId \in [RequestIds -> Nat]
  BY DEF IInv, WorkOK
<1>2. \A m \in MilestoneIds : m \in Int
  BY DEF MilestoneIds
<1>3. \A milestone \in Milestones : milestone.proofSubmissionNumber \in Nat
  BY DEF Milestones
<1>4. QED BY <1>1, <1>2, <1>3

LEMMA WorkUnchanged ==
  ASSUME IInv, FreshOK, UNCHANGED <<milestones, nextMilestoneId>>
  PROVE  ProofsKept /\ NothingPaid /\ FreshOK'
<1>1. ProofsKept
  BY MilestoneTypes DEF ProofsKept, Kept
<1>2. QED BY <1>1 DEF NothingPaid, FreshOK

(* One existing milestone gets a new record.                                *)
LEMMA OneMilestoneKept ==
  ASSUME IInv, FreshOK, NEW r \in RequestIds, NEW m \in MilestoneIds, MilestoneExists(r, m),
         NEW new, milestones' = [milestones EXCEPT ![r] = [milestones[r] EXCEPT ![m] = new]],
         UNCHANGED nextMilestoneId, Kept(milestones[r][m], new)
  PROVE  /\ ProofsKept /\ FreshOK'
         /\ new.status # "Paid" => NothingPaid
<1>1. /\ milestones'[r][m] = new
      /\ \A q \in RequestIds, n \in MilestoneIds :
           ~(q = r /\ n = m) => milestones'[q][n] = milestones[q][n]
  BY MilestoneTypes
<1>2. ProofsKept
  <2>1. ASSUME NEW q \in RequestIds, NEW n \in MilestoneIds
        PROVE  Kept(milestones[q][n], milestones'[q][n])
    <3>1. CASE q = r /\ n = m
      BY <3>1, <1>1
    <3>2. CASE ~(q = r /\ n = m)
      BY <3>2, <1>1, MilestoneTypes DEF Kept
    <3>3. QED BY <3>1, <3>2
  <2>2. QED BY <2>1 DEF ProofsKept
<1>3. FreshOK'
  <2>1. ~(m >= nextMilestoneId[r])
    BY MilestoneTypes DEF MilestoneExists
  <2>2. QED BY <2>1, <1>1 DEF FreshOK
<1>4. new.status # "Paid" => NothingPaid
  BY <1>1 DEF NothingPaid
<1>5. QED BY <1>2, <1>3, <1>4

(* ms has n milestones created, from the next id on; the others have kept   *)
(* status, number and proof.                                                *)
Created(r, n, ms) ==
  \A m \in MilestoneIds :
    IF m \in nextMilestoneId[r] .. nextMilestoneId[r] + n - 1
    THEN ms[m].status = "PendingProof" /\ ms[m].proofSubmissionNumber = 0
    ELSE /\ ms[m].status = milestones[r][m].status
         /\ ms[m].proofUri = milestones[r][m].proofUri
         /\ ms[m].proofSubmissionNumber = milestones[r][m].proofSubmissionNumber

LEMMA MilestonesCreated ==
  ASSUME IInv, FreshOK, NEW r \in RequestIds, NEW n \in Nat,
         NEW ms, milestones' = [milestones EXCEPT ![r] = ms],
         nextMilestoneId' = [nextMilestoneId EXCEPT ![r] = nextMilestoneId[r] + n],
         Created(r, n, ms)
  PROVE  ProofsKept /\ NothingPaid /\ FreshOK'
<1> DEFINE first == nextMilestoneId[r]
<1>1. /\ milestones'[r] = ms /\ \A q \in RequestIds : q # r => milestones'[q] = milestones[q]
      /\ nextMilestoneId'[r] = first + n /\ first \in Nat
      /\ \A q \in RequestIds : q # r => nextMilestoneId'[q] = nextMilestoneId[q]
  BY MilestoneTypes
<1>2. ASSUME NEW m \in MilestoneIds
      PROVE  /\ Kept(milestones[r][m], ms[m])
             /\ ms[m].status = "Paid" => milestones[r][m].status = "Paid"
             /\ m >= first + n => ms[m].proofSubmissionNumber = 0
  <2>1. m \in Int /\ milestones[r][m].proofSubmissionNumber \in Nat
    BY MilestoneTypes
  <2>2. CASE m \in first .. first + n - 1
    <3>1. milestones[r][m].proofSubmissionNumber = 0
      BY <2>1, <2>2, <1>1 DEF FreshOK
    <3>2. ~(m >= first + n)
      BY <2>1, <2>2, <1>1
    <3>3. QED BY <2>2, <3>1, <3>2 DEF Kept, Created
  <2>3. CASE m \notin first .. first + n - 1
    <3>1. m >= first + n => milestones[r][m].proofSubmissionNumber = 0
      BY <2>1, <1>1 DEF FreshOK
    <3>2. QED BY <2>1, <2>3, <3>1 DEF Kept, Created
  <2>4. QED BY <2>2, <2>3
<1>3. ProofsKept
  <2>1. ASSUME NEW q \in RequestIds, NEW m \in MilestoneIds
        PROVE  Kept(milestones[q][m], milestones'[q][m])
    <3>1. CASE q = r
      BY <3>1, <1>1, <1>2
    <3>2. CASE q # r
      BY <3>2, <1>1, MilestoneTypes DEF Kept
    <3>3. QED BY <3>1, <3>2
  <2>2. QED BY <2>1 DEF ProofsKept
<1>4. NothingPaid
  <2>1. ASSUME NEW q \in RequestIds, NEW m \in MilestoneIds, milestones'[q][m].status = "Paid"
        PROVE  milestones[q][m].status = "Paid"
    BY <2>1, <1>1, <1>2
  <2>2. QED BY <2>1 DEF NothingPaid
<1>5. FreshOK'
  <2>1. ASSUME NEW q \in RequestIds, NEW m \in MilestoneIds, m >= nextMilestoneId'[q]
        PROVE  milestones'[q][m].proofSubmissionNumber = 0
    <3>1. CASE q = r
      BY <2>1, <3>1, <1>1, <1>2
    <3>2. CASE q # r
      BY <2>1, <3>2, <1>1 DEF FreshOK
    <3>3. QED BY <3>1, <3>2
  <2>2. QED BY <2>1 DEF FreshOK
<1>6. QED BY <1>3, <1>4, <1>5

-----------------------------------------------------------------------------
(* The escrow's actions that touch a milestone.                             *)

LEMMA SubmitKeeps ==
  ASSUME IInv, FreshOK, NEW r \in RequestIds, NEW m \in MilestoneIds, NEW uri \in ProofUris,
         NEW gas, NEW price, SubmitProof(r, m, uri, gas, price)
  PROVE  ProofsKept /\ NothingPaid /\ FreshOK'
<1> DEFINE new == Submitted(milestones[r][m], uri)
<1>1. milestones[r][m] \in Milestones /\ milestones[r][m].proofSubmissionNumber \in Nat
  BY MilestoneTypes
<1>2. /\ new.status = "Submitted"
      /\ new.proofSubmissionNumber = milestones[r][m].proofSubmissionNumber + 1
  BY <1>1 DEF Submitted, Milestones
<1>3. /\ MilestoneExists(r, m) /\ UNCHANGED nextMilestoneId
      /\ milestones' = [milestones EXCEPT ![r] = [milestones[r] EXCEPT ![m] = new]]
  BY DEF SubmitProof
<1> HIDE DEF new
<1>4. Kept(milestones[r][m], new)
  BY <1>1, <1>2 DEF Kept
<1>5. QED BY <1>2, <1>3, <1>4, OneMilestoneKept

LEMMA WithdrawKeeps ==
  ASSUME IInv, FreshOK, NEW r \in RequestIds, NEW m \in MilestoneIds, WithdrawProof(r, m)
  PROVE  ProofsKept /\ NothingPaid /\ FreshOK'
<1> DEFINE new == Withdrawn(milestones[r][m])
<1>1. milestones[r][m] \in Milestones /\ milestones[r][m].proofSubmissionNumber \in Nat
  BY MilestoneTypes
<1>2. /\ new.status \in {"Rejected", "PendingProof"}
      /\ new.proofSubmissionNumber = milestones[r][m].proofSubmissionNumber
  BY <1>1 DEF Withdrawn, Milestones
<1>3. /\ MilestoneExists(r, m) /\ UNCHANGED nextMilestoneId
      /\ milestones' = [milestones EXCEPT ![r][m] = new]
  BY DEF WithdrawProof
<1> HIDE DEF new
<1>4. milestones' = [milestones EXCEPT ![r] = [milestones[r] EXCEPT ![m] = new]]
  BY <1>3
<1>5. Kept(milestones[r][m], new)
  BY <1>1, <1>2 DEF Kept
<1>6. QED BY <1>2, <1>3, <1>4, <1>5, OneMilestoneKept

LEMMA RejectKeeps ==
  ASSUME IInv, FreshOK, NEW r \in RequestIds, NEW m \in MilestoneIds, NEW n,
         RejectMilestone(r, m, n)
  PROVE  ProofsKept /\ NothingPaid /\ FreshOK'
<1> DEFINE new == [milestones[r][m] EXCEPT !.status = "Rejected",
                                           !.proofWithdrawalsThisRound = 0,
                                           !.submittedAfterRejection = FALSE]
<1>1. milestones[r][m] \in Milestones /\ milestones[r][m].proofSubmissionNumber \in Nat
  BY MilestoneTypes
<1>2. /\ new.status = "Rejected"
      /\ new.proofSubmissionNumber = milestones[r][m].proofSubmissionNumber
  BY <1>1 DEF Milestones
<1>3. /\ MilestoneExists(r, m) /\ UNCHANGED nextMilestoneId
      /\ milestones' = [milestones EXCEPT ![r] = [milestones[r] EXCEPT ![m] = new]]
  BY DEF RejectMilestone, MayReview
<1> HIDE DEF new
<1>4. Kept(milestones[r][m], new)
  BY <1>1, <1>2 DEF Kept
<1>5. QED BY <1>2, <1>3, <1>4, OneMilestoneKept

LEMMA ApproveKeeps ==
  ASSUME IInv, FreshOK, NEW r \in RequestIds, NEW m \in MilestoneIds, NEW n,
         ApproveMilestone(r, m, n)
  PROVE  /\ ProofsKept /\ FreshOK'
         /\ milestones[r][m].status = "Submitted" /\ milestones[r][m].proofSubmissionNumber = n
         /\ milestones'[r][m].proofUri = milestones[r][m].proofUri
         /\ \A q \in RequestIds, k \in MilestoneIds :
              ~(q = r /\ k = m) => milestones'[q][k] = milestones[q][k]
<1> DEFINE new == [milestones[r][m] EXCEPT !.status = "Paid"]
<1>1. milestones[r][m] \in Milestones /\ milestones[r][m].proofSubmissionNumber \in Nat
  BY MilestoneTypes
<1>2. /\ new.status = "Paid" /\ new.proofUri = milestones[r][m].proofUri
      /\ new.proofSubmissionNumber = milestones[r][m].proofSubmissionNumber
  BY <1>1 DEF Milestones
<1>3. /\ MilestoneExists(r, m) /\ UNCHANGED nextMilestoneId
      /\ milestones[r][m].status = "Submitted" /\ milestones[r][m].proofSubmissionNumber = n
      /\ milestones' = [milestones EXCEPT ![r] = [milestones[r] EXCEPT ![m] = new]]
  BY DEF ApproveMilestone, MayReview
<1> HIDE DEF new
<1>4. Kept(milestones[r][m], new)
  BY <1>1, <1>2 DEF Kept
<1>5. ProofsKept /\ FreshOK'
  BY <1>3, <1>4, OneMilestoneKept
<1>6. /\ milestones'[r][m] = new
      /\ \A q \in RequestIds, k \in MilestoneIds :
           ~(q = r /\ k = m) => milestones'[q][k] = milestones[q][k]
  BY <1>3, MilestoneTypes
<1>7. QED BY <1>2, <1>3, <1>5, <1>6

LEMMA FundKeeps ==
  ASSUME IInv, FreshOK, NEW r \in RequestIds, NEW p \in DOMAIN proposals[r],
         NEW price \in ReferenceGasPrices, NEW allowance, ApproveAndFund(r, p, price, allowance)
  PROVE  ProofsKept /\ NothingPaid /\ FreshOK'
<1> DEFINE plan == proposals[r][p].plan
           first == nextMilestoneId[r]
           ms == [m \in MilestoneIds |->
                    IF m \in first .. first + Len(plan) - 1
                    THEN [NoMilestone EXCEPT !.status = "PendingProof",
                            !.payoutAmount =
                               PayoutAmount(requests[r].proposedAmount, plan, m - first + 1)]
                    ELSE milestones[r][m]]
<1>1. Len(plan) \in Nat
  <2>1. plan \in Seq(Nat)
    BY InputAssumption, MinimumIsNat DEF IInv
  <2>2. QED BY <2>1
<1>2. /\ milestones' = [milestones EXCEPT ![r] = ms]
      /\ nextMilestoneId' = [nextMilestoneId EXCEPT ![r] = first + Len(plan)]
  BY DEF ApproveAndFund
<1>3. \A m \in MilestoneIds :
        IF m \in first .. first + Len(plan) - 1
        THEN ms[m].status = "PendingProof" /\ ms[m].proofSubmissionNumber = 0
        ELSE ms[m] = milestones[r][m]
  BY DEF NoMilestone
<1> DEFINE n == Len(plan)
<1>4. Created(r, n, ms)
  <2> HIDE DEF ms
  <2>1. QED BY <1>3 DEF Created
<1>5. /\ milestones' = [milestones EXCEPT ![r] = ms] /\ n \in Nat
      /\ nextMilestoneId' = [nextMilestoneId EXCEPT ![r] = nextMilestoneId[r] + n]
  BY <1>1, <1>2
<1> HIDE DEF ms, n
<1>6. QED BY <1>4, <1>5, MilestonesCreated

LEMMA AmendKeeps ==
  ASSUME IInv, FreshOK, NEW r \in RequestIds, NEW newDeadline, NEW existing,
         NEW additions \in Additions(r), NEW operational,
         existing \in Fundings(r),
         ManagerAmends(r, newDeadline, existing, additions, operational)
  PROVE  ProofsKept /\ NothingPaid /\ FreshOK'
<1> DEFINE first == nextMilestoneId[r]
           n == Len(additions)
           ms == [m \in MilestoneIds |->
                    IF m \in first .. first + n - 1
                    THEN [NoMilestone EXCEPT !.status = "PendingProof",
                                             !.additionalPayoutAmount = additions[m - first + 1].amount]
                    ELSE IF m \in DOMAIN existing
                    THEN [milestones[r][m] EXCEPT !.additionalPayoutAmount = @ + existing[m]]
                    ELSE milestones[r][m]]
<1>1. n \in Nat
  BY AmendmentInputs
<1>2. /\ milestones' = [milestones EXCEPT ![r] = ms]
      /\ nextMilestoneId' = [nextMilestoneId EXCEPT ![r] = first + n]
  BY DEF ManagerAmends, FinalizeAmendment
<1>3. ASSUME NEW m \in MilestoneIds
      PROVE  IF m \in first .. first + n - 1
             THEN ms[m].status = "PendingProof" /\ ms[m].proofSubmissionNumber = 0
             ELSE /\ ms[m].status = milestones[r][m].status
                  /\ ms[m].proofUri = milestones[r][m].proofUri
                  /\ ms[m].proofSubmissionNumber = milestones[r][m].proofSubmissionNumber
  <2>1. milestones[r][m] \in Milestones
    BY MilestoneTypes
  <2>2. CASE m \in first .. first + n - 1
    BY <2>2 DEF NoMilestone
  <2>3. CASE m \notin first .. first + n - 1
    BY <2>1, <2>3 DEF Milestones
  <2>4. QED BY <2>2, <2>3
<1> HIDE DEF ms
<1>4. Created(r, n, ms)
  BY <1>3 DEF Created
<1> HIDE DEF n
<1>5. QED BY <1>1, <1>2, <1>4, MilestonesCreated

(* Everybody but the shipper at the page: nothing is paid.                  *)
LEMMA OthersKeep ==
  ASSUME IInv, FreshOK, OthersStep
  PROVE  ProofsKept /\ NothingPaid /\ FreshOK'
<1>1. CASE Tick
  BY <1>1, WorkUnchanged DEF Tick, workVars
<1>2. ASSUME NEW u \in Users, NEW deadline \in Deadlines, NEW amount \in Amounts,
             CreateRequest(u, deadline, amount)
      PROVE  ProofsKept /\ NothingPaid /\ FreshOK'
  BY <1>2, WorkUnchanged DEF CreateRequest, workVars
<1>3. ASSUME NEW r \in RequestIds, MarketStep(r) PROVE ProofsKept /\ NothingPaid /\ FreshOK'
  <2>1. ASSUME NEW u \in Users, NEW plan \in Plans, ProposeMilestones(u, r, plan)
        PROVE  UNCHANGED <<milestones, nextMilestoneId>>
    BY <2>1 DEF ProposeMilestones, workVars
  <2>2. ASSUME NEW u \in Users, RevokeMilestoneProposal(u, r)
        PROVE  UNCHANGED <<milestones, nextMilestoneId>>
    BY <2>2 DEF RevokeMilestoneProposal, workVars
  <2>3. ASSUME NEW p \in 1 .. MaxProposals, RejectMilestoneProposal(r, p)
        PROVE  UNCHANGED <<milestones, nextMilestoneId>>
    BY <2>3 DEF RejectMilestoneProposal, workVars
  <2>4. CancelRequest(r) => UNCHANGED <<milestones, nextMilestoneId>>
    BY DEF CancelRequest, workVars
  <2>5. ASSUME NEW p \in DOMAIN proposals[r], NEW price \in ReferenceGasPrices, NEW allowance,
               ApproveAndFund(r, p, price, allowance)
        PROVE  ProofsKept /\ NothingPaid /\ FreshOK'
    BY <2>5, FundKeeps
  <2>6. QED BY <1>3, <2>1, <2>2, <2>3, <2>4, <2>5, WorkUnchanged DEF MarketStep
<1>4. ASSUME NEW r \in RequestIds, CarrierStep(r) PROVE ProofsKept /\ NothingPaid /\ FreshOK'
  BY <1>4, SubmitKeeps, WithdrawKeeps DEF CarrierStep
<1>5. ASSUME NEW r \in RequestIds, SettlementStep(r) PROVE ProofsKept /\ NothingPaid /\ FreshOK'
  <2>1. RefundRemaining(r) => UNCHANGED <<milestones, nextMilestoneId>>
    BY DEF RefundRemaining, Refund, workVars
  <2>2. ASSUME NEW amount \in FundingAmounts, TipCarrier(r, amount)
        PROVE  UNCHANGED <<milestones, nextMilestoneId>>
    BY <2>2 DEF TipCarrier, workVars
  <2>3. ASSUME NEW amount \in FundingAmounts, TopUpOperationalAllowance(r, amount)
        PROVE  UNCHANGED <<milestones, nextMilestoneId>>
    BY <2>3 DEF TopUpOperationalAllowance
  <2>4. QED BY <1>5, <2>1, <2>2, <2>3, WorkUnchanged DEF SettlementStep
<1>6. ASSUME NEW r \in RequestIds, ManagerStep(r) PROVE ProofsKept /\ NothingPaid /\ FreshOK'
  <2>1. ManagerCancels(r) => UNCHANGED <<milestones, nextMilestoneId>>
    BY DEF ManagerCancels, FinalizeMutualCancellation, Refund, workVars
  <2>2. ASSUME NEW newDeadline \in Deadlines, NEW existing \in Fundings(r),
               NEW additions \in Additions(r), NEW operational,
               ManagerAmends(r, newDeadline, existing, additions, operational)
        PROVE  ProofsKept /\ NothingPaid /\ FreshOK'
    BY <2>2, AmendKeeps
  <2>3. QED BY <1>6, <2>1, <2>2, WorkUnchanged DEF ManagerStep
<1>7. QED BY <1>1, <1>2, <1>3, <1>4, <1>5, <1>6 DEF OthersStep

-----------------------------------------------------------------------------
(* The page.                                                                *)

Shown == [status : MilestoneStatus, proofUri : ProofUris \cup {NoProof},
          proofSubmissionNumber : Nat]

(* The page is never ahead of the contract.                                 *)
ShownOK ==
  /\ shown \in [RequestIds -> [MilestoneIds -> Shown]]
  /\ \A r \in RequestIds, m \in MilestoneIds :
       shown[r][m].proofSubmissionNumber <= milestones[r][m].proofSubmissionNumber

ReviewInv == IInv /\ FreshOK /\ ShownOK /\ NumberIdentifiesProof

LEMMA ReviewInitOK == ReviewInit => ReviewInv
<1> SUFFICES ASSUME ReviewInit PROVE ReviewInv
  OBVIOUS
<1>1. IInv
  BY InitOK DEF ReviewInit
<1>2. FreshOK
  BY DEF ReviewInit, Init, FreshOK, NoMilestone
<1>3. NothingShown \in Shown
  BY DEF NothingShown, Shown, MilestoneStatus
<1>4. ShownOK
  BY <1>3 DEF ReviewInit, Init, ShownOK, NoMilestone, NothingShown
<1>5. NumberIdentifiesProof
  BY DEF ReviewInit, Init, NumberIdentifiesProof, NoMilestone
<1>6. QED BY <1>1, <1>2, <1>4, <1>5 DEF ReviewInv

(* The contract moves on behind the page's back.                            *)
LEMMA PageStaysRight ==
  ASSUME ReviewInv, IInv', ProofsKept, UNCHANGED shown
  PROVE  ShownOK' /\ NumberIdentifiesProof'
<1> USE DEF ReviewInv
<1>1. ASSUME NEW r \in RequestIds, NEW m \in MilestoneIds
      PROVE  /\ shown[r][m].proofSubmissionNumber \in Nat
             /\ milestones[r][m].proofSubmissionNumber \in Nat
             /\ milestones'[r][m].proofSubmissionNumber \in Nat
             /\ shown[r][m].proofSubmissionNumber <= milestones[r][m].proofSubmissionNumber
             /\ Kept(milestones[r][m], milestones'[r][m])
  <2>1. shown[r][m].proofSubmissionNumber \in Nat
    BY DEF ShownOK, Shown
  <2>2. milestones[r][m].proofSubmissionNumber \in Nat
    BY MilestoneTypes
  <2>3. milestones'[r][m].proofSubmissionNumber \in Nat
    BY DEF IInv, WorkOK, Milestones
  <2>4. QED BY <2>1, <2>2, <2>3 DEF ShownOK, ProofsKept
<1>2. ShownOK'
  <2>1. ASSUME NEW r \in RequestIds, NEW m \in MilestoneIds
        PROVE  shown[r][m].proofSubmissionNumber <= milestones'[r][m].proofSubmissionNumber
    BY <1>1 DEF Kept
  <2>2. QED BY <2>1 DEF ShownOK
<1>3. NumberIdentifiesProof'
  <2>1. ASSUME NEW r \in RequestIds, NEW m \in MilestoneIds,
               milestones'[r][m].status = "Submitted", shown[r][m].status = "Submitted",
               shown[r][m].proofSubmissionNumber = milestones'[r][m].proofSubmissionNumber
        PROVE  shown[r][m].proofUri = milestones'[r][m].proofUri
    <3>1. /\ milestones[r][m].status = "Submitted"
          /\ milestones'[r][m].proofUri = milestones[r][m].proofUri
          /\ milestones'[r][m].proofSubmissionNumber = milestones[r][m].proofSubmissionNumber
      BY <1>1, <2>1 DEF Kept
    <3>2. QED BY <2>1, <3>1 DEF NumberIdentifiesProof
  <2>2. QED BY <2>1 DEF NumberIdentifiesProof
<1>4. QED BY <1>2, <1>3

LEMMA LoadOK ==
  ASSUME ReviewInv, NEW r \in RequestIds, LoadShipment(r)
  PROVE  ReviewInv'
<1> USE DEF ReviewInv
<1> DEFINE page == [m \in MilestoneIds |->
             [status |-> milestones[r][m].status, proofUri |-> milestones[r][m].proofUri,
              proofSubmissionNumber |-> milestones[r][m].proofSubmissionNumber]]
<1>1. UNCHANGED vars /\ shown' = [shown EXCEPT ![r] = page]
  BY DEF LoadShipment
<1>2. IInv' /\ FreshOK' /\ UNCHANGED milestones
  BY <1>1, StutterOK DEF vars, workVars, FreshOK
<1>3. page \in [MilestoneIds -> Shown]
  BY MilestoneTypes DEF Shown, Milestones
<1>4. \A m \in MilestoneIds :
        /\ page[m].proofUri = milestones[r][m].proofUri
        /\ page[m].proofSubmissionNumber = milestones[r][m].proofSubmissionNumber
  OBVIOUS
<1> HIDE DEF page
<1>5. /\ shown' \in [RequestIds -> [MilestoneIds -> Shown]] /\ shown'[r] = page
      /\ \A q \in RequestIds : q # r => shown'[q] = shown[q]
  BY <1>1, <1>3 DEF ShownOK
<1>6. ShownOK'
  <2>1. ASSUME NEW q \in RequestIds, NEW m \in MilestoneIds
        PROVE  shown'[q][m].proofSubmissionNumber <= milestones[q][m].proofSubmissionNumber
    <3>1. CASE q = r
      BY <3>1, <1>4, <1>5, MilestoneTypes
    <3>2. CASE q # r
      BY <3>2, <1>5 DEF ShownOK
    <3>3. QED BY <3>1, <3>2
  <2>2. QED BY <2>1, <1>2, <1>5 DEF ShownOK
<1>7. NumberIdentifiesProof'
  BY <1>2, <1>4, <1>5 DEF NumberIdentifiesProof
<1>8. QED BY <1>2, <1>6, <1>7

LEMMA VerifyOK ==
  ASSUME ReviewInv, NEW r \in RequestIds, NEW m \in MilestoneIds, VerifyMilestone(r, m)
  PROVE  ReviewInv'
<1> USE DEF ReviewInv
<1>1. IInv' /\ ProofsKept /\ FreshOK' /\ UNCHANGED shown
  BY ApproveMilestoneOK, RejectMilestoneOK, ApproveKeeps, RejectKeeps DEF VerifyMilestone
<1>2. QED BY <1>1, PageStaysRight

LEMMA OthersOK ==
  ASSUME ReviewInv, OthersStep, UNCHANGED shown
  PROVE  ReviewInv'
<1> USE DEF ReviewInv
<1>1. Next
  BY DEF OthersStep, Next
<1>2. IInv' /\ ProofsKept /\ FreshOK'
  BY <1>1, StepOK, OthersKeep
<1>3. QED BY <1>2, PageStaysRight

LEMMA ReviewStepOK == ReviewInv /\ [ReviewNext]_reviewVars => ReviewInv'
<1> SUFFICES ASSUME ReviewInv, [ReviewNext]_reviewVars PROVE ReviewInv'
  OBVIOUS
<1>1. CASE UNCHANGED reviewVars
  <2>1. UNCHANGED vars /\ UNCHANGED shown
    BY <1>1 DEF reviewVars
  <2>2. IInv' /\ ProofsKept /\ FreshOK'
    BY <2>1, StutterOK, WorkUnchanged DEF ReviewInv, vars, workVars
  <2>3. QED BY <2>1, <2>2, PageStaysRight DEF ReviewInv
<1>2. CASE OthersStep /\ UNCHANGED shown
  BY <1>2, OthersOK
<1>3. ASSUME NEW r \in RequestIds, LoadShipment(r) PROVE ReviewInv'
  BY <1>3, LoadOK
<1>4. ASSUME NEW r \in RequestIds, NEW m \in MilestoneIds, VerifyMilestone(r, m) PROVE ReviewInv'
  BY <1>4, VerifyOK
<1>5. QED BY <1>1, <1>2, <1>3, <1>4 DEF ReviewNext

LEMMA PaidAsShown ==
  ASSUME ReviewInv, [ReviewNext]_reviewVars,
         NEW r \in RequestIds, NEW m \in MilestoneIds,
         milestones[r][m].status # "Paid", milestones'[r][m].status = "Paid"
  PROVE  shown[r][m].proofUri = milestones'[r][m].proofUri
<1> USE DEF ReviewInv
<1>1. CASE UNCHANGED reviewVars
  BY <1>1 DEF reviewVars, vars, workVars
<1>2. CASE OthersStep /\ UNCHANGED shown
  BY <1>2, OthersKeep DEF NothingPaid
<1>3. ASSUME NEW q \in RequestIds, LoadShipment(q) PROVE UNCHANGED milestones
  BY <1>3 DEF LoadShipment, vars, workVars
<1>4. ASSUME NEW q \in RequestIds, NEW k \in MilestoneIds, VerifyMilestone(q, k)
      PROVE  shown[r][m].proofUri = milestones'[r][m].proofUri
  <2> DEFINE number == shown[q][k].proofSubmissionNumber
  <2>1. shown[q][k].status = "Submitted"
        /\ (ApproveMilestone(q, k, number) \/ RejectMilestone(q, k, number))
    BY <1>4 DEF VerifyMilestone
  <2> HIDE DEF number
  <2>2. ~RejectMilestone(q, k, number)
    BY RejectKeeps DEF NothingPaid
  <2>3. ApproveMilestone(q, k, number)
    BY <2>1, <2>2
  <2>4. /\ milestones[q][k].status = "Submitted"
        /\ milestones[q][k].proofSubmissionNumber = number
        /\ milestones'[q][k].proofUri = milestones[q][k].proofUri
        /\ ~(r = q /\ m = k) => milestones'[r][m] = milestones[r][m]
    BY <2>3, ApproveKeeps
  <2>5. r = q /\ m = k
    BY <2>4
  <2>6. shown[q][k].proofUri = milestones[q][k].proofUri
    BY <2>1, <2>4 DEF NumberIdentifiesProof, number
  <2>7. QED BY <2>4, <2>5, <2>6
<1>5. QED BY <1>1, <1>2, <1>3, <1>4 DEF ReviewNext

-----------------------------------------------------------------------------
(* The theorems.                                                            *)

(* The escrow's invariant and what the page knows hold together, whatever   *)
(* the carrier does between a load and a transaction.                       *)
THEOREM ReviewInvariant == ReviewSpec => []ReviewInv
<1>1. QED BY ReviewInitOK, ReviewStepOK, PTL DEF ReviewSpec

(* While a submitted milestone has the number the page shows it has the     *)
(* proof the page shows, after any number of withdrawals, rejections and    *)
(* resubmissions: the number is never used twice.                           *)
THEOREM NumberAlwaysIdentifies == ReviewSpec => []NumberIdentifiesProof
<1>1. ReviewInv => NumberIdentifiesProof
  BY DEF ReviewInv
<1>2. QED BY <1>1, ReviewInvariant, PTL

(* No payment is ever made for a proof other than the one on the page.      *)
THEOREM PaidProofsWereShown == ReviewSpec => OnlyShownProofsArePaid
<1>1. ReviewInv /\ [ReviewNext]_reviewVars =>
        [\A r \in RequestIds, m \in MilestoneIds :
           (milestones[r][m].status # "Paid" /\ milestones'[r][m].status = "Paid")
             => shown[r][m].proofUri = milestones'[r][m].proofUri]_reviewVars
  BY PaidAsShown
<1>2. QED BY <1>1, ReviewInvariant, PTL DEF ReviewSpec, OnlyShownProofsArePaid

-----------------------------------------------------------------------------
(* Part II.  Paying: what the escrow takes.                                 *)

LEMMA AccountsFinite == IsFiniteSet(Accounts)
<1>1. IsFiniteSet(Users) /\ IsFiniteSet({Escrow, Manager})
  <2>1. IsFiniteSet({Escrow}) /\ {Escrow, Manager} = {Escrow} \cup {Manager}
    BY FS_Singleton
  <2>2. QED BY <2>1, FS_AddElement, DeskAssumption
<1>2. QED BY <1>1, FS_Union DEF Accounts

LEMMA TransferConserves ==
  ASSUME NEW balances \in [Accounts -> Nat], NEW from \in Accounts, NEW to \in Accounts, from # to,
         NEW amount \in Nat, Transfer(balances, from, to, amount) \in [Accounts -> Nat]
  PROVE  /\ SumOver(Transfer(balances, from, to, amount)) = SumOver(balances)
         /\ amount <= balances[from]
         /\ \A a \in Accounts :
              Transfer(balances, from, to, amount)[a]
                = IF a = from THEN balances[from] - amount
                  ELSE IF a = to THEN balances[to] + amount ELSE balances[a]
<1> DEFINE after == Transfer(balances, from, to, amount)
<1>1. \A a \in Accounts : after[a] = IF a = from THEN balances[from] - amount
                                     ELSE IF a = to THEN balances[to] + amount ELSE balances[a]
  BY DEF Transfer
<1>2. balances[from] \in Nat /\ balances[to] \in Nat /\ after[from] \in Nat
  OBVIOUS
<1>3. after[from] = balances[from] - amount
  BY <1>1
<1>4. amount <= balances[from]
  <2> HIDE DEF after
  <2>1. QED BY <1>2, <1>3
<1>5. PICK left \in Nat : left = balances[from] - amount
  BY <1>2, <1>4
<1>6. PICK more \in Nat : more = balances[to] + amount
  BY <1>2
<1> DEFINE middle == [balances EXCEPT ![from] = left]
<1>7. middle \in [Accounts -> Nat] /\ middle[to] = balances[to]
  OBVIOUS
<1>8. after = [middle EXCEPT ![to] = more]
  BY <1>5, <1>6 DEF Transfer
<1>9. SumOver(middle) = SumOver(balances) - balances[from] + left
  BY AccountsFinite, SumUpdate
<1> HIDE DEF middle
<1>10. SumOver([middle EXCEPT ![to] = more]) = SumOver(middle) - middle[to] + more
  BY <1>7, AccountsFinite, SumUpdate
<1>11. SumOver(balances) \in Nat
  BY AccountsFinite, SumIsNat
<1>12. SumOver(after) = SumOver(balances)
  <2> HIDE DEF after
  <2>1. QED BY <1>2, <1>5, <1>6, <1>7, <1>8, <1>9, <1>10, <1>11
<1>13. QED BY <1>1, <1>4, <1>12

(* The terms of a request that exists.                                      *)
TermsStay ==
  /\ nextRequestId' >= nextRequestId
  /\ \A q \in RequestIds : RequestExists(q) =>
       /\ requests'[q].shipper = requests[q].shipper
       /\ requests'[q].proposedAmount = requests[q].proposedAmount

NobodyPays == \A u \in Users : cargo'[u] >= cargo[u]

Conserved == SumOver(cargo') = SumOver(cargo)

Gives == TermsStay /\ NobodyPays /\ Conserved

LEMMA MoneyTypes ==
  ASSUME IInv
  PROVE  /\ cargo \in [Accounts -> Nat] /\ requests \in [RequestIds -> Requests]
         /\ nextRequestId \in Nat /\ Users \subseteq Accounts
         /\ Escrow \in Accounts /\ Manager \in Accounts /\ Escrow # Manager
         /\ Escrow \notin Users /\ Manager \notin Users
         /\ \A u \in Users : cargo[u] \in Nat
<1>1. /\ cargo \in [Accounts -> Nat] /\ requests \in [RequestIds -> Requests] /\ nextRequestId \in Nat
  BY MarketTypes DEF IInv, PoolOK
<1>2. QED BY <1>1, AccountAssumption DEF Accounts

LEMMA NoMoneyMoves == IInv /\ cargo' = cargo => NobodyPays /\ Conserved
BY MoneyTypes DEF NobodyPays, Conserved

(* The escrow or the manager pays.                                          *)
LEMMA PaidOut ==
  ASSUME IInv, IInv', NEW from \in {Escrow, Manager}, NEW to \in Accounts, from # to, NEW amount \in Nat,
         cargo' = Transfer(cargo, from, to, amount)
  PROVE  NobodyPays /\ Conserved
<1>1. cargo \in [Accounts -> Nat] /\ cargo' \in [Accounts -> Nat] /\ from \in Accounts
  BY MoneyTypes DEF IInv, PoolOK
<1>2. /\ SumOver(cargo') = SumOver(cargo)
      /\ \A a \in Accounts : cargo'[a] = IF a = from THEN cargo[from] - amount
                                         ELSE IF a = to THEN cargo[to] + amount ELSE cargo[a]
  BY <1>1, TransferConserves
<1>3. ASSUME NEW u \in Users PROVE cargo'[u] >= cargo[u]
  <2>1. u \in Accounts /\ u # from /\ cargo[u] \in Nat
    BY MoneyTypes
  <2>2. cargo'[u] = IF u = to THEN cargo[u] + amount ELSE cargo[u]
    BY <1>2, <2>1
  <2>3. QED BY <2>1, <2>2
<1>4. QED BY <1>2, <1>3 DEF NobodyPays, Conserved

(* An existing request gets a new record with the same terms.               *)
LEMMA SameTerms ==
  ASSUME IInv, NEW r \in RequestIds, UNCHANGED nextRequestId,
         \A q \in RequestIds : q # r => requests'[q] = requests[q],
         requests'[r].shipper = requests[r].shipper,
         requests'[r].proposedAmount = requests[r].proposedAmount
  PROVE  TermsStay
BY MoneyTypes DEF TermsStay

LEMMA NoRequestChanges ==
  ASSUME IInv, UNCHANGED <<requests, nextRequestId>>
  PROVE  TermsStay
BY MoneyTypes DEF TermsStay

LEMMA SubmitGives ==
  ASSUME IInv, IInv', NEW r \in RequestIds, NEW m \in MilestoneIds, NEW uri \in ProofUris,
         NEW gas \in Nat, NEW price \in Nat, SubmitProof(r, m, uri, gas, price)
  PROVE  Gives
<1>1. /\ \E spent : requests' = [requests EXCEPT ![r].status = "InProgress",
                                                 ![r].operationalSpent = spent]
      /\ UNCHANGED nextRequestId
  BY DEF SubmitProof, marketVars
<1>2. TermsStay
  BY <1>1, MoneyTypes, SameTerms DEF Requests
<1>3. /\ WasFunded(requests[r])
      /\ \E paid \in Nat : cargo' = Transfer(cargo, Escrow, requests[r].carrier, paid)
  BY SubmitFigures, Figures DEF FieldsKept
<1>4. requests[r].carrier \in Users
  BY <1>3, Figures
<1>5. QED BY <1>2, <1>3, <1>4, MoneyTypes, PaidOut DEF Gives

LEMMA ApproveGives ==
  ASSUME AllInv, IInv', NEW r \in RequestIds, NEW m \in MilestoneIds, NEW k, ApproveMilestone(r, m, k)
  PROVE  Gives
<1>1. IInv /\ Sound(r) /\ Balanced(r) /\ Held(r) /\ Deal(r)
  BY DEF AllInv, OrderInv, WorthInv, HeldInv, DealInv
<1>2. /\ \E status, released, spent :
           requests' = [requests EXCEPT ![r].releasedAmount = released, ![r].status = status,
                                        ![r].operationalSpent = spent]
      /\ UNCHANGED nextRequestId /\ RequestExists(r)
  BY DEF ApproveMilestone, marketVars, MayReview
<1>3. TermsStay
  BY <1>1, <1>2, MoneyTypes, SameTerms DEF Requests
<1>4. /\ WasFunded(requests[r])
      /\ \E amount \in Nat, back \in Nat :
           cargo' = Transfer(Transfer(cargo, Escrow, requests[r].carrier, amount),
                             Escrow, requests[r].shipper, back)
  <2>1. FieldsKept(r) /\ OperationalOf(requests[r]) \in Nat /\ EscrowOf(requests[r]) \in Nat
    BY <1>1, ApproveFigures, Figures
  <2>2. PICK amount \in 1 .. EscrowOf(requests[r]) :
          \/ cargo' = Transfer(Transfer(cargo, Escrow, requests[r].carrier, amount),
                               Escrow, requests[r].shipper, 0)
          \/ cargo' = Transfer(Transfer(cargo, Escrow, requests[r].carrier, amount),
                               Escrow, requests[r].shipper, OperationalOf(requests[r]))
    BY <1>1, ApproveFigures
  <2>3. amount \in Nat
    BY <2>1
  <2>4. QED BY <2>1, <2>2, <2>3 DEF FieldsKept
<1>5. PICK amount \in Nat, back \in Nat :
        cargo' = Transfer(Transfer(cargo, Escrow, requests[r].carrier, amount),
                          Escrow, requests[r].shipper, back)
  BY <1>4
<1>6. requests[r].carrier \in Users /\ requests[r].shipper \in Users
  BY <1>1, <1>2, <1>4, Figures DEF RequestExists
<1> DEFINE carrier == requests[r].carrier
           shipper == requests[r].shipper
           middle == Transfer(cargo, Escrow, carrier, amount)
<1>7. /\ cargo \in [Accounts -> Nat] /\ cargo' \in [Accounts -> Nat]
      /\ Escrow \in Accounts /\ carrier \in Accounts /\ shipper \in Accounts
      /\ carrier # Escrow /\ shipper # Escrow
  BY <1>1, <1>6, MoneyTypes DEF IInv, PoolOK
<1>8. /\ middle \in [Accounts -> Int] /\ middle[Escrow] = cargo[Escrow] - amount
      /\ middle[carrier] = cargo[carrier] + amount
      /\ \A a \in Accounts : a \notin {Escrow, carrier} => middle[a] = cargo[a]
  BY <1>7 DEF Transfer
<1>9. cargo'[Escrow] = middle[Escrow] - back
  <2> HIDE DEF middle, carrier, shipper
  <2>1. cargo' = Transfer(middle, Escrow, shipper, back)
    BY <1>5 DEF middle, carrier, shipper
  <2>2. QED BY <2>1, <1>7, <1>8 DEF Transfer
<1>10. middle \in [Accounts -> Nat]
  <2>1. cargo'[Escrow] \in Nat /\ middle[Escrow] \in Int
    BY <1>7, <1>8
  <2>2. middle[Escrow] \in Nat
    BY <1>9, <2>1
  <2>3. middle[carrier] \in Nat
    BY <1>7, <1>8
  <2>4. \A a \in Accounts : middle[a] \in Nat
    BY <1>7, <1>8, <2>2, <2>3
  <2>5. QED BY <1>8, <2>4
<1>11. /\ SumOver(middle) = SumOver(cargo)
       /\ \A a \in Accounts : middle[a] = IF a = Escrow THEN cargo[Escrow] - amount
                                          ELSE IF a = carrier THEN cargo[carrier] + amount ELSE cargo[a]
  BY <1>7, <1>10, TransferConserves
<1> HIDE DEF middle, carrier, shipper
<1>12. cargo' = Transfer(middle, Escrow, shipper, back)
  BY <1>5 DEF middle, carrier, shipper
<1>13. /\ SumOver(cargo') = SumOver(middle)
       /\ \A a \in Accounts : cargo'[a] = IF a = Escrow THEN middle[Escrow] - back
                                          ELSE IF a = shipper THEN middle[shipper] + back ELSE middle[a]
  BY <1>7, <1>10, <1>12, TransferConserves
<1>14. ASSUME NEW u \in Users PROVE cargo'[u] >= cargo[u]
  <2>1. u \in Accounts /\ u # Escrow /\ cargo[u] \in Nat
    BY <1>1, MoneyTypes
  <2>2. middle[u] = cargo[u] \/ middle[u] = cargo[u] + amount
    BY <1>11, <2>1
  <2>3. cargo'[u] = middle[u] \/ cargo'[u] = middle[u] + back
    BY <1>13, <2>1
  <2>4. QED BY <2>1, <2>2, <2>3
<1>15. QED BY <1>3, <1>11, <1>13, <1>14 DEF Gives, NobodyPays, Conserved

LEMMA RefundGives ==
  ASSUME AllInv, IInv', NEW r \in RequestIds, RequestExists(r), Refund(r)
  PROVE  Gives
<1>1. IInv /\ Held(r)
  BY DEF AllInv, HeldInv
<1>2. /\ \E refunded, spent :
           requests' = [requests EXCEPT ![r].refundedAmount = refunded, ![r].operationalSpent = spent,
                                        ![r].status = "Refunded"]
      /\ UNCHANGED nextRequestId
  BY DEF Refund, marketVars
<1>3. TermsStay
  BY <1>1, <1>2, MoneyTypes, SameTerms DEF Requests
<1>4. requests[r].shipper \in Users
  BY <1>1, Figures DEF RequestExists
<1>5. /\ cargo' = Transfer(cargo, Escrow, requests[r].shipper,
                           EscrowOf(requests[r]) + OperationalOf(requests[r]))
      /\ EscrowOf(requests[r]) + OperationalOf(requests[r]) \in Nat
  BY <1>1, RefundFigures, Figures
<1>6. QED BY <1>1, <1>3, <1>4, <1>5, MoneyTypes, PaidOut DEF Gives

LEMMA AmendGives ==
  ASSUME AllInv, IInv', NEW r \in RequestIds, NEW newDeadline \in Deadlines,
         NEW existing \in Fundings(r), NEW additions \in Additions(r), NEW operational \in Nat,
         ManagerAmends(r, newDeadline, existing, additions, operational)
  PROVE  Gives
<1>1. IInv
  BY DEF AllInv
<1>2. /\ \E total, allowance :
           requests' = [requests EXCEPT ![r].deadline = newDeadline, ![r].totalAmount = total,
                                        ![r].operationalAllowance = allowance]
      /\ UNCHANGED nextRequestId
  BY DEF ManagerAmends, FinalizeAmendment, marketVars
<1>3. TermsStay
  BY <1>1, <1>2, MoneyTypes, SameTerms DEF Requests
<1>4. PICK funding \in Nat : cargo' = Transfer(cargo, Manager, Escrow, funding + operational)
  BY <1>1, AmendFigures
<1>5. funding + operational \in Nat
  OBVIOUS
<1>6. QED BY <1>1, <1>3, <1>4, <1>5, MoneyTypes, PaidOut DEF Gives

LEMMA MarketGives ==
  ASSUME IInv, NEW r \in RequestIds,
         \/ \E u \in Users, plan \in Plans : ProposeMilestones(u, r, plan)
         \/ \E u \in Users : RevokeMilestoneProposal(u, r)
         \/ \E p \in 1 .. MaxProposals : RejectMilestoneProposal(r, p)
         \/ CancelRequest(r)
  PROVE  Gives
<1>1. ASSUME NEW u, NEW plan, ProposeMilestones(u, r, plan) PROVE Gives
  <2>1. UNCHANGED <<requests, nextRequestId, cargo>>
    BY <1>1 DEF ProposeMilestones, moneyVars
  <2>2. QED BY <2>1, NoRequestChanges, NoMoneyMoves DEF Gives
<1>2. ASSUME NEW u, RevokeMilestoneProposal(u, r) PROVE Gives
  <2>1. UNCHANGED <<requests, nextRequestId, cargo>>
    BY <1>2 DEF RevokeMilestoneProposal, moneyVars
  <2>2. QED BY <2>1, NoRequestChanges, NoMoneyMoves DEF Gives
<1>3. ASSUME NEW p, RejectMilestoneProposal(r, p) PROVE Gives
  <2>1. UNCHANGED <<requests, nextRequestId, cargo>>
    BY <1>3 DEF RejectMilestoneProposal, moneyVars
  <2>2. QED BY <2>1, NoRequestChanges, NoMoneyMoves DEF Gives
<1>4. CASE CancelRequest(r)
  <2>1. /\ UNCHANGED <<nextRequestId, cargo>>
        /\ requests' = [requests EXCEPT ![r].status = "Cancelled"]
    BY <1>4 DEF CancelRequest, moneyVars
  <2>2. TermsStay
    BY <2>1, MoneyTypes, SameTerms DEF Requests
  <2>3. QED BY <2>1, <2>2, NoMoneyMoves DEF Gives
<1>5. QED BY <1>1, <1>2, <1>3, <1>4

LEMMA CreateGives ==
  ASSUME IInv, NEW u \in Users, NEW deadline, NEW amount, CreateRequest(u, deadline, amount)
  PROVE  Gives
<1>1. /\ nextRequestId' = nextRequestId + 1 /\ UNCHANGED cargo
      /\ \E new : requests' = [requests EXCEPT ![nextRequestId] = new]
  BY DEF CreateRequest, moneyVars
<1>2. TermsStay
  BY <1>1, MoneyTypes DEF TermsStay, RequestExists
<1>3. QED BY <1>1, <1>2, NoMoneyMoves DEF Gives

LEMMA OtherStepIsNext == OtherStep => Next
BY DEF OtherStep, Next, MarketStep, SettlementStep

(* Whatever else happens on chain, no wallet pays for it.                   *)
LEMMA OtherStepGives ==
  ASSUME AllInv, OtherStep
  PROVE  AllInv' /\ Gives
<1>1. AllInv'
  BY OtherStepIsNext, AllStepOK
<1>2. IInv /\ IInv'
  BY <1>1 DEF AllInv
<1>3. CASE Tick
  <2>1. UNCHANGED <<requests, nextRequestId, cargo>>
    BY <1>3 DEF Tick, moneyVars, marketVars
  <2>2. QED BY <1>1, <1>2, <2>1, NoRequestChanges, NoMoneyMoves DEF Gives
<1>4. ASSUME NEW u \in Users, NEW deadline \in Deadlines, NEW amount \in Amounts,
             CreateRequest(u, deadline, amount)
      PROVE  Gives
  BY <1>2, <1>4, CreateGives
<1>5. ASSUME NEW r \in RequestIds, CarrierStep(r) PROVE Gives
  <2>1. ASSUME NEW m \in MilestoneIds, NEW uri \in ProofUris, NEW gas \in GasReadings,
               NEW price \in TxGasPrices, SubmitProof(r, m, uri, gas, price)
        PROVE  Gives
    BY <1>2, <2>1, InputAssumption, SubmitGives
  <2>2. ASSUME NEW m, WithdrawProof(r, m) PROVE Gives
    <3>1. UNCHANGED <<requests, nextRequestId, cargo>>
      BY <2>2 DEF WithdrawProof, moneyVars, marketVars
    <3>2. QED BY <1>2, <3>1, NoRequestChanges, NoMoneyMoves DEF Gives
  <2>3. QED BY <1>5, <2>1, <2>2 DEF CarrierStep
<1>6. ASSUME NEW r \in RequestIds, ReviewStep(r) PROVE Gives
  <2>1. ASSUME NEW m \in MilestoneIds, NEW n, ApproveMilestone(r, m, n) PROVE Gives
    BY <1>2, <2>1, ApproveGives
  <2>2. ASSUME NEW m, NEW n, RejectMilestone(r, m, n) PROVE Gives
    <3>1. UNCHANGED <<requests, nextRequestId, cargo>>
      BY <2>2 DEF RejectMilestone, moneyVars, marketVars
    <3>2. QED BY <1>2, <3>1, NoRequestChanges, NoMoneyMoves DEF Gives
  <2>3. QED BY <1>6, <2>1, <2>2 DEF ReviewStep
<1>7. ASSUME NEW r \in RequestIds, RefundRemaining(r) PROVE Gives
  BY <1>2, <1>7, RefundGives DEF RefundRemaining
<1>8. ASSUME NEW r \in RequestIds, ManagerStep(r) PROVE Gives
  <2>1. (RequestExists(r) /\ Refund(r)) \/ IsAmended(r)
    BY <1>2, <1>8, ManagerActs
  <2>2. QED BY <1>2, <2>1, RefundGives, AmendGives DEF IsAmended
<1>9. QED BY <1>1, <1>2, <1>3, <1>4, <1>5, <1>6, <1>7, <1>8, MarketGives DEF OtherStep

(* What a shipper pays, and who is paid.                                    *)
LEMMA Paid ==
  ASSUME IInv, IInv', NEW from \in Users, NEW to \in Accounts, from # to, NEW amount \in Nat,
         cargo' = Transfer(cargo, from, to, amount)
  PROVE  Conserved /\ \A u \in Users : cargo'[u] < cargo[u] => u = from /\ cargo[u] - cargo'[u] = amount
<1>1. cargo \in [Accounts -> Nat] /\ cargo' \in [Accounts -> Nat] /\ from \in Accounts
  BY MoneyTypes DEF IInv, PoolOK
<1>2. /\ SumOver(cargo') = SumOver(cargo)
      /\ \A a \in Accounts : cargo'[a] = IF a = from THEN cargo[from] - amount
                                         ELSE IF a = to THEN cargo[to] + amount ELSE cargo[a]
  BY <1>1, TransferConserves
<1>3. ASSUME NEW u \in Users, cargo'[u] < cargo[u] PROVE u = from /\ cargo[u] - cargo'[u] = amount
  <2>1. u \in Accounts /\ cargo[u] \in Nat
    BY MoneyTypes
  <2>2. cargo'[u] = IF u = from THEN cargo[u] - amount
                    ELSE IF u = to THEN cargo[u] + amount ELSE cargo[u]
    BY <1>2, <2>1
  <2>3. QED BY <1>3, <2>1, <2>2
<1>4. QED BY <1>2, <1>3 DEF Conserved

LEMMA FundPays ==
  ASSUME AllInv, NEW r \in RequestIds, NEW p, NEW price \in ReferenceGasPrices,
         NEW allowance \in Nat, ApproveAndFund(r, p, price, allowance)
  PROVE  /\ AllInv' /\ TermsStay /\ Conserved
         /\ \A u \in Users : cargo'[u] < cargo[u] =>
              /\ u = requests[r].shipper
              /\ cargo[u] - cargo'[u] = requests[r].proposedAmount + allowance
<1>1. IInv /\ p \in DOMAIN proposals[r]
  BY DEF AllInv, ApproveAndFund
<1>2. AllInv' /\ IInv'
  BY <1>1, AnyFunding DEF AllInv
<1>3. /\ \E carrier, total, cap :
           requests' = [requests EXCEPT ![r].carrier = carrier, ![r].totalAmount = total,
                                        ![r].status = "Funded", ![r].operationalAllowance = allowance,
                                        ![r].gasPriceCap = cap]
      /\ UNCHANGED nextRequestId /\ RequestExists(r)
      /\ cargo' = Transfer(cargo, requests[r].shipper, Escrow, requests[r].proposedAmount + allowance)
  BY DEF ApproveAndFund
<1>4. TermsStay
  BY <1>1, <1>3, MoneyTypes, SameTerms DEF Requests
<1>5. requests[r].shipper \in Users /\ requests[r].proposedAmount + allowance \in Nat
  BY <1>1, <1>3, Figures DEF RequestExists, Requests
<1>6. QED BY <1>1, <1>2, <1>3, <1>4, <1>5, MoneyTypes, Paid

LEMMA TipPays ==
  ASSUME AllInv, NEW r \in RequestIds, NEW amount \in FundingAmounts, TipCarrier(r, amount)
  PROVE  /\ AllInv' /\ TermsStay /\ Conserved
         /\ \A u \in Users : cargo'[u] < cargo[u] =>
              u = requests[r].shipper /\ cargo[u] - cargo'[u] = amount
<1>1. IInv /\ Deal(r)
  BY DEF AllInv, DealInv
<1>2. AllInv' /\ IInv'
  <2>1. Next
    BY DEF Next, SettlementStep
  <2>2. QED BY <2>1, AllStepOK DEF AllInv
<1>3. /\ UNCHANGED <<requests, nextRequestId>> /\ RequestExists(r) /\ requests[r].status = "Completed"
      /\ cargo' = Transfer(cargo, requests[r].shipper, requests[r].carrier, amount)
  BY DEF TipCarrier, marketVars
<1>4. WasFunded(requests[r])
  BY <1>3 DEF WasFunded
<1>5. /\ requests[r].shipper \in Users /\ requests[r].carrier \in Users
      /\ requests[r].carrier # requests[r].shipper
  BY <1>1, <1>3, <1>4, Figures DEF RequestExists, Deal
<1>6. amount \in Nat
  BY InputAssumption
<1>7. QED BY <1>1, <1>2, <1>3, <1>5, <1>6, MoneyTypes, NoRequestChanges, Paid

LEMMA TopUpPays ==
  ASSUME AllInv, NEW r \in RequestIds, NEW amount \in FundingAmounts,
         TopUpOperationalAllowance(r, amount)
  PROVE  /\ AllInv' /\ TermsStay /\ Conserved
         /\ \A u \in Users : cargo'[u] < cargo[u] =>
              u = requests[r].shipper /\ cargo[u] - cargo'[u] = amount
<1>1. IInv
  BY DEF AllInv
<1>2. AllInv' /\ IInv'
  <2>1. Next
    BY DEF Next, SettlementStep
  <2>2. QED BY <2>1, AllStepOK DEF AllInv
<1>3. amount \in Nat
  BY InputAssumption
<1>4. /\ RequestExists(r) /\ UNCHANGED nextRequestId
      /\ cargo' = Transfer(cargo, requests[r].shipper, Escrow, amount)
  BY DEF TopUpOperationalAllowance, marketVars
<1>5. TermsStay
  <2> DEFINE topped == [requests[r] EXCEPT !.operationalAllowance = @ + amount]
  <2>1. PICK cap : requests' = [requests EXCEPT ![r] = topped]
                   \/ requests' = [requests EXCEPT ![r] = [topped EXCEPT !.gasPriceCap = cap]]
    BY DEF TopUpOperationalAllowance
  <2>2. /\ \A q \in RequestIds : q # r => requests'[q] = requests[q]
        /\ requests'[r] \in {topped, [topped EXCEPT !.gasPriceCap = cap]}
    BY <1>1, <2>1, MoneyTypes
  <2>3. requests[r] \in Requests
    BY <1>1, MoneyTypes
  <2>4. /\ requests'[r].shipper = requests[r].shipper
        /\ requests'[r].proposedAmount = requests[r].proposedAmount
    BY <2>2, <2>3 DEF Requests
  <2>5. QED BY <1>1, <1>4, <2>2, <2>4, SameTerms
<1>6. requests[r].shipper \in Users
  BY <1>1, <1>4, Figures DEF RequestExists
<1>7. QED BY <1>1, <1>2, <1>3, <1>4, <1>5, <1>6, MoneyTypes, Paid

-----------------------------------------------------------------------------
(* Part III.  Paying: what the dialog names.                                *)

LEMMA ExactConversion ==
  ASSUME NEW amount \in Nat
  PROVE  /\ amount * CargoPerEth \in Nat
         /\ (amount * CargoPerEth) \div CargoPerEth = amount
         /\ amount > 0 => amount * CargoPerEth > 0
<1>1. CargoPerEth \in Nat /\ CargoPerEth > 0
  BY NumberAssumption
<1>2. PICK rate \in Nat : rate = CargoPerEth /\ rate > 0
  BY <1>1
<1>3. amount * rate \in Nat /\ (amount > 0 => amount * rate > 0)
  BY <1>2
<1>4. (amount * rate) \div rate = amount
  BY <1>2
<1>5. QED BY <1>2, <1>3, <1>4

(* What the two fields of a converter say.                                  *)
Converts(fields) == fields.eth \in Nat /\ fields.eth > 0 /\ fields.cargo = fields.eth * CargoPerEth

LEMMA ConversionTypes ==
  ASSUME NEW fields \in Conversions, Matching(fields)
  PROVE  Converts(fields)
<1>1. fields.eth \in Int
  <2>1. CASE \E amount \in CargoEntries : fields = ConversionFromCargo(amount)
    BY <2>1, DeskAssumption, NumberAssumption DEF ConversionFromCargo, Blank
  <2>2. CASE \E amount \in EthEntries : fields = ConversionFromEth(amount)
    BY <2>2, DeskAssumption DEF ConversionFromEth
  <2>3. QED BY <2>1, <2>2 DEF Conversions
<1>2. QED BY <1>1 DEF Matching, Converts

LEMMA TopUpTypes ==
  ASSUME NEW missing \in Nat, NEW fields \in {Suggested(missing)} \cup Entered, Matching(fields)
  PROVE  Converts(fields)
<1>1. ASSUME NEW amount \in Nat, fields = UpdateFromCargo(amount) PROVE fields.eth \in Int
  BY <1>1, NumberAssumption DEF UpdateFromCargo, Blank
<1>2. ASSUME NEW amount \in Nat, fields = UpdateFromEth(amount) PROVE fields.eth \in Int
  BY <1>2 DEF UpdateFromEth
<1>3. ASSUME fields = Suggested(missing) PROVE fields.eth \in Int
  BY <1>1, <1>3 DEF Suggested, Blank
<1>4. fields.eth \in Int
  BY <1>1, <1>2, <1>3, DeskAssumption DEF Entered
<1>5. QED BY <1>4 DEF Matching, Converts

Desks ==
  [step : {"closed", "review", "approving", "sending", "prepared"},
   kind : {"none", "fund", "tip", "top-up", "deposit", "redeem"},
   account : Users \cup {NoUser}, r : RequestIds \cup {0}, p : Nat,
   operational : Nat, cargo : Nat, eth : Nat]

(* The amount a dialog names is what its step costs.                        *)
Named(d) ==
  \/ d = Closed
  \/ /\ d.kind = "fund" /\ d.step \in {"review", "approving", "sending"}
     /\ d.account \in Users /\ RequestExists(d.r)
     /\ d.cargo = requests[d.r].proposedAmount + d.operational
  \/ /\ d.kind \in {"tip", "top-up"} /\ d.step \in {"approving", "sending"}
     /\ RequestExists(d.r)
     /\ d.account = requests[d.r].shipper /\ d.cargo \in FundingAmounts
  \/ /\ d.kind \in {"deposit", "redeem"} /\ d.step \in {"prepared", "sending"}
     /\ d.account \in Users /\ Converts(d)

DeskOK == desk \in Desks /\ Named(desk)

TokenOK == eth \in [Users -> Nat] /\ reserve \in Nat

DeskInv == AllInv /\ DeskOK /\ TokenOK

(* No dialog's amount becomes wrong while it is open.                       *)
LEMMA NameStays ==
  ASSUME IInv, IInv', TermsStay, NEW d \in Desks, Named(d)
  PROVE  Named(d)'
<1>1. nextRequestId \in Nat /\ nextRequestId' \in Nat
  BY DEF IInv, MarketOK
<1>2. ASSUME NEW q \in RequestIds, RequestExists(q)
      PROVE  /\ RequestExists(q)'
             /\ requests'[q].shipper = requests[q].shipper
             /\ requests'[q].proposedAmount = requests[q].proposedAmount
  BY <1>1, <1>2 DEF TermsStay, RequestExists, RequestIds
<1>3. RequestExists(d.r) => d.r \in RequestIds
  BY DEF RequestExists
<1>4. QED BY <1>2, <1>3 DEF Named, Converts

(* The property's action.                                                   *)
AsConfirmed ==
  /\ \A u \in Users : Means(u)' < Means(u) =>
       desk.account = u /\ Means(u) - Means(u)' = desk.cargo
  /\ reserve' # reserve =>
       /\ cargo'[desk.account] = cargo[desk.account] + (IF desk.kind = "deposit" THEN 1 ELSE -1) * desk.cargo
       /\ eth'[desk.account] = eth[desk.account] + (IF desk.kind = "deposit" THEN -1 ELSE 1) * desk.eth
  /\ SumOver(cargo') - SumOver(cargo) = CargoPerEth * (reserve' - reserve)

LEMMA DeskTypes ==
  ASSUME DeskInv
  PROVE  /\ IInv /\ desk \in Desks /\ reserve \in Nat
         /\ \A u \in Users : cargo[u] \in Nat /\ eth[u] \in Nat /\ Means(u) \in Nat
         /\ SumOver(cargo) \in Nat
         /\ CargoPerEth \in Nat
<1>1. IInv /\ CargoPerEth \in Nat
  BY NumberAssumption DEF DeskInv, AllInv
<1>2. /\ SumOver(cargo) \in Nat
      /\ \A u \in Users : cargo[u] \in Nat
  BY <1>1, MoneyTypes, AccountsFinite, SumIsNat
<1>3. \A u \in Users : eth[u] \in Nat
  BY DEF DeskInv, TokenOK
<1>4. QED BY <1>1, <1>2, <1>3 DEF Means, DeskInv, DeskOK, TokenOK

(* A step that leaves the token's ETH alone: who has more CARGO loses nothing. *)
LEMMA OnlyCargoMoves ==
  ASSUME DeskInv, AllInv', UNCHANGED <<eth, reserve>>, Conserved,
         \A u \in Users : cargo'[u] < cargo[u] =>
           desk.account = u /\ cargo[u] - cargo'[u] = desk.cargo
  PROVE  AsConfirmed /\ TokenOK'
<1>1. ASSUME NEW u \in Users, Means(u)' < Means(u)
      PROVE  desk.account = u /\ Means(u) - Means(u)' = desk.cargo
  <2>1. PICK worth \in Nat : worth = CargoPerEth * eth[u]
    BY DeskTypes
  <2>2. Means(u) = cargo[u] + worth /\ Means(u)' = cargo'[u] + worth
    BY <2>1 DEF Means
  <2>3. cargo[u] \in Nat /\ cargo'[u] \in Nat
    <3>1. cargo' \in [Accounts -> Nat] /\ u \in Accounts
      BY DEF AllInv, IInv, PoolOK, Accounts
    <3>2. QED BY <3>1, DeskTypes
  <2>4. cargo'[u] < cargo[u]
    BY <1>1, <2>2, <2>3
  <2>5. QED BY <2>2, <2>3, <2>4
<1>2. SumOver(cargo') - SumOver(cargo) = CargoPerEth * (reserve' - reserve)
  BY DeskTypes DEF Conserved
<1>3. TokenOK'
  BY DEF DeskInv, TokenOK
<1>4. QED BY <1>1, <1>2, <1>3 DEF AsConfirmed

(* A dialog opens, goes on or is closed.                                    *)
LEMMA DialogOnly ==
  ASSUME DeskInv, UNCHANGED <<vars, eth, reserve>>, desk' \in Desks, Named(desk')
  PROVE  DeskInv' /\ AsConfirmed
<1>1. AllInv'
  BY AllStepOK DEF DeskInv
<1>2. cargo' = cargo /\ requests' = requests /\ nextRequestId' = nextRequestId
  BY DEF vars, moneyVars, marketVars
<1>3. Conserved /\ \A u \in Users : ~(cargo'[u] < cargo[u])
  BY <1>2, DeskTypes DEF Conserved
<1>4. AsConfirmed /\ TokenOK'
  BY <1>1, <1>3, OnlyCargoMoves
<1>5. DeskOK'
  BY <1>2 DEF DeskOK, Named, RequestExists, Converts
<1>6. QED BY <1>1, <1>4, <1>5 DEF DeskInv

LEMMA ClosedIsADesk == Closed \in Desks /\ Named(Closed)
BY DEF Closed, Desks, Named

LEMMA OpensToFund ==
  ASSUME DeskInv, NEW r \in RequestIds, NEW p \in 1 .. MaxProposals, NEW price \in ReferenceGasPrices,
         AcceptProposal(r, p, price)
  PROVE  DeskInv' /\ AsConfirmed
<1> DEFINE operational == MinimumOperationalAllowance(r, p, price)
<1>1. IInv /\ RequestExists(r) /\ p \in DOMAIN proposals[r] /\ UNCHANGED <<vars, eth, reserve>>
  BY DEF AcceptProposal, tokenVars, DeskInv, AllInv
<1>2. operational \in Nat
  BY <1>1, InputAssumption, MinimumIsNat DEF IInv
<1>3. requests[r].shipper \in Users /\ requests[r].proposedAmount \in Nat
  BY <1>1, Figures, MoneyTypes DEF RequestExists, Requests
<1>4. desk' = [step |-> "review", kind |-> "fund", account |-> requests[r].shipper, r |-> r, p |-> p,
               operational |-> operational, cargo |-> requests[r].proposedAmount + operational, eth |-> 0]
  BY DEF AcceptProposal, Closed
<1> HIDE DEF operational
<1>5. p \in Nat
  BY NumberAssumption
<1>6. desk' \in Desks /\ Named(desk')
  BY <1>1, <1>2, <1>3, <1>4, <1>5 DEF Desks, Named
<1>7. QED BY <1>1, <1>6, DialogOnly

LEMMA ConfirmsToFund ==
  ASSUME DeskInv, NEW extra \in ExtraAllowances, NEW price, ConfirmProposalFunding(extra, price)
  PROVE  DeskInv' /\ AsConfirmed
<1>1. UNCHANGED <<vars, eth, reserve>> /\ desk.step = "review"
  BY DEF ConfirmProposalFunding, tokenVars
<1>2. desk \in Desks /\ Named(desk) /\ IInv /\ extra \in Nat
  BY InputAssumption DEF DeskInv, DeskOK, AllInv
<1>3. /\ desk.kind = "fund" /\ desk.account \in Users /\ RequestExists(desk.r)
      /\ desk.cargo = requests[desk.r].proposedAmount + desk.operational
  BY <1>1, <1>2 DEF Named, Closed
<1>4. PICK quoted : /\ quoted \in {Blank, desk.operational + extra}
                    /\ desk' = IF /\ desk.account = requests[desk.r].shipper
                                  /\ requests[desk.r].status = "Open"
                                  /\ quoted # Blank
                               THEN [desk EXCEPT !.step = "approving", !.operational = quoted,
                                                 !.cargo = @ + extra]
                               ELSE Closed
  BY DEF ConfirmProposalFunding, QuoteCargoFunding
<1>5. CASE desk' = Closed
  BY <1>1, <1>5, ClosedIsADesk, DialogOnly
<1>6. CASE desk' # Closed
  <2>1. quoted = desk.operational + extra
    BY <1>4, <1>6
  <2>2. desk' = [desk EXCEPT !.step = "approving", !.operational = quoted, !.cargo = @ + extra]
    BY <1>4, <1>6
  <2>3. desk.operational \in Nat /\ desk.cargo \in Nat
    BY <1>2 DEF Desks
  <2>4. quoted \in Nat /\ desk.cargo + extra \in Nat
    BY <1>2, <2>1, <2>3
  <2>5. desk' \in Desks
    BY <1>2, <2>2, <2>4 DEF Desks
  <2>6. /\ desk'.kind = "fund" /\ desk'.step = "approving" /\ desk'.account = desk.account
        /\ desk'.r = desk.r /\ desk'.operational = quoted /\ desk'.cargo = desk.cargo + extra
    BY <1>2, <1>3, <2>2 DEF Desks
  <2>7. requests[desk.r].proposedAmount \in Nat
    BY <1>2, <1>3, MoneyTypes DEF RequestExists, Requests
  <2>8. Named(desk')
    BY <1>2, <1>3, <2>1, <2>3, <2>6, <2>7 DEF Named
  <2>9. QED BY <1>1, <2>5, <2>8, DialogOnly
<1>7. QED BY <1>5, <1>6

LEMMA OpensToPay ==
  ASSUME DeskInv, NEW r \in RequestIds, NEW amount \in FundingAmounts,
         SendCarrierTip(r, amount) \/ TopUp(r, amount)
  PROVE  DeskInv' /\ AsConfirmed
<1>1. RequestExists(r) /\ UNCHANGED <<vars, eth, reserve>>
  BY DEF SendCarrierTip, TopUp, tokenVars
<1>2. requests[r].shipper \in Users /\ amount \in Nat
  BY <1>1, Figures, InputAssumption DEF RequestExists, DeskInv, AllInv
<1>3. PICK kind \in {"tip", "top-up"} :
        desk' = [step |-> "approving", kind |-> kind, account |-> requests[r].shipper, r |-> r, p |-> 0,
                 operational |-> 0, cargo |-> amount, eth |-> 0]
  BY DEF SendCarrierTip, TopUp, Closed
<1>4. desk' \in Desks /\ Named(desk')
  BY <1>1, <1>2, <1>3 DEF Desks, Named
<1>5. QED BY <1>1, <1>4, DialogOnly

LEMMA OpensToConvert ==
  ASSUME DeskInv, NEW u \in Users, NEW step \in {"prepared", "sending"}, NEW kind \in {"deposit", "redeem"},
         NEW fields, Converts(fields), UNCHANGED <<vars, eth, reserve>>,
         desk' = [Closed EXCEPT !.step = step, !.kind = kind, !.account = u,
                                !.cargo = fields.cargo, !.eth = fields.eth]
  PROVE  DeskInv' /\ AsConfirmed
<1>1. PICK given \in Nat : given = fields.eth
  BY DEF Converts
<1>2. PICK amount \in Nat : amount = fields.cargo /\ amount = given * CargoPerEth
  BY <1>1, ExactConversion DEF Converts
<1>3. desk' = [step |-> step, kind |-> kind, account |-> u, r |-> 0, p |-> 0,
               operational |-> 0, cargo |-> amount, eth |-> given]
  BY <1>1, <1>2 DEF Closed
<1>4. given > 0
  BY <1>1 DEF Converts
<1>5. desk' \in Desks
  BY <1>3 DEF Desks
<1>6. Named(desk')
  BY <1>2, <1>3, <1>4 DEF Named, Converts
<1>7. QED BY <1>5, <1>6, DialogOnly

LEMMA TopUpOpens ==
  ASSUME DeskInv, NEW u \in Users, NEW required \in Nat, OpenCargoTopUp(u, required)
  PROVE  DeskInv' /\ AsConfirmed
<1>1. PICK missing \in Nat : missing = Shortfall(required, cargo[u])
  <2>1. cargo[u] \in Nat
    BY DeskTypes
  <2>2. Shortfall(required, cargo[u]) \in Nat
    BY <2>1 DEF Shortfall
  <2>3. QED BY <2>2
<1>2. PICK fields \in {Suggested(missing)} \cup Entered : CompleteCargoTopUp(u, fields)
  BY <1>1 DEF OpenCargoTopUp
<1>3. Converts(fields)
  BY <1>2, TopUpTypes DEF CompleteCargoTopUp
<1>4. UNCHANGED <<vars, eth, reserve>>
  BY <1>2 DEF CompleteCargoTopUp, tokenVars
<1>5. desk' = [Closed EXCEPT !.step = "sending", !.kind = "deposit", !.account = u,
                             !.cargo = fields.cargo, !.eth = fields.eth]
  BY <1>2 DEF CompleteCargoTopUp
<1>6. QED BY <1>3, <1>4, <1>5, OpensToConvert

(* A dialog goes on to its next step, whichever account is connected.       *)
LEMMA GoesOn ==
  ASSUME DeskInv, \/ EnsureTokenAllowance
                  \/ RunCargoAction
                  \/ \E u \in Users : SwitchAccount(u)
  PROVE  DeskInv' /\ AsConfirmed
<1>1. UNCHANGED <<vars, eth, reserve>>
  BY DEF EnsureTokenAllowance, RunCargoAction, SwitchAccount, tokenVars
<1>2. desk \in Desks /\ Named(desk)
  BY DEF DeskInv, DeskOK
<1>3. CASE EnsureTokenAllowance \/ RunCargoAction
  <2>1. desk.step \in {"approving", "prepared"} /\ desk' = [desk EXCEPT !.step = "sending"]
    BY <1>3 DEF EnsureTokenAllowance, RunCargoAction
  <2>2. desk' \in Desks
    BY <1>2, <2>1 DEF Desks
  <2>3. /\ desk'.step = "sending" /\ desk'.kind = desk.kind /\ desk'.account = desk.account
        /\ desk'.r = desk.r /\ desk'.operational = desk.operational
        /\ desk'.cargo = desk.cargo /\ desk'.eth = desk.eth
    BY <1>2, <2>1 DEF Desks
  <2>4. desk # Closed
    BY <2>1 DEF Closed
  <2>5. Named(desk')
    BY <1>2, <2>3, <2>4 DEF Named, Converts
  <2>6. QED BY <1>1, <2>2, <2>5, DialogOnly
<1>4. ASSUME NEW u \in Users, SwitchAccount(u) PROVE DeskInv' /\ AsConfirmed
  <2>1. desk.step \in {"review", "prepared"} /\ desk' = [desk EXCEPT !.account = u]
    BY <1>4 DEF SwitchAccount
  <2>2. desk' \in Desks
    BY <1>2, <2>1 DEF Desks
  <2>3. /\ desk'.step = desk.step /\ desk'.kind = desk.kind /\ desk'.account = u
        /\ desk'.r = desk.r /\ desk'.operational = desk.operational
        /\ desk'.cargo = desk.cargo /\ desk'.eth = desk.eth
    BY <1>2, <2>1 DEF Desks
  <2>4. desk # Closed
    BY <2>1 DEF Closed
  <2>5. Named(desk')
    BY <1>2, <2>1, <2>3, <2>4 DEF Named, Converts
  <2>6. QED BY <1>1, <2>2, <2>5, DialogOnly
<1>5. QED BY <1>3, <1>4

LEMMA IsLeft ==
  ASSUME DeskInv, Leave
  PROVE  DeskInv' /\ AsConfirmed
BY ClosedIsADesk, DialogOnly DEF Leave, tokenVars

LEMMA DialogStep ==
  ASSUME DeskInv, DeskStep, \A price \in ReferenceGasPrices : ~Land(price)
  PROVE  DeskInv' /\ AsConfirmed
<1>1. ASSUME NEW u \in Users, NEW kind \in {"deposit", "redeem"}, NEW fields \in Conversions,
             PrepareCargoAction(u, kind, fields)
      PROVE  DeskInv' /\ AsConfirmed
  <2>1. Converts(fields)
    BY <1>1, ConversionTypes DEF PrepareCargoAction
  <2>2. UNCHANGED <<vars, eth, reserve>>
    BY <1>1 DEF PrepareCargoAction, tokenVars
  <2>3. desk' = [Closed EXCEPT !.step = "prepared", !.kind = kind, !.account = u,
                               !.cargo = fields.cargo, !.eth = fields.eth]
    BY <1>1 DEF PrepareCargoAction
  <2>4. QED BY <2>1, <2>2, <2>3, OpensToConvert
<1>2. ASSUME NEW r \in RequestIds, NEW p \in 1 .. MaxProposals, NEW price \in ReferenceGasPrices,
             TopUpForProposal(r, p, price)
      PROVE  DeskInv' /\ AsConfirmed
  <2>1. IInv /\ RequestExists(r) /\ p \in DOMAIN proposals[r]
    BY <1>2 DEF TopUpForProposal, DeskInv, AllInv
  <2>2. MinimumOperationalAllowance(r, p, price) \in Nat
    BY <2>1, InputAssumption, MinimumIsNat DEF IInv
  <2>3. requests[r].shipper \in Users /\ requests[r].proposedAmount \in Nat
    BY <2>1, Figures, MoneyTypes DEF RequestExists, Requests
  <2>4. PICK u \in Users : u = requests[r].shipper
    BY <2>3
  <2>5. PICK required \in Nat :
          required = requests[r].proposedAmount + MinimumOperationalAllowance(r, p, price)
    BY <2>2, <2>3
  <2>6. OpenCargoTopUp(u, required)
    BY <1>2, <2>4, <2>5 DEF TopUpForProposal
  <2>7. QED BY <2>6, TopUpOpens
<1>3. ASSUME NEW u \in Users, NEW reward \in Amounts, TopUpForRequest(u, reward)
      PROVE  DeskInv' /\ AsConfirmed
  <2>1. reward \in Nat /\ OpenCargoTopUp(u, reward)
    BY <1>3, InputAssumption DEF TopUpForRequest
  <2>2. QED BY <2>1, TopUpOpens
<1>4. QED BY <1>1, <1>2, <1>3, OpensToFund, ConfirmsToFund, OpensToPay, GoesOn, IsLeft DEF DeskStep

(* A transaction of the escrow, or anything else that happens there.        *)
LEMMA EscrowPays ==
  ASSUME DeskInv, AllInv', TermsStay, Conserved, UNCHANGED <<eth, reserve>>, desk' \in {desk, Closed},
         \A u \in Users : cargo'[u] < cargo[u] =>
           desk.account = u /\ cargo[u] - cargo'[u] = desk.cargo
  PROVE  DeskInv' /\ AsConfirmed
<1>1. AsConfirmed /\ TokenOK'
  BY OnlyCargoMoves
<1>2. DeskOK'
  <2>1. CASE desk' = Closed
    BY <2>1, ClosedIsADesk DEF DeskOK, Named
  <2>2. CASE desk' = desk
    <3>1. PICK d \in Desks : d = desk
      BY DEF DeskInv, DeskOK
    <3>2. Named(d)'
      BY <3>1, NameStays DEF DeskInv, DeskOK, AllInv
    <3>3. QED BY <2>2, <3>1, <3>2 DEF DeskOK
  <2>3. QED BY <2>1, <2>2
<1>3. QED BY <1>1, <1>2 DEF DeskInv

LEMMA FundLands ==
  ASSUME DeskInv, NEW price \in ReferenceGasPrices, desk.step = "sending", desk' = Closed, desk.kind = "fund",
         desk.account = requests[desk.r].shipper,
         ApproveAndFund(desk.r, desk.p, price, desk.operational), UNCHANGED <<eth, reserve>>
  PROVE  DeskInv' /\ AsConfirmed
<1>1. /\ desk \in Desks /\ AllInv
      /\ desk.r \in RequestIds /\ desk.cargo = requests[desk.r].proposedAmount + desk.operational
  BY DEF DeskInv, DeskOK, Named, Closed, RequestExists
<1>2. PICK r \in RequestIds : r = desk.r
  BY <1>1
<1>3. PICK allowance \in Nat : allowance = desk.operational
  BY <1>1 DEF Desks
<1>4. ApproveAndFund(r, desk.p, price, allowance)
  BY <1>2, <1>3
<1>5. PICK p : p = desk.p
  OBVIOUS
<1>6. ApproveAndFund(r, p, price, allowance)
  BY <1>4, <1>5
<1>7. /\ AllInv' /\ TermsStay /\ Conserved
      /\ \A u \in Users : cargo'[u] < cargo[u] =>
           u = requests[r].shipper /\ cargo[u] - cargo'[u] = requests[r].proposedAmount + allowance
  BY <1>1, <1>6, FundPays
<1>8. QED BY <1>1, <1>2, <1>3, <1>7, EscrowPays

LEMMA ShipperPays ==
  ASSUME DeskInv, desk.step = "sending", desk' = Closed, UNCHANGED <<eth, reserve>>,
         \/ desk.kind = "tip" /\ TipCarrier(desk.r, desk.cargo)
         \/ desk.kind = "top-up" /\ TopUpOperationalAllowance(desk.r, desk.cargo)
  PROVE  DeskInv' /\ AsConfirmed
<1>1. /\ AllInv /\ desk.r \in RequestIds
      /\ desk.account = requests[desk.r].shipper /\ desk.cargo \in FundingAmounts
  BY DEF DeskInv, DeskOK, Named, Closed, RequestExists
<1>2. PICK r \in RequestIds, amount \in FundingAmounts : r = desk.r /\ amount = desk.cargo
  BY <1>1
<1>3. TipCarrier(r, amount) \/ TopUpOperationalAllowance(r, amount)
  BY <1>2
<1>4. /\ AllInv' /\ TermsStay /\ Conserved
      /\ \A u \in Users : cargo'[u] < cargo[u] =>
           u = requests[r].shipper /\ cargo[u] - cargo'[u] = amount
  BY <1>1, <1>3, TipPays, TopUpPays
<1>5. QED BY <1>1, <1>2, <1>4, EscrowPays

(* The token's ETH and one wallet's CARGO change by what a dialog says.     *)
LEMMA Exchange ==
  ASSUME DeskInv, NEW u \in Users, u = desk.account, NEW paid \in Nat, NEW balance \in Nat, NEW held \in Nat,
         paid = desk.eth, desk.cargo = paid * CargoPerEth, desk' = Closed,
         UNCHANGED <<now, requests, tipAmounts, marketVars, workVars, totalEscrowed, lockedEscrow>>,
         cargo' = [cargo EXCEPT ![u] = balance], eth' = [eth EXCEPT ![u] = held], reserve' \in Nat,
         \/ /\ desk.kind = "deposit" /\ reserve' = reserve + paid
            /\ balance = cargo[u] + desk.cargo /\ held = eth[u] - paid
         \/ /\ desk.kind = "redeem" /\ reserve' = reserve - paid
            /\ balance = cargo[u] - desk.cargo /\ held = eth[u] + paid
  PROVE  DeskInv' /\ AsConfirmed
<1>1. /\ AllInv /\ IInv /\ CargoPerEth \in Nat
      /\ cargo[u] \in Nat /\ eth[u] \in Nat /\ reserve \in Nat /\ SumOver(cargo) \in Nat
  BY DeskTypes DEF DeskInv
<1>2. /\ cargo \in [Accounts -> Nat] /\ u \in Accounts /\ Escrow # u /\ Escrow \in Accounts
      /\ eth \in [Users -> Nat]
  BY <1>1, MoneyTypes DEF DeskInv, TokenOK
<1>3. /\ cargo' \in [Accounts -> Nat] /\ cargo'[Escrow] = cargo[Escrow] /\ cargo'[u] = balance
      /\ eth' \in [Users -> Nat] /\ eth'[u] = held
      /\ \A w \in Users : w # u => cargo'[w] = cargo[w] /\ eth'[w] = eth[w]
  BY <1>2, MoneyTypes, <1>1
<1>4. AllInv'
  BY <1>1, <1>3, MovesBeside DEF BesideTheEscrow
<1>5. SumOver(cargo') = SumOver(cargo) - cargo[u] + balance
  BY <1>2, AccountsFinite, SumUpdate
<1>6. PICK rate \in Nat : rate = CargoPerEth
  BY <1>1
<1>7. PICK amount \in Nat : amount = desk.cargo /\ amount = paid * rate
  BY <1>6
<1>8. SumOver(cargo') - SumOver(cargo) = CargoPerEth * (reserve' - reserve)
  <2>1. CASE desk.kind = "deposit"
    <3>1. balance = cargo[u] + amount /\ reserve' - reserve = paid
      BY <1>1, <1>7, <2>1
    <3>2. SumOver(cargo') - SumOver(cargo) = amount
      BY <1>1, <1>5, <3>1
    <3>3. QED BY <1>6, <1>7, <3>1, <3>2
  <2>2. CASE desk.kind = "redeem"
    <3>1. balance = cargo[u] - amount /\ reserve' - reserve = 0 - paid
      BY <1>1, <1>7, <2>2
    <3>2. SumOver(cargo') - SumOver(cargo) = 0 - amount
      BY <1>1, <1>5, <3>1
    <3>3. rate * (0 - paid) = 0 - paid * rate
      OBVIOUS
    <3>4. QED BY <1>6, <1>7, <3>1, <3>2, <3>3
  <2>3. QED BY <2>1, <2>2
<1>9. ASSUME NEW w \in Users PROVE Means(w)' = Means(w)
  <2>1. CASE w # u
    BY <1>3, <2>1 DEF Means
  <2>2. CASE w = u
    <3>1. Means(w) = cargo[u] + rate * eth[u] /\ Means(w)' = balance + rate * held
      BY <1>3, <1>6, <2>2 DEF Means
    <3>2. PICK before \in Nat : before = eth[u]
      BY <1>1
    <3>3. CASE desk.kind = "deposit"
      <4>1. balance = cargo[u] + amount /\ held = before - paid
        BY <1>7, <3>2, <3>3
      <4>2. rate * (before - paid) = rate * before - paid * rate
        OBVIOUS
      <4>3. QED BY <1>1, <1>7, <3>1, <3>2, <4>1, <4>2
    <3>4. CASE desk.kind = "redeem"
      <4>1. balance = cargo[u] - amount /\ held = before + paid
        BY <1>7, <3>2, <3>4
      <4>2. rate * (before + paid) = rate * before + paid * rate
        OBVIOUS
      <4>3. QED BY <1>1, <1>7, <3>1, <3>2, <4>1, <4>2
    <3>5. QED BY <3>3, <3>4
  <2>3. QED BY <2>1, <2>2
<1>10. /\ cargo'[desk.account] = cargo[desk.account] + (IF desk.kind = "deposit" THEN 1 ELSE -1) * desk.cargo
       /\ eth'[desk.account] = eth[desk.account] + (IF desk.kind = "deposit" THEN -1 ELSE 1) * desk.eth
  <2>1. CASE desk.kind = "deposit"
    BY <1>1, <1>3, <1>7, <2>1
  <2>2. CASE desk.kind = "redeem"
    BY <1>1, <1>3, <1>7, <2>2
  <2>3. QED BY <2>1, <2>2
<1>11. \A w \in Users : ~(Means(w)' < Means(w))
  BY <1>9, DeskTypes
<1>12. AsConfirmed
  BY <1>8, <1>10, <1>11 DEF AsConfirmed
<1>13. DeskOK' /\ TokenOK'
  BY <1>3, ClosedIsADesk DEF DeskOK, Named, TokenOK
<1>14. QED BY <1>4, <1>12, <1>13 DEF DeskInv

LEMMA ConversionLands ==
  ASSUME DeskInv, desk.step = "sending", desk' = Closed,
         \/ desk.kind = "deposit" /\ Deposit(desk.account, desk.eth)
         \/ desk.kind = "redeem" /\ Redeem(desk.account, desk.cargo)
  PROVE  DeskInv' /\ AsConfirmed
<1>1. desk \in Desks /\ desk.account \in Users /\ Converts(desk)
  BY DEF DeskInv, DeskOK, Named, Closed
<1>2. PICK u \in Users : u = desk.account
  BY <1>1
<1>3. PICK paid \in Nat : paid = desk.eth /\ desk.cargo = paid * CargoPerEth
  BY <1>1 DEF Converts
<1>4. PICK amount \in Nat : amount = desk.cargo /\ amount = paid * CargoPerEth
                            /\ amount \div CargoPerEth = paid
  BY <1>3, ExactConversion
<1>5. /\ cargo[u] \in Nat /\ eth[u] \in Nat /\ reserve \in Nat
      /\ cargo \in [Accounts -> Nat] /\ eth \in [Users -> Nat] /\ u \in Accounts
  BY DeskTypes, MoneyTypes DEF DeskInv, TokenOK
<1>6. UNCHANGED <<now, requests, tipAmounts, marketVars, workVars, totalEscrowed, lockedEscrow>>
  BY DEF Deposit, Redeem
<1>7. CASE desk.kind = "deposit"
  <2>1. Deposit(u, paid)
    BY <1>2, <1>3, <1>7
  <2>2. PICK balance \in Nat : balance = cargo[u] + amount
    BY <1>5
  <2>3. PICK held \in Nat : held = eth[u] - paid
    BY <1>5, <2>1 DEF Deposit
  <2>4. cargo' = [cargo EXCEPT ![u] = balance] /\ eth' = [eth EXCEPT ![u] = held]
    BY <1>4, <2>1, <2>2, <2>3 DEF Deposit
  <2>5. reserve' = reserve + paid /\ reserve' \in Nat
    BY <1>5, <2>1 DEF Deposit
  <2>6. QED BY <1>2, <1>3, <1>4, <1>6, <1>7, <2>2, <2>3, <2>4, <2>5, Exchange
<1>8. CASE desk.kind = "redeem"
  <2>1. Redeem(u, amount)
    BY <1>2, <1>4, <1>8
  <2>2. PICK balance \in Nat : balance = cargo[u] - amount
    BY <1>5, <2>1 DEF Redeem
  <2>3. PICK held \in Nat : held = eth[u] + paid
    BY <1>5
  <2>4. cargo' = [cargo EXCEPT ![u] = balance] /\ eth' = [eth EXCEPT ![u] = held]
    BY <1>4, <2>1, <2>2, <2>3 DEF Redeem
  <2>5. reserve' = reserve - paid /\ reserve' \in Nat
    BY <1>4, <1>5, <2>1 DEF Redeem
  <2>6. QED BY <1>2, <1>3, <1>4, <1>6, <1>8, <2>2, <2>3, <2>4, <2>5, Exchange
<1>9. QED BY <1>7, <1>8

LEMMA TransactionLands ==
  ASSUME DeskInv, NEW price \in ReferenceGasPrices, Land(price)
  PROVE  DeskInv' /\ AsConfirmed
BY FundLands, ShipperPays, ConversionLands DEF Land, Effect, Spend

LEMMA OtherStepIsFree ==
  ASSUME DeskInv, OtherStep, UNCHANGED deskVars
  PROVE  DeskInv' /\ AsConfirmed
<1>1. AllInv' /\ TermsStay /\ NobodyPays /\ Conserved
  BY OtherStepGives DEF DeskInv, Gives
<1>2. UNCHANGED <<eth, reserve>> /\ desk' = desk
  BY DEF deskVars, tokenVars
<1>3. \A u \in Users : ~(cargo'[u] < cargo[u])
  <2>1. ASSUME NEW u \in Users PROVE cargo'[u] \in Nat /\ cargo[u] \in Nat /\ cargo'[u] >= cargo[u]
    <3>1. cargo' \in [Accounts -> Nat] /\ u \in Accounts
      BY <1>1 DEF AllInv, IInv, PoolOK, Accounts
    <3>2. QED BY <1>1, <3>1, DeskTypes DEF NobodyPays
  <2>2. QED BY <2>1
<1>4. QED BY <1>1, <1>2, <1>3, EscrowPays

LEMMA DeskStepOK ==
  ASSUME DeskInv, DeskNext
  PROVE  DeskInv' /\ AsConfirmed
<1>1. CASE \E price \in ReferenceGasPrices : Land(price)
  BY <1>1, TransactionLands
<1>2. CASE DeskStep /\ \A price \in ReferenceGasPrices : ~Land(price)
  BY <1>2, DialogStep
<1>3. CASE OtherStep /\ UNCHANGED deskVars
  BY <1>3, OtherStepIsFree
<1>4. QED BY <1>1, <1>2, <1>3 DEF DeskNext

LEMMA DeskStutterOK == DeskInv /\ UNCHANGED allVars => DeskInv'
<1> SUFFICES ASSUME DeskInv, UNCHANGED allVars PROVE DeskInv'
  OBVIOUS
<1>1. UNCHANGED <<vars, eth, reserve>> /\ desk' = desk
  BY DEF allVars, deskVars, tokenVars
<1>2. desk' \in Desks /\ Named(desk')
  BY <1>1 DEF DeskInv, DeskOK
<1>3. QED BY <1>1, <1>2, DialogOnly

LEMMA DeskInitOK == DeskInit => DeskInv
<1> SUFFICES ASSUME DeskInit PROVE DeskInv
  OBVIOUS
<1>1. AllInv
  BY AllInitOK DEF DeskInit
<1>2. DeskOK
  BY ClosedIsADesk DEF DeskInit, DeskOK
<1>3. TokenOK
  <2>1. SumOver(cargo) \in Nat
    BY <1>1, MoneyTypes, AccountsFinite, SumIsNat DEF AllInv
  <2>2. CargoPerEth \in Nat \ {0}
    BY NumberAssumption
  <2>3. SumOver(cargo) \div CargoPerEth \in Nat
    BY <2>1, <2>2
  <2>4. QED BY <2>3, DeskAssumption DEF DeskInit, TokenOK
<1>4. QED BY <1>1, <1>2, <1>3 DEF DeskInv

LEMMA DeskInvariant == DeskSpec => []DeskInv
<1>1. DeskInv /\ [DeskNext]_allVars => DeskInv'
  BY DeskStepOK, DeskStutterOK
<1>2. QED BY <1>1, DeskInitOK, PTL DEF DeskSpec

(* However the gas price, the requests, the proposals or the connected      *)
(* account change between a dialog, its confirmation and its transaction    *)
(* (quoteCargoFunding, ensureTokenAllowance): a wallet is only ever worth   *)
(* less by what its own dialog named, a conversion gives what its two       *)
(* fields said, and no CARGO comes or goes but against the token's ETH.     *)
THEOREM MoneyAlwaysMovesAsConfirmed == DeskSpec => MoneyMovesAsConfirmed
<1>1. DeskInv /\ [DeskNext]_allVars => [AsConfirmed]_allVars
  BY DeskStepOK
<1>2. QED BY <1>1, DeskInvariant, PTL DEF DeskSpec, MoneyMovesAsConfirmed, AsConfirmed

(* The escrow stays sound when it is paid for out of approvals of wallets   *)
(* whose CARGO is bought and redeemed meanwhile (CargoToken.sol): whatever  *)
(* the token does, each request's money is there and the locked totals say  *)
(* whose it is.                                                             *)
THEOREM EscrowStaysBackedBesideTheToken ==
  DeskSpec => [](OpenListMatches /\ ProposalsMatch /\ EscrowIsBacked /\ LockedTotalsMatch)
<1>1. DeskInv => OpenListMatches /\ ProposalsMatch /\ EscrowIsBacked /\ LockedTotalsMatch
  <2> SUFFICES ASSUME DeskInv
               PROVE  OpenListMatches /\ ProposalsMatch /\ EscrowIsBacked /\ LockedTotalsMatch
    OBVIOUS
  <2>1. IInv /\ DealInv
    BY DEF DeskInv, AllInv
  <2>2. ProposalsMatch
    BY <2>1, MarketIsRight
  <2>3. QED BY <2>1, <2>2 DEF IInv, PoolOK, MarketOK, OpenListOK
<1>2. QED BY <1>1, DeskInvariant, PTL

-----------------------------------------------------------------------------
(* Part IV.  Telling.                                                       *)

-----------------------------------------------------------------------------
(* What the pages tell.                                                     *)

(* A request that exists, with what every page reads of it.                 *)
LEMMA RequestFacts ==
  ASSUME AllInv, NEW r \in RequestIds, RequestExists(r)
  PROVE  /\ requests[r].shipper \in Users /\ requests[r].status \in RequestStatus
         /\ \A p \in DOMAIN proposals[r] : /\ proposals[r][p].carrier \in Users
                                           /\ proposals[r][p].carrier # requests[r].shipper
         /\ requests[r].status = "Open" =>
              /\ requests[r].carrier = NoUser /\ MilestonesOf(r) = {}
              /\ \A p \in DOMAIN proposals[r] : ShownProposalStatus(r, p) = proposals[r][p].status
              /\ Indexed(proposals[r], activeProposal[r])
         /\ requests[r].carrier # NoUser =>
              /\ WasFunded(requests[r]) /\ requests[r].status # "Open"
              /\ requests[r].carrier \in Users /\ requests[r].carrier # requests[r].shipper
              /\ OwnProposals(requests[r].carrier, r) # {}
              /\ \A p \in DOMAIN proposals[r] : ShownProposalStatus(r, p) # "Active"
<1>1. IInv /\ DealInv /\ Deal(r)
  BY DEF AllInv, DealInv
<1>2. /\ requests[r].shipper \in Users /\ requests[r] \in Requests
      /\ WasFunded(requests[r]) => requests[r].carrier \in Users
  BY <1>1, Figures DEF RequestExists
<1>3. proposals[r] \in Seq(Proposals) /\ DOMAIN proposals[r] = 1 .. Len(proposals[r]) /\ Len(proposals[r]) \in Nat
  BY <1>1, MarketTypes
<1>4. ASSUME NEW p \in DOMAIN proposals[r]
      PROVE  proposals[r][p].carrier \in Users /\ proposals[r][p].carrier # requests[r].shipper
  <2>1. proposals[r][p] \in Proposals
    BY <1>3
  <2>2. QED BY <1>1, <2>1 DEF Deal, Proposals
<1>5. ASSUME requests[r].status = "Open"
      PROVE  /\ requests[r].carrier = NoUser /\ MilestonesOf(r) = {}
             /\ \A p \in DOMAIN proposals[r] : ShownProposalStatus(r, p) = proposals[r][p].status
             /\ Indexed(proposals[r], activeProposal[r])
  <2>1. ~WasFunded(requests[r])
    BY <1>5 DEF WasFunded
  <2>2. nextMilestoneId[r] = 0 /\ acceptedProposal[r] = 0 /\ requests[r].carrier = NoUser
    BY <1>1, <2>1 DEF IInv, RequestsOK, Deal
  <2>3. MilestonesOf(r) = {}
    BY <2>2, NumberAssumption DEF MilestonesOf, MilestoneExists, MilestoneIds
  <2>4. QED BY <1>1, <1>5, <2>2, <2>3 DEF ShownProposalStatus, Deal
<1>6. ASSUME requests[r].carrier # NoUser
      PROVE  /\ WasFunded(requests[r]) /\ requests[r].status # "Open"
             /\ requests[r].carrier \in Users /\ requests[r].carrier # requests[r].shipper
             /\ OwnProposals(requests[r].carrier, r) # {}
             /\ \A p \in DOMAIN proposals[r] : ShownProposalStatus(r, p) # "Active"
  <2>1. WasFunded(requests[r])
    BY <1>1, <1>6 DEF Deal
  <2>2. /\ acceptedProposal[r] \in DOMAIN proposals[r]
        /\ proposals[r][acceptedProposal[r]].carrier = requests[r].carrier
    BY <1>1, <2>1 DEF Deal
  <2>3. acceptedProposal[r] \in OwnProposals(requests[r].carrier, r)
    BY <2>2 DEF OwnProposals
  <2>4. \A p \in DOMAIN proposals[r] : ShownProposalStatus(r, p) # "Active"
    BY <1>1, <1>6, MarketIsRight DEF ProposalsMatch
  <2>5. QED BY <1>2, <1>4, <2>1, <2>2, <2>3, <2>4 DEF WasFunded
<1>7. requests[r].status \in RequestStatus
  BY <1>2 DEF Requests
<1>8. QED BY <1>2, <1>4, <1>5, <1>6, <1>7

(* Only a carrier the shipper chose has checkpoints to prove.               *)
LEMMA NoCheckpoints ==
  ASSUME NEW r, MilestonesOf(r) = {}
  PROVE  \A status : ~HasCheckpoint(r, status)
BY DEF HasCheckpoint

LEMMA Relationships ==
  ASSUME AllInv, NEW r \in RequestIds, RequestExists(r), NEW u \in Users
  PROVE  /\ u = requests[r].shipper =>
              ListRelationship(u, r) = "shipper" /\ DetailRelationship(u, r) = "shipper"
         /\ u # requests[r].shipper /\ (u = requests[r].carrier \/ OwnProposals(u, r) # {}) =>
              /\ ListRelationship(u, r) \in {"carrier", "carrier proposal"}
              /\ DetailRelationship(u, r) = "carrier"
         /\ u # requests[r].shipper /\ u # requests[r].carrier /\ OwnProposals(u, r) = {} =>
              ListRelationship(u, r) = "not listed"
         /\ u = requests[r].carrier => u # requests[r].shipper
<1>1. u # NoUser
  BY AccountAssumption
<1>2. u = requests[r].carrier => u # requests[r].shipper
  BY <1>1, RequestFacts
<1>3. CASE u = requests[r].shipper
  BY <1>2, <1>3 DEF ListRelationship, DetailRelationship
<1>4. CASE u # requests[r].shipper /\ u = requests[r].carrier
  BY <1>2, <1>4 DEF ListRelationship, DetailRelationship
<1>5. CASE u # requests[r].shipper /\ u # requests[r].carrier
  BY <1>2, <1>5 DEF ListRelationship, DetailRelationship
<1>6. QED BY <1>2, <1>3, <1>4, <1>5

(* A shipper's row and page.                                                *)
LEMMA ShipperIsAsked ==
  ASSUME AllInv, NEW r \in RequestIds, RequestExists(r)
  PROVE  LET u == requests[r].shipper
             asked == ShipmentAttention(u, r)
         IN  /\ asked = ShipperAttention(r) /\ RequiredAction(u, r) = ShipperRequiredAction(r)
             /\ ProposalButton(u, r) = "none" /\ AttentionRoute(u, r) = "track"
             /\ asked \in {"review-proof", "review-proposals", "awaiting-proposal", "awaiting-proof", "none"}
             /\ HasCheckpoint(r, "Submitted") => asked = "review-proof"
             /\ requests[r].status = "Open" /\ ProposalsShown(r, "Active") # {} => asked = "review-proposals"
             /\ ~HasCheckpoint(r, "Submitted")
                  /\ ~(requests[r].status = "Open" /\ ProposalsShown(r, "Active") # {})
                    => asked \notin {"review-proof", "review-proposals"}
<1> DEFINE u == requests[r].shipper
           asked == ShipmentAttention(u, r)
           submitted == HasCheckpoint(r, "Submitted")
           offered == ProposalsShown(r, "Active") # {}
<1>1. u \in Users /\ (requests[r].status = "Open" => ~submitted)
  BY RequestFacts, NoCheckpoints
<1>2. ListRelationship(u, r) = "shipper" /\ DetailRelationship(u, r) = "shipper"
  BY <1>1, Relationships
<1>3. asked = ShipperAttention(r) /\ RequiredAction(u, r) = ShipperRequiredAction(r)
  BY <1>2 DEF ShipmentAttention, RequiredAction
<1>4. ProposalButton(u, r) = "none"
  BY DEF ProposalButton
<1>5. CASE submitted
  <2>1. ShipperAttention(r) = "review-proof"
    BY <1>1, <1>5 DEF ShipperAttention
  <2>2. AttentionRoute(u, r) = "track"
    BY <1>3, <2>1 DEF AttentionRoute
  <2>3. QED BY <1>1, <1>3, <1>4, <1>5, <2>1, <2>2
<1>6. CASE ~submitted /\ requests[r].status = "Open" /\ offered
  <2>1. ShipperAttention(r) = "review-proposals"
    BY <1>6 DEF ShipperAttention, Active
  <2>2. AttentionRoute(u, r) = "track"
    BY <1>3, <2>1 DEF AttentionRoute
  <2>3. QED BY <1>3, <1>4, <1>6, <2>1, <2>2
<1>7. CASE ~submitted /\ ~(requests[r].status = "Open" /\ offered)
  <2>1. ShipperAttention(r) \in {"awaiting-proposal", "awaiting-proof", "none"}
    BY <1>7 DEF ShipperAttention, Active
  <2>2. AttentionRoute(u, r) = "track"
    BY <1>3, <2>1 DEF AttentionRoute
  <2>3. QED BY <1>3, <1>4, <1>7, <2>1, <2>2
<1>8. QED BY <1>5, <1>6, <1>7

(* A carrier's, and that of whoever made a proposal.                        *)
LEMMA CarrierIsAsked ==
  ASSUME AllInv, NEW r \in RequestIds, RequestExists(r), NEW u \in Users,
         u # requests[r].shipper, u = requests[r].carrier \/ OwnProposals(u, r) # {}
  PROVE  /\ ShipmentAttention(u, r) = CarrierAttention(u, r)
         /\ RequiredAction(u, r) = CarrierRequiredAction(u, r)
<1>1. /\ ListRelationship(u, r) \in {"carrier", "carrier proposal"}
      /\ DetailRelationship(u, r) = "carrier"
  BY Relationships
<1>2. ListRelationship(u, r) # "shipper" /\ DetailRelationship(u, r) # "shipper"
  BY <1>1
<1>3. QED BY <1>1, <1>2 DEF ShipmentAttention, RequiredAction

LEMMA ProverIsAsked ==
  ASSUME AllInv, NEW r \in RequestIds, RequestExists(r), NEW u \in Users,
         u # requests[r].shipper, u = requests[r].carrier \/ OwnProposals(u, r) # {},
         requests[r].status # "Open"
  PROVE  /\ NeedsProof(r) => /\ ShipmentAttention(u, r) \in {"submit-proof", "resubmit-proof"}
                             /\ RequiredAction(u, r) = "submit proof"
         /\ ~NeedsProof(r) => ShipmentAttention(u, r) = "none" /\ RequiredAction(u, r) = "none"
         /\ AttentionRoute(u, r) = "track" /\ ProposalButton(u, r) = "none"
<1>1. ShipmentAttention(u, r) = CarrierAttention(u, r) /\ RequiredAction(u, r) = CarrierRequiredAction(u, r)
  BY CarrierIsAsked
<1>2. CASE NeedsProof(r)
  <2>1. CarrierAttention(u, r) \in {"submit-proof", "resubmit-proof"}
    BY <1>2 DEF CarrierAttention, NeedsProof
  <2>2. CarrierRequiredAction(u, r) = "submit proof"
    BY <1>2 DEF CarrierRequiredAction
  <2>3. AttentionRoute(u, r) = "track"
    BY <1>1, <2>1 DEF AttentionRoute
  <2>4. QED BY <1>1, <1>2, <2>1, <2>2, <2>3 DEF ProposalButton
<1>3. CASE ~NeedsProof(r)
  <2>1. CarrierAttention(u, r) = "none"
    BY <1>3 DEF CarrierAttention, NeedsProof
  <2>2. CarrierRequiredAction(u, r) = "none"
    BY <1>3 DEF CarrierRequiredAction
  <2>3. AttentionRoute(u, r) = "track"
    BY <1>1, <2>1 DEF AttentionRoute
  <2>4. QED BY <1>1, <1>3, <2>1, <2>2, <2>3 DEF ProposalButton
<1>4. QED BY <1>2, <1>3

LEMMA ProposerIsAsked ==
  ASSUME AllInv, NEW r \in RequestIds, RequestExists(r), NEW u \in Users,
         u # requests[r].shipper, OwnProposals(u, r) # {}, requests[r].status = "Open"
  PROVE  IF HasOwnActiveProposal(u, r)
         THEN /\ ShipmentAttention(u, r) = "awaiting-approval" /\ RequiredAction(u, r) = "await the shipper"
              /\ AttentionRoute(u, r) = "edit=active" /\ ProposalButton(u, r) = "edit=active"
         ELSE /\ ShipmentAttention(u, r) \in {"resubmit-proposal", "submit-proposal"}
              /\ RequiredAction(u, r) = "propose"
              /\ AttentionRoute(u, r) \in {"resubmit", "propose"} /\ ProposalButton(u, r) = "propose"
<1>1. ShipmentAttention(u, r) = CarrierAttention(u, r) /\ RequiredAction(u, r) = CarrierRequiredAction(u, r)
  BY CarrierIsAsked
<1>2. ~HasCheckpoint(r, "Rejected") /\ ~HasCheckpoint(r, "PendingProof")
  BY RequestFacts, NoCheckpoints
<1>3. CASE HasOwnActiveProposal(u, r)
  <2>1. CarrierAttention(u, r) = "awaiting-approval" /\ CarrierRequiredAction(u, r) = "await the shipper"
    BY <1>2, <1>3 DEF CarrierAttention, CarrierRequiredAction
  <2>2. AttentionRoute(u, r) = "edit=active" /\ ProposalButton(u, r) = "edit=active"
    BY <1>1, <1>3, <2>1 DEF AttentionRoute, ProposalButton
  <2>3. QED BY <1>1, <1>3, <2>1, <2>2
<1>4. CASE ~HasOwnActiveProposal(u, r)
  <2>1. CarrierAttention(u, r) \in {"resubmit-proposal", "submit-proposal"}
    BY <1>2, <1>4 DEF CarrierAttention
  <2>2. CarrierRequiredAction(u, r) = "propose" /\ ProposalButton(u, r) = "propose"
    BY <1>4 DEF CarrierRequiredAction, ProposalButton
  <2>3. AttentionRoute(u, r) \in {"resubmit", "propose"}
    BY <1>1, <2>1 DEF AttentionRoute
  <2>4. QED BY <1>1, <1>4, <2>1, <2>2, <2>3
<1>5. QED BY <1>3, <1>4

LEMMA PagesNameOneDuty == AllInv => ListAndDetailAgree
<1> SUFFICES ASSUME AllInv, NEW u \in Users, NEW r \in RequestIds,
                    RequestExists(r), ListRelationship(u, r) # "not listed"
             PROVE  LET asked == ShipmentAttention(u, r)
                    IN  /\ RequiredAction(u, r)
                             = IF asked \in DOMAIN Obligation THEN Obligation[asked] ELSE "none"
                        /\ AttentionRoute(u, r) = "edit=active" <=> ProposalButton(u, r) = "edit=active"
                        /\ AttentionRoute(u, r) \in {"resubmit", "propose"} <=> ProposalButton(u, r) = "propose"
  BY DEF ListAndDetailAgree
<1> DEFINE asked == ShipmentAttention(u, r)
<1>1. /\ DOMAIN Obligation = {"review-proof", "review-proposals", "submit-proof", "resubmit-proof",
                              "awaiting-approval", "resubmit-proposal", "submit-proposal"}
      /\ Obligation["review-proof"] = "review proof"
      /\ Obligation["review-proposals"] = "review a proposal"
      /\ Obligation["submit-proof"] = "submit proof" /\ Obligation["resubmit-proof"] = "submit proof"
      /\ Obligation["awaiting-approval"] = "await the shipper"
      /\ Obligation["resubmit-proposal"] = "propose" /\ Obligation["submit-proposal"] = "propose"
  BY DEF Obligation
<1>2. CASE u = requests[r].shipper
  <2>1. /\ RequiredAction(u, r) = ShipperRequiredAction(r)
        /\ ProposalButton(u, r) = "none" /\ AttentionRoute(u, r) = "track"
        /\ asked \in {"review-proof", "review-proposals", "awaiting-proposal", "awaiting-proof", "none"}
    BY <1>2, ShipperIsAsked
  <2>2. requests[r].status \in RequestStatus /\ (requests[r].status = "Open" => ~HasCheckpoint(r, "Submitted"))
    BY RequestFacts, NoCheckpoints
  <2>3. CurrentStage(r) = "proposal" <=> requests[r].status = "Open" /\ ProposalsShown(r, "Active") # {}
    BY <2>2 DEF CurrentStage, RequestStatus, Active
  <2>4. CASE HasCheckpoint(r, "Submitted")
    <3>1. asked = "review-proof"
      BY <1>2, <2>4, ShipperIsAsked
    <3>2. ShipperRequiredAction(r) = "review proof"
      BY <2>2, <2>3, <2>4 DEF ShipperRequiredAction
    <3>3. QED BY <1>1, <2>1, <3>1, <3>2
  <2>5. CASE requests[r].status = "Open" /\ ProposalsShown(r, "Active") # {}
    <3>1. asked = "review-proposals"
      BY <1>2, <2>5, ShipperIsAsked
    <3>2. ShipperRequiredAction(r) = "review a proposal"
      BY <2>2, <2>3, <2>5 DEF ShipperRequiredAction
    <3>3. QED BY <1>1, <2>1, <3>1, <3>2
  <2>6. CASE ~HasCheckpoint(r, "Submitted") /\ ~(requests[r].status = "Open" /\ ProposalsShown(r, "Active") # {})
    <3>1. asked \notin {"review-proof", "review-proposals"}
      BY <1>2, <2>6, ShipperIsAsked
    <3>2. ShipperRequiredAction(r) = "none"
      BY <2>3, <2>6 DEF ShipperRequiredAction
    <3>3. asked \notin DOMAIN Obligation
      BY <1>1, <2>1, <3>1
    <3>4. QED BY <2>1, <3>2, <3>3
  <2>7. QED BY <2>4, <2>5, <2>6
<1>3. CASE u # requests[r].shipper
  <2>1. u = requests[r].carrier \/ OwnProposals(u, r) # {}
    BY <1>3, Relationships
  <2>2. CASE requests[r].status # "Open"
    <3>1. CASE NeedsProof(r)
      BY <1>1, <1>3, <2>1, <2>2, <3>1, ProverIsAsked
    <3>2. CASE ~NeedsProof(r)
      BY <1>1, <1>3, <2>1, <2>2, <3>2, ProverIsAsked
    <3>3. QED BY <3>1, <3>2
  <2>3. CASE requests[r].status = "Open"
    <3>1. OwnProposals(u, r) # {}
      BY <2>1, <2>3, RequestFacts, AccountAssumption
    <3>2. CASE HasOwnActiveProposal(u, r)
      BY <1>1, <1>3, <2>3, <3>1, <3>2, ProposerIsAsked
    <3>3. CASE ~HasOwnActiveProposal(u, r)
      BY <1>1, <1>3, <2>3, <3>1, <3>3, ProposerIsAsked
    <3>4. QED BY <3>2, <3>3
  <2>4. QED BY <2>2, <2>3
<1>4. QED BY <1>2, <1>3

(* What is to be done next is one of the checkpoints.                       *)
LEMMA OrderHolds ==
  ASSUME AllInv, NEW r \in RequestIds, NEW i \in DOMAIN executionOrder[r]
  PROVE  executionOrder[r][i] \in MilestonesOf(r)
<1> DEFINE order == executionOrder[r]
<1>1. /\ order \in Seq(MilestoneIds) /\ Len(order) = nextMilestoneId[r]
      /\ nextMilestoneId[r] <= MaxTotalMilestones
      /\ \A m \in MilestoneIds : m < Len(order) => \E k \in DOMAIN order : order[k] = m
  BY DEF AllInv, IInv, WorkOK, ExecutionOrderIsComplete, MilestonesOf, MilestoneExists, OrderInv, Sound
<1>2. order[i] < Len(order)
  BY <1>1, EachOnce
<1>3. order[i] \in MilestoneIds
  BY <1>1
<1>4. QED BY <1>1, <1>2, <1>3 DEF MilestonesOf, MilestoneExists

(* Whoever holds up a delivery is told so, in every state of every shipment *)
(* (shipmentAttention of shipmentPresentation.js): the carrier who can      *)
(* submit a proof, the shipper with a proof or a proposal to look at.       *)
THEOREM WhoeverMustActIsAlwaysTold == Spec => []WhoeverMustActIsTold
<1>1. AllInv => WhoeverMustActIsTold
  <2> SUFFICES ASSUME AllInv, NEW r \in RequestIds, RequestExists(r)
               PROVE  /\ (/\ Active(r) /\ now <= requests[r].deadline
                          /\ \E m \in MilestonesOf(r) :
                               /\ PreviousMilestonePaid(r, m)
                               /\ milestones[r][m].status \in {"PendingProof", "Rejected"})
                           => ShipmentAttention(requests[r].carrier, r) \in {"submit-proof", "resubmit-proof"}
                      /\ (Active(r) /\ HasPendingMilestoneProof(r))
                           => ShipmentAttention(requests[r].shipper, r) = "review-proof"
                      /\ (requests[r].status = "Open"
                            /\ \E p \in DOMAIN proposals[r] : proposals[r][p].status = "Active")
                           => ShipmentAttention(requests[r].shipper, r) = "review-proposals"
    BY DEF WhoeverMustActIsTold
  <2>1. ASSUME Active(r), NEW m \in MilestonesOf(r), milestones[r][m].status \in {"PendingProof", "Rejected"}
        PROVE  ShipmentAttention(requests[r].carrier, r) \in {"submit-proof", "resubmit-proof"}
    <3>1. requests[r].carrier \in Users /\ requests[r].carrier # NoUser
      BY <2>1, Figures, AccountAssumption DEF Active, WasFunded, AllInv
    <3>2. requests[r].status # "Open" /\ requests[r].carrier # requests[r].shipper
      BY <3>1, RequestFacts
    <3>3. NeedsProof(r)
      BY <2>1 DEF NeedsProof, HasCheckpoint
    <3>4. QED BY <3>1, <3>2, <3>3, ProverIsAsked
  <2>2. ASSUME Active(r), HasPendingMilestoneProof(r)
        PROVE  ShipmentAttention(requests[r].shipper, r) = "review-proof"
    <3>1. PICK i \in DOMAIN executionOrder[r] : milestones[r][executionOrder[r][i]].status = "Submitted"
      BY <2>2 DEF HasPendingMilestoneProof
    <3>2. executionOrder[r][i] \in MilestonesOf(r)
      BY <3>1, OrderHolds
    <3>3. HasCheckpoint(r, "Submitted")
      BY <3>1, <3>2 DEF HasCheckpoint
    <3>4. QED BY <3>3, ShipperIsAsked
  <2>3. ASSUME requests[r].status = "Open", NEW p \in DOMAIN proposals[r], proposals[r][p].status = "Active"
        PROVE  ShipmentAttention(requests[r].shipper, r) = "review-proposals"
    <3>1. p \in ProposalsShown(r, "Active")
      BY <2>3, RequestFacts DEF ProposalsShown
    <3>2. QED BY <2>3, <3>1, ShipperIsAsked
  <2>4. QED BY <2>1, <2>2, <2>3
<1>2. QED BY <1>1, EveryInvariant, PTL

(* The market, and an old plan sent again.                                  *)
LEMMA MarketLeadsRight ==
  ASSUME AllInv, NEW u \in Users, NEW r \in RequestIds, RequestExists(r), requests[r].status = "Open"
  PROVE  LET leadsTo == RequestDetailLeadsTo(u, RequestRead(r))
             row == MarketRow(u, r)
         IN  /\ OpenDetails(row) = "editor" <=> ProposalButton(u, r) = "edit=active"
             /\ OpenDetails(row) = "editor" => leadsTo = {"editor"}
             /\ leadsTo = IF ProposalButton(u, r) = "none" THEN {"shipment"} ELSE {"editor"}
<1> DEFINE mine == HasOwnActiveProposal(u, r)
           read == RequestRead(r)
<1>1. \A p \in DOMAIN proposals[r] : proposals[r][p].carrier \in Users
                                     /\ proposals[r][p].carrier # requests[r].shipper
  BY RequestFacts
<1>2. mine <=> \E p \in DOMAIN proposals[r] : proposals[r][p].carrier = u /\ ShownProposalStatus(r, p) = "Active"
  BY DEF HasOwnActiveProposal, OwnProposals, ProposalsShown
<1>3. MarketRow(u, r).hasOwnActiveProposal <=> mine
  BY <1>2 DEF MarketRow, ProposalsShown
<1>4. read.status = "Open" /\ read.shipper = requests[r].shipper
  BY DEF RequestRead
<1>5. RequestProposal(u, read) <=> mine
  <2>1. read.proposals = {[carrier |-> proposals[r][p].carrier, status |-> ShownProposalStatus(r, p)] :
                            p \in DOMAIN proposals[r]}
    BY DEF RequestRead
  <2>2. QED BY <1>2, <2>1 DEF RequestProposal
<1>6. mine => u # requests[r].shipper
  BY <1>1, <1>2
<1> HIDE DEF mine, read
<1>7. OpenDetails(MarketRow(u, r)) = "editor" <=> mine
  BY <1>3 DEF OpenDetails
<1>8. ProposalButton(u, r) = IF u = requests[r].shipper THEN "none" ELSE IF mine THEN "edit=active" ELSE "propose"
  BY DEF ProposalButton, mine
<1>9. RequestDetailLeadsTo(u, read) = IF u = requests[r].shipper THEN {"shipment"} ELSE {"editor"}
  BY <1>4, <1>5, <1>6 DEF RequestDetailLeadsTo, LeftForEditor, ShowProposalAction
<1>10. QED BY <1>6, <1>7, <1>8, <1>9 DEF read

LEMMA ResubmitsWhereTaken ==
  ASSUME AllInv, NEW u \in Users, NEW r \in RequestIds, RequestExists(r),
         NEW p \in DOMAIN proposals[r], ResubmitOffered(u, r, p)
  PROVE  activeProposal[r][u] = 0 /\ u # requests[r].shipper /\ requests[r].status = "Open"
<1>1. requests[r].status = "Open" /\ ~HasOwnActiveProposal(u, r) /\ proposals[r][p].carrier = u
  BY DEF ResubmitOffered, HistoricalProposals, OwnProposals
<1>2. u # requests[r].shipper
  BY <1>1, RequestFacts
<1>3. ASSUME activeProposal[r][u] # 0 PROVE FALSE
  <2>1. PICK own : own = activeProposal[r][u]
    OBVIOUS
  <2>2. own \in DOMAIN proposals[r] /\ proposals[r][own].carrier = u /\ proposals[r][own].status = "Active"
    <3>1. Indexed(proposals[r], activeProposal[r])
      BY <1>1, RequestFacts
    <3>2. QED BY <1>3, <2>1, <3>1 DEF Indexed
  <2>3. ShownProposalStatus(r, own) = "Active"
    BY <1>1, <2>2, RequestFacts
  <2>4. QED BY <1>1, <2>2, <2>3 DEF HasOwnActiveProposal, OwnProposals, ProposalsShown
<1>4. QED BY <1>1, <1>2, <1>3

LEMMA OpenOnes ==
  ASSUME AllInv, NEW i \in DOMAIN openRequestIds
  PROVE  /\ openRequestIds[i] \in RequestIds /\ RequestExists(openRequestIds[i])
         /\ requests[openRequestIds[i]].status = "Open"
BY DEF AllInv, IInv, MarketOK, OpenListOK, OpenListMatches, RequestExists

(* Wherever a wallet looks, it is told the same (MyShipments.jsx, Track.jsx, *)
(* Marketplace.jsx and RequestDetail.jsx): one duty in the list and on the  *)
(* page, one way from the market to the editor, an old plan offered again   *)
(* only where the escrow takes one, and every row under one status.         *)
THEOREM PagesAlwaysAgree == Spec => []PagesAgree
<1>1. AllInv => PagesAgree
  <2> SUFFICES ASSUME AllInv PROVE PagesAgree
    OBVIOUS
  <2>1. ListAndDetailAgree
    BY PagesNameOneDuty
  <2>2. ASSUME NEW u \in Users, NEW i \in DOMAIN openRequestIds
        PROVE  LET row == MarketRow(u, openRequestIds[i])
                   leadsTo == RequestDetailLeadsTo(u, RequestRead(row.id))
               IN  /\ OpenDetails(row) = "editor" <=> ProposalButton(u, row.id) = "edit=active"
                   /\ OpenDetails(row) = "editor" => leadsTo = {"editor"}
                   /\ leadsTo = IF ProposalButton(u, row.id) = "none" THEN {"shipment"} ELSE {"editor"}
    <3>1. PICK r \in RequestIds : r = openRequestIds[i] /\ RequestExists(r) /\ requests[r].status = "Open"
      BY OpenOnes
    <3>2. MarketRow(u, r).id = r
      BY DEF MarketRow
    <3>3. QED BY <3>1, <3>2, MarketLeadsRight
  <2>3. ASSUME NEW u \in Users, NEW row \in MarketRows(u)
        PROVE  LET leadsTo == RequestDetailLeadsTo(u, RequestRead(row.id))
               IN  /\ OpenDetails(row) = "editor" <=> ProposalButton(u, row.id) = "edit=active"
                   /\ OpenDetails(row) = "editor" => leadsTo = {"editor"}
                   /\ leadsTo = IF ProposalButton(u, row.id) = "none" THEN {"shipment"} ELSE {"editor"}
    <3>1. PICK i \in DOMAIN openRequestIds : row = MarketRow(u, openRequestIds[i])
      BY DEF MarketRows
    <3>2. QED BY <2>2, <3>1
  <2>4. ASSUME NEW u \in Users
        PROVE  UNION {Filtered(u, status) : status \in RequestStatus} = Filtered(u, "all")
    <3>1. \A status \in RequestStatus :
            Filtered(u, status) = {r \in ShipmentRows(u) : requests[r].status = status}
      BY DEF Filtered, RequestStatus
    <3>2. Filtered(u, "all") = ShipmentRows(u)
      BY DEF Filtered
    <3>3. \A r \in ShipmentRows(u) : requests[r].status \in RequestStatus
      BY RequestFacts DEF ShipmentRows
    <3>4. UNION {Filtered(u, status) : status \in RequestStatus} \subseteq ShipmentRows(u)
      BY <3>1
    <3>5. ASSUME NEW r \in ShipmentRows(u)
          PROVE  r \in UNION {Filtered(u, status) : status \in RequestStatus}
      <4>1. requests[r].status \in RequestStatus /\ r \in Filtered(u, requests[r].status)
        BY <3>1, <3>3
      <4>2. QED BY <4>1
    <3>6. QED BY <3>2, <3>4, <3>5
  <2>5. QED BY <2>1, <2>3, <2>4, ResubmitsWhereTaken DEF PagesAgree
<1>2. QED BY <1>1, EveryInvariant, PTL

-----------------------------------------------------------------------------
(* Chat buttons.                                                            *)

LEMMA OneOffer ==
  ASSUME NEW r, Cardinality(ProposalsShown(r, "Active")) = 1
  PROVE  \E p \in ProposalsShown(r, "Active") :
           (CHOOSE u \in ActiveProposalCarriers(r) : TRUE) = proposals[r][p].carrier
<1>1. ProposalsShown(r, "Active") # {}
  BY FS_EmptySet
<1>2. ActiveProposalCarriers(r) # {}
  BY <1>1 DEF ActiveProposalCarriers
<1>3. (CHOOSE u \in ActiveProposalCarriers(r) : TRUE) \in ActiveProposalCarriers(r)
  BY <1>2
<1>4. QED BY <1>3 DEF ActiveProposalCarriers

(* Whose conversation a button opens.                                       *)
LEMMA ChatsLeadTo ==
  ASSUME AllInv, NEW r \in RequestIds, RequestExists(r), NEW u \in Users
  PROVE  /\ RequestDetailChat(u, r) # NoUser => RequestDetailChat(u, r) = u /\ OwnProposals(u, r) # {}
         /\ ShipmentChat(u, r) # NoUser =>
              /\ u \in {requests[r].shipper, requests[r].carrier}
              /\ requests[r].carrier # NoUser /\ ShipmentChat(u, r) = requests[r].carrier
         /\ ListChat(u, r) # NoUser =>
              /\ u # requests[r].shipper => ListChat(u, r) = u
              /\ OwnProposals(ListChat(u, r), r) # {}
              /\ requests[r].carrier \in {NoUser, ListChat(u, r)}
<1>1. u # NoUser
  BY AccountAssumption
<1>2. ASSUME RequestDetailChat(u, r) # NoUser PROVE RequestDetailChat(u, r) = u /\ OwnProposals(u, r) # {}
  <2>1. RequestDetailChat(u, r) = u /\ \E proposal \in RequestRead(r).proposals : proposal.carrier = u
    BY <1>2 DEF RequestDetailChat
  <2>2. RequestRead(r).proposals
          = {[carrier |-> proposals[r][p].carrier, status |-> ShownProposalStatus(r, p)] : p \in DOMAIN proposals[r]}
    BY DEF RequestRead
  <2>3. QED BY <2>1, <2>2 DEF OwnProposals
<1>3. ASSUME ShipmentChat(u, r) # NoUser
      PROVE  /\ u \in {requests[r].shipper, requests[r].carrier}
             /\ requests[r].carrier # NoUser /\ ShipmentChat(u, r) = requests[r].carrier
  BY <1>1, <1>3 DEF ShipmentChat
<1>4. ASSUME ListChat(u, r) # NoUser, u = requests[r].shipper
      PROVE  /\ OwnProposals(ListChat(u, r), r) # {}
             /\ requests[r].carrier \in {NoUser, ListChat(u, r)}
  <2>1. ListChat(u, r) = ShipmentChatCarrier(r)
    BY <1>4 DEF ListChat
  <2>2. CASE requests[r].carrier # NoUser
    BY <2>1, <2>2, RequestFacts DEF ShipmentChatCarrier
  <2>3. CASE requests[r].carrier = NoUser
    <3>1. Cardinality(ProposalsShown(r, "Active")) = 1
      BY <1>4, <2>1, <2>3 DEF ShipmentChatCarrier
    <3>2. PICK p \in ProposalsShown(r, "Active") : ShipmentChatCarrier(r) = proposals[r][p].carrier
      BY <2>3, <3>1, OneOffer DEF ShipmentChatCarrier
    <3>3. p \in OwnProposals(proposals[r][p].carrier, r)
      BY DEF ProposalsShown, OwnProposals
    <3>4. QED BY <2>1, <2>3, <3>2, <3>3
  <2>4. QED BY <2>2, <2>3
<1>5. ASSUME ListChat(u, r) # NoUser, u # requests[r].shipper
      PROVE  /\ ListChat(u, r) = u /\ OwnProposals(u, r) # {}
             /\ requests[r].carrier \in {NoUser, u}
  <2>1. ListChat(u, r) = u /\ (u = requests[r].carrier \/ HasOwnActiveProposal(u, r))
    BY <1>5 DEF ListChat
  <2>2. CASE u = requests[r].carrier
    BY <1>1, <2>1, <2>2, RequestFacts
  <2>3. CASE HasOwnActiveProposal(u, r)
    <3>1. PICK p \in OwnProposals(u, r) : p \in ProposalsShown(r, "Active")
      BY <2>3 DEF HasOwnActiveProposal
    <3>2. p \in DOMAIN proposals[r] /\ ShownProposalStatus(r, p) = "Active"
      BY <3>1 DEF ProposalsShown
    <3>3. requests[r].carrier = NoUser
      BY <3>2, RequestFacts
    <3>4. QED BY <2>1, <3>1, <3>3
  <2>4. QED BY <2>1, <2>2, <2>3
<1>6. QED BY <1>2, <1>3, <1>4, <1>5

LEMMA ChatsAreGiven ==
  ASSUME AllInv, NEW r \in RequestIds, RequestExists(r), NEW u \in Users, NEW carrier \in Users,
         carrier \in ChatsOffered(u, r)
  PROVE  ConversationGiven(u, r, carrier)
<1>1. carrier # NoUser
  BY AccountAssumption
<1>2. ASSUME OwnProposals(carrier, r) # {}, u # requests[r].shipper => carrier = u
      PROVE  ConversationGiven(u, r, carrier)
  BY <1>2 DEF ConversationGiven, ConversationCarrier
<1>3. CASE carrier = ListChat(u, r)
  BY <1>1, <1>2, <1>3, ChatsLeadTo
<1>4. CASE carrier = RequestDetailChat(u, r)
  <2>1. carrier = u /\ OwnProposals(u, r) # {}
    BY <1>1, <1>4, ChatsLeadTo
  <2>2. QED BY <1>2, <2>1
<1>5. CASE carrier = ShipmentChat(u, r)
  <2>1. carrier = requests[r].carrier /\ u \in {requests[r].shipper, requests[r].carrier}
    BY <1>1, <1>5, ChatsLeadTo
  <2>2. OwnProposals(carrier, r) # {}
    BY <1>1, <2>1, RequestFacts
  <2>3. QED BY <1>2, <2>1, <2>2
<1>6. CASE \E p \in DOMAIN proposals[r] : carrier = ProposalChat(u, r, p)
  <2>1. PICK p \in DOMAIN proposals[r] : carrier = ProposalChat(u, r, p)
    BY <1>6
  <2>2. carrier = proposals[r][p].carrier /\ u \in {requests[r].shipper, carrier}
    BY <1>1, <2>1 DEF ProposalChat
  <2>3. p \in OwnProposals(carrier, r)
    BY <2>2 DEF OwnProposals
  <2>4. QED BY <1>2, <2>2, <2>3
<1>7. QED BY <1>3, <1>4, <1>5, <1>6 DEF ChatsOffered

(* Every chat button opens a conversation the server gives                  *)
(* (conversationService.js), and once there is a carrier, shipper and       *)
(* carrier are led to the same one from everywhere and may write in it      *)
(* until the shipment is over (writabilityService.js).                      *)
THEOREM ChatsAlwaysMeet == Spec => []ChatsMeet
<1>1. AllInv => ChatsMeet
  <2> SUFFICES ASSUME AllInv, NEW r \in RequestIds, RequestExists(r)
               PROVE  /\ \A u \in Users, carrier \in Users :
                           carrier \in ChatsOffered(u, r) => ConversationGiven(u, r, carrier)
                      /\ requests[r].carrier # NoUser =>
                           \A u \in {requests[r].shipper, requests[r].carrier} :
                             /\ ListChat(u, r) = requests[r].carrier /\ ShipmentChat(u, r) = requests[r].carrier
                             /\ Active(r) => Writable(u, r, requests[r].carrier)
                      /\ requests[r].status = "Open" =>
                           \A u \in Users : ListChat(u, r) # NoUser => Writable(u, r, ListChat(u, r))
    BY DEF ChatsMeet
  <2>1. ASSUME requests[r].carrier # NoUser, NEW u \in {requests[r].shipper, requests[r].carrier}
        PROVE  /\ ListChat(u, r) = requests[r].carrier /\ ShipmentChat(u, r) = requests[r].carrier
               /\ Active(r) => Writable(u, r, requests[r].carrier)
    <3>1. /\ u \in Users /\ u # NoUser /\ requests[r].carrier # requests[r].shipper
          /\ OwnProposals(requests[r].carrier, r) # {}
      BY <2>1, RequestFacts, AccountAssumption
    <3>2. ListChat(u, r) = requests[r].carrier
      BY <2>1, <3>1 DEF ListChat, ShipmentChatCarrier
    <3>3. ShipmentChat(u, r) = requests[r].carrier
      BY <2>1, <3>1 DEF ShipmentChat
    <3>4. Active(r) => Writable(u, r, requests[r].carrier)
      BY <2>1, <3>1 DEF Active, Writable
    <3>5. QED BY <3>2, <3>3, <3>4
  <2>2. ASSUME requests[r].status = "Open", NEW u \in Users, ListChat(u, r) # NoUser
        PROVE  Writable(u, r, ListChat(u, r))
    <3>1. /\ u # requests[r].shipper => ListChat(u, r) = u
          /\ OwnProposals(ListChat(u, r), r) # {}
          /\ requests[r].carrier \in {NoUser, ListChat(u, r)}
      BY <2>2, ChatsLeadTo
    <3>2. u \in {requests[r].shipper, ListChat(u, r)}
      BY <3>1
    <3>3. QED BY <2>2, <3>1, <3>2 DEF Writable
  <2>3. QED BY <2>1, <2>2, ChatsAreGiven
<1>2. QED BY <1>1, EveryInvariant, PTL

=============================================================================
