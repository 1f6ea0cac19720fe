----------------------------- MODULE AmendmentForm -----------------------------
(***************************************************************************)
(* The form in which a participant arranges new checkpoints between those   *)
(* of a running shipment (AmendmentPanel and AmendmentConfirmationModal in  *)
(* src/pages/Track.jsx).  Cards are dragged in front of, or behind, an      *)
(* existing checkpoint; submitting sorts them for the contract, which       *)
(* inserts them one by one.  A card is its place in the list of cards; its  *)
(* name and amount travel with it.                                          *)
(***************************************************************************)
EXTENDS DeliveryEscrow, SequencesExt

CONSTANT MaxCards          \* bound: new checkpoints in one arrangement

ASSUME CardsAssumption == MaxCards \in Nat

FormOpen(r) == RequestExists(r) /\ Active(r) /\ now < requests[r].deadline

Unpaid(r, m) == milestones[r][m].status # "Paid"

(* Dropping a card behind the i-th checkpoint means in front of the next    *)
(* unpaid one, or at the end.                                               *)
NextUnpaid(r, i) ==
  LET order == executionOrder[r]
      later == {k \in i + 1 .. Len(order) : Unpaid(r, order[k])}
  IN  IF later = {} THEN AppendMilestoneId
      ELSE order[CHOOSE k \in later : \A l \in later : k <= l]

(* Where a card can be dropped: a paid checkpoint refuses it.               *)
DropTargets(r) ==
  LET order == executionOrder[r]
      open  == {i \in DOMAIN order : Unpaid(r, order[i])}
  IN  {AppendMilestoneId} \cup {order[i] : i \in open} \cup {NextUnpaid(r, i) : i \in open}

(* The list of cards: a new card is put last, a dropped one in front of the *)
(* first card with the same target.  The button that adds one stops at the  *)
(* contract's limit.                                                        *)
Arrangements(r) ==
  UNION {[1 .. n -> DropTargets(r)] : n \in {k \in 0 .. MaxCards :
                                             Len(executionOrder[r]) + k <= MaxTotalMilestones}}

CardsFor(cards, target) == SelectSeq([k \in DOMAIN cards |-> k], LAMBDA k : cards[k] = target)

Entry(kind, id) == [kind |-> kind, id |-> id]
NewEntries(cards, target) ==
  LET chosen == CardsFor(cards, target)
  IN  [k \in DOMAIN chosen |-> Entry("new", chosen[k])]

(* What the form shows: the cards of a checkpoint in front of it, those of  *)
(* none at the end.                                                         *)
Arranged(r, cards) ==
  FlattenSeq([i \in DOMAIN executionOrder[r] |->
      Append(NewEntries(cards, executionOrder[r][i]), Entry("old", executionOrder[r][i]))])
    \o NewEntries(cards, AppendMilestoneId)

(* submitRequest sorts the additions by the number of their target, append  *)
(* being the largest number there is; the sort is stable.                   *)
SortKey(target) == IF target = AppendMilestoneId THEN MaxTotalMilestones ELSE target

(* Slip: additions to the same place are put last card first.               *)
SentOrderReversingTies(cards) ==
  SetToSortSeq(DOMAIN cards, LAMBDA j, k :
    SortKey(cards[j]) < SortKey(cards[k]) \/ (cards[j] = cards[k] /\ j > k))

SentOrder(cards) ==
  SetToSortSeq(DOMAIN cards, LAMBDA j, k :
    SortKey(cards[j]) < SortKey(cards[k]) \/ (cards[j] = cards[k] /\ j < k))

(* The order the confirmation dialog shows for the additions to be sent.    *)
Confirmed(r, cards) ==
  LET sent == SentOrder(cards)
      For(target) == LET chosen == SelectSeq(sent, LAMBDA k : cards[k] = target)
                     IN  [k \in DOMAIN chosen |-> Entry("new", chosen[k])]
  IN  FlattenSeq([i \in DOMAIN executionOrder[r] |->
          Append(For(executionOrder[r][i]), Entry("old", executionOrder[r][i]))])
        \o For(AppendMilestoneId)

-----------------------------------------------------------------------------
(* Properties.                                                              *)

SentTargets(cards) == LET sent == SentOrder(cards) IN [j \in DOMAIN sent |-> cards[sent[j]]]

ContractAccepts(r, cards) ==
  LET targets == SentTargets(cards)
  IN  /\ Len(executionOrder[r]) + Len(targets) <= MaxTotalMilestones
      /\ ManagerValidated(r, <<>>, [j \in DOMAIN targets |-> [insertBefore |-> targets[j], amount |-> 1]])

(* What finalizeAmendment makes of it, with the ids traced back to cards.   *)
Resulting(r, cards) ==
  LET first  == nextMilestoneId[r]
      result == WithInsertions(executionOrder[r], SentTargets(cards), first)
  IN  [p \in DOMAIN result |->
         IF result[p] < first THEN Entry("old", result[p])
         ELSE Entry("new", SentOrder(cards)[result[p] - first + 1])]

AsAgreed(r) ==
  \A i, j \in DOMAIN executionOrder[r] : i < j => executionOrder[r][i] < executionOrder[r][j]

(* The agreement a shipper and a carrier end up with is the one that was    *)
(* arranged and confirmed: three different computations of one order (cards *)
(* per checkpoint, additions per target, repeated insertion on the chain).  *)
(* On a shipment as it was agreed, every arrangement is also accepted,      *)
(* unless a proof is under review; an earlier amendment that put a          *)
(* checkpoint in front of an older one makes the sort disagree.             *)
ArrangementIsTheResult ==
  \A r \in RequestIds : FormOpen(r) =>
    \A cards \in Arrangements(r) :
      /\ Confirmed(r, cards) = Arranged(r, cards)
      /\ ContractAccepts(r, cards) => Resulting(r, cards) = Arranged(r, cards)
      /\ (AsAgreed(r) /\ ~HasPendingMilestoneProof(r)) => ContractAccepts(r, cards)

=============================================================================
