----------------------------- MODULE FundingForms -----------------------------
(***************************************************************************)
(* What a participant is asked to fill in, and to confirm, before CARGO is  *)
(* asked for: the form of a new request (CreateRequestModal.jsx), and what  *)
(* the pages quote for an amendment or for its acceptance                   *)
(* (utils/cargoFunding.js with the confirmations of pages/Track.jsx).  Like *)
(* the page these are operators over the chain's state; texts are given or  *)
(* not, and a quantity is what Number() makes of it.                        *)
(***************************************************************************)
EXTENDS ShipmentPage

Rows ==
  [name : BOOLEAN, description : BOOLEAN,
   quantity : {"blank", "no number", "zero", "fraction", "negative", "whole"}]

(* The rows of the form that are looked at: those with anything in them.    *)
Populated(row) == row.name \/ row.description \/ row.quantity # "blank"

ItemRowsValid(rows) ==
  /\ \E i \in DOMAIN rows : Populated(rows[i])
  /\ \A i \in DOMAIN rows : Populated(rows[i]) => rows[i].name /\ rows[i].quantity = "whole"

(* The rows that are sent: of the quantities, what JavaScript takes as true. *)
IsSent(row) == row.name \/ row.description \/ row.quantity \in {"fraction", "negative", "whole"}
NormalizedItems(rows) == SelectSeq(rows, IsSent)

(* createRequest wants positive integers and names, and an item at all.     *)
ItemsAccepted(items) ==
  /\ items # <<>>
  /\ \A i \in DOMAIN items : items[i].quantity = "whole" /\ items[i].name

(* The contract would accept the rows, and none with something in it is     *)
(* silently left out.                                                       *)
RowsAgree ==
  \A n \in 1 .. 2 : \A rows \in [1 .. n -> Rows] :
    ItemRowsValid(rows)
      <=> /\ ItemsAccepted(NormalizedItems(rows))
          /\ \A i \in DOMAIN rows : Populated(rows[i]) => IsSent(rows[i])

(* What is not a positive amount counts as none.                            *)
RewardWei(reward) == IF reward > 0 THEN reward ELSE 0

RequestFieldsValid(clock, deadline, reward) == deadline > clock /\ RewardWei(reward) > 0

(* The balance is compared when the form is submitted, and read again.      *)
RequestSends(u, clock, deadline, reward) ==
  RequestFieldsValid(clock, deadline, reward) /\ RewardWei(reward) <= cargo[u]

(* What the page says each milestone of a proposed plan will pay.           *)
CalculateProposedPayout(total, plan, index) ==
  IF index = Len(plan)
  THEN total - SumOver([j \in 1 .. Len(plan) - 1 |-> (total * plan[j]) \div 100])
  ELSE (total * plan[index]) \div 100

(* A few plans whose percentages do not divide what is offered.             *)
OddPlans == {<<100>>, <<50, 50>>, <<33, 67>>, <<1, 98, 1>>, <<33, 33, 34>>, <<10, 20, 30, 40>>}

PayoutsAgree ==
  \A total \in 1 .. 13, plan \in OddPlans :
    /\ \A i \in DOMAIN plan : CalculateProposedPayout(total, plan, i) = PayoutAmount(total, plan, i)
    /\ SumOver([i \in DOMAIN plan |-> CalculateProposedPayout(total, plan, i)]) = total

-----------------------------------------------------------------------------
(* The quotes.  minimum is what a response costs at least, by now.          *)

NoQuote == [compensation |-> 0, operational |-> 0, response |-> 0]
TotalOfQuote(quote) == quote.compensation + quote.operational + quote.response

ResponseQuoted(chosen, minimum) == chosen = 0 \/ chosen >= minimum

QuoteOfRequest(r, sender, existing, additions, chosen) ==
  [compensation |-> IF WalletIsShipper(sender, r) THEN Allocated(existing, additions) ELSE 0,
   operational  |-> IF WalletIsShipper(sender, r)
                    THEN Len(additions) * ProofReserve(requests[r].gasPriceCap) ELSE 0,
   response     |-> chosen]

(* Slip: whoever accepts, the money is taken to be staged already.          *)
QuoteOfAcceptanceStaged(r, amendment) == NoQuote

QuoteOfAcceptance(r, amendment) ==
  IF WalletIsShipper(amendment.requester, r) THEN NoQuote
  ELSE [compensation |-> amendment.additionalFunding,
        operational  |-> amendment.operationalAllowance,
        response     |-> 0]

(* A quote of nothing is not shown.                                         *)
FundingIsConfirmed(quote) == TotalOfQuote(quote) # 0

(* The dialog before it names what is added to the escrow.                  *)
AcceptanceNamesFunding(r, amendment) ==
  ~WalletIsShipper(amendment.requester, r) /\ amendment.additionalFunding > 0

(* Who only adds time sends another transaction, which costs nothing.       *)
SubmittedQuote(u, r, deadline, existing, additions, chosen) ==
  IF DirectExtensionChosen(u, r, deadline, Allocated(existing, additions)) THEN NoQuote
  ELSE QuoteOfRequest(r, u, existing, additions, chosen)

SubmitAmendment(u, r, deadline, answerBy, existing, additions, price, chosen) ==
  IF DirectExtensionChosen(u, r, deadline, Allocated(existing, additions))
  THEN ExtendShipmentDeadline(r, deadline)
  ELSE RequestAmendment(r, u, deadline, answerBy, existing, additions, price, chosen)

-----------------------------------------------------------------------------
(* Properties.                                                              *)

Costs(u, amount) == cargo[u] - cargo'[u] = amount

RequestFormAgrees ==
  /\ RowsAgree /\ PayoutsAgree
  /\ nextRequestId <= MaxRequests =>
       \A u \in Users, deadline \in 0 .. MaxTime + 1, reward \in -1 .. Endowment :
         RequestSends(u, now, deadline, reward)
           <=> ENABLED CreateRequest(u, deadline, reward) /\ reward <= cargo[u]

QuotedRequestsCostThat ==
  \A r \in RequestIds : \A u \in Users :
    (/\ RequestExists(r) /\ u \in Participants(r) /\ NegotiableShipment(r)
     /\ activeNegotiation[r].kind = "None" /\ Len(amendmentRequests[r]) < MaxNegotiations) =>
      \A deadline, answerBy \in Deadlines, existing \in Fundings(r), additions \in Additions(r),
         chosen \in ResponseAllowances, price \in ReferenceGasPrices :
        LET total == TotalOfQuote(SubmittedQuote(u, r, deadline, existing, additions, chosen))
        IN  (/\ IF DirectExtensionChosen(u, r, deadline, Allocated(existing, additions))
                THEN ExtensionTerms(r, deadline)
                ELSE /\ AmendmentTerms(r, u, deadline, answerBy, existing, additions)
                     /\ ResponseQuoted(chosen, MinimumResponseAllowance(price))
             /\ total <= cargo[u])
              => ENABLED (/\ SubmitAmendment(u, r, deadline, answerBy, existing, additions, price, chosen)
                          /\ Costs(u, total))

QuotedAnswersCostThat ==
  \A r \in RequestIds : \A a \in DOMAIN amendmentRequests[r] :
    ENABLED AcceptAmendment(r, a, 0, 0) =>
      LET amendment == amendmentRequests[r][a]
          quote     == QuoteOfAcceptance(r, amendment)
      IN  /\ ENABLED (AcceptAmendment(r, a, 0, 0) /\ Costs(amendment.responder, TotalOfQuote(quote)))
          /\ FundingIsConfirmed(quote) <=> AcceptanceNamesFunding(r, amendment)

(* What the forms and quotes say is what the contracts do.  A form lets     *)
(* through exactly what the contract accepts: a new request with its rows   *)
(* of items, a new deadline and funding, as a direct extension or as an     *)
(* amendment, a mutual cancellation.  And a quote names exactly the CARGO   *)
(* that leaves the wallet: what the shipper stages when asking, or adds     *)
(* when accepting what a carrier asked for, however the shipment's gas      *)
(* price cap has risen since; who confirms an acceptance without an amount  *)
(* pays none; the payouts a proposal is shown with are those it is funded   *)
(* with, and add up.                                                        *)
FormsAndQuotesAgree ==
  FormsAgreeWithContract /\ RequestFormAgrees /\ QuotedRequestsCostThat /\ QuotedAnswersCostThat

=============================================================================
