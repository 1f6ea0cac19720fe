------------------------------ MODULE FundingDesk ------------------------------
(***************************************************************************)
(* How a wallet's CARGO gets into the escrow and comes to the wallet at all *)
(* (contracts/CargoToken.sol; utils/cargoFunding.js, ensureTokenAllowance   *)
(* in utils/walletTransaction.js, and the dialogs of pages/Track.jsx,       *)
(* pages/Account.jsx and CreateRequestModal.jsx).  A dialog quotes what a   *)
(* step will cost; once confirmed the page quotes again, lets the escrow    *)
(* take that much, and sends the step: four moments at which the gas price, *)
(* the request and the browser's account may be other ones.                 *)
(*                                                                          *)
(* One browser with both wallets' accounts pays everything that is paid;    *)
(* everything else on the chain happens as it does.  ETH for gas is left    *)
(* out, and ETH is counted in the units the token converts.                 *)
(***************************************************************************)
EXTENDS DeliveryEscrow

CONSTANTS
  EthEndowment,
  CargoEntries, EthEntries,   \* amounts that are typed into the converter
  MaxEth                      \* bound: what a wallet redeems up to

Blank == -1                   \* no amount

ASSUME DeskAssumption ==
  /\ IsFiniteSet(Users) /\ EthEndowment \in Nat /\ MaxEth \in Nat
  /\ CargoEntries \subseteq Nat /\ EthEntries \subseteq Nat

VARIABLES
  approved,     \* the token's allowances for the escrow
  eth, reserve, \* of the wallets and of the token contract
  desk          \* the dialog, or the transaction under way

tokenVars == <<approved, eth, reserve>>
deskVars == <<tokenVars, desk>>
allVars == <<vars, deskVars>>

Closed ==
  [step |-> "closed", kind |-> "none", account |-> NoUser, r |-> 0, p |-> 0,
   operational |-> 0, cargo |-> 0, eth |-> 0]

DeskInit ==
  /\ Init
  /\ approved = [u \in Users |-> 0]
  /\ eth = [u \in Users |-> EthEndowment]
  /\ reserve = SumOver(cargo) \div CargoPerEth
  /\ desk = Closed

-----------------------------------------------------------------------------
(* Accepting a proposal.  The dialog shows compensation and reserve; what   *)
(* it was opened for may be stale, but only the shipper gets a quote.       *)
AcceptProposal(r, p, price) ==
  /\ desk = Closed
  /\ RequestExists(r)
  /\ p \in DOMAIN proposals[r]
  /\ LET operational == MinimumOperationalAllowance(r, p, price)
     IN  desk' = [Closed EXCEPT !.step = "review", !.kind = "fund", !.r = r, !.p = p,
                    !.account = requests[r].shipper,
                    !.operational = operational,
                    !.cargo = requests[r].proposedAmount + operational]
  /\ UNCHANGED <<vars, tokenVars>>

(* Slip: the reserve is the one that is enough by now, not the chosen one.  *)
QuoteCargoFundingAnew(minimum, chosen) == minimum

(* quoteCargoFunding: a chosen reserve stands, unless it is too small.      *)
QuoteCargoFunding(minimum, chosen) == IF chosen < minimum THEN Blank ELSE chosen

(* The total the dialog shows grows with the extra reserve.  The request is *)
(* read again, whoever is connected by now, and quoted again.               *)
ConfirmProposalFunding(extra, price) ==
  /\ desk.step = "review"
  /\ LET quoted == QuoteCargoFunding(MinimumOperationalAllowance(desk.r, desk.p, price),
                                     desk.operational + extra)
     IN  desk' = IF /\ desk.account = requests[desk.r].shipper
                    /\ requests[desk.r].status = "Open"
                    /\ quoted # Blank
                 THEN [desk EXCEPT !.step = "approving", !.operational = quoted, !.cargo = @ + extra]
                 ELSE Closed
  /\ UNCHANGED <<vars, tokenVars>>

(* What the request costs when the transaction for it is sent.              *)
TotalOf(d) == IF d.kind = "fund" THEN requests[d.r].proposedAmount + d.operational ELSE d.cargo

(* Tips and additions to the reserve have a form and no quote.              *)
SendCarrierTip(r, amount) ==
  /\ desk = Closed
  /\ RequestExists(r)
  /\ requests[r].status = "Completed" /\ tipAmounts[r] = 0
  /\ desk' = [Closed EXCEPT !.step = "approving", !.kind = "tip",
                            !.account = requests[r].shipper, !.r = r, !.cargo = amount]
  /\ UNCHANGED <<vars, tokenVars>>

TopUp(r, amount) ==
  /\ desk = Closed
  /\ RequestExists(r)
  /\ desk' = [Closed EXCEPT !.step = "approving", !.kind = "top-up",
                            !.account = requests[r].shipper, !.r = r, !.cargo = amount]
  /\ UNCHANGED <<vars, tokenVars>>

(* ensureTokenAllowance: what an earlier, failed step left is used up first. *)
EnsureTokenAllowance ==
  /\ desk.step = "approving"
  /\ approved' = [approved EXCEPT ![desk.account] = IF @ >= TotalOf(desk) THEN @ ELSE TotalOf(desk)]
  /\ desk' = [desk EXCEPT !.step = "sending"]
  /\ UNCHANGED <<vars, eth, reserve>>

-----------------------------------------------------------------------------
(* Converting: two fields, of which each edit sets the other one.           *)

Convertible(amount) == amount > 0 /\ amount % CargoPerEth = 0

(* On the Account page zero is an amount like any other.                    *)
ConversionFromCargo(amount) ==
  [cargo |-> amount, eth |-> IF amount % CargoPerEth = 0 THEN amount \div CargoPerEth ELSE Blank]
ConversionFromEth(amount) == [cargo |-> amount * CargoPerEth, eth |-> amount]

Conversions ==
  {ConversionFromCargo(amount) : amount \in CargoEntries} \cup {ConversionFromEth(amount) : amount \in EthEntries}

(* In the top-up dialogs it is none.                                        *)
UpdateFromCargo(amount) ==
  [cargo |-> amount, eth |-> IF Convertible(amount) THEN amount \div CargoPerEth ELSE Blank]
UpdateFromEth(amount) ==
  [cargo |-> IF amount > 0 THEN amount * CargoPerEth ELSE Blank, eth |-> amount]

Entered ==
  {UpdateFromCargo(amount) : amount \in CargoEntries} \cup {UpdateFromEth(amount) : amount \in EthEntries}

(* They suggest what a form lacks, if it can be converted.                  *)
Shortfall(required, balance) == IF required > balance THEN required - balance ELSE 0

Suggested(missing) ==
  IF Convertible(missing) THEN UpdateFromCargo(missing) ELSE [cargo |-> Blank, eth |-> Blank]

Matching(fields) ==
  fields.eth > 0 /\ fields.cargo > 0 /\ fields.cargo = fields.eth * CargoPerEth

(* Enough must be left for the gas, or enough be there to redeem; whether   *)
(* it still is when the confirmation is given is not asked.                 *)
PrepareCargoAction(u, kind, fields) ==
  /\ desk = Closed
  /\ Matching(fields)
  /\ kind = "deposit" => fields.eth < eth[u]
  /\ kind = "redeem" => fields.cargo <= cargo[u]
  /\ desk' = [Closed EXCEPT !.step = "prepared", !.kind = kind, !.account = u,
                            !.cargo = fields.cargo, !.eth = fields.eth]
  /\ UNCHANGED <<vars, tokenVars>>

(* A top-up is opened over a form (which is opened anew here, afterwards),  *)
(* suggesting what the form lacks.                                          *)
CompleteCargoTopUp(u, fields) ==
  /\ desk = Closed
  /\ Matching(fields)
  /\ fields.eth < eth[u]
  /\ desk' = [Closed EXCEPT !.step = "sending", !.kind = "deposit", !.account = u,
                            !.cargo = fields.cargo, !.eth = fields.eth]
  /\ UNCHANGED <<vars, tokenVars>>

OpenCargoTopUp(u, required) ==
  \E fields \in {Suggested(Shortfall(required, cargo[u]))} \cup Entered : CompleteCargoTopUp(u, fields)

TopUpForProposal(r, p, price) ==
  /\ RequestExists(r) /\ requests[r].status = "Open" /\ p \in DOMAIN proposals[r]
  /\ OpenCargoTopUp(requests[r].shipper,
                    requests[r].proposedAmount + MinimumOperationalAllowance(r, p, price))

(* The form of a new request names an amount that is only put up later.     *)
TopUpForRequest(u, reward) ==
  /\ desk = Closed
  /\ reward > cargo[u]
  /\ OpenCargoTopUp(u, reward)

(* Whoever is connected when the dialog is confirmed converts.              *)
RunCargoAction ==
  /\ desk.step = "prepared"
  /\ desk' = [desk EXCEPT !.step = "sending"]
  /\ UNCHANGED <<vars, tokenVars>>

-----------------------------------------------------------------------------
(* The transactions.                                                        *)

Deposit(u, amount) ==
  /\ amount > 0 /\ eth[u] >= amount
  /\ eth' = [eth EXCEPT ![u] = @ - amount]
  /\ reserve' = reserve + amount
  /\ cargo' = [cargo EXCEPT ![u] = @ + amount * CargoPerEth]
  /\ UNCHANGED <<approved, now, requests, tipAmounts, marketVars, workVars, totalEscrowed, lockedEscrow>>

Redeem(u, amount) ==
  /\ eth[u] + amount \div CargoPerEth <= MaxEth
  /\ Convertible(amount) /\ cargo[u] >= amount
  /\ reserve >= amount \div CargoPerEth
  /\ eth' = [eth EXCEPT ![u] = @ + amount \div CargoPerEth]
  /\ reserve' = reserve - amount \div CargoPerEth
  /\ cargo' = [cargo EXCEPT ![u] = @ - amount]
  /\ UNCHANGED <<approved, now, requests, tipAmounts, marketVars, workVars, totalEscrowed, lockedEscrow>>

(* A step of the escrow takes what it costs out of the allowance.           *)
Spend(u, cost) ==
  /\ approved[u] >= cost
  /\ approved' = [approved EXCEPT ![u] = @ - cost]
  /\ UNCHANGED <<eth, reserve>>

Effect(price) ==
  \/ /\ desk.kind = "fund" /\ desk.account = requests[desk.r].shipper
     /\ ApproveAndFund(desk.r, desk.p, price, desk.operational)
     /\ Spend(desk.account, TotalOf(desk))
  \/ /\ desk.kind = "tip" /\ TipCarrier(desk.r, desk.cargo) /\ Spend(desk.account, desk.cargo)
  \/ /\ desk.kind = "top-up" /\ TopUpOperationalAllowance(desk.r, desk.cargo)
     /\ Spend(desk.account, desk.cargo)
  \/ desk.kind = "deposit" /\ Deposit(desk.account, desk.eth)
  \/ desk.kind = "redeem" /\ Redeem(desk.account, desk.cargo)

Land(price) ==
  /\ desk.step = "sending"
  /\ Effect(price)
  /\ desk' = Closed

(* The dialog is closed, a transaction is refused, lost or reverted: the    *)
(* allowance stays.                                                         *)
Leave ==
  /\ desk # Closed
  /\ desk' = Closed
  /\ UNCHANGED <<vars, tokenVars>>

(* The wallet is switched to another account.  No dialog closes for it; a   *)
(* step under way keeps the signer it began with.                           *)
SwitchAccount(u) ==
  /\ desk.step \in {"review", "prepared"}
  /\ desk' = [desk EXCEPT !.account = u]
  /\ UNCHANGED <<vars, tokenVars>>

-----------------------------------------------------------------------------
(* What happens on the chain besides.                                       *)

OtherStep ==
  \/ Tick
  \/ \E u \in Users, deadline \in Deadlines, amount \in Amounts : CreateRequest(u, deadline, amount)
  \/ \E r \in RequestIds :
       \/ \E u \in Users, plan \in Plans : ProposeMilestones(u, r, plan)
       \/ \E u \in Users : RevokeMilestoneProposal(u, r)
       \/ \E p \in 1 .. MaxProposals : RejectMilestoneProposal(r, p)
       \/ CancelRequest(r)
       \/ CarrierStep(r)
       \/ ReviewStep(r)
       \/ RefundRemaining(r)
       \/ ManagerStep(r)

DeskStep ==
  \/ \E u \in Users : SwitchAccount(u)
  \/ \E r \in RequestIds, p \in 1 .. MaxProposals, price \in ReferenceGasPrices :
       AcceptProposal(r, p, price)
  \/ \E price \in ReferenceGasPrices :
       \/ \E extra \in ExtraAllowances : ConfirmProposalFunding(extra, price)
       \/ Land(price)
  \/ \E r \in RequestIds, amount \in FundingAmounts : SendCarrierTip(r, amount) \/ TopUp(r, amount)
  \/ EnsureTokenAllowance
  \/ \E u \in Users, kind \in {"deposit", "redeem"}, fields \in Conversions :
       PrepareCargoAction(u, kind, fields)
  \/ \E r \in RequestIds, p \in 1 .. MaxProposals, price \in ReferenceGasPrices :
       TopUpForProposal(r, p, price)
  \/ \E u \in Users, reward \in Amounts : TopUpForRequest(u, reward)
  \/ RunCargoAction
  \/ Leave

DeskNext == DeskStep \/ (OtherStep /\ UNCHANGED deskVars)

DeskSpec == DeskInit /\ [][DeskNext]_allVars

-----------------------------------------------------------------------------
(* Properties.                                                              *)

(* Whatever a wallet is worth, in CARGO and in ETH.                         *)
Means(u) == cargo[u] + CargoPerEth * eth[u]

(* No CARGO moves but as somebody was shown and confirmed.  A wallet loses  *)
(* exactly what its own dialog named, however the prices, the request, the  *)
(* proposals or the connected account changed since; a conversion gives     *)
(* what the two fields said; and no CARGO comes into being or is lost, on   *)
(* whatever way through the escrow, but against the token's ETH.            *)
MoneyMovesAsConfirmed ==
  [][/\ \A u \in Users : Means(u)' < Means(u) =>
          desk.account = u /\ Means(u) - Means(u)' = desk.cargo
     /\ reserve' # reserve =>
          /\ cargo'[desk.account] = cargo[desk.account] + (IF desk.kind = "deposit" THEN 1 ELSE -1) * desk.cargo
          /\ eth'[desk.account] = eth[desk.account] + (IF desk.kind = "deposit" THEN -1 ELSE 1) * desk.eth
     /\ SumOver(cargo') - SumOver(cargo) = CargoPerEth * (reserve' - reserve)]_allVars

=============================================================================
