----------------------------- MODULE EscrowPromise -----------------------------
(***************************************************************************)
(* What the escrow promises the two sides of a delivery, without its pooled *)
(* balance, milestones, proofs, proposals and lists.  A shipper offers a    *)
(* request; engaging a carrier sets aside a compensation and a reserve; the *)
(* compensation goes to that carrier in parts and on delivery to the last   *)
(* CARGO, the reserve pays expenses and what is left of it returns; a       *)
(* shipment that fails gives everything left back.  Nobody else's CARGO is  *)
(* ever touched, and nothing happens to a request that is over but one tip. *)
(***************************************************************************)
EXTENDS Integers

CONSTANTS
  Requests,
  Wallets,        \* those of shippers and carriers
  Fund,           \* whoever else may pay into a running shipment
  Nobody

Payers == Wallets \cup {Fund}

VARIABLES
  phase,
  shipper, carrier,
  promised,       \* compensation that is set aside
  reserve,        \* for expenses
  wallet

vars == <<phase, shipper, carrier, promised, reserve, wallet>>

Init ==
  /\ phase = [r \in Requests |-> "none"]
  /\ shipper = [r \in Requests |-> Nobody]
  /\ carrier = [r \in Requests |-> Nobody]
  /\ promised = [r \in Requests |-> 0]
  /\ reserve = [r \in Requests |-> 0]
  /\ wallet \in [Payers -> Nat]

Becomes(r, next) == phase' = [phase EXCEPT ![r] = next]

Offer(r, u) ==
  /\ phase[r] = "none"
  /\ Becomes(r, "offered")
  /\ shipper' = [shipper EXCEPT ![r] = u]
  /\ UNCHANGED <<carrier, promised, reserve, wallet>>

Withdraw(r) ==
  /\ phase[r] = "offered"
  /\ Becomes(r, "withdrawn")
  /\ UNCHANGED <<shipper, carrier, promised, reserve, wallet>>

Engage(r, c) ==
  /\ phase[r] = "offered"
  /\ c # shipper[r]
  /\ Becomes(r, "running")
  /\ carrier' = [carrier EXCEPT ![r] = c]
  /\ \E compensation, expenses \in 0 .. wallet[shipper[r]] :
       /\ compensation + expenses <= wallet[shipper[r]]
       /\ promised' = [promised EXCEPT ![r] = compensation]
       /\ reserve' = [reserve EXCEPT ![r] = expenses]
       /\ wallet' = [wallet EXCEPT ![shipper[r]] = @ - (compensation + expenses)]
  /\ UNCHANGED shipper

Contribute(r, payer) ==
  /\ phase[r] = "running"
  /\ payer \in {shipper[r], Fund}
  /\ \E compensation, expenses \in 0 .. wallet[payer] :
       /\ compensation + expenses <= wallet[payer]
       /\ promised' = [promised EXCEPT ![r] = @ + compensation]
       /\ reserve' = [reserve EXCEPT ![r] = @ + expenses]
       /\ wallet' = [wallet EXCEPT ![payer] = @ - (compensation + expenses)]
  /\ UNCHANGED <<phase, shipper, carrier>>

Pay(r) ==
  /\ phase[r] = "running"
  /\ \E part \in 1 .. promised[r] :
       /\ promised' = [promised EXCEPT ![r] = @ - part]
       /\ wallet' = [wallet EXCEPT ![carrier[r]] = @ + part]
  /\ UNCHANGED <<phase, shipper, carrier, reserve>>

Reimburse(r) ==
  /\ phase[r] = "running"
  /\ \E expense \in 1 .. reserve[r] :
       /\ reserve' = [reserve EXCEPT ![r] = @ - expense]
       /\ wallet' = [wallet EXCEPT ![carrier[r]] = @ + expense]
  /\ UNCHANGED <<phase, shipper, carrier, promised>>

Deliver(r) ==
  /\ phase[r] = "running"
  /\ Becomes(r, "delivered")
  /\ promised' = [promised EXCEPT ![r] = 0]
  /\ reserve' = [reserve EXCEPT ![r] = 0]
  /\ wallet' = [wallet EXCEPT ![carrier[r]] = @ + promised[r], ![shipper[r]] = @ + reserve[r]]
  /\ UNCHANGED <<shipper, carrier>>

GiveBack(r) ==
  /\ phase[r] = "running"
  /\ Becomes(r, "returned")
  /\ promised' = [promised EXCEPT ![r] = 0]
  /\ reserve' = [reserve EXCEPT ![r] = 0]
  /\ wallet' = [wallet EXCEPT ![shipper[r]] = @ + (promised[r] + reserve[r])]
  /\ UNCHANGED <<shipper, carrier>>

Tip(r) ==
  /\ phase[r] = "delivered"
  /\ Becomes(r, "tipped")
  /\ \E amount \in 1 .. wallet[shipper[r]] :
       wallet' = [wallet EXCEPT ![shipper[r]] = @ - amount, ![carrier[r]] = @ + amount]
  /\ UNCHANGED <<shipper, carrier, promised, reserve>>

Step(r) ==
  \/ \E u \in Wallets : Offer(r, u) \/ Engage(r, u)
  \/ \E payer \in Payers : Contribute(r, payer)
  \/ Withdraw(r) \/ Pay(r) \/ Reimburse(r) \/ Deliver(r) \/ GiveBack(r) \/ Tip(r)

Next == \E r \in Requests : Step(r)

Spec == Init /\ [][Next]_vars

=============================================================================
