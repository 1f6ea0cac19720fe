---------------------------- MODULE MCShipmentPage ----------------------------
(***************************************************************************)
(* Instances of LifecycleManager, with the page over it, for TLC.           *)
(***************************************************************************)
EXTENDS FundingForms, TLC

CONSTANTS u1, u2

MCSinglePlan == {<<100>>}
Wallets == Permutations(Users)

=============================================================================
