----------------------------- MODULE MCFundingDesk -----------------------------
(***************************************************************************)
(* Instances of FundingDesk for TLC.                                        *)
(***************************************************************************)
EXTENDS FundingDesk, TLC

CONSTANTS u1, u2

MCSinglePlan == {<<100>>}
Wallets == Permutations(Users)

=============================================================================
