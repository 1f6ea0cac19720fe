--------------------------- MODULE MCShipperReview ---------------------------
(***************************************************************************)
(* An instance of ShipperReview for TLC, with the functions of the escrow's *)
(* state that the pages show beside it.                                     *)
(***************************************************************************)
EXTENDS ShipperReview, AmendmentForm, NextAction

CONSTANTS u1, u2

MCPlans == {<<100>>, <<50, 50>>}

Wallets == Permutations(Users)

=============================================================================
