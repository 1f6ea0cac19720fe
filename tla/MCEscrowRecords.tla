--------------------------- MODULE MCEscrowRecords ---------------------------
(***************************************************************************)
(* Instances of EscrowRecords for TLC.                                      *)
(***************************************************************************)
EXTENDS EscrowRecords, MarketPages

CONSTANTS s1, c1, c2

MCSinglePlan == {<<100>>}

=============================================================================
