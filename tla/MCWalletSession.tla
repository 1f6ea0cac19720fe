---------------------------- MODULE MCWalletSession ----------------------------
(***************************************************************************)
(* Instances of WalletSession for TLC.                                      *)
(***************************************************************************)
EXTENDS WalletSession

CONSTANTS a, b

=============================================================================
