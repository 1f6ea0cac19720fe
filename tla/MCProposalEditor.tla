--------------------------- MODULE MCProposalEditor ---------------------------
(***************************************************************************)
(* Instances of ProposalEditor for TLC.                                     *)
(***************************************************************************)
EXTENDS ProposalEditor

CONSTANTS w1, w2, planA, planB

=============================================================================
