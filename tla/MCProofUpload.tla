---------------------------- MODULE MCProofUpload ----------------------------
(***************************************************************************)
(* An instance of ProofUpload for TLC.  Sizes in units of the tag's length: *)
(* an empty file, one at the limit and one beyond it; a smaller one meets   *)
(* the same guards as the one at the limit.                                 *)
(***************************************************************************)
EXTENDS ProofUpload, TLC

BoundarySizes == {0, MaxPlaintext, MaxPlaintext + 1}

=============================================================================
