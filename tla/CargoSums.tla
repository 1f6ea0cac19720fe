------------------------------ MODULE CargoSums ------------------------------
(***************************************************************************)
(* Sums of CARGO amounts.  The contracts keep running totals (the escrow's  *)
(* totalEscrowed, each shipper's totalLocked) next to per-request amounts,  *)
(* and the specifications say the first is the sum of the second.           *)
(*                                                                          *)
(* An amount is a natural number, so a function f of amounts stands for the *)
(* set of its single units: f[x] units labelled x.  Its sum is the number   *)
(* of units.  Defined this way a sum can be computed by TLC and, needing no  *)
(* recursion, reasoned about with the theorems on finite sets.              *)
(***************************************************************************)
EXTENDS Integers, FiniteSets

Units(f) == UNION { {x} \X (1 .. f[x]) : x \in DOMAIN f }

SumOver(f) == Cardinality(Units(f))

=============================================================================
