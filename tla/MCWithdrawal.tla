---------------------------- MODULE MCWithdrawal ----------------------------
(***************************************************************************)
(* Instances of Withdrawal: three calls of a user who owns 3, each with    *)
(* any of three request ids: for 2, for 1 and for nothing.                 *)
(***************************************************************************)
EXTENDS Withdrawal, TLC

CONSTANTS r1, r2, r3

MCAmountOf == r1 :> 2 @@ r2 :> 1 @@ r3 :> 0
=============================================================================
