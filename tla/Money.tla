--------------------------------- MODULE Money ---------------------------------
(***************************************************************************)
(* Amounts of money: common/utils.py.  An amount in yuan is counted in     *)
(* units of the last of the four places of DecimalField.                   *)
(***************************************************************************)
EXTENDS Integers

Fen == 100

\* int(d * 100) cuts off towards zero.
Yuan2Fen(d) == IF d >= 0 THEN d \div Fen ELSE -((-d) \div Fen)

\* to_decimal(d / 100): the quotient has two places, which the eight of to_decimal keep.
Fen2Yuan(f) == f * Fen
=============================================================================
