------------------------------- MODULE Totals -------------------------------
(***************************************************************************)
(* Sums of money.  An amount counts the smallest unit of account (0.0001   *)
(* CNY: DecimalField keeps four decimal places), so a sum of amounts is    *)
(* the number of units, each unit named by the row that holds it and by    *)
(* its rank in that row.  Written as a cardinality, the sum needs no       *)
(* recursion, and facts about it follow from facts about finite sets.      *)
(***************************************************************************)
EXTENDS Integers, FiniteSets

Units(S, amount) == UNION {{x} \X (1..amount[x]) : x \in S}

Total(S, amount) == Cardinality(Units(S, amount))
=============================================================================
