---------------------------- MODULE RunningTotal ----------------------------
(***************************************************************************)
(* The sums the algorithms take of a list of numbers.                      *)
(***************************************************************************)
EXTENDS Naturals, Sequences

\* Total(numbers)[i] is the sum of the first i of them.
Total(numbers) ==
  LET total[i \in 0..Len(numbers)] == IF i = 0 THEN 0 ELSE total[i - 1] + numbers[i]
  IN  total

SumOf(numbers) == Total(numbers)[Len(numbers)]
=============================================================================
