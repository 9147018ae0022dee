------------------------------ MODULE BitNumbers ------------------------------
(***************************************************************************)
(* Powers of two and running sums, as recursive functions: the shifts of   *)
(* src/triplets.cpp and the lengths of src/huffman.cpp are counted in      *)
(* them.                                                                   *)
(***************************************************************************)
EXTENDS Integers, Sequences

PowerOfTwo[k \in Nat] == IF k = 0 THEN 1 ELSE 2 * PowerOfTwo[k - 1]

(* The sum of the first k numbers, by k.                                   *)
Sums(numbers) ==
  LET sums[k \in 0..Len(numbers)] == IF k = 0 THEN 0 ELSE sums[k - 1] + numbers[k]
  IN  sums
SumOf(numbers) == Sums(numbers)[Len(numbers)]
===============================================================================
