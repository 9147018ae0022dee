--------------------------- MODULE RowPermutations ---------------------------
(***************************************************************************)
(* The operations on particle rows that the pipeline is built from:        *)
(* Array::gather and stable_id_order of src/data.cpp, the chunk-local      *)
(* index arithmetic and the inverse of src/pipeline.cpp, and the stable    *)
(* sort of src/layout.cpp.  A column gives every row the particle whose    *)
(* value it holds; an order is an array of row numbers.                    *)
(***************************************************************************)
EXTENDS Integers, FiniteSets, Functions

CONSTANT N   (* the particle count                                         *)

ASSUME RowsAssumption == N \in Nat

Rows == 0..(N - 1)

(* The orders that lose no row and repeat none.                            *)
Orders == Bijection(Rows, Rows)

(* Array::gather, for an order without an invalid index.                   *)
Gather(column, order) == [i \in Rows |-> column[order[i]]]

(* `for (i) inverse[order[i]] = i`                                         *)
InverseOrder(order) == Inverse(order, Rows, Rows)

(* std::stable_sort of the rows by a key: how many rows go before row r,   *)
(* and which row has rank i.                                               *)
Before(key, r) == {s \in Rows : key[s] < key[r] \/ (key[s] = key[r] /\ s < r)}
Rank(key) == [r \in Rows |-> Cardinality(Before(key, r))]
StableOrder(key) == InverseOrder(Rank(key))

(* The rows of the chunk that row i is in: chunk = 0 is one chunk.         *)
Base(i, chunk) == IF chunk = 0 THEN 0 ELSE (i \div chunk) * chunk
LocalCount(i, chunk) ==
  IF chunk = 0 \/ chunk > N - Base(i, chunk) THEN N - Base(i, chunk) ELSE chunk

(* The row that entry i of a chunk-local order means.                      *)
Target(local, chunk) == [i \in Rows |-> Base(i, chunk) + local[i]]

IndexInRange(local, chunk) ==
  \A i \in Rows : 0 <= local[i] /\ local[i] < LocalCount(i, chunk)

NoTargetTwice(local, chunk) ==
  \A i, j \in Rows : Target(local, chunk)[i] = Target(local, chunk)[j] => i = j

(* What a chunked triplet codec returns as its order.                      *)
LocalOrders(chunk) ==
  {local \in [Rows -> Rows] :
     IndexInRange(local, chunk) /\ NoTargetTwice(local, chunk)}
===============================================================================
