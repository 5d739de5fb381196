------------------------------- MODULE Sorting -------------------------------
(***************************************************************************)
(* std::sort, as validate_scatter_array and median_from_array use it: the   *)
(* entries of an array in ascending order.                                  *)
(***************************************************************************)
EXTENDS Naturals, Sequences

\* The ways to put n entries in order.
Orders(n) ==
  {order \in [1 .. n -> 1 .. n] :
     /\ \A x, y \in 1 .. n : order[x] = order[y] => x = y
     /\ \A y \in 1 .. n : \E x \in 1 .. n : order[x] = y}

Arrangements(arr) ==
  {[n \in 1 .. Len(arr) |-> arr[order[n]]] : order \in Orders(Len(arr))}

Ascending(arr) ==
  \A x, y \in 1 .. Len(arr) : x <= y => arr[x] <= arr[y]

Sorted(arr) == CHOOSE s \in Arrangements(arr) : Ascending(s)
=============================================================================
