------------------------------ MODULE MCSelectTx -------------------------------
(* A small instance of SelectTx: two selects have a fulfillment id in common, *)
(* as those of one cart do, a third has nothing in common with them.          *)
EXTENDS SelectTx, TLC

CONSTANTS f1, f2, f3, f4

MCBasket == {{f1, f2}, {f1, f3}, {f4}}

Symmetry == Permutations(Tx) \cup Permutations(Order) \cup Permutations(Key)
===============================================================================
