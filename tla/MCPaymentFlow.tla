---------------------------- MODULE MCPaymentFlow ----------------------------
(* Small instances of PaymentFlow.                                           *)
EXTENDS PaymentFlow, TLC

Symmetry == Permutations(Creator) \cup Permutations(Notifier) \cup Permutations(Callback)
=============================================================================
