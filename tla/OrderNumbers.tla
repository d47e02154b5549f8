----------------------------- MODULE OrderNumbers -----------------------------
(***************************************************************************)
(* What placing and re-placing orders promises about the order numbers of  *)
(* the businesses: an order gets the next number of a series when it is    *)
(* placed for the first time and keeps it for good.                        *)
(***************************************************************************)
EXTENDS Naturals

CONSTANTS Order, Key, Basket, None

VARIABLES placed,  \* the order stored for an external_urn, or None
          last     \* the last number taken from a series

vars == <<placed, last>>

Take(key) == last' = [last EXCEPT ![key] = @ + 1]

First(order, key, fids) ==
    /\ placed[order] = None
    /\ Take(key)
    /\ placed' = [placed EXCEPT ![order] =
                     [urn |-> [key |-> key, no |-> last[key] + 1], fids |-> fids]]

Again(order, fids) ==
    /\ placed[order] # None
    /\ placed' = [placed EXCEPT ![order].fids = fids]
    /\ UNCHANGED last

\* Two answers with nothing in common, both taken for the first: they end in
\* one order and a number is lost.
Merge(order, key, fids) ==
    /\ placed[order] # None
    /\ fids \cap placed[order].fids = {}
    /\ placed' = [placed EXCEPT ![order].fids = @ \cup fids]
    /\ Take(key)

Init ==
    /\ placed = [order \in Order |-> None]
    /\ last = [key \in Key |-> 0]

Next ==
    \E order \in Order, fids \in Basket :
        \/ Again(order, fids)
        \/ \E key \in Key : First(order, key, fids) \/ Merge(order, key, fids)

Spec == Init /\ [][Next]_vars
=============================================================================
