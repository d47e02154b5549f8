------------------------------ MODULE OrderBook ------------------------------
(***************************************************************************)
(* What the order table promises to whoever reads it, without the tasks,   *)
(* the messages and the transactions behind it: each change of the order   *)
(* happens at one instant and is computed from the order as it is at that  *)
(* instant, although the callbacks compute it from an order they read      *)
(* before.  A report without payments is the exception, and says so.       *)
(***************************************************************************)
EXTENDS Naturals, OrderStatus

CONSTANTS SellerState, OneCart, None

Entry == [urn: Nat, type: OrderType, status: CommerceStatusType,
          billed: BOOLEAN, pays: BOOLEAN]

VARIABLES book,    \* the order of the transaction, or None
          series   \* order numbers the business has taken

\* The order is (re)placed: it keeps its number or takes the next one.
Place(type, status, pays) ==
    /\ book' = [urn |-> IF book = None THEN series + 1 ELSE book.urn,
                type |-> type, status |-> status, billed |-> FALSE, pays |-> pays]
    /\ series' = IF book = None THEN series + 1 ELSE series

RequestQuote == \E pays \in BOOLEAN : Place("purchase", "QuoteRequested", pays)

AcceptQuote ==
    \E type \in OrderType, pays \in BOOLEAN : Place(type, "QuoteAccepted", pays)

\* Two selects at once, without a fulfillment id in common: an answer that
\* deleted no order makes the order stored meanwhile a quote again, as it is,
\* with payments added; the number taken for it is lost.
MergeQuote ==
    /\ ~OneCart
    /\ book # None
    /\ \E pays \in BOOLEAN :
           book' = [book EXCEPT !.status = "QuoteAccepted", !.pays = @ \/ pays]
    /\ series' = series + 1

\* Once placed, an order with payments is changed in place.
Change(status, billed, pays) ==
    /\ book # None /\ book.pays
    /\ book' = [book EXCEPT !.status = status, !.billed = billed, !.pays = pays]
    /\ UNCHANGED series

Initialise == \E pays \in BOOLEAN : Change("Initialized", TRUE, pays)

\* A report with payments is judged by the type the order has.  One without
\* may be judged by the type of an order replaced meanwhile, or be lost, but
\* takes the payments away in either case.
Report(state, proforma, pays) ==
    /\ book # None /\ book.pays
    /\ \E type \in (IF pays THEN {book.type} ELSE OrderType) :
       \E status \in {GetCommerceStatus(state, type, proforma)}
                       \cup (IF pays THEN {} ELSE {book.status}) :
           Change(status, book.billed, pays)

ReplacePayments == \E pays \in BOOLEAN : Change(book.status, book.billed, pays)

OtherOrder == series' = series + 1 /\ UNCHANGED book

Init == book = None /\ series = 0

Next ==
    \/ RequestQuote
    \/ AcceptQuote
    \/ MergeQuote
    \/ Initialise
    \/ \E state \in SellerState, proforma \in {"none", "absent", "present"}, pays \in BOOLEAN :
           Report(state, proforma, pays)
    \/ book # None /\ ReplacePayments
    \/ OtherOrder

Spec == Init /\ [][Next]_<<book, series>>
=============================================================================
