--------------------------- MODULE MCOrderReports ---------------------------
(* An order of one fulfillment and two items, and the reports about it.     *)
EXTENDS OrderReports

CONSTANTS f1, other, rice, oil, here, there, None

MCItemName == [i \in {rice, oil} |-> IF i = rice THEN "Rice" ELSE "Oil"]

Stop(type, location, gps, area) == [type |-> type, location |-> location, gps |-> gps, area |-> area]
Start == Stop("start", "start", here, None)
Moved == Stop("start", "start", there, there)
End == Stop("end", "end", there, here)
Of(f, status, stops) == [id |-> f, status |-> status, stops |-> stops]

Report0(kind, state, pays, fulfillments) ==
    [kind |-> kind, state |-> state, pays |-> pays, fulfillments |-> fulfillments, docs |-> None,
     breakup |-> <<>>, items |-> <<>>, total |-> 0]
Doc(type, url) == [type |-> type, url |-> url]
Entry(title, id, value) == [title |-> title, id |-> id, value |-> value]

\* A confirm without payments; states with an invoice, with a proforma and
\* two invoices, with one fulfillment twice and no end, and one whose start
\* is said to be an end; a cancel of one item, and one of all that refunds an
\* item twice; an update.
Unpaid == Report0("confirm", "Created", FALSE, <<Of(f1, "Pending", <<Moved>>)>>)
Invoiced == [Report0("status", "InProgress", TRUE, <<Of(other, "Packed", <<Start>>), Of(f1, "Packed", <<End, Start>>)>>)
                EXCEPT !.docs = <<Doc("invoice", "u1")>>]
Proformas == [Report0("status", "Accepted", FALSE, <<Of(f1, "Packed", <<Moved, End>>)>>)
                EXCEPT !.docs = <<Doc("proforma", "u2"), Doc("invoice", "u3"), Doc("invoice", "u4")>>]
Endless == Report0("status", "Accepted", TRUE,
                   <<Of(f1, "Out-for-delivery", <<Start>>), Of(f1, "Packed", <<Start>>)>>)
Crooked == Report0("status", "Completed", TRUE, <<Of(f1, "Order-delivered", <<Stop("end", "start", there, here)>>)>>)
Cancel == [Report0("cancel", "Cancelled", TRUE, <<Of(f1, "Cancelled", <<Start>>)>>)
            EXCEPT !.breakup = <<Entry("Rice", rice, 7), Entry("Tax", rice, 1), Entry("Packing", f1, 2)>>,
                   !.items = <<rice>>, !.total = 10]
CancelAll == [Report0("cancel", "Cancelled", TRUE, <<>>)
            EXCEPT !.breakup = <<Entry("Oil", oil, 4), Entry("Rice", rice, 6), Entry("Oil", oil, 5)>>,
                   !.items = <<oil, rice>>, !.total = 11]
Update == Report0("update", "Accepted", TRUE, <<>>)

MCReport == {Unpaid, Invoiced, Proformas, Endless, Crooked, Cancel, CancelAll, Update}

MCSelection == {[type |-> "purchase", pickup |-> here, drop |-> None],
                [type |-> "sale", pickup |-> there, drop |-> here]}
=============================================================================
