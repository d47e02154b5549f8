----------------------------- MODULE OrderStatus -----------------------------
(* The states of an order on the ONDC network and in commerce_data, and the *)
(* rule that turns one into the other.                                      *)

\* ONDCOrderStatus, the states of an order on the wire.
ONDCOrderStatus == {"Created", "Accepted", "Completed", "Cancelled", "InProgress"}

\* CommerceStatusType, the states of an order in commerce_data.
CommerceStatusType ==
    ONDCOrderStatus \cup {"QuoteRequested", "QuoteAccepted", "QuoteRejected", "Initialized"}

OrderType == {"sale", "purchase"}

\* The callbacks that report the state of the order.
Reports == {"confirm", "status", "cancel"}

\* Option<bool>, whether a proforma is present: only on_status passes Some.
Proforma(act, docs) ==
    IF act # "status" THEN "none" ELSE IF docs THEN "present" ELSE "absent"

\* get_commerce_status: what a state reported by the seller becomes.
GetCommerceStatus(state, type, proforma) ==
    IF state = "Accepted" /\ type = "purchase" /\ proforma = "absent"
    THEN "Created" ELSE state
=============================================================================
