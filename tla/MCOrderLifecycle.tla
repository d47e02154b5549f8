-------------------------- MODULE MCOrderLifecycle --------------------------
(* Small instances of OrderLifecycle.  Requests are named by what they are: *)
(* rfq selects a purchase order, init and confirm are what they say.  For   *)
(* the callbacks the buyer chose the ttl ONDC_TTL for the rfq, so that the  *)
(* endpoint stores a purchase order and on_select a sale order.             *)
EXTENDS OrderLifecycle, TLC

EndpointAct == "rfq" :> "select" @@ "init" :> "init" @@ "confirm" :> "confirm"
EndpointMessage == DOMAIN EndpointAct
EndpointRfq == [m \in EndpointMessage |-> m = "rfq"]
EndpointQuick == [m \in EndpointMessage |-> FALSE]

CallbackAct == "rfq" :> "select" @@ "init" :> "init"
CallbackMessage == DOMAIN CallbackAct
CallbackRfq == [m \in CallbackMessage |-> m = "rfq"]
CallbackQuick == CallbackRfq

\* A view for the callbacks: no action reads acked, and no property of that
\* run speaks of it, so states that differ in acked only behave alike.
Unacked == <<reqs, delivered, rows, hand, cb>>

Symmetry == Permutations(Handler) \cup Permutations(Callback)
=============================================================================
