----------------------------- MODULE PaymentFlow -----------------------------
(***************************************************************************)
(* Paying an order: the buyer asks for a payment order                     *)
(* (payment_order_creation), the payment service creates it, takes the     *)
(* money and notifies (payment_notification), and meanwhile the seller's   *)
(* callbacks replace the payment row of the order.                         *)
(*                                                                         *)
(* Both endpoints read the row in a transaction without locking it, talk   *)
(* to another service, and write later; so does a callback, which copies   *)
(* the payment order id it read before its transaction.  Every message of  *)
(* the seller carries one payment here, so the order has one row.          *)
(***************************************************************************)
EXTENDS PaymentTable, Naturals

CONSTANTS
    Creator,     \* tasks that serve payment_order_creation
    Notifier,    \* tasks that serve payment_notification
    Callback,    \* tasks that serve the seller's callbacks
    MaxCreated,  \* bound: payment orders the service creates
    MaxRows      \* bound: payment rows ever inserted

VARIABLES
    orderId,   \* id of the commerce_data row
    payable,   \* validate_order_for_payment accepts its status
    nextId,    \* row ids are fresh
    creator,   \* what each creation has read and got
    notifier,  \* what each notification has read
    cb         \* what each callback has read

vars == <<orderId, payable, payment, nextId, created, answered, notices,
          creator, notifier, cb, sellerPaid, raced>>

Off == [pc |-> "off"]

Init ==
    /\ orderId = 0
    /\ payable = FALSE
    /\ payment = [id |-> 0, po |-> None, status |-> "NotPaid", by |-> "null"]
    /\ nextId = 1
    /\ created = 0
    /\ answered = {}
    /\ notices = {}
    /\ creator = [c \in Creator |-> Off]
    /\ notifier = [n \in Notifier |-> Off]
    /\ cb = [c \in Callback |-> Off]
    /\ sellerPaid = FALSE
    /\ raced = FALSE

tables == <<orderId, payable, payment, nextId, sellerPaid>>
service == <<created, answered, notices>>

----------------------------------------------------------------------------
(* payment_order_creation.                                                 *)

\* The order is fetched and validated before the transaction.
StartCreation(c) ==
    /\ creator[c] = Off
    /\ payable
    /\ creator' = [creator EXCEPT ![c] = [pc |-> "read", orderId |-> orderId]]
    /\ UNCHANGED <<tables, service, notifier, cb, raced>>

\* get_commerce_payments_with_lock takes no lock; it finds no row if the
\* order was replaced, nor one whose collected_by is NULL.  Every payment is
\* prepaid here: validate_payment_order_creation refuses one that is paid,
\* pending or the seller's to collect.
Visible(id) == orderId = id /\ payment.by # "null"

MayCreate(row) == row.status = "NotPaid" /\ row.by = "bap"

\* Mutant: the payment order the row has is not looked at.
ReadPaymentAlwaysCreates(c) ==
    /\ creator[c].pc = "read"
    /\ Visible(creator[c].orderId)
    /\ MayCreate(payment)
    /\ creator' = [creator EXCEPT ![c] = [pc |-> "create", row |-> payment]]
    /\ UNCHANGED <<tables, service, notifier, cb, raced>>

ReadPayment(c) ==
    /\ creator[c].pc = "read"
    /\ Visible(creator[c].orderId)
    /\ \/ payment.po # None /\ creator' = [creator EXCEPT ![c] = [pc |-> "ask", row |-> payment]]
       \/ /\ payment.po = None
          /\ MayCreate(payment)
          /\ creator' = [creator EXCEPT ![c] = [pc |-> "create", row |-> payment]]
    /\ UNCHANGED <<tables, service, notifier, cb, raced>>

\* The payment order the row has is answered with its state at the service.
AnswerStored(c) ==
    /\ creator[c].pc = "ask"
    /\ answered' = answered \cup {[po |-> creator[c].row.po, row |-> creator[c].row.id]}
    /\ creator' = [creator EXCEPT ![c] = Off]
    /\ UNCHANGED <<tables, created, notices, notifier, cb, raced>>

\* create_order at the service; its answer arrives or is lost.
CreatePaymentOrder(c) ==
    /\ creator[c].pc = "create"
    /\ created < MaxCreated
    /\ created' = created + 1
    /\ creator' \in {[creator EXCEPT ![c] = [pc |-> "store", row |-> @.row, po |-> created + 1]],
                     [creator EXCEPT ![c] = Off]}
    /\ UNCHANGED <<tables, answered, notices, notifier, cb, raced>>

\* update_payment_order_id by the id of the row that was read, commit and
\* answer, whether or not that row is still there.
StorePaymentOrder(c) ==
    LET w == creator[c] IN
    /\ w.pc = "store"
    /\ payment' = IF payment.id = w.row.id THEN [payment EXCEPT !.po = w.po] ELSE payment
    /\ answered' = answered \cup {[po |-> w.po, row |-> w.row.id]}
    /\ raced' = (raced \/ payment.id # w.row.id \/ payment.po # w.row.po)
    /\ creator' = [creator EXCEPT ![c] = Off]
    /\ UNCHANGED <<orderId, payable, nextId, sellerPaid, created, notices, notifier, cb>>

\* Validation, a service, a statement or the process fails.
CreationFails(c) ==
    /\ creator[c] # Off
    /\ creator' = [creator EXCEPT ![c] = Off]
    /\ UNCHANGED <<tables, service, notifier, cb, raced>>

----------------------------------------------------------------------------
(* The payment service and payment_notification.                           *)

\* An attempt to pay a payment order the buyer was told is pending, done or
\* failed, and the service says so.
Attempt ==
    /\ \E a \in answered, status \in PaymentStatus :
          notices' = notices \cup {[po |-> a.po, status |-> status]}
    /\ UNCHANGED <<tables, created, answered, creator, notifier, cb, raced>>

\* The order, then its payment, are read.
ReadForNotice(n, notice) ==
    /\ notifier[n] = Off
    /\ Visible(orderId)
    /\ notifier' = [notifier EXCEPT ![n] = [pc |-> "write", row |-> payment, notice |-> notice]]
    /\ UNCHANGED <<tables, service, creator, cb, raced>>

\* Mutant: the update does not match the payment order of the notice.
StoreNoticeUnmatched(n) ==
    LET w == notifier[n] IN
    /\ w.pc = "write"
    /\ payment' = IF w.row.status = "Paid" THEN payment
                  ELSE [payment EXCEPT !.status = w.notice.status]
    /\ notifier' = [notifier EXCEPT ![n] = Off]
    /\ UNCHANGED <<orderId, payable, nextId, sellerPaid, service, creator, cb, raced>>

\* update_payment_status matches the payment order of the notice.  A
\* statement that waited for a callback to replace the row updates nothing.
StoreNotice(n) ==
    LET w == notifier[n] IN
    /\ w.pc = "write"
    /\ \/ /\ w.row.status # "Paid" /\ payment.po = w.notice.po
          /\ payment' = [payment EXCEPT !.status = w.notice.status]
       \/ /\ \/ w.row.status = "Paid"
             \/ payment.po # w.notice.po
             \/ payment.id # w.row.id
          /\ UNCHANGED payment
    /\ notifier' = [notifier EXCEPT ![n] = Off]
    /\ UNCHANGED <<orderId, payable, nextId, sellerPaid, service, creator, cb, raced>>

\* A statement, the websocket server or the process fails: rolled back.
NoticeFails(n) ==
    /\ notifier[n] # Off
    /\ notifier' = [notifier EXCEPT ![n] = Off]
    /\ UNCHANGED <<tables, service, creator, cb, raced>>

----------------------------------------------------------------------------
(* The seller's callbacks.                                                 *)

ReplacePayment(po, status, by) ==
    /\ nextId < MaxRows
    /\ payment' = [id |-> nextId, po |-> po, status |-> status, by |-> by]
    /\ nextId' = nextId + 1

\* on_init: the new row has no payment order.
OnInit ==
    /\ \E by \in {"bap", "bpp"} : ReplacePayment(None, "NotPaid", by)
    /\ payable' \in BOOLEAN
    /\ UNCHANGED <<orderId, sellerPaid, service, creator, notifier, cb, raced>>

\* on_confirm, on_status, on_cancel and on_update read the order before
\* their transaction ...
ReadOrder(c) ==
    /\ cb[c] = Off
    /\ cb' = [cb EXCEPT ![c] = [pc |-> "commit", orderId |-> orderId, po |-> payment.po]]
    /\ UNCHANGED <<tables, service, creator, notifier, raced>>

\* ... and give the new row the payment order they read and the seller's
\* idea of the status, in which PENDING is not paid.
ReplaceFromReport(c) ==
    /\ cb[c].pc = "commit"
    /\ cb[c].orderId = orderId
    /\ \E status \in {"NotPaid", "Paid"}, by \in {"bap", "bpp"} :
          /\ ReplacePayment(cb[c].po, status, by)
          /\ sellerPaid' = (sellerPaid \/ status = "Paid")
    /\ payable' \in BOOLEAN
    /\ cb' = [cb EXCEPT ![c] = Off]
    /\ UNCHANGED <<orderId, service, creator, notifier, raced>>

ReportFails(c) ==
    /\ cb[c] # Off
    /\ cb' = [cb EXCEPT ![c] = Off]
    /\ UNCHANGED <<tables, service, creator, notifier, raced>>

\* Selecting again replaces the order and, with it, its payment.
Reselect ==
    /\ \E by \in CollectedBy : ReplacePayment(None, "NotPaid", by)
    /\ orderId' = orderId + 1
    /\ payable' = FALSE
    /\ UNCHANGED <<sellerPaid, service, creator, notifier, cb, raced>>

Creation(c) ==
    \/ StartCreation(c)
    \/ ReadPayment(c)
    \/ AnswerStored(c)
    \/ CreatePaymentOrder(c)
    \/ StorePaymentOrder(c)
    \/ CreationFails(c)

Notification(n) ==
    \/ \E notice \in notices : ReadForNotice(n, notice)
    \/ StoreNotice(n)
    \/ NoticeFails(n)

Next ==
    \/ \E c \in Creator : Creation(c)
    \/ \E n \in Notifier : Notification(n)
    \/ \E c \in Callback : ReadOrder(c) \/ ReplaceFromReport(c) \/ ReportFails(c)
    \/ Attempt
    \/ OnInit
    \/ Reselect

Spec == Init /\ [][Next]_vars

----------------------------------------------------------------------------
(* What must hold.                                                         *)

Creating == [pc: {"read"}, orderId: Nat]
            \cup [pc: {"ask", "create"}, row: Payment]
            \cup [pc: {"store"}, row: Payment, po: PaymentOrder]

\* Tables and tasks hold what they may.
TypeOK ==
    /\ orderId \in Nat /\ nextId \in Nat /\ created \in Nat
    /\ payable \in BOOLEAN /\ sellerPaid \in BOOLEAN /\ raced \in BOOLEAN
    /\ payment \in Payment
    /\ answered \subseteq [po: PaymentOrder, row: Nat]
    /\ notices \subseteq Notice
    /\ creator \in [Creator -> Creating \cup {Off}]
    /\ notifier \in [Notifier -> [pc: {"write"}, row: Payment, notice: Notice] \cup {Off}]
    /\ cb \in [Callback -> [pc: {"commit"}, orderId: Nat, po: PaymentOrder \cup {None}] \cup {Off}]

\* get_commerce_payments_with_lock: "fetch locked commerce payments".  The
\* row a transaction has read so stays as it is until the transaction ends.
PaymentsAreLocked ==
    /\ \A c \in Creator : creator[c].pc \in {"ask", "create", "store"} => creator[c].row = payment
    /\ \A n \in Notifier : notifier[n].pc = "write" => notifier[n].row = payment
=============================================================================
