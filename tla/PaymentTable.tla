---------------------------- MODULE PaymentTable ----------------------------
(***************************************************************************)
(* The payment row of an order, what the payment service and the buyer     *)
(* know of it, and what must be true of them.  PaymentFlow has the steps.  *)
(***************************************************************************)
EXTENDS Naturals

CONSTANT None

PaymentStatus == {"NotPaid", "Pending", "Paid"}

\* collected_by; a purchase order's select leaves it NULL.
CollectedBy == {"bap", "bpp", "null"}

PaymentOrder == Nat
Payment == [id: Nat, po: PaymentOrder \cup {None}, status: PaymentStatus, by: CollectedBy]
Notice == [po: PaymentOrder, status: PaymentStatus]

ASSUME NoneAssumption == None \notin Nat

VARIABLES
    payment,   \* the commerce_payment_data row of the order
    created,   \* payment orders of the service are 1..created
    answered,  \* payment orders the buyer was told, with the row they were for
    notices,   \* notifications the service sent, each may come again
    sellerPaid,  \* history: the seller reported a payment as paid
    raced      \* history: a creation stored on a row that changed since its read

\* A status has a cause: pending comes from the payment service and for the
\* payment order the row has, paid from there or from the seller, although
\* callbacks replace the row and copy its payment order, and notifications
\* come late and again.  (A creation that races with another one puts its
\* payment order beside a status that is not its own.)
StatusHasCause ==
    ~raced =>
        /\ payment.status = "Pending" => [po |-> payment.po, status |-> "Pending"] \in notices
        /\ payment.status = "Paid" =>
             sellerPaid \/ [po |-> payment.po, status |-> "Paid"] \in notices

\* Whatever payment order the row holds, the buyer was told or a notice is
\* about, the service knows: a lost or failed creation leaves none behind.
PaymentOrdersAreReal ==
    LET real == 1..created IN
    /\ payment.po \in real \cup {None}
    /\ \A a \in answered : a.po \in real
    /\ \A notice \in notices : notice.po \in real

\* As long as no creation stored on a row that had changed since it was
\* read, the buyer was told one payment order for a payment row, however
\* often it asked: it cannot be made to pay the row twice.
OnePaymentOrderPerRow ==
    ~raced => \A a, b \in answered : a.row = b.row => a.po = b.po
=============================================================================
