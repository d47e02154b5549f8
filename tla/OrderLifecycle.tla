--------------------------- MODULE OrderLifecycle ---------------------------
(***************************************************************************)
(* One ONDC transaction of the buyer application: the buyer's endpoints    *)
(* (order/select, init, confirm, status, cancel, update), the seller's     *)
(* answers (on_select, on_init, ...) and the one commerce_data row they    *)
(* all work on.                                                            *)
(*                                                                         *)
(* Endpoints and callbacks are actix tasks that run concurrently.  An      *)
(* endpoint saves its request and sends it at the same time; a callback    *)
(* reads the request and the order outside its transaction and commits     *)
(* later, so both are split where another task can get in between.  The    *)
(* statements of one transaction are one step (README, "Why a transaction  *)
(* is one step"): two transactions on the same external_urn are serialised *)
(* by the row locks or one of them fails, but for an on_select that found  *)
(* no row to delete and inserts it after another select has committed:     *)
(* `missed` remembers it, and MergeSelect is what it does.                 *)
(***************************************************************************)
EXTENDS Naturals, OrderStatus

CONSTANTS
    Handler,      \* tasks that serve the buyer's endpoints
    Callback,     \* tasks that serve the seller's callbacks
    Message,      \* message ids of the buyer's requests
    Unsolicited,  \* a message id the buyer never used
    Act,          \* Act[m]: the action of request m
    Rfq,          \* Rfq[m]: the select m has order_type purchase_order
    Quick,        \* Quick[m]: the ttl of the select m is ONDC_TTL
    SellerState,  \* the order states the seller reports
    OneCart,      \* any two selects have a fulfillment id in common
    MaxRows,      \* bound: rows ever inserted for the transaction
    MaxSeries,    \* bound: order numbers ever taken by the business
    None

Action == {"select", "init", "confirm", "status", "cancel", "update"}

\* The callbacks the seller may also send without having been asked.
OnItsOwn == {"status", "cancel", "update"}

\* A commerce_data row.  billed: billing and terms are not NULL.
\* pays: the row has rows in commerce_payment_data.
Order == [id: Nat, urn: Nat, type: OrderType, status: CommerceStatusType,
          billed: BOOLEAN, pays: BOOLEAN]

\* What a callback keeps of the order it read before its transaction.
Snapshot == [id: Nat, type: OrderType]

\* A seller's callback.  err: it carries an error (only on_select looks).
\* docs, pays: its documents are present, its payments are not empty.
Reply == [act: Action, msg: Message \cup {Unsolicited}, err: BOOLEAN,
          state: SellerState, docs: BOOLEAN, pays: BOOLEAN]

\* A callback in progress.  missed: the DELETE of the on_select found no row,
\* or waited for one that was replaced, and an order is stored by now.
Read == [reply: Reply, snap: Snapshot \cup {None}, missed: BOOLEAN]

ASSUME MessageAssumption ==
    /\ Act \in [Message -> Action]
    /\ Rfq \in [Message -> BOOLEAN]
    /\ Quick \in [Message -> BOOLEAN]
    /\ Unsolicited \notin Message
    /\ SellerState \subseteq ONDCOrderStatus
    /\ OneCart \in BOOLEAN

ASSUME NoneAssumption ==
    /\ None \notin Message
    /\ None \notin Order
    /\ None \notin Snapshot
    /\ None \notin Read

VARIABLES
    reqs,       \* requests in ondc_buyer_order_req
    delivered,  \* requests the seller received
    acked,      \* requests the buyer got a success for
    order,      \* the commerce_data row of the transaction, or None
    nextId,     \* row ids are fresh: every id in use is below nextId
    series,     \* series_no of the business
    hand,       \* what each endpoint task is doing
    cb          \* what each callback task has read

vars == <<reqs, delivered, acked, order, nextId, series, hand, cb>>
rows == <<order, nextId, series>>

Selects == {m \in Message : Act[m] = "select"}
Inits == {m \in Message : Act[m] = "init"}

Idle == [pc |-> "idle", msg |-> None, save |-> "todo", send |-> "todo"]

Task == [pc: {"join", "rfq"}, msg: Message,
         save: {"todo", "ok", "failed"}, send: {"todo", "ok", "failed"}]

IsSelect(h) == hand[h].msg \in Selects

HandlerDone(h) == hand' = [hand EXCEPT ![h] = Idle]
CallbackDone(c) == cb' = [cb EXCEPT ![c] = None]

\* The status a report sets on an order of a given type.
ReportedStatus(reply, type) ==
    GetCommerceStatus(reply.state, type, Proforma(reply.act, reply.docs))

\* The order type on_select derives from the ttl of the select request.
TypeByTtl(m) == IF Quick[m] THEN "sale" ELSE "purchase"

Init ==
    /\ reqs = {}
    /\ delivered = {}
    /\ acked = {}
    /\ order = None
    /\ nextId = 0
    /\ series = 0
    /\ hand = [h \in Handler |-> Idle]
    /\ cb = [c \in Callback |-> None]

----------------------------------------------------------------------------
(* The buyer's endpoints.                                                  *)

\* A buyer's endpoint has built its payload and is about to save and send.
\* Every endpoint but select needs the order row; the confirm payload needs
\* the billing and the cancellation terms an on_init wrote.  The client may
\* submit the same request twice.

\* Mutant: the confirm payload is built from a row without billing.
NoBillingIgnored(m) == FALSE

NoBilling(m) == Act[m] = "confirm" /\ ~order.billed

StartRequest(h, m) ==
    /\ hand[h] = Idle
    /\ m \notin Selects => order # None /\ ~NoBilling(m)
    /\ hand' = [hand EXCEPT ![h] = [pc |-> "join", msg |-> m, save |-> "todo", send |-> "todo"]]
    /\ UNCHANGED <<reqs, delivered, acked, rows, cb>>

SaveRequest(h) ==
    /\ hand[h].pc = "join" /\ hand[h].save = "todo"
    /\ reqs' = reqs \cup {hand[h].msg}
    /\ hand' = [hand EXCEPT ![h].save = "ok"]
    /\ UNCHANGED <<delivered, acked, rows, cb>>

\* Mutant: join instead of try_join, and the result of the save dropped.
SaveFailsQuietly(h) ==
    /\ hand[h].pc = "join" /\ hand[h].save = "todo"
    /\ hand' = [hand EXCEPT ![h].save = "failed"]
    /\ UNCHANGED <<reqs, delivered, acked, rows, cb>>

\* try_join drops the send of a select whose save failed; the other
\* endpoints only look at the result of the send.
SaveFails(h) ==
    /\ hand[h].pc = "join" /\ hand[h].save = "todo"
    /\ hand' = [hand EXCEPT ![h] = IF IsSelect(h) THEN Idle ELSE [@ EXCEPT !.save = "failed"]]
    /\ UNCHANGED <<reqs, delivered, acked, rows, cb>>

SendRequest(h) ==
    /\ hand[h].pc = "join" /\ hand[h].send = "todo"
    /\ delivered' = delivered \cup {hand[h].msg}
    /\ hand' = [hand EXCEPT ![h].send = "ok"]
    /\ UNCHANGED <<reqs, acked, rows, cb>>

\* The send ends in an error after its retries: the seller never saw the
\* request, or saw it and its acknowledgement was late, lost or negative.
SendFails(h) ==
    /\ hand[h].pc = "join" /\ hand[h].send = "todo"
    /\ delivered' \in {delivered, delivered \cup {hand[h].msg}}
    /\ hand' = [hand EXCEPT ![h] = IF IsSelect(h) THEN Idle ELSE [@ EXCEPT !.send = "failed"]]
    /\ UNCHANGED <<reqs, acked, rows, cb>>

\* Both futures are over.  A select for a purchase order goes on to store
\* the order; every other request is answered.
Join(h) ==
    /\ hand[h].pc = "join" /\ hand[h].save # "todo" /\ hand[h].send # "todo"
    /\ IF IsSelect(h) /\ Rfq[hand[h].msg]
       THEN /\ hand' = [hand EXCEPT ![h].pc = "rfq"]
            /\ UNCHANGED acked
       ELSE /\ HandlerDone(h)
            /\ acked' = IF hand[h].send = "ok" THEN acked \cup {hand[h].msg} ELSE acked
    /\ UNCHANGED <<reqs, delivered, rows, cb>>

\* Mutant: an upsert of the row instead of deleting and inserting it.
NewOrderUpserts(type, status, pays) ==
    /\ nextId < MaxRows
    /\ order = None => series < MaxSeries
    /\ IF order = None
       THEN /\ order' = [id |-> nextId, urn |-> series + 1, type |-> type,
                         status |-> status, billed |-> FALSE, pays |-> pays]
            /\ nextId' = nextId + 1
            /\ series' = series + 1
       ELSE /\ order' = [order EXCEPT !.type = type, !.status = status, !.pays = pays]
            /\ UNCHANGED <<nextId, series>>

\* Mutant: the billing and the terms of the deleted row are carried over.
NewOrderKeepsBilling(type, status, pays) ==
    /\ nextId < MaxRows
    /\ order = None => series < MaxSeries
    /\ order' = [id |-> nextId,
                 urn |-> IF order = None THEN series + 1 ELSE order.urn,
                 type |-> type, status |-> status,
                 billed |-> order # None /\ order.billed, pays |-> pays]
    /\ nextId' = nextId + 1
    /\ series' = IF order = None THEN series + 1 ELSE series

\* delete_order and get_series_no: the new row takes the number of the row
\* it replaces, or the next of the series.
NewOrder(type, status, pays) ==
    /\ nextId < MaxRows
    /\ order = None => series < MaxSeries
    /\ order' = [id |-> nextId,
                 urn |-> IF order = None THEN series + 1 ELSE order.urn,
                 type |-> type, status |-> status, billed |-> FALSE, pays |-> pays]
    /\ nextId' = nextId + 1
    /\ series' = IF order = None THEN series + 1 ELSE series

Open(c, act) == cb[c] # None /\ cb[c].reply.act = act

\* The callbacks that are about to store an order.
Storing == {c \in Callback : Open(c, "select") /\ ~cb[c].reply.err}

\* When an order is inserted, any of the on_selects in progress may be past
\* their DELETE, without a row, or wait in it for the row that is replaced;
\* those go on to take a number and to insert all the same.
Miss(M) ==
    [c \in Callback |-> IF c \in M THEN [cb[c] EXCEPT !.missed = TRUE] ELSE cb[c]]

\* initialize_order_select, joined with the chat message.  Its commit stands
\* even if the chat fails and the buyer is told so.
RfqCommit(h) ==
    /\ hand[h].pc = "rfq"
    /\ \E pays \in BOOLEAN : NewOrder("purchase", "QuoteRequested", pays)
    /\ acked' \in {acked, acked \cup {hand[h].msg}}
    /\ HandlerDone(h)
    /\ \E M \in SUBSET Storing : cb' = Miss(M)
    /\ UNCHANGED <<reqs, delivered>>

\* A statement or the commit fails; that of a select that missed an order
\* always does (ON CONFLICT DO NOTHING, then the foreign key of its items).
RfqAborts(h) ==
    /\ hand[h].pc = "rfq"
    /\ HandlerDone(h)
    /\ UNCHANGED <<reqs, delivered, acked, rows, cb>>

----------------------------------------------------------------------------
(* The seller's callbacks.                                                 *)

\* What the seller may send: an answer to a request it has, as often, as
\* late and in whatever order it likes, or a report on its own.
MaySend(reply) ==
    \/ reply.msg \in delivered /\ reply.act = Act[reply.msg]
    \/ reply.msg = Unsolicited /\ reply.act \in OnItsOwn

\* Mutant: an answer is taken without looking for the request it answers.
InSequenceUnchecked(reply) == reply.act # "select" => order # None

\* The checks before the transaction (BuyerResponseSequenceError): answers
\* to select, init and confirm need the saved request, all but on_select
\* need the order.
InSequence(reply) ==
    /\ reply.act \notin OnItsOwn => reply.msg \in reqs
    /\ reply.act # "select" => order # None

\* Fields its handler does not look at are fixed, to tell fewer states apart.
Plain(reply) ==
    /\ reply.err => reply.act = "select" /\ ~reply.pays
    /\ reply.docs => reply.act = "status"
    /\ reply.act \notin Reports => reply.state = CHOOSE state \in SellerState : TRUE

Receive(c, reply) ==
    /\ cb[c] = None
    /\ Plain(reply)
    /\ MaySend(reply)
    /\ InSequence(reply)
    /\ cb' = [cb EXCEPT ![c] =
                [reply |-> reply,
                 snap |-> IF reply.act \in {"select", "init"} THEN None
                          ELSE [id |-> order.id, type |-> order.type],
                 missed |-> FALSE]]
    /\ UNCHANGED <<reqs, delivered, acked, rows, hand>>

\* on_select with an error: only the chat is told, the empty transaction
\* commits.
RejectSelect(c) ==
    /\ Open(c, "select") /\ cb[c].reply.err
    /\ CallbackDone(c)
    /\ UNCHANGED <<reqs, delivered, acked, rows, hand>>

\* on_select: the order is stored anew as accepted.
CommitSelect(c) ==
    /\ c \in Storing /\ ~cb[c].missed
    /\ NewOrder(TypeByTtl(cb[c].reply.msg), "QuoteAccepted", cb[c].reply.pays)
    /\ \E M \in SUBSET (Storing \ {c}) : cb' = [Miss(M) EXCEPT ![c] = None]
    /\ UNCHANGED <<reqs, delivered, acked, hand>>

\* An on_select that missed the order: ON CONFLICT (external_urn) DO UPDATE
\* makes the order that is there a quote again, with its id, number, type
\* and billing; payments are added, and the number it took is lost.  If the
\* two have a fulfillment id in common, the insert of the fulfillments fails.
MergeSelect(c) ==
    /\ c \in Storing /\ cb[c].missed
    /\ ~OneCart
    /\ order # None
    /\ series < MaxSeries
    /\ order' = [order EXCEPT !.status = "QuoteAccepted", !.pays = @ \/ cb[c].reply.pays]
    /\ series' = series + 1
    /\ CallbackDone(c)
    /\ UNCHANGED <<reqs, delivered, acked, nextId, hand>>

\* delete_payment_in_commerce fails on an order without payment rows.
PaymentsReplaced == order # None /\ order.pays

\* on_init works on the row of its own DELETE ... RETURNING.
CommitInit(c) ==
    /\ Open(c, "init")
    /\ PaymentsReplaced
    /\ order' = [order EXCEPT !.status = "Initialized", !.billed = TRUE,
                              !.pays = cb[c].reply.pays]
    /\ CallbackDone(c)
    /\ UNCHANGED <<reqs, delivered, acked, nextId, series, hand>>

\* Mutant: the payment rows are inserted for the external_urn, without the id.
ForeignKeyMissing(c) == TRUE

\* New payment rows carry the id of the order that was read: the foreign key
\* refuses them when that row is gone.
ForeignKey(c) == cb[c].reply.pays => cb[c].snap.id = order.id

\* on_confirm, on_status and on_cancel.  An UPDATE that waited for the
\* transaction that replaced the row changes nothing, and only the payments
\* of the new row are then deleted.
CommitReport(c) ==
    /\ \E act \in Reports : Open(c, act)
    /\ PaymentsReplaced
    /\ ForeignKey(c)
    /\ \E status \in {ReportedStatus(cb[c].reply, cb[c].snap.type)}
                       \cup IF cb[c].snap.id = order.id THEN {} ELSE {order.status} :
          order' = [order EXCEPT !.status = status, !.pays = cb[c].reply.pays]
    /\ CallbackDone(c)
    /\ UNCHANGED <<reqs, delivered, acked, nextId, series, hand>>

\* on_update replaces the payments and leaves the status.
CommitUpdate(c) ==
    /\ Open(c, "update")
    /\ PaymentsReplaced
    /\ ForeignKey(c)
    /\ order' = [order EXCEPT !.pays = cb[c].reply.pays]
    /\ CallbackDone(c)
    /\ UNCHANGED <<reqs, delivered, acked, nextId, series, hand>>

\* A statement, the chat or the commit fails, a deadlock victim is chosen:
\* the transaction is rolled back.
CallbackFails(c) ==
    /\ cb[c] # None
    /\ CallbackDone(c)
    /\ UNCHANGED <<reqs, delivered, acked, rows, hand>>

----------------------------------------------------------------------------
(* The surroundings.                                                       *)

\* Another order of the same business takes a number of the series.
OtherOrder ==
    /\ series < MaxSeries
    /\ series' = series + 1
    /\ UNCHANGED <<reqs, delivered, acked, order, nextId, hand, cb>>

\* The process dies and is started again: its tasks are gone, open
\* transactions are rolled back, the tables stay.
Restart ==
    /\ \/ \E h \in Handler : hand[h] # Idle
       \/ \E c \in Callback : cb[c] # None
    /\ hand' = [h \in Handler |-> Idle]
    /\ cb' = [c \in Callback |-> None]
    /\ UNCHANGED <<reqs, delivered, acked, rows>>

Endpoint(h) ==
    \/ \E m \in Message : StartRequest(h, m)
    \/ SaveRequest(h)
    \/ SaveFails(h)
    \/ SendRequest(h)
    \/ SendFails(h)
    \/ Join(h)
    \/ RfqCommit(h)
    \/ RfqAborts(h)

SellerCallback(c) ==
    \/ \E reply \in Reply : Receive(c, reply)
    \/ RejectSelect(c)
    \/ CommitSelect(c)
    \/ MergeSelect(c)
    \/ CommitInit(c)
    \/ CommitReport(c)
    \/ CommitUpdate(c)
    \/ CallbackFails(c)

Next ==
    \/ \E h \in Handler : Endpoint(h)
    \/ \E c \in Callback : SellerCallback(c)
    \/ OtherOrder
    \/ Restart

Spec == Init /\ [][Next]_vars

----------------------------------------------------------------------------
(* What must hold.                                                         *)

\* Every variable stays in its table's or its task's domain.
TypeOK ==
    /\ reqs \subseteq Message
    /\ delivered \subseteq Message
    /\ acked \subseteq Message
    /\ order \in Order \cup {None}
    /\ nextId \in Nat
    /\ series \in Nat
    /\ hand \in [Handler -> Task \cup {Idle}]
    /\ cb \in [Callback -> Read \cup {None}]

\* The seller hears of the steps of a transaction in their order: of nothing
\* before a select, and of a confirm only when an init reached it before and
\* was answered (get_ondc_confirm_message needs what on_init stored), however
\* the endpoints, the lost saves and the callbacks interleave.
ProtocolOrder ==
    /\ \A m \in delivered : m \notin Selects => delivered \cap Selects # {}
    /\ \A m \in delivered : Act[m] = "confirm" => delivered \cap Inits # {}

\* An order row is always the result of a select the buyer's side both saved
\* and sent, and of the right kind: its type is that of the ttl of a select
\* or a purchase order's, a requested quote comes from a purchase order's
\* select, an accepted one has the type of its ttl unless it was merged into
\* the row of a purchase order; billing terms come from an init that was
\* saved and sent.
OrderWasAskedFor ==
    order # None =>
        LET asked == reqs \cap delivered \cap Selects
        IN  /\ \E m \in asked : TypeByTtl(m) = order.type \/ (Rfq[m] /\ order.type = "purchase")
            /\ order.status = "QuoteRequested" => \E m \in asked : Rfq[m]
            /\ order.status = "QuoteAccepted" /\ OneCart =>
                 \E m \in asked : TypeByTtl(m) = order.type
            /\ order.billed => reqs \cap delivered \cap Inits # {}

\* A success shown to the buyer is true: the request is with the seller, a
\* select is also saved, and a purchase order's select left an order behind
\* (the other endpoints may lose the save of a request they acknowledge).
AckedIsDone ==
    \A m \in acked :
        /\ m \in delivered
        /\ m \in Selects => m \in reqs
        /\ m \in Selects /\ Rfq[m] => order # None

\* What a callback read before its transaction is never ahead of the tables,
\* and as long as the row it read is still there, its record type is the one
\* read: a stale read differs from the table only by the row being replaced.
ReadsAreSound ==
    \A c \in Callback : cb[c] # None =>
        LET reply == cb[c].reply
            snap == cb[c].snap
        IN  /\ reply.act \notin OnItsOwn =>
                 reply.msg \in reqs \cap delivered /\ Act[reply.msg] = reply.act
            /\ reply.act # "select" => order # None
            /\ reply.act \notin {"select", "init"} =>
                 /\ snap # None
                 /\ snap.id <= order.id
                 /\ snap.id = order.id => snap.type = order.type

\* What an endpoint in progress knows of its own request.
RequestsInProgress ==
    \A h \in Handler : hand[h] # Idle =>
        LET task == hand[h]
        IN  /\ task.save = "ok" => task.msg \in reqs
            /\ task.send = "ok" => task.msg \in delivered
            /\ task.msg \in Selects => "failed" \notin {task.save, task.send}
            /\ task.pc = "rfq" => /\ task.msg \in Selects /\ Rfq[task.msg]
                                  /\ task.save = "ok" /\ task.send = "ok"
            /\ task.msg \notin Selects => delivered \cap Selects # {}
            /\ Act[task.msg] = "confirm" => delivered \cap Inits # {}

RowIdsAreFresh == order # None => order.id < nextId

\* The inductive invariant behind the theorems of OrderLifecycleProofs.
Invariant ==
    /\ TypeOK
    /\ RowIdsAreFresh
    /\ RequestsInProgress
    /\ ReadsAreSound
    /\ ProtocolOrder
    /\ OrderWasAskedFor
    /\ AckedIsDone

\* Selecting again deletes and re-inserts the row, from two code paths that
\* may run at once: the order is never lost and keeps its number.
UrnIsKept ==
    [][order # None => order' # None /\ order'.urn = order.urn]_vars

\* The step of an on_select that missed the order and is over.
Merges(c) == ~OneCart /\ c \in Storing /\ cb[c].missed /\ cb'[c] = None

\* A row that left the quote stage does not return to it: a quote is a row
\* that is inserted anew, without billing terms.  Only an on_select that ran
\* beside another select makes a billed row a quote again in place (ON
\* CONFLICT DO UPDATE), and none does when the selects of the transaction
\* have a fulfillment id in common.
QuoteStageIsLeftForGood ==
    [][order # None /\ order' # None
          /\ order'.status \in {"QuoteRequested", "QuoteAccepted"}
          /\ order'.status # order.status
       => \/ order'.id > order.id /\ ~order'.billed
          \/ order'.status = "QuoteAccepted" /\ \E c \in Callback : Merges(c)]_vars

\* A report is judged by the record type of the row it changes, although it
\* was read before the transaction: a report on a row that is gone by then
\* is refused by the foreign key of its payments, if it carries payments.
Lands(c) == cb[c] # None /\ cb'[c] = None /\ order' # order

ReportsJudgedByTheirRow ==
    [][\A c \in Callback :
          Lands(c) /\ cb[c].reply.act \in Reports /\ cb[c].reply.pays
          => order'.status = ReportedStatus(cb[c].reply, order.type)]_vars

\* An order whose payment rows are gone is frozen: every callback but
\* on_select fails on it, so only selecting again moves it, on a fresh row,
\* or on the same one if the on_select ran beside another select.
FrozenWithoutPayments ==
    [][order # None /\ order' # order /\ ~order.pays
       => order'.id > order.id \/ \E c \in Callback : Merges(c)]_vars

\* The order without the id of its row, as the OrderBook has it.
Entry(row) == [urn |-> row.urn, type |-> row.type, status |-> row.status,
               billed |-> row.billed, pays |-> row.pays]

Book == INSTANCE OrderBook WITH book <- IF order = None THEN None ELSE Entry(order)

ASSUME EntryAssumption == None \notin Book!Entry

\* The order is an OrderBook: every commit takes effect at one instant, on the
\* order as it is then, whatever a concurrent select did to the order the
\* callback had read.
ImplementsOrderBook == Book!Spec
=============================================================================
