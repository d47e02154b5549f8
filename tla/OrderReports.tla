---------------------------- MODULE OrderReports ----------------------------
(***************************************************************************)
(* What the seller's reports on_confirm, on_status, on_cancel and on_update *)
(* do to the fulfillments, the lines and the documents of an order.        *)
(*                                                                         *)
(* A report is merged into what its handler read before its transaction.   *)
(* The order row is then updated by the transaction id, so that another    *)
(* order than the one that was read may be hit, the fulfillments and lines *)
(* by the id of the order that was read.  Meanwhile other reports are      *)
(* stored and the buyer may select again, which replaces all the rows.     *)
(* OrderLifecycle has the requests, the protocol and the failures of sends; *)
(* a callback is here what is between its arrival and its answer.          *)
(***************************************************************************)
EXTENDS OrderStatus, Naturals, Sequences, FiniteSets

CONSTANTS
    Callback,    \* the callbacks that may be processed at the same time
    Report,      \* the reports the seller may send, again and in any order
    Fulfillment, \* the fulfillments of the order
    Item,        \* the items of the order
    ItemName,    \* ItemName[i]: the item's name in the line
    Place,       \* the addresses, the gps and the area codes there may be
    Selection,   \* the type and the addresses an order may be selected with
    Null,
    MaxRows      \* bound: rows ever inserted

ASSUME MaxRowsAssumption == MaxRows \in Nat \ {0}

ASSUME SelectionAssumption ==
    \A s \in Selection : s.type \in OrderType /\ s.pickup \in Place /\ s.drop \in Place \cup {Null}

IsList(s) == s \in Seq({s[k] : k \in DOMAIN s})

ASSUME ReportAssumption ==
    \A r \in Report :
        /\ r.state \in ONDCOrderStatus /\ r.pays \in BOOLEAN
        /\ r.docs # Null => IsList(r.docs)
        /\ IsList(r.breakup) /\ IsList(r.fulfillments)
        /\ \A k \in DOMAIN r.fulfillments :
              LET stops == r.fulfillments[k].stops
              IN /\ IsList(stops)
                 /\ \A n \in DOMAIN stops : stops[n].gps \in Place /\ stops[n].area \in Place \cup {Null}

Document == UNION {{r.docs[k] : k \in DOMAIN r.docs} : r \in {q \in Report : q.docs # Null}}

\* NULL is not the JSON of a list of documents or of a drop off.
ASSUME NullAssumption ==
    /\ Null \notin Seq(Document)
    /\ \A a, b \in Place \cup {Null}, g \in Place : Null # [address |-> a, gps |-> g, area |-> b]

VARIABLES
    row,         \* the order with its fulfillments and lines
    nextId,      \* row ids are fresh
    cb           \* what a callback works on, or Null

vars == <<row, nextId, cb>>

Charges == {"Convenience Fee", "Delivery Charge", "Packing"}

\* Somewhere: its address with city, state and country, its gps and its area
\* code, which a report may tell apart.
At(place) == [address |-> place, gps |-> place, area |-> place]

\* The rows of a select: quoted, with payments, nothing reported yet.
\* selection, by and cancelledBy are history.
Selected(id, s) ==
    [id |-> id, type |-> s.type, status |-> "QuoteAccepted", docs |-> Null, paid |-> TRUE, refund |-> Null,
     fulfillments |-> [f \in Fulfillment |->
        [status |-> Null, pickup |-> At(s.pickup),
         drop |-> IF s.drop = Null THEN Null ELSE At(s.drop), refunds |-> Null]],
     lines |-> [i \in Item |-> Null],
     selection |-> s, by |-> Null, cancelledBy |-> Null]

Init ==
    /\ \E s \in Selection : row = Selected(0, s)
    /\ nextId = 1
    /\ cb = [c \in Callback |-> Null]

\* on_select: the rows are replaced.
Reselect ==
    /\ nextId < MaxRows
    /\ \E s \in Selection : row' = Selected(nextId, s)
    /\ nextId' = nextId + 1
    /\ UNCHANGED cb

----------------------------------------------------------------------------
(* Reading: the order first, then its fulfillments and lines by its id.    *)

ReadOrder(c, report) ==
    /\ cb[c] = Null
    /\ cb' = [cb EXCEPT ![c] = [report |-> report, id |-> row.id, type |-> row.type, docs |-> row.docs,
                                fulfillments |-> Null, items |-> Null]]
    /\ UNCHANGED <<row, nextId>>

Empty == <<>>

\* Both are empty when the order was replaced.  What they read apart from
\* each other makes no difference: reports of a replaced order reach neither.
ReadParts(c) ==
    /\ cb[c] # Null /\ cb[c].fulfillments = Null
    /\ LET same == row.id = cb[c].id
       IN cb' = [cb EXCEPT ![c].fulfillments = IF same THEN row.fulfillments ELSE Empty,
                           ![c].items = IF same THEN DOMAIN row.lines ELSE {}]
    /\ UNCHANGED <<row, nextId>>

----------------------------------------------------------------------------
(* Fulfillments.  A stop has a type and a location, which may be of        *)
(* another kind than the type says.                                        *)

\* get_fulfillment_start, get_fulfillment_end: by the kind of the location.
Located(f, kind) == {k \in DOMAIN f.stops : f.stops[k].location = kind}

\* get_fulfillment_contact: by the type.
Typed(f, type) == {k \in DOMAIN f.stops : f.stops[k].type = type}

First(ks) == CHOOSE k \in ks : \A l \in ks : k <= l
Last(ks) == CHOOSE k \in ks : \A l \in ks : l <= k
Nth(ks, n) == CHOOSE k \in ks : Cardinality({l \in ks : l <= k}) = n

StopAt(f, kind) == f.stops[First(Located(f, kind))]

\* The reported fulfillments that are stored: those that were read and have
\* a start.
Stored(c) ==
    {k \in DOMAIN cb[c].report.fulfillments :
        LET f == cb[c].report.fulfillments[k]
        IN f.id \in DOMAIN cb[c].fulfillments /\ Located(f, "start") # {}}

\* get_fulfillment_contact(..).unwrap(): no stop of that type.
Panics(c) ==
    \E k \in Stored(c) :
        LET f == cb[c].report.fulfillments[k]
        IN \/ Typed(f, "start") = {}
           \/ /\ cb[c].report.kind = "status"
              /\ cb[c].fulfillments[f.id].drop # Null
              /\ Located(f, "end") # {} /\ Typed(f, "end") = {}

\* Mutant: the area is the reported one, also when there is none.
PickUpReported(f, read) ==
    [address |-> read.pickup.address, gps |-> StopAt(f, "start").gps, area |-> StopAt(f, "start").area]

\* create_pickup_off_from_on_confirm_fulfullment and its twin for on_status:
\* the address is the one that was read, the gps the reported one, the area
\* code the reported one if there is any.
PickUp(f, read) ==
    LET stop == StopAt(f, "start")
    IN [address |-> read.pickup.address, gps |-> stop.gps,
        area |-> IF stop.area = Null THEN read.pickup.area ELSE stop.area]

\* Mutant: on_confirm writes the drop off too.
NewDropAlways(kind, f, read, old) ==
    IF read.drop = Null \/ Located(f, "end") = {} THEN Null
    ELSE [address |-> read.drop.address, gps |-> StopAt(f, "end").gps, area |-> StopAt(f, "end").area]

\* create_drop_off_from_on_status_fulfullment: gps and area code as reported.
NewDrop(kind, f, read, old) ==
    IF kind # "status" THEN old
    ELSE IF read.drop = Null \/ Located(f, "end") = {} THEN Null
    ELSE [address |-> read.drop.address, gps |-> StopAt(f, "end").gps, area |-> StopAt(f, "end").area]

\* Mutant: fulfillments and lines are found by the transaction.
MatchesAny(c) == TRUE

\* commerce_data_id = the id that was read.
Matches(c) == row.id = cb[c].id

\* The rows of the UNNEST that are of f.
RowsFor(c, f) == {k \in Stored(c) : Matches(c) /\ cb[c].report.fulfillments[k].id = f}

\* An UPDATE .. FROM takes any one of several rows for the same fulfillment.
Picks(c) ==
    {pick \in [Fulfillment -> Stored(c) \cup {0}] :
        \A f \in Fulfillment : IF RowsFor(c, f) = {} THEN pick[f] = 0 ELSE pick[f] \in RowsFor(c, f)}

\* update_commerce_fulfillment_in_on_confirm, .._in_on_status.
ReportedFulfillments(c, pick) ==
    [f \in Fulfillment |->
        LET old == row.fulfillments[f]
            new == cb[c].report.fulfillments[pick[f]]
            read == cb[c].fulfillments[f]
        IN IF pick[f] = 0 THEN old
           ELSE [old EXCEPT !.status = new.status, !.pickup = PickUp(new, read),
                            !.drop = NewDrop(cb[c].report.kind, new, read, old.drop)]]

----------------------------------------------------------------------------
(* Documents and refunds.                                                  *)

TypesOf(docs) == {docs[k].type : k \in DOMAIN docs}

\* Mutant: the new documents replace those there were.
MergedReplaced(old, new) == new

\* get_ondc_document: a document of a type that is known keeps its url, the
\* last one's, and those of other types follow.
Merged(old, new) ==
    LET ofType(t) == {l \in DOMAIN old : old[l].type = t}
        others == {l \in DOMAIN old : old[l].type \notin TypesOf(new)}
    IN IF old = Null THEN new
       ELSE [k \in 1 .. (Len(new) + Cardinality(others)) |->
                IF k > Len(new) THEN old[Nth(others, k - Len(new))]
                ELSE IF ofType(new[k].type) = {} THEN new[k]
                ELSE old[Last(ofType(new[k].type))]]

\* get_quote_item_breakup_mapping_for_refund: of the refund entries, by
\* title and id, the last.
RefundOf(report, title, id) ==
    LET ks == {k \in DOMAIN report.breakup : report.breakup[k].title = title /\ report.breakup[k].id = id}
    IN IF ks = {} THEN 0 ELSE report.breakup[Last(ks)].value

\* Mutant: the refund of an item is looked up by its id.
RefundTitleById(c, i) == i

\* The title of an item's refund is its name in the lines that were read.
RefundTitle(c, i) == IF i \in cb[c].items THEN ItemName[i] ELSE i

\* update_on_cancel_fulfillments.
RefundedFulfillments(c) ==
    [f \in Fulfillment |->
        IF Matches(c) /\ \E k \in DOMAIN cb[c].report.fulfillments : cb[c].report.fulfillments[k].id = f
        THEN [row.fulfillments[f] EXCEPT !.refunds =
                [t \in Charges |-> RefundOf(cb[c].report, t, f)]]
        ELSE row.fulfillments[f]]

\* update_on_cancel_items.
RefundedLines(c) ==
    [i \in Item |->
        IF Matches(c) /\ \E k \in DOMAIN cb[c].report.items : cb[c].report.items[k] = i
        THEN [total |-> RefundOf(cb[c].report, RefundTitle(c, i), i),
              tax |-> RefundOf(cb[c].report, "Tax", i),
              discount |-> RefundOf(cb[c].report, "Discount", i)]
        ELSE row.lines[i]]

----------------------------------------------------------------------------
(* Storing.                                                                *)

\* Mutant: payments can be stored for an order that is gone.
PaymentsReplacedAnyway(c) == row.paid

\* delete_payment_in_commerce needs a payment row to delete, and the foreign
\* key the order that was read for new ones.
PaymentsReplaced(c) == row.paid /\ (cb[c].report.pays => row.id = cb[c].id)

Read(c) == cb[c] # Null /\ cb[c].fulfillments # Null

\* The UPDATE of an order that is replaced while it waits hits no row.
Hits(c) == IF Matches(c) THEN {TRUE} ELSE {TRUE, FALSE}

StatusOf(c) ==
    LET r == cb[c].report
    IN GetCommerceStatus(r.state, cb[c].type, Proforma(r.kind, r.docs # Null))

\* History: the report and the order it was merged with.
Source(c) == [report |-> cb[c].report, id |-> cb[c].id]

\* initialize_order_on_confirm.
OnConfirm(c) ==
    /\ cb[c].report.kind = "confirm"
    /\ \E hit \in Hits(c), pick \in Picks(c) :
          row' = [row EXCEPT !.status = IF hit THEN StatusOf(c) ELSE @,
                             !.by = IF hit THEN Source(c) ELSE @,
                             !.paid = cb[c].report.pays,
                             !.fulfillments = ReportedFulfillments(c, pick)]

\* initialize_order_on_status.
OnStatus(c) ==
    /\ cb[c].report.kind = "status"
    /\ \E hit \in Hits(c), pick \in Picks(c) :
          row' = [row EXCEPT !.status = IF hit THEN StatusOf(c) ELSE @,
                             !.by = IF hit THEN Source(c) ELSE @,
                             !.docs = IF ~hit THEN @
                                      ELSE IF cb[c].report.docs = Null THEN Null
                                      ELSE Merged(cb[c].docs, cb[c].report.docs),
                             !.paid = cb[c].report.pays,
                             !.fulfillments = ReportedFulfillments(c, pick)]

\* initialize_order_on_cancel.
OnCancel(c) ==
    /\ cb[c].report.kind = "cancel"
    /\ \E hit \in Hits(c) :
          row' = [row EXCEPT !.status = IF hit THEN StatusOf(c) ELSE @,
                             !.refund = IF hit THEN cb[c].report.total ELSE @,
                             !.cancelledBy = IF hit THEN Source(c) ELSE @,
                             !.paid = cb[c].report.pays,
                             !.fulfillments = RefundedFulfillments(c),
                             !.lines = RefundedLines(c)]

\* initialize_order_on_update: the payments, and who updated the order when.
OnUpdate(c) ==
    /\ cb[c].report.kind = "update"
    /\ row' = [row EXCEPT !.paid = cb[c].report.pays]

Store(c) ==
    /\ Read(c) /\ PaymentsReplaced(c)
    /\ cb[c].report.kind \in {"confirm", "status"} => ~Panics(c)
    /\ OnConfirm(c) \/ OnStatus(c) \/ OnCancel(c) \/ OnUpdate(c)
    /\ cb' = [cb EXCEPT ![c] = Null]
    /\ UNCHANGED nextId

\* A query, a statement or the commit fails, or the handler panics.
Fail(c) ==
    /\ cb[c] # Null
    /\ cb' = [cb EXCEPT ![c] = Null]
    /\ UNCHANGED <<row, nextId>>

Next ==
    \/ Reselect
    \/ \E c \in Callback, report \in Report : ReadOrder(c, report)
    \/ \E c \in Callback : ReadParts(c) \/ Store(c) \/ Fail(c)

Spec == Init /\ [][Next]_vars

----------------------------------------------------------------------------
(* Properties.                                                             *)

TypeOK ==
    /\ row.id \in 0..(nextId - 1) /\ nextId \in 1..MaxRows
    /\ row.type \in OrderType /\ row.status \in CommerceStatusType
    /\ row.paid \in BOOLEAN
    /\ DOMAIN row.fulfillments = Fulfillment /\ DOMAIN row.lines = Item
    /\ \A f \in Fulfillment : /\ row.fulfillments[f].pickup.address \in Place
                               /\ row.fulfillments[f].pickup.gps \in Place
                               /\ row.fulfillments[f].pickup.area \in Place
    /\ \A c \in Callback : cb[c] # Null =>
          /\ cb[c].report \in Report /\ cb[c].id \in 0..row.id
          /\ cb[c].id = row.id => cb[c].type = row.type

\* What the reports of these kinds may say of a fulfillment at its start, or
\* at its end.
ReportedOf(f, kinds, stop) ==
    {new \in UNION {{r.fulfillments[k] : k \in DOMAIN r.fulfillments} :
                       r \in {q \in Report : q.kind \in kinds}} :
        new.id = f /\ Located(new, stop) # {}}

\* The start of a fulfillment is as it was selected, or has the gps, and the
\* area code if any, of the very report that set the status; without one the
\* area code is the selected one or an earlier report's.
StartIsKept(f, x, s) ==
    LET reported == ReportedOf(f, {"confirm", "status"}, "start")
    IN /\ x.pickup.address = s.pickup
       /\ x.pickup.area \in {s.pickup} \cup {StopAt(new, "start").area : new \in reported}
       /\ \/ x.status = Null /\ x.pickup = At(s.pickup)
          \/ \E new \in reported :
                /\ x.status = new.status /\ x.pickup.gps = StopAt(new, "start").gps
                /\ StopAt(new, "start").area \in {Null, x.pickup.area}

\* Its end, while it has one, is as it was selected, or has the gps and the
\* area code of one status report.
EndIsKept(f, x, s) ==
    x.drop # Null =>
       \/ s.drop # Null /\ x.drop = At(s.drop)
       \/ \E new \in ReportedOf(f, {"status"}, "end") :
             x.drop = [address |-> s.drop, gps |-> StopAt(new, "end").gps, area |-> StopAt(new, "end").area]

\* However late a report is stored, and whatever order it was merged with,
\* the address (with city, state and country) a fulfillment is collected at
\* or delivered to stays the one it was selected with.  The gps and the area
\* code do not: reports overwrite them, but as a whole and only with what was
\* reported of that fulfillment, those of the start together with its status.
AddressesAreKept ==
    \A f \in Fulfillment :
        /\ StartIsKept(f, row.fulfillments[f], row.selection)
        /\ EndIsKept(f, row.fulfillments[f], row.selection)

\* A status the order has from a report with payments is not there alone: the
\* fulfillments of that report have its states too, one of them if it names a
\* fulfillment twice.  (One without payments may hit an order that replaced
\* the one it was merged with, and then leaves the fulfillments as they are.)
ReportsAreWhole ==
    row.by # Null /\ row.by.report.pays =>
        LET reported == row.by.report.fulfillments
        IN \A k \in DOMAIN reported :
              reported[k].id \in Fulfillment /\ Located(reported[k], "start") # {} =>
                  \E l \in DOMAIN reported :
                      /\ reported[l].id = reported[k].id /\ Located(reported[l], "start") # {}
                      /\ row.fulfillments[reported[k].id].status = reported[l].status

\* The last refund of its title and id.
IsLast(breakup, k) ==
    \A l \in DOMAIN breakup :
        breakup[l].title = breakup[k].title /\ breakup[l].id = breakup[k].id => l <= k

\* A cancelled order with payments has the refunds of the on_cancel that set
\* its refund total: the last one of each cancelled line by its name, of its
\* tax and its discount, and of each charge of a fulfillment it names.
RefundsAreWhole ==
    row.cancelledBy # Null /\ row.cancelledBy.report.pays =>
        LET r == row.cancelledBy.report
            items == {r.items[n] : n \in DOMAIN r.items} \cap Item
            fulfillments == {r.fulfillments[n].id : n \in DOMAIN r.fulfillments} \cap Fulfillment
        IN /\ row.refund = r.total
           /\ \A k \in DOMAIN r.breakup :
                LET b == r.breakup[k]
                IN IsLast(r.breakup, k) =>
                     /\ b.id \in items /\ b.title = ItemName[b.id] => row.lines[b.id].total = b.value
                     /\ b.id \in items /\ b.title = "Tax" => row.lines[b.id].tax = b.value
                     /\ b.id \in items /\ b.title = "Discount" => row.lines[b.id].discount = b.value
                     /\ b.id \in fulfillments /\ b.title \in Charges =>
                           row.fulfillments[b.id].refunds[b.title] = b.value

Finishes(c, kind) == cb[c] # Null /\ cb'[c] = Null /\ cb[c].report.kind = kind

\* The document of a type, the last one if there are several, keeps its url
\* and leaves an order only when a status report has no documents at all, or
\* was merged with documents that had changed meanwhile.
DocumentsAreKept ==
    [][row.docs # Null /\ row'.id = row.id =>
          \A k \in DOMAIN row.docs :
              \/ \E l \in DOMAIN row.docs : l > k /\ row.docs[l].type = row.docs[k].type
              \/ row'.docs # Null /\ \E l \in DOMAIN row'.docs : row'.docs[l] = row.docs[k]
              \/ \E c \in Callback : Finishes(c, "status") /\ (cb[c].report.docs = Null \/ cb[c].docs # row.docs)]_vars

\* A drop off leaves a fulfillment only through a status report that has no
\* end for it, or whose handler had read a fulfillment without one.
DropOffsAreKept ==
    [][row'.id = row.id =>
          \A f \in Fulfillment : row.fulfillments[f].drop # Null /\ row'.fulfillments[f].drop = Null =>
              \E c \in Callback :
                  /\ Finishes(c, "status")
                  /\ \/ cb[c].fulfillments[f].drop = Null
                     \/ \E k \in Stored(c) : /\ cb[c].report.fulfillments[k].id = f
                                             /\ Located(cb[c].report.fulfillments[k], "end") = {}]_vars
=============================================================================
