------------------------------ MODULE QuoteFlow ------------------------------
(***************************************************************************)
(* The contents of one order from the buyer's select to the confirm        *)
(* message.  The rows are replaced by requests for quotation and by the    *)
(* seller's answers at any time; an endpoint reads them with four queries, *)
(* each on a connection of its own and outside any transaction, and builds *)
(* its message from what it got (fetch_order_by_id).                       *)
(*                                                                         *)
(* OrderLifecycle has the order's status and number and the order of the   *)
(* requests and callbacks; here the interest is in what the rows and the   *)
(* messages say.                                                           *)
(***************************************************************************)
EXTENDS OrderContents

CONSTANTS
    Request,  \* the select requests the buyer may make
    Answer,   \* the on_select answers the seller may give
    Offer,    \* the terms and payments the seller's on_init may carry
    MaxAsked, \* bound: selects made
    MaxRows   \* bound: rows ever inserted

ASSUME MaxRowsAssumption == MaxRows \in Nat

IsList(s) == s \in Seq({s[k] : k \in DOMAIN s})

\* A select without a fulfillment panics before it is sent; the location of
\* a fulfillment is not optional.
ASSUME RequestAssumption ==
    \A req \in Request :
        /\ IsList(req.fulfillments) /\ req.fulfillments # <<>>
        /\ \A k \in DOMAIN req.fulfillments : /\ req.fulfillments[k].to # Null
                                              /\ req.fulfillments[k].type \in FulfillmentType

ASSUME AnswerAssumption ==
    \A answer \in Answer : IsList(answer.items) /\ IsList(answer.breakup)

\* collected_by of an on_init payment is not optional.
ASSUME OfferAssumption == \A offer \in Offer : \A k \in DOMAIN offer.pays : offer.pays[k].by # Null

\* NULL is neither a trade type nor the JSON of a drop off.
ASSUME NullAssumption ==
    /\ Null # "import"
    /\ Null # [to |-> Null]
    /\ \A req \in Request : \A k \in DOMAIN req.fulfillments :
          Null # [to |-> req.fulfillments[k].to]

ReadKinds == {"init", "confirm", "status", "cancel", "update"}

VARIABLES
    licence,   \* the business's import licence: verified, present or absent
    asked,     \* selects sent and saved: the request, its message and home
    storing,   \* requests for quotation sent and not yet stored
    row,       \* the order's rows, or Null
    nextId,    \* row ids are fresh
    read,      \* what the endpoint has read, or Null
    told       \* the message the last step sent, and the rows it was built from

vars == <<licence, asked, storing, row, nextId, read, told>>

Empty == <<>>
Nothing == [msg |-> Null, of |-> Null]

Init ==
    /\ licence \in {"verified", "present", "absent"}
    /\ asked = {}
    /\ storing = {}
    /\ row = Null
    /\ nextId = 0
    /\ read = Null
    /\ told = Nothing

\* order_select: any location of the items may be the first of the map.
Select(req) ==
    \E home \in SelectLocations(req) :
        LET ask == [req |-> req, home |-> home, message |-> SelectMessage(req, home)]
        IN /\ ~ImportRefused(req, home, licence)
           /\ ask \notin asked /\ Cardinality(asked) < MaxAsked
           /\ asked' = asked \cup {ask}
           /\ storing' = IF req.type = "purchase" THEN storing \cup {ask} ELSE storing
           /\ told' = [msg |-> ask.message, of |-> Null]
           /\ UNCHANGED <<licence, row, nextId, read>>

\* The rows of a transaction: kind, ask and answer are history.
NewRow(kind, ask, answer, lines, fulfillments, pays, total) ==
    /\ nextId < MaxRows
    /\ row' = [id |-> nextId, kind |-> kind, ask |-> ask, answer |-> answer,
               lines |-> lines, fulfillments |-> fulfillments, pays |-> pays,
               total |-> total, terms |-> Null, offer |-> Null]
    /\ nextId' = nextId + 1

\* initialize_order_select; the rows there were are deleted.
StoreRfq(ask) ==
    /\ ask \in storing
    /\ storing' = storing \ {ask}
    /\ ~FulfillmentsConflict(ask.req.fulfillments)
    /\ NewRow("rfq", ask, Null, RfqLines(ask.req.items),
              RfqFulfillments(ask.req.fulfillments, ask.home), RfqPayments(ask.req.pays), 0)
    /\ told' = Nothing
    /\ UNCHANGED <<licence, asked, read>>

\* initialize_order_on_select.  An answer whose lines or fulfillments
\* conflict aborts its transaction and leaves the rows as they are.
OnSelect(ask, answer) ==
    \E home \in answer.locs :
        /\ ask \in asked
        /\ ~LinesConflict(answer.items)
        /\ ~FulfillmentsConflict(answer.fulfillments)
        /\ NewRow("quote", ask, answer, QuotedLines(answer),
                  QuotedFulfillments(ask.message, answer, home), QuotedPayments(answer.pays),
                  answer.total)
        /\ told' = Nothing
    /\ UNCHANGED <<licence, asked, storing, read>>

\* initialize_order_on_init: the payments are replaced, the terms set.
OnInit(offer) ==
    /\ row # Null /\ Readable(row.fulfillments)
    /\ row' = [row EXCEPT !.pays = InitPayments(offer.pays), !.terms = BppTermsOf(offer),
                          !.offer = offer]
    /\ told' = Nothing
    /\ UNCHANGED <<licence, asked, storing, nextId, read>>

\* get_commerce_data.
ReadHead(kind) ==
    /\ read = Null /\ row # Null
    /\ read' = [kind |-> kind, head |-> [id |-> row.id, total |-> row.total, terms |-> row.terms],
                lines |-> Null, pays |-> Null, fulfillments |-> Null, of |-> row]
    /\ told' = Nothing
    /\ UNCHANGED <<licence, asked, storing, row, nextId>>

\* Mutant: the parts are found by the transaction and not by the order's id.
PartCurrent(part) == IF row # Null THEN row[part] ELSE Empty

\* The rows of the order the head was of; none when it was replaced.
Part(part) == IF row # Null /\ row.id = read.head.id THEN row[part] ELSE Empty

ReadLines ==
    /\ read # Null /\ read.lines = Null
    /\ read' = [read EXCEPT !.lines = Part("lines")]
    /\ told' = Nothing
    /\ UNCHANGED <<licence, asked, storing, row, nextId>>

ReadPayments ==
    /\ read # Null /\ read.pays = Null
    /\ read' = [read EXCEPT !.pays = Part("pays")]
    /\ told' = Nothing
    /\ UNCHANGED <<licence, asked, storing, row, nextId>>

\* A drop off that is NULL fails the whole read.
ReadFulfillments ==
    /\ read # Null /\ read.fulfillments = Null
    /\ read' = IF Readable(Part("fulfillments"))
               THEN [read EXCEPT !.fulfillments = Part("fulfillments")]
               ELSE Null
    /\ told' = Nothing
    /\ UNCHANGED <<licence, asked, storing, row, nextId>>

Message(o) ==
    CASE o.kind = "init" -> InitMessage(o)
      [] o.kind = "confirm" -> ConfirmMessage(o)
      [] o.kind = "update" -> UpdateMessage(o)
      [] OTHER -> ReferenceMessage(o.kind)

\* "Billing Address not found": only on_init writes the billing.
Unbilled(o) == o.kind = "confirm" /\ o.head.terms = Null

Send ==
    /\ read # Null
    /\ \A part \in {"lines", "pays", "fulfillments"} : read[part] # Null
    /\ read' = Null
    /\ told' = IF Unbilled(read) THEN Nothing ELSE [msg |-> Message(Order(read)), of |-> read.of]
    /\ UNCHANGED <<licence, asked, storing, row, nextId>>

Next ==
    \/ \E req \in Request : Select(req)
    \/ \E ask \in storing : StoreRfq(ask)
    \/ \E ask \in asked, answer \in Answer : OnSelect(ask, answer)
    \/ \E offer \in Offer : OnInit(offer)
    \/ \E kind \in ReadKinds : ReadHead(kind)
    \/ ReadLines
    \/ ReadPayments
    \/ ReadFulfillments
    \/ Send

Spec == Init /\ [][Next]_vars

----------------------------------------------------------------------------
(* Properties.                                                             *)

TypeOK ==
    /\ licence \in {"verified", "present", "absent"}
    /\ \A ask \in asked : /\ ask.req \in Request
                          /\ ask.home \in SelectLocations(ask.req)
                          /\ ask.message = SelectMessage(ask.req, ask.home)
    /\ storing \subseteq asked
    /\ nextId \in 0..MaxRows
    /\ row # Null => row.id \in 0..(nextId - 1) /\ row.ask \in asked
    /\ read # Null => read.kind \in ReadKinds /\ read.head.id \in 0..(nextId - 1)

\* The rows a read has put together are of one order: its lines and its
\* fulfillments are those of the order whose head was read, or none at all,
\* whatever was stored between its four queries.
PartsOfOneOrder ==
    read # Null => \A part \in {"lines", "fulfillments"} :
                      read[part] \in {Null, Empty, read.of[part]}

Confirmed == told.msg # Null /\ told.msg.kind = "confirm"
OrderSent == told.msg # Null /\ told.msg.kind \in {"init", "confirm"}

\* A confirm message charges nothing the seller did not quote for the same
\* item or fulfillment of this very order, and names the total he quoted,
\* also when the order was replaced while it was read.
NothingInvented ==
    Confirmed =>
        /\ told.msg.total = IF told.of.kind = "quote" THEN told.of.answer.total ELSE 0
        /\ \A c \in told.msg.quote : c.value # 0 =>
              /\ told.of.kind = "quote"
              /\ \E k \in DOMAIN told.of.answer.breakup :
                    /\ told.of.answer.breakup[k].title = c.title
                    /\ told.of.answer.breakup[k].id = c.id
                    /\ told.of.answer.breakup[k].value = c.value

\* A quote that lists every charge once, no refunds, and only of what it
\* delivers.
WellFormed(answer) ==
    \A k \in DOMAIN answer.breakup :
        LET b == answer.breakup[k]
        IN /\ \A l \in DOMAIN answer.breakup :
                 answer.breakup[l].title = b.title /\ answer.breakup[l].id = b.id => k = l
           /\ IF b.title \in Charges
              THEN \E f \in DOMAIN answer.fulfillments : answer.fulfillments[f].id = b.id
              ELSE /\ b.title \in ItemAmounts
                   /\ \E i \in DOMAIN answer.items : answer.items[i].id = b.id

Whole(body) == body.items # Empty /\ body.fulfillments # Empty

\* A confirm message repeats every charge of a well-formed quote, unless the
\* order was replaced while it was read.
QuoteRepeated ==
    Confirmed /\ told.of.kind = "quote" /\ Whole(told.msg.body) /\ WellFormed(told.of.answer) =>
        \A k \in DOMAIN told.of.answer.breakup :
            LET b == told.of.answer.breakup[k]
            IN [title |-> b.title, id |-> b.id, value |-> b.value] \in told.msg.quote

\* Every item of the answer a quoted order was stored from has its line, with
\* its quantity and fulfillments: a conflict stores nothing at all.
QuotedItemsAreStored ==
    row # Null /\ row.kind = "quote" =>
        \A k \in DOMAIN row.answer.items :
            /\ k \in DOMAIN row.lines
            /\ row.lines[k].id = row.answer.items[k].id
            /\ row.lines[k].qty = row.answer.items[k].qty
            /\ row.lines[k].fids = row.answer.items[k].fids

\* The buyer asked for one kind of fulfillment to one place, and the seller
\* answered with that kind.
OneDestination(r) ==
    LET first == r.ask.req.fulfillments[1]
    IN /\ \A k \in DOMAIN r.ask.req.fulfillments :
             /\ r.ask.req.fulfillments[k].type = first.type
             /\ r.ask.req.fulfillments[k].to = first.to
       /\ \A k \in DOMAIN r.fulfillments : r.fulfillments[k].type = first.type

\* An init or a confirm of such an order sends a delivery to the place the
\* buyer asked for and to no other, and has a self pickup start at the
\* seller's.
StopsAreRight ==
    OrderSent /\ told.of.kind = "quote" /\ OneDestination(told.of) =>
        \A k \in DOMAIN told.msg.body.fulfillments :
            LET f == told.msg.body.fulfillments[k]
            IN IF f.type = "delivery"
               THEN f.stops = {[type |-> "end", at |-> told.of.ask.req.fulfillments[1].to]}
               ELSE f.stops = {[type |-> "start", at |-> told.of.fulfillments[k].pickup]}

\* All the places the seller named are in one country.
OneCountry(r) ==
    LET places == SelectLocations(r.ask.req) \cup (IF r.kind = "quote" THEN r.answer.locs ELSE {})
    IN \A p, q \in places : CountryOf[p] = CountryOf[q]

\* An order of a seller of one country goes out as an import, with the
\* licence in its credentials, only if the licence was verified when it was
\* selected.
ImportsAreLicensed ==
    OrderSent /\ OneCountry(told.of) =>
        \A k \in DOMAIN told.msg.body.fulfillments :
            told.msg.body.fulfillments[k].licence => licence = "verified"

\* How a payment of an on_init is to be settled.
Settlement(pay) ==
    IF pay.by = "bpp" THEN {"buyer_app"}
    ELSE IF pay.settlement = Null THEN {} ELSE pay.settlement

\* The payments of a confirm are those of one on_init of the seller, all of
\* them, and settled as it said, or to the buyer application when the seller
\* collects, although the terms and the payments are read apart.
SettlementIsAgreed ==
    Confirmed /\ DOMAIN told.msg.pays # {} =>
        \E offer \in Offer :
            /\ DOMAIN told.msg.pays = DOMAIN offer.pays
            /\ \A k \in DOMAIN offer.pays :
                  /\ told.msg.pays[k].type = offer.pays[k].type
                  /\ told.msg.pays[k].by = offer.pays[k].by
                  /\ told.msg.pays[k].settlement = Settlement(offer.pays[k])

\* Only a requested quote with a self pickup is stored with a drop off that
\* cannot be decoded, and cannot be read again until it is quoted.
OnlyPickupsAreUnreadable ==
    row # Null /\ ~Readable(row.fulfillments) =>
        /\ row.kind = "rfq"
        /\ \E k \in DOMAIN row.ask.req.fulfillments :
              row.ask.req.fulfillments[k].type = "self_pickup"
=============================================================================
