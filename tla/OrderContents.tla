--------------------------- MODULE OrderContents ---------------------------
(***************************************************************************)
(* What an order consists of, and how it is carried from one form to the   *)
(* next: the buyer's select request, the select message, the rows of a     *)
(* request for quotation, the seller's on_select answer, the rows of a     *)
(* quoted order, and the init, confirm and update messages built from the  *)
(* rows.  Amounts are numbers, addresses are members of Place, free texts  *)
(* are model values; everything a message says twice is kept twice.        *)
(*                                                                         *)
(* The rows of a table are a function from positions to records, as the    *)
(* vectors handed to UNNEST are.                                           *)
(***************************************************************************)
EXTENDS Naturals, Sequences, FiniteSets

CONSTANTS
    Product,    \* Product[i]: the catalogue's entry of item i, or None
    CountryOf,  \* the country of a place
    Null        \* SQL's NULL and Rust's None

FulfillmentType == {"delivery", "self_pickup"}
Charges == {"packing", "delivery", "misc"}
ItemAmounts == {"item", "tax", "discount"}

\* ONDCSellerProductInfo::get_price: the first slab the quantity falls in,
\* otherwise the unit price.
GetPrice(p, qty) ==
    LET fits == {k \in DOMAIN p.slabs :
                    /\ p.slabs[k].min <= qty
                    /\ p.slabs[k].max = Null \/ qty <= p.slabs[k].max}
    IN IF fits = {} THEN p.unit
       ELSE p.slabs[CHOOSE k \in fits : \A l \in fits : k <= l].price

\* A product the catalogue does not know has no code and costs nothing.
ItemCode(i) == IF Product[i] = Null THEN Null ELSE Product[i].code
UnitPrice(i, qty) == IF Product[i] = Null THEN 0 ELSE GetPrice(Product[i], qty)

TradeType(from, to) ==
    IF CountryOf[from] # CountryOf[to] THEN "import" ELSE "domestic"

----------------------------------------------------------------------------
(* The select message.                                                     *)

\* get_item_tags: called with the item's requirement and its packaging.
ItemTags(terms) == [PACKAGING_REQ |-> terms.item, ITEM_REQ |-> terms.packaging]

SelectItem(type, item) ==
    [id |-> item.id, locs |-> item.locs, fids |-> item.fids, qty |-> item.qty,
     tags |-> IF type = "purchase" /\ item.terms # Null THEN ItemTags(item.terms) ELSE Null]

\* home: the location the seller's location map yields first.
SelectFulfillment(home, f) ==
    LET import == f.type = "delivery" /\ TradeType(home, f.to) = "import"
    IN [id |-> f.id, type |-> f.type,
        end |-> IF f.type = "delivery" THEN f.to ELSE Null,
        tags |-> IF import THEN f.terms ELSE Null,
        licence |-> import]

SelectLocations(req) == UNION {req.items[k].locs : k \in DOMAIN req.items}

SelectMessage(req, home) ==
    [kind |-> "select",
     locs |-> SelectLocations(req),
     items |-> [k \in DOMAIN req.items |-> SelectItem(req.type, req.items[k])],
     fulfillments |-> [k \in DOMAIN req.fulfillments |->
                          SelectFulfillment(home, req.fulfillments[k])],
     pays |-> req.pays]

\* Mutant: a licence is asked for only when the first delivery is an import.
ImportRefusedFirstOnly(req, home, licence) ==
    /\ TradeType(home, req.fulfillments[1].to) = "import"
    /\ licence # "verified"

\* validate_select_request.
ImportRefused(req, home, licence) ==
    /\ licence # "verified"
    /\ \E k \in DOMAIN req.fulfillments : TradeType(home, req.fulfillments[k].to) = "import"

----------------------------------------------------------------------------
(* The rows of a request for quotation.                                    *)

\* ON CONFLICT (commerce_data_id, item_code) DO NOTHING.
RfqKept(items) ==
    {k \in DOMAIN items : ItemCode(items[k].id) # Null =>
        \A l \in DOMAIN items : l < k => ItemCode(items[l].id) # ItemCode(items[k].id)}

RfqLines(items) ==
    [k \in RfqKept(items) |->
        [id |-> items[k].id, code |-> ItemCode(items[k].id), locs |-> items[k].locs,
         fids |-> items[k].fids, qty |-> items[k].qty,
         item_req |-> IF items[k].terms = Null THEN Null ELSE items[k].terms.item,
         packaging_req |-> IF items[k].terms = Null THEN Null ELSE items[k].terms.packaging,
         price |-> UnitPrice(items[k].id, items[k].qty),
         item |-> 0, tax |-> 0, discount |-> 0]]

Deliveries(fulfillments) == {k \in DOMAIN fulfillments : fulfillments[k].type = "delivery"}

NthDelivery(fulfillments, n) ==
    CHOOSE d \in Deliveries(fulfillments) :
        Cardinality({e \in Deliveries(fulfillments) : e <= d}) = n

\* Only a delivery adds a drop off to its vector; UNNEST fills the shorter
\* vector up with NULLs at its end.
RfqFulfillments(fulfillments, home) ==
    [k \in DOMAIN fulfillments |->
        [id |-> fulfillments[k].id, type |-> fulfillments[k].type,
         drop |-> IF k <= Cardinality(Deliveries(fulfillments))
                  THEN [to |-> fulfillments[NthDelivery(fulfillments, k)].to] ELSE Null,
         pickup |-> home, terms |-> fulfillments[k].terms,
         trade |-> TradeType(home, fulfillments[k].to),
         packing |-> 0, delivery |-> 0, misc |-> 0]]

RfqPayments(types) ==
    [k \in DOMAIN types |-> [type |-> types[k], by |-> Null, settlement |-> Null]]

----------------------------------------------------------------------------
(* The rows of a quoted order.                                             *)

Quoted(breakup, title, id) ==
    {k \in DOMAIN breakup : breakup[k].title = title /\ breakup[k].id = id}

LastOf(ks) == CHOOSE k \in ks : \A l \in ks : l <= k

\* Mutant: the values of a title are looked up without the id.
ValueOfTitle(breakup, title, id) ==
    LET ks == {k \in DOMAIN breakup : breakup[k].title = title}
    IN IF ks = {} THEN 0 ELSE breakup[LastOf(ks)].value

\* get_quote_item_value_mapping: a later entry replaces an earlier one.
ValueOf(breakup, title, id) ==
    LET ks == Quoted(breakup, title, id)
    IN IF ks = {} THEN 0 ELSE breakup[LastOf(ks)].value

QuotedPrice(breakup, id) ==
    LET ks == Quoted(breakup, "item", id)
    IN IF ks = {} THEN 0 ELSE breakup[LastOf(ks)].price

\* ON CONFLICT DO UPDATE refuses to touch a row twice, the transaction is
\* aborted; save_order_on_select_items's error is dropped, but the next
\* statement fails too.
LinesConflict(items) ==
    \E k, l \in DOMAIN items :
        /\ k # l
        /\ ItemCode(items[k].id) # Null
        /\ ItemCode(items[k].id) = ItemCode(items[l].id)

\* A table has one fulfillment of an id.
FulfillmentsConflict(fulfillments) ==
    \E k, l \in DOMAIN fulfillments : k # l /\ fulfillments[k].id = fulfillments[l].id

\* get_tag_value_from_list(..).unwrap_or_default()
TagValue(tags, code) == IF tags = Null THEN Null ELSE tags[code]

\* Of lines with the same code only the first is stored; a transaction that
\* has them does not get this far.
QuotedLines(answer) ==
    [k \in RfqKept(answer.items) |->
        LET i == answer.items[k].id
        IN [id |-> i, code |-> ItemCode(i), locs |-> answer.items[k].locs,
            fids |-> answer.items[k].fids, qty |-> answer.items[k].qty,
            item_req |-> TagValue(answer.items[k].tags, "ITEM_REQ"),
            packaging_req |-> TagValue(answer.items[k].tags, "PACKAGING_REQ"),
            price |-> QuotedPrice(answer.breakup, i),
            item |-> ValueOf(answer.breakup, "item", i),
            tax |-> ValueOf(answer.breakup, "tax", i),
            discount |-> ValueOf(answer.breakup, "discount", i)]]

\* Mutant: no stops are SQL's NULL.
DropOffNull(select) ==
    IF select.fulfillments[1].end = Null THEN Null ELSE [to |-> select.fulfillments[1].end]

\* create_drop_off_from_ondc_select_fulfullment: of the first fulfillment of
\* the select message; JSON's null, and not SQL's, when it had no stops.
DropOff(select) == [to |-> select.fulfillments[1].end]

\* create_pick_off_from_ondc_select_fulfillment, or the seller's location.
PickUp(f, home) == IF f.start # Null THEN f.start ELSE home

\* The drop off, the terms and the trade type are those of the first
\* fulfillment of the select message.
QuotedFulfillments(select, answer, home) ==
    LET first == select.fulfillments[1]
    IN [k \in DOMAIN answer.fulfillments |->
          LET f == answer.fulfillments[k]
          IN [id |-> f.id,
              type |-> IF f.category = "self_pickup" THEN "self_pickup" ELSE "delivery",
              drop |-> DropOff(select),
              pickup |-> PickUp(f, home),
              terms |-> first.tags,
              trade |-> IF first.end = Null THEN Null ELSE TradeType(home, first.end),
              packing |-> ValueOf(answer.breakup, "packing", f.id),
              delivery |-> ValueOf(answer.breakup, "delivery", f.id),
              misc |-> ValueOf(answer.breakup, "misc", f.id)]]

QuotedPayments(pays) ==
    [k \in DOMAIN pays |-> [type |-> pays[k].type, by |-> pays[k].by, settlement |-> Null]]

\* Mutant: on_init keeps no settlement details.
InitPaymentsBare(pays) == QuotedPayments(pays)

\* initialize_payment_on_init.
InitPayments(pays) ==
    [k \in DOMAIN pays |-> [type |-> pays[k].type, by |-> pays[k].by,
                            settlement |-> pays[k].settlement]]

\* get_bpp_term_model_from_tag.
BppTermsOf(offer) == [arbitration |-> offer.arbitration = "false", liability |-> offer.liability]

----------------------------------------------------------------------------
(* The messages built from the rows.                                       *)

\* get_order_items_from_model: terms only when both columns have a value.
OrderLine(row) ==
    [id |-> row.id, locs |-> row.locs, fids |-> row.fids, qty |-> row.qty,
     item |-> row.item, tax |-> row.tax, discount |-> row.discount,
     terms |-> IF row.item_req # Null /\ row.packaging_req # Null
               THEN [item |-> row.item_req, packaging |-> row.packaging_req]
               ELSE Null]

\* get_order_payment_from_model: no settlement details are an empty list.
OrderPayment(row) ==
    [row EXCEPT !.settlement = IF row.settlement = Null THEN {} ELSE row.settlement]

\* get_order_fulfillment_from_model: JSON's null is no drop off.
OrderDelivery(row) == [row EXCEPT !.drop = row.drop.to]

\* get_order_from_model, of what was read.
Order(read) ==
    [read EXCEPT !.lines = [k \in DOMAIN read.lines |-> OrderLine(read.lines[k])],
                 !.pays = [k \in DOMAIN read.pays |-> OrderPayment(read.pays[k])],
                 !.fulfillments = [k \in DOMAIN read.fulfillments |->
                                      OrderDelivery(read.fulfillments[k])]]

\* drop_off_data is decoded as not NULL.
Readable(fulfillments) == \A k \in DOMAIN fulfillments : fulfillments[k].drop # Null

OrderItem(line) ==
    [id |-> line.id, locs |-> line.locs, fids |-> line.fids, qty |-> line.qty,
     tags |-> IF line.terms = Null THEN Null ELSE ItemTags(line.terms)]

\* Mutant: the stop of a self pickup is the drop off.
StopsEndOnly(f) == IF f.drop # Null THEN {[type |-> "end", at |-> f.drop]} ELSE {}

\* get_ondc_init_fulfillment_stops.
Stops(f) ==
    (IF f.drop # Null THEN {[type |-> "end", at |-> f.drop]} ELSE {}) \cup
    (IF f.type = "self_pickup" THEN {[type |-> "start", at |-> f.pickup]} ELSE {})

OrderFulfillment(f) ==
    [id |-> f.id, type |-> f.type, tags |-> f.terms, stops |-> Stops(f),
     licence |-> f.trade = "import"]

\* Mutant: only delivery and packing are quoted of a fulfillment.
QuoteOfNoMisc(lines, fulfillments) ==
    {[title |-> t, id |-> fulfillments[k].id, value |-> fulfillments[k][t]] :
        k \in DOMAIN fulfillments, t \in Charges \ {"misc"}} \cup
    {[title |-> t, id |-> lines[k].id, value |-> lines[k][t]] :
        k \in DOMAIN lines, t \in ItemAmounts}

\* get_quote_from_order: every charge of every row, zero or not.
QuoteOf(lines, fulfillments) ==
    {[title |-> t, id |-> fulfillments[k].id, value |-> fulfillments[k][t]] :
        k \in DOMAIN fulfillments, t \in Charges} \cup
    {[title |-> t, id |-> lines[k].id, value |-> lines[k][t]] :
        k \in DOMAIN lines, t \in ItemAmounts}

InitMessagePays(pays) ==
    [k \in DOMAIN pays |->
        [type |-> pays[k].type, by |-> IF pays[k].by = Null THEN "bpp" ELSE pays[k].by]]

\* get_ondc_confirm_request_payment: a payment the seller collects is settled
\* to the buyer application's own account, any other as on_init said.
ConfirmPays(pays, total) ==
    [k \in DOMAIN pays |->
        [type |-> pays[k].type, by |-> IF pays[k].by = Null THEN "bpp" ELSE pays[k].by,
         amount |-> total,
         settlement |-> IF pays[k].by = "bpp" THEN {"buyer_app"} ELSE pays[k].settlement]]

OrderBody(lines, fulfillments) ==
    [items |-> [k \in DOMAIN lines |-> OrderItem(lines[k])],
     fulfillments |-> [k \in DOMAIN fulfillments |-> OrderFulfillment(fulfillments[k])],
     locs |-> UNION {lines[k].locs : k \in DOMAIN lines}]

\* get_bpp_terms_tag.
TermsTag(terms) ==
    [arbitration |-> IF terms.arbitration THEN "true" ELSE "false", liability |-> terms.liability]

InitMessage(o) ==
    [kind |-> "init", body |-> OrderBody(o.lines, o.fulfillments), pays |-> InitMessagePays(o.pays)]

ConfirmMessage(o) ==
    [kind |-> "confirm", body |-> OrderBody(o.lines, o.fulfillments),
     quote |-> QuoteOf(o.lines, o.fulfillments), total |-> o.head.total,
     pays |-> ConfirmPays(o.pays, o.head.total),
     terms |-> TermsTag(o.head.terms), agreed |-> TRUE]

UpdateMessage(o) ==
    [kind |-> "update",
     items |-> [k \in DOMAIN o.lines |-> [id |-> o.lines[k].id, qty |-> o.lines[k].qty]],
     pays |-> ConfirmPays(o.pays, o.head.total)]

\* status and cancel messages only name the order, by the number it keeps.
ReferenceMessage(kind) == [kind |-> kind]
=============================================================================
