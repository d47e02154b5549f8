---------------------------- MODULE MCQuoteFlow ----------------------------
(* Instances of QuoteFlow: three items, of which one is not in the           *)
(* catalogue and one has slab prices, and places in two countries.           *)
EXTENDS QuoteFlow

CONSTANTS rice, oil, salt, shop, depot, home, abroad, f1, f2, None

MCProduct ==
    [i \in {rice, oil, salt} |->
        CASE i = rice -> [code |-> "R", unit |-> 9, slabs |-> <<[min |-> 1, max |-> 2, price |-> 8],
                                                              [min |-> 3, max |-> None, price |-> 7]>>]
          [] i = oil -> [code |-> "O", unit |-> 5, slabs |-> <<>>]
          [] i = salt -> None]

MCCountryOf == [p \in {shop, depot, home, abroad} |-> IF p \in {shop, home} THEN "IND" ELSE "USA"]

Item(i, q, at, fids, terms) == [id |-> i, locs |-> at, fids |-> fids, qty |-> q, terms |-> terms]
To(f, type, place, terms) == [id |-> f, type |-> type, to |-> place, terms |-> terms]
BuyerTerms == [item |-> "fresh", packaging |-> "boxed"]

\* A purchase with the buyer's terms; a purchase of two items for two places;
\* an import; a sale of a pickup; a purchase of an item twice with mixed fulfillments.
Purchase == [type |-> "purchase", pays |-> <<"cash">>,
             items |-> <<Item(rice, 3, {shop}, {f1}, BuyerTerms)>>,
             fulfillments |-> <<To(f1, "delivery", home, None)>>]
Split == [type |-> "purchase", pays |-> <<"prepaid", "cash">>,
          items |-> <<Item(rice, 1, {shop}, {f1}, None), Item(salt, 1, {shop}, {f2}, None)>>,
          fulfillments |-> <<To(f1, "delivery", home, None), To(f2, "delivery", abroad, "FOB")>>]
Import == [type |-> "purchase", pays |-> <<"prepaid">>,
           items |-> <<Item(oil, 1, {depot}, {f1}, None)>>,
           fulfillments |-> <<To(f1, "delivery", home, "CIF")>>]
Pickup == [type |-> "sale", pays |-> <<"cash">>,
           items |-> <<Item(oil, 2, {shop}, {f1}, None)>>,
           fulfillments |-> <<To(f1, "self_pickup", home, None)>>]
Mixed == [type |-> "purchase", pays |-> <<"cash">>,
          items |-> <<Item(rice, 1, {shop}, {f1}, None), Item(rice, 2, {shop, depot}, {f2}, None)>>,
          fulfillments |-> <<To(f1, "self_pickup", home, None), To(f2, "delivery", home, None)>>]

Answered(i, q, fids, tags) == [id |-> i, locs |-> {shop}, fids |-> fids, qty |-> q, tags |-> tags]
By(f, category, start) == [id |-> f, category |-> category, start |-> start]
Charge(title, id, value) == [title |-> title, id |-> id, value |-> value, price |-> 1]
Pay(type, by, settlement) == [type |-> type, by |-> by, settlement |-> settlement]

\* The quote of one item; of two items from two countries; of the same item
\* twice; of a pickup; and one that repeats a charge and charges for nothing.
One == [items |-> <<Answered(rice, 3, {f1}, ItemTags(BuyerTerms))>>, locs |-> {shop},
        fulfillments |-> <<By(f1, "standard", None)>>,
        breakup |-> <<Charge("item", rice, 21), Charge("tax", rice, 2), Charge("misc", f1, 3)>>,
        total |-> 26, pays |-> <<Pay("cash", "bpp", None)>>]
Two == [items |-> <<Answered(rice, 1, {f1}, None), Answered(salt, 1, {f2}, None)>>, locs |-> {shop, depot},
        fulfillments |-> <<By(f1, "standard", None), By(f2, "express", depot)>>,
        breakup |-> <<Charge("item", rice, 8), Charge("item", salt, 4), Charge("discount", salt, 1),
                      Charge("delivery", f1, 5), Charge("packing", f2, 6)>>,
        total |-> 24, pays |-> <<Pay("prepaid", "bap", None), Pay("cash", "bpp", None)>>]
Twice == [One EXCEPT !.items = <<Answered(rice, 1, {f1}, None), Answered(rice, 2, {f1}, None)>>]
Collect == [One EXCEPT !.fulfillments = <<By(f1, "self_pickup", depot)>>, !.locs = {depot}]
Sloppy == [One EXCEPT !.breakup = <<Charge("item", rice, 21), Charge("item", rice, 20), Charge("tax", oil, 2)>>]

MCOffer == {[arbitration |-> "true", liability |-> "2 percent", pays |-> <<Pay("cash", "bpp", {"seller"})>>],
            [arbitration |-> "", liability |-> "", pays |-> <<Pay("prepaid", "bap", {"bank"}), Pay("cash", "bap", None)>>]}

MCRequest == {Purchase, Split, Import, Pickup, Mixed}
MCAnswer == {One, Two, Twice, Collect, Sloppy}
=============================================================================
