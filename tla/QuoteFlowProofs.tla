--------------------------- MODULE QuoteFlowProofs ---------------------------
(***************************************************************************)
(* Safety of QuoteFlow for any requests, answers, offers and bounds.  The  *)
(* lines and fulfillments of a row never change while the row is there     *)
(* (on_init replaces payments and terms only) and ids are not used again,  *)
(* so a query that finds rows of the order whose head was read finds those *)
(* that were there then; and once an order has terms its payments are      *)
(* always those of an on_init.  What a message says is then what one row   *)
(* says, and every row was stored from one ask and one answer.             *)
(***************************************************************************)
EXTENDS QuoteFlow, FiniteSetTheorems, WellFoundedInduction, TLAPS

IsRow(r) ==
    r = [id |-> r.id, kind |-> r.kind, ask |-> r.ask, answer |-> r.answer,
         lines |-> r.lines, fulfillments |-> r.fulfillments, pays |-> r.pays,
         total |-> r.total, terms |-> r.terms, offer |-> r.offer]

IsRead(r) ==
    r = [kind |-> r.kind, head |-> r.head, lines |-> r.lines, pays |-> r.pays,
         fulfillments |-> r.fulfillments, of |-> r.of]

(* The rows of a requested quote are those of the request.                 *)
RequestedFrom(r) ==
    /\ r.lines = RfqLines(r.ask.req.items)
    /\ r.fulfillments = RfqFulfillments(r.ask.req.fulfillments, r.ask.home)
    /\ r.total = 0

(* The rows of a quoted order are those of the answer, which has no two    *)
(* lines of one code, and of the select message it answers.                *)
QuotedFrom(r) ==
    /\ r.answer \in Answer
    /\ ~LinesConflict(r.answer.items)
    /\ r.lines = QuotedLines(r.answer)
    /\ \E home \in r.answer.locs :
          r.fulfillments = QuotedFulfillments(r.ask.message, r.answer, home)
    /\ r.total = r.answer.total

(* The payments are those of an on_init.                                   *)
Billed(r) == \E offer \in Offer : r.pays = InitPayments(offer.pays)

SoundRow(r) ==
    /\ IsRow(r)
    /\ r.ask \in asked
    /\ r.kind \in {"rfq", "quote"}
    /\ r.kind = "rfq" => RequestedFrom(r)
    /\ r.kind = "quote" => QuotedFrom(r)
    /\ r.terms # Null => Billed(r)

(* No import was selected without a verified licence.                      *)
AskInv == \A ask \in asked : ~ImportRefused(ask.req, ask.home, licence)

RowInv == row # Null => SoundRow(row)

ReadInv ==
    read # Null =>
        /\ IsRead(read)
        /\ SoundRow(read.of)
        /\ read.head = [id |-> read.of.id, total |-> read.of.total, terms |-> read.of.terms]
        /\ read.head.terms # Null /\ read.pays \notin {Null, Empty} => Billed(read)

(* A row with the id that was read has the lines and fulfillments it had,  *)
(* and keeps payments of an on_init if it had terms.                       *)
SameId ==
    row # Null /\ read # Null /\ row.id = read.head.id =>
        /\ row.lines = read.of.lines
        /\ row.fulfillments = read.of.fulfillments
        /\ read.head.terms # Null => Billed(row)

Inv == TypeOK /\ AskInv /\ RowInv /\ ReadInv /\ SameId /\ PartsOfOneOrder

-----------------------------------------------------------------------------
(* Lists.                                                                  *)

LEMMA Lists ==
  ASSUME NEW s, IsList(s)
  PROVE  Len(s) \in Nat /\ DOMAIN s = 1 .. Len(s)
  BY DEF IsList

(* A set of positions that is not empty has a last one.                    *)
LEMMA LastIsThere ==
  ASSUME NEW n \in Nat, NEW ks \in SUBSET (1 .. n), ks # {}
  PROVE  LastOf(ks) \in ks
<1> DEFINE Above(k) == {l \in ks : l > k}
           Aboves == {Above(k) : k \in ks}
           R == StrictSubsetOrdering(ks)
<1>1. IsFiniteSet(ks)
  <2>1. IsFiniteSet(1 .. n)
    BY FS_Interval
  <2> QED BY <2>1, FS_Subset
<1>2. Aboves \subseteq FiniteSubsetsOf(ks) /\ Aboves # {}
  <2>1. \A A \in Aboves : A \in SUBSET ks
    OBVIOUS
  <2>2. \A A \in SUBSET ks : IsFiniteSet(A)
    BY <1>1, FS_Subset
  <2> HIDE DEF Aboves
  <2>3. Aboves \subseteq FiniteSubsetsOf(ks)
    BY <2>1, <2>2 DEF FiniteSubsetsOf
  <2> QED BY <2>3 DEF Aboves
<1>3. IsWellFoundedOn(R, FiniteSubsetsOf(ks))
  BY FS_StrictSubsetOrderingWellFounded
<1>4. PICK A \in Aboves : \A B \in Aboves : ~(<<B, A>> \in R)
  <2> HIDE DEF R, Aboves
  <2> QED BY <1>2, <1>3, WFMin
<1>5. PICK k \in ks : A = Above(k)
  OBVIOUS
<1>6. \A l \in ks : l <= k
  <2> SUFFICES ASSUME NEW l \in ks, ~(l <= k) PROVE FALSE
    OBVIOUS
  <2>1. Above(l) \subseteq A /\ l \in A /\ l \notin Above(l)
    <3>1. k \in Nat /\ \A j \in ks : j \in Nat
      OBVIOUS
    <3>2. l > k /\ ~(l > l)
      BY <3>1
    <3>3. \A j \in ks : j > l => j > k
      BY <3>1, <3>2
    <3>4. l \in Above(k) /\ l \notin Above(l)
      BY <3>2
    <3>5. Above(l) \subseteq Above(k)
      BY <3>3
    <3> HIDE DEF Above
    <3> QED BY <1>5, <3>4, <3>5
  <2>2. <<Above(l), A>> \in R
    BY <2>1, <1>5 DEF StrictSubsetOrdering
  <2> QED BY <1>4, <2>2
<1> QED
  BY <1>6 DEF LastOf
-----------------------------------------------------------------------------

LEMMA InitInv == Init => Inv
  BY MaxRowsAssumption
  DEF Init, Inv, TypeOK, AskInv, RowInv, ReadInv, SameId, PartsOfOneOrder

(* A row stays sound as long as no select is forgotten.                    *)
LEMMA SoundRowStays ==
  ASSUME NEW r, SoundRow(r), asked \subseteq asked'
  PROVE  SoundRow(r)'
  BY DEF SoundRow, IsRow, RequestedFrom, QuotedFrom, Billed

(* A new row has an id nobody has read.                                    *)
LEMMA NewRowInv ==
  ASSUME Inv, NEW kind \in {"rfq", "quote"}, NEW ask \in asked, NEW answer, NEW lines,
         NEW fulfillments, NEW pays, NEW total,
         NewRow(kind, ask, answer, lines, fulfillments, pays, total),
         kind = "rfq" => RequestedFrom(row'), kind = "quote" => QuotedFrom(row'),
         asked' = asked, storing' \subseteq storing, licence' = licence, read' = read
  PROVE  Inv'
<1>1. /\ IsRow(row') /\ row'.id = nextId /\ row'.kind = kind /\ row'.ask = ask
      /\ row'.terms = Null
  BY DEF NewRow, IsRow
<1>2. nextId \in Nat /\ nextId' = nextId + 1 /\ nextId < MaxRows
  BY MaxRowsAssumption DEF NewRow, Inv, TypeOK
<1>3. TypeOK'
  BY <1>1, <1>2, MaxRowsAssumption DEF Inv, TypeOK
<1>4. RowInv'
  <2>1. RequestedFrom(row)' = RequestedFrom(row') /\ QuotedFrom(row)' = QuotedFrom(row')
        /\ IsRow(row)' = IsRow(row')
    BY DEF RequestedFrom, QuotedFrom, IsRow
  <2> QED BY <1>1, <2>1 DEF RowInv, SoundRow
<1>5. SameId'
  BY <1>1, <1>2 DEF Inv, TypeOK, SameId
<1>6. AskInv' /\ PartsOfOneOrder'
  BY DEF Inv, AskInv, PartsOfOneOrder
<1>7. ReadInv'
  BY SoundRowStays DEF Inv, ReadInv, IsRead, Billed
<1> QED
  BY <1>3, <1>4, <1>5, <1>6, <1>7 DEF Inv

(* on_init leaves id, lines and fulfillments alone.                        *)
LEMMA OnInitInv ==
  ASSUME Inv, NEW offer \in Offer, OnInit(offer)
  PROVE  Inv'
<1>1. row # Null /\ SoundRow(row)
  BY DEF OnInit, Inv, RowInv
<1>2. /\ IsRow(row') /\ row'.id = row.id /\ row'.kind = row.kind /\ row'.ask = row.ask
      /\ row'.answer = row.answer /\ row'.lines = row.lines
      /\ row'.fulfillments = row.fulfillments /\ row'.total = row.total
      /\ row'.pays = InitPayments(offer.pays)
  BY <1>1 DEF OnInit, SoundRow, IsRow
<1>3. TypeOK'
  BY <1>1, <1>2 DEF OnInit, Inv, TypeOK
<1>4. Billed(row)'
  BY <1>2 DEF Billed
<1>5. RowInv'
  <2>1. (RequestedFrom(row) => RequestedFrom(row)') /\ (QuotedFrom(row) => QuotedFrom(row)')
    BY <1>2 DEF RequestedFrom, QuotedFrom
  <2>2. IsRow(row)'
    BY <1>2 DEF IsRow
  <2> QED BY <1>1, <1>2, <1>4, <2>1, <2>2 DEF OnInit, RowInv, SoundRow
<1>6. SameId'
  BY <1>1, <1>2, <1>4 DEF OnInit, Inv, SameId
<1>7. AskInv' /\ PartsOfOneOrder'
  BY DEF OnInit, Inv, AskInv, PartsOfOneOrder
<1>8. ReadInv'
  BY SoundRowStays DEF OnInit, Inv, ReadInv, IsRead, Billed
<1> QED
  BY <1>3, <1>5, <1>6, <1>7, <1>8 DEF Inv

LEMMA ReadHeadInv ==
  ASSUME Inv, NEW kind \in ReadKinds, ReadHead(kind)
  PROVE  Inv'
<1>1. /\ IsRead(read') /\ read'.kind = kind /\ read'.of = row
      /\ read'.head = [id |-> row.id, total |-> row.total, terms |-> row.terms]
      /\ read'.lines = Null /\ read'.pays = Null /\ read'.fulfillments = Null
  BY DEF ReadHead, IsRead
<1>2. row # Null /\ SoundRow(row) /\ UNCHANGED <<licence, asked, storing, row, nextId>>
  BY DEF ReadHead, Inv, RowInv
<1>3. TypeOK' /\ PartsOfOneOrder'
  BY <1>1, <1>2 DEF Inv, TypeOK, PartsOfOneOrder
<1>4. SameId'
  BY <1>1, <1>2 DEF SameId, SoundRow, Billed
<1>5. ReadInv'
  <2>1. SoundRow(read.of)'
    BY <1>1, <1>2, SoundRowStays
  <2>2. IsRead(read)'
    BY <1>1 DEF IsRead
  <2> QED BY <1>1, <2>1, <2>2 DEF ReadInv
<1>6. RowInv' /\ AskInv'
  BY <1>2, SoundRowStays DEF Inv, RowInv, AskInv
<1> QED
  BY <1>3, <1>4, <1>5, <1>6 DEF Inv

(* The three queries after the head.                                       *)
LEMMA ReadPartInv ==
  ASSUME Inv, ReadLines \/ ReadPayments \/ (ReadFulfillments /\ read' # Null)
  PROVE  Inv'
<1>1. read # Null /\ IsRead(read) /\ UNCHANGED <<licence, asked, storing, row, nextId>>
  BY DEF ReadLines, ReadPayments, ReadFulfillments, Inv, ReadInv
<1>2. \A part \in {"lines", "fulfillments"} : Part(part) \in {Empty, read.of[part]}
  BY <1>1 DEF Part, Inv, SameId
<1>3. /\ IsRead(read') /\ read'.kind = read.kind /\ read'.head = read.head /\ read'.of = read.of
      /\ read'.lines \in {read.lines, Part("lines")}
      /\ read'.pays \in {read.pays, Part("pays")}
      /\ read'.fulfillments \in {read.fulfillments, Part("fulfillments")}
  BY <1>1 DEF ReadLines, ReadPayments, ReadFulfillments, IsRead
<1>4. TypeOK'
  BY <1>1, <1>3 DEF Inv, TypeOK
<1>5. PartsOfOneOrder'
  BY <1>1, <1>2, <1>3 DEF Inv, PartsOfOneOrder
<1>6. SameId'
  BY <1>1, <1>3 DEF Inv, SameId, Billed
<1>7. ReadInv'
  <2>1. read.head.terms # Null /\ Part("pays") # Empty =>
           \E offer \in Offer : Part("pays") = InitPayments(offer.pays)
    BY <1>1 DEF Part, Inv, SameId, Billed
  <2>2. SoundRow(read.of)'
    BY <1>1, <1>3, SoundRowStays DEF Inv, ReadInv
  <2>3. IsRead(read)'
    BY <1>3 DEF IsRead
  <2>4. read'.head = [id |-> read'.of.id, total |-> read'.of.total, terms |-> read'.of.terms]
    BY <1>1, <1>3 DEF Inv, ReadInv
  <2>5. read'.head.terms # Null /\ read'.pays \notin {Null, Empty} => Billed(read)'
    BY <1>1, <1>3, <2>1 DEF Inv, ReadInv, Billed
  <2> QED BY <2>2, <2>3, <2>4, <2>5 DEF ReadInv
<1>8. RowInv' /\ AskInv'
  BY <1>1, SoundRowStays DEF Inv, RowInv, AskInv
<1> QED
  BY <1>4, <1>5, <1>6, <1>7, <1>8 DEF Inv

(* A read that failed or was sent is forgotten.                            *)
LEMMA ForgetInv ==
  ASSUME Inv, read' = Null, UNCHANGED <<licence, asked, storing, row, nextId>>
  PROVE  Inv'
  BY SoundRowStays DEF Inv, TypeOK, AskInv, RowInv, ReadInv, SameId, PartsOfOneOrder

LEMMA SelectInv ==
  ASSUME Inv, NEW req \in Request, Select(req)
  PROVE  Inv'
<1>1. PICK home \in SelectLocations(req) :
         /\ ~ImportRefused(req, home, licence)
         /\ asked' = asked \cup {[req |-> req, home |-> home,
                                  message |-> SelectMessage(req, home)]}
         /\ storing' \subseteq storing \cup {[req |-> req, home |-> home,
                                  message |-> SelectMessage(req, home)]}
  BY DEF Select
<1>2. UNCHANGED <<licence, row, nextId, read>>
  BY DEF Select
<1>3. TypeOK' /\ AskInv'
  BY <1>1, <1>2 DEF Inv, TypeOK, AskInv
<1>4. RowInv' /\ ReadInv'
  BY <1>1, <1>2, SoundRowStays DEF Inv, RowInv, ReadInv, IsRead, Billed
<1>5. SameId' /\ PartsOfOneOrder'
  BY <1>2 DEF Inv, SameId, Billed, PartsOfOneOrder
<1> QED
  BY <1>3, <1>4, <1>5 DEF Inv

LEMMA StepInv == Inv /\ [Next]_vars => Inv'
<1> SUFFICES ASSUME Inv, [Next]_vars
             PROVE  Inv'
  OBVIOUS
<1>1. ASSUME NEW req \in Request, Select(req)
      PROVE  Inv'
  BY <1>1, SelectInv
<1>2. ASSUME NEW ask \in storing, StoreRfq(ask)
      PROVE  Inv'
  <2>1. ask \in asked /\ storing' \subseteq storing
    BY <1>2 DEF StoreRfq, Inv, TypeOK
  <2>2. RequestedFrom(row')
    BY <1>2 DEF StoreRfq, NewRow, RequestedFrom
  <2> QED
    BY <1>2, <2>1, <2>2, NewRowInv DEF StoreRfq
<1>3. ASSUME NEW ask \in asked, NEW answer \in Answer, OnSelect(ask, answer)
      PROVE  Inv'
  <2>1. PICK home \in answer.locs :
           /\ ~LinesConflict(answer.items)
           /\ NewRow("quote", ask, answer, QuotedLines(answer),
                     QuotedFulfillments(ask.message, answer, home), QuotedPayments(answer.pays),
                     answer.total)
           /\ UNCHANGED <<licence, asked, storing, read>>
    BY <1>3 DEF OnSelect
  <2>2. QuotedFrom(row')
    BY <2>1 DEF NewRow, QuotedFrom
  <2> QED
    BY <2>1, <2>2, NewRowInv
<1>4. ASSUME NEW offer \in Offer, OnInit(offer)
      PROVE  Inv'
  BY <1>4, OnInitInv
<1>5. ASSUME NEW kind \in ReadKinds, ReadHead(kind)
      PROVE  Inv'
  BY <1>5, ReadHeadInv
<1>6. CASE ReadLines \/ ReadPayments
  BY <1>6, ReadPartInv
<1>7. CASE ReadFulfillments
  BY <1>7, ReadPartInv, ForgetInv DEF ReadFulfillments
<1>8. CASE Send
  BY <1>8, ForgetInv DEF Send
<1>9. CASE UNCHANGED vars
  BY <1>9, SoundRowStays
  DEF vars, Inv, TypeOK, AskInv, RowInv, ReadInv, IsRead, Billed, SameId, PartsOfOneOrder
<1> QED
  BY <1>1, <1>2, <1>3, <1>4, <1>5, <1>6, <1>7, <1>8, <1>9 DEF Next

\* The inductive invariant of the contents of an order.
THEOREM InvariantHolds == Spec => []Inv
BY InitInv, StepInv, PTL DEF Spec

\* Every reachable state of QuoteFlow is well typed.
THEOREM TypeCorrect == Spec => []TypeOK
<1>1. Inv => TypeOK
  BY DEF Inv
<1> QED
  BY <1>1, InvariantHolds, PTL

\* What an endpoint has put together from four queries outside any
\* transaction is of one order, whatever is stored between them.
THEOREM ReadsAreOfOneOrder == Spec => []PartsOfOneOrder
<1>1. Inv => PartsOfOneOrder
  BY DEF Inv
<1> QED
  BY <1>1, InvariantHolds, PTL

\* Every item of the answer a quoted order was stored from has its line.
THEOREM NoQuotedItemIsLost == Spec => []QuotedItemsAreStored
<1>1. Inv => QuotedItemsAreStored
  <2> SUFFICES ASSUME Inv, row # Null, row.kind = "quote",
                      NEW k \in DOMAIN row.answer.items
               PROVE  /\ k \in DOMAIN row.lines
                      /\ row.lines[k].id = row.answer.items[k].id
                      /\ row.lines[k].qty = row.answer.items[k].qty
                      /\ row.lines[k].fids = row.answer.items[k].fids
    BY DEF QuotedItemsAreStored
  <2>1. /\ row.answer \in Answer /\ ~LinesConflict(row.answer.items)
        /\ row.lines = QuotedLines(row.answer)
    BY DEF Inv, RowInv, SoundRow, QuotedFrom
  <2>2. k \in RfqKept(row.answer.items)
    <3>1. DOMAIN row.answer.items \subseteq Nat
      BY <2>1, AnswerAssumption, Lists
    <3> QED
      BY <2>1, <3>1 DEF LinesConflict, RfqKept
  <2> QED
    BY <2>1, <2>2 DEF QuotedLines
<1> QED
  BY <1>1, InvariantHolds, PTL

-----------------------------------------------------------------------------
(* What is sent.                                                           *)

(* Only Send sends an init or a confirm, and the licence stays as it is.   *)
LEMMA OnlySendTells ==
  ASSUME [Next]_vars
  PROVE  licence' = licence /\ (told' = told \/ Send \/ ~OrderSent')
<1>1. ASSUME NEW req \in Request, Select(req)
      PROVE  licence' = licence /\ ~OrderSent'
  BY <1>1 DEF Select, OrderSent, SelectMessage
<1>2. told' = Nothing => ~OrderSent'
  BY DEF OrderSent, Nothing
<1>3. \/ Send \/ UNCHANGED vars \/ \E req \in Request : Select(req)
      \/ told' = Nothing /\ licence' = licence
  BY DEF Next, StoreRfq, OnSelect, OnInit, ReadHead, ReadLines, ReadPayments,
         ReadFulfillments
<1> QED
  BY <1>1, <1>2, <1>3 DEF vars, Send

(* A message is built from the lines and fulfillments of one sound row.    *)
LEMMA SentOrder ==
  ASSUME Inv, Send, OrderSent'
  PROVE  /\ told'.of = read.of /\ SoundRow(read.of)
         /\ read.of.ask \in asked
         /\ told'.msg.body = OrderBody(Order(read).lines, Order(read).fulfillments)
         /\ Confirmed' => told'.msg = ConfirmMessage(Order(read)) /\ read.head.terms # Null
<1>1. /\ read # Null /\ ~Unbilled(read) /\ told' = [msg |-> Message(Order(read)), of |-> read.of]
      /\ IsRead(read) /\ SoundRow(read.of) /\ read.kind \in ReadKinds
  BY DEF Send, OrderSent, Nothing, Inv, ReadInv, TypeOK
<1>2. Order(read).kind = read.kind
  BY <1>1 DEF Order, IsRead
<1>3. CASE read.kind = "init"
  BY <1>1, <1>2, <1>3 DEF Message, InitMessage, SoundRow, Confirmed
<1>4. CASE read.kind = "confirm"
  BY <1>1, <1>2, <1>4 DEF Message, ConfirmMessage, SoundRow, Unbilled
<1>5. CASE read.kind = "update"
  BY <1>1, <1>2, <1>5 DEF Message, UpdateMessage, OrderSent
<1>6. CASE read.kind \in {"status", "cancel"}
  BY <1>1, <1>2, <1>6 DEF Message, ReferenceMessage, OrderSent
<1> QED
  BY <1>1, <1>3, <1>4, <1>5, <1>6 DEF ReadKinds

(* Each fulfillment it sends is one of that row.                           *)
LEMMA SentFulfillments ==
  ASSUME Inv, Send, OrderSent', NEW k \in DOMAIN told'.msg.body.fulfillments
  PROVE  /\ k \in DOMAIN read.of.fulfillments
         /\ told'.msg.body.fulfillments[k] =
               OrderFulfillment(OrderDelivery(read.of.fulfillments[k]))
<1>1. read.fulfillments \in {Empty, read.of.fulfillments} /\ IsRead(read)
  BY DEF Send, Inv, PartsOfOneOrder, ReadInv
<1>2. Order(read).fulfillments =
         [l \in DOMAIN read.fulfillments |-> OrderDelivery(read.fulfillments[l])]
  BY <1>1 DEF Order, IsRead
<1>3. /\ k \in DOMAIN read.fulfillments
      /\ told'.msg.body.fulfillments[k] = OrderFulfillment(OrderDelivery(read.fulfillments[k]))
  BY <1>2, SentOrder DEF OrderBody
<1> QED
  BY <1>1, <1>3 DEF Empty

(* The first fulfillment of a select message has a place for a delivery    *)
(* only.                                                                   *)
LEMMA FirstSelected ==
  ASSUME Inv, NEW ask \in asked
  PROVE  /\ 1 \in DOMAIN ask.req.fulfillments
         /\ ask.req.fulfillments[1].to # Null
         /\ ask.message.fulfillments[1].end =
               IF ask.req.fulfillments[1].type = "delivery"
               THEN ask.req.fulfillments[1].to ELSE Null
<1>1. ask.req \in Request /\ ask.message = SelectMessage(ask.req, ask.home)
  BY DEF Inv, TypeOK
<1>2. 1 \in DOMAIN ask.req.fulfillments
  <2>1. IsList(ask.req.fulfillments) /\ ask.req.fulfillments # <<>>
    BY <1>1, RequestAssumption
  <2> QED BY <2>1 DEF IsList
<1> QED
  BY <1>1, <1>2, RequestAssumption DEF SelectMessage, SelectFulfillment

IsFulfillmentRow(f) ==
    f = [id |-> f.id, type |-> f.type, drop |-> f.drop, pickup |-> f.pickup,
         terms |-> f.terms, trade |-> f.trade, packing |-> f.packing,
         delivery |-> f.delivery, misc |-> f.misc]

(* Reading a row takes the place out of its drop off and nothing else.     *)
LEMMA DeliveryOfRow ==
  ASSUME NEW f, IsFulfillmentRow(f)
  PROVE  OrderDelivery(f) =
            [id |-> f.id, type |-> f.type, drop |-> f.drop.to, pickup |-> f.pickup,
             terms |-> f.terms, trade |-> f.trade, packing |-> f.packing,
             delivery |-> f.delivery, misc |-> f.misc]
  BY DEF IsFulfillmentRow, OrderDelivery

LEMMA LicenceOfRow ==
  ASSUME NEW f, IsFulfillmentRow(f), OrderFulfillment(OrderDelivery(f)).licence
  PROVE  f.trade = "import"
<1>1. OrderDelivery(f).trade = f.trade
  BY DeliveryOfRow
<1> QED
  BY <1>1 DEF OrderFulfillment

(* The row of a fulfillment of an answer, and of a request.                *)
LEMMA QuotedRow ==
  ASSUME NEW select, NEW answer, NEW home, NEW k \in DOMAIN answer.fulfillments
  PROVE  LET f == QuotedFulfillments(select, answer, home)[k]
             g == answer.fulfillments[k]
             to == select.fulfillments[1].end
         IN /\ IsFulfillmentRow(f)
            /\ f.id = g.id
            /\ f.type = IF g.category = "self_pickup" THEN "self_pickup" ELSE "delivery"
            /\ f.drop = DropOff(select)
            /\ f.trade = IF to = Null THEN Null ELSE TradeType(home, to)
            /\ f.packing = ValueOf(answer.breakup, "packing", g.id)
            /\ f.delivery = ValueOf(answer.breakup, "delivery", g.id)
            /\ f.misc = ValueOf(answer.breakup, "misc", g.id)
<1> DEFINE f == QuotedFulfillments(select, answer, home)[k]
<1>1. f = [id |-> answer.fulfillments[k].id,
           type |-> IF answer.fulfillments[k].category = "self_pickup"
                    THEN "self_pickup" ELSE "delivery",
           drop |-> DropOff(select),
           pickup |-> PickUp(answer.fulfillments[k], home),
           terms |-> select.fulfillments[1].tags,
           trade |-> IF select.fulfillments[1].end = Null THEN Null
                     ELSE TradeType(home, select.fulfillments[1].end),
           packing |-> ValueOf(answer.breakup, "packing", answer.fulfillments[k].id),
           delivery |-> ValueOf(answer.breakup, "delivery", answer.fulfillments[k].id),
           misc |-> ValueOf(answer.breakup, "misc", answer.fulfillments[k].id)]
  BY Zenon DEF QuotedFulfillments
<1> HIDE DEF f
<1>2. IsFulfillmentRow(f)
  BY <1>1 DEF IsFulfillmentRow
<1>3. /\ f.id = answer.fulfillments[k].id
      /\ f.type = IF answer.fulfillments[k].category = "self_pickup"
                  THEN "self_pickup" ELSE "delivery"
      /\ f.drop = DropOff(select)
      /\ f.trade = IF select.fulfillments[1].end = Null THEN Null
                   ELSE TradeType(home, select.fulfillments[1].end)
      /\ f.packing = ValueOf(answer.breakup, "packing", answer.fulfillments[k].id)
      /\ f.delivery = ValueOf(answer.breakup, "delivery", answer.fulfillments[k].id)
      /\ f.misc = ValueOf(answer.breakup, "misc", answer.fulfillments[k].id)
  BY <1>1
<1> QED
  BY <1>2, <1>3 DEF f

LEMMA RequestedRow ==
  ASSUME NEW fulfillments, NEW home, NEW k \in DOMAIN fulfillments
  PROVE  LET f == RfqFulfillments(fulfillments, home)[k]
         IN /\ IsFulfillmentRow(f)
            /\ f.drop = IF k <= Cardinality(Deliveries(fulfillments))
                        THEN [to |-> fulfillments[NthDelivery(fulfillments, k)].to] ELSE Null
            /\ f.trade = TradeType(home, fulfillments[k].to)
            /\ f.packing = 0 /\ f.delivery = 0 /\ f.misc = 0
<1> DEFINE f == RfqFulfillments(fulfillments, home)[k]
<1>1. f = [id |-> fulfillments[k].id, type |-> fulfillments[k].type,
           drop |-> IF k <= Cardinality(Deliveries(fulfillments))
                    THEN [to |-> fulfillments[NthDelivery(fulfillments, k)].to] ELSE Null,
           pickup |-> home, terms |-> fulfillments[k].terms,
           trade |-> TradeType(home, fulfillments[k].to),
           packing |-> 0, delivery |-> 0, misc |-> 0]
  BY Zenon DEF RfqFulfillments
<1> HIDE DEF f
<1>2. IsFulfillmentRow(f)
  BY <1>1 DEF IsFulfillmentRow
<1>3. /\ f.drop = IF k <= Cardinality(Deliveries(fulfillments))
                  THEN [to |-> fulfillments[NthDelivery(fulfillments, k)].to] ELSE Null
      /\ f.trade = TradeType(home, fulfillments[k].to)
      /\ f.packing = 0 /\ f.delivery = 0 /\ f.misc = 0
  BY <1>1
<1> QED
  BY <1>2, <1>3 DEF f

(* The fulfillment of a quoted order goes to that place.                   *)
LEMMA QuotedFulfillment ==
  ASSUME NEW r, QuotedFrom(r), NEW k \in DOMAIN r.fulfillments
  PROVE  \E home \in r.answer.locs :
           LET to == r.ask.message.fulfillments[1].end
               f == OrderFulfillment(OrderDelivery(r.fulfillments[k]))
           IN /\ f.type = r.fulfillments[k].type /\ f.type \in FulfillmentType
              /\ f.stops = (IF to # Null THEN {[type |-> "end", at |-> to]} ELSE {}) \cup
                           (IF f.type = "self_pickup"
                            THEN {[type |-> "start", at |-> r.fulfillments[k].pickup]} ELSE {})
              /\ f.licence => to # Null /\ TradeType(home, to) = "import"
<1> DEFINE to == r.ask.message.fulfillments[1].end
           f == OrderFulfillment(OrderDelivery(r.fulfillments[k]))
<1>1. PICK home \in r.answer.locs :
         r.fulfillments = QuotedFulfillments(r.ask.message, r.answer, home)
  BY DEF QuotedFrom
<1>2. /\ IsFulfillmentRow(r.fulfillments[k])
      /\ r.fulfillments[k].drop = [to |-> to]
      /\ r.fulfillments[k].trade = IF to = Null THEN Null ELSE TradeType(home, to)
      /\ r.fulfillments[k].type \in FulfillmentType
  <2>1. k \in DOMAIN r.answer.fulfillments
    BY <1>1 DEF QuotedFulfillments
  <2> QED BY <1>1, <2>1, QuotedRow DEF DropOff, FulfillmentType
<1>3. /\ OrderDelivery(r.fulfillments[k]).drop = to
      /\ OrderDelivery(r.fulfillments[k]).type = r.fulfillments[k].type
      /\ OrderDelivery(r.fulfillments[k]).pickup = r.fulfillments[k].pickup
      /\ OrderDelivery(r.fulfillments[k]).trade = r.fulfillments[k].trade
  BY <1>2, DeliveryOfRow
<1> QED
  BY <1>2, <1>3, NullAssumption DEF OrderFulfillment, Stops

\* An init or a confirm sends a delivery to the place the buyer asked for, and
\* has a self pickup start at the seller's.
THEOREM StopsAreThoseAskedFor == Spec => []StopsAreRight
<1>1. Init => StopsAreRight
  BY DEF Init, StopsAreRight, OrderSent, Nothing
<1>2. ASSUME Inv, StopsAreRight, [Next]_vars
      PROVE  StopsAreRight'
  <2>1. CASE told' = told
    BY <1>2, <2>1 DEF StopsAreRight, OrderSent, OneDestination
  <2>2. CASE Send
    <3> DEFINE r == read.of
               first == r.ask.req.fulfillments[1]
    <3> SUFFICES ASSUME OrderSent', r.kind = "quote", OneDestination(r),
                        NEW k \in DOMAIN told'.msg.body.fulfillments
                 PROVE  LET f == told'.msg.body.fulfillments[k]
                        IN IF f.type = "delivery"
                           THEN f.stops = {[type |-> "end", at |-> first.to]}
                           ELSE f.stops = {[type |-> "start", at |-> r.fulfillments[k].pickup]}
      <4>1. OrderSent' => told'.of = r
        BY <1>2, <2>2, SentOrder
      <4>2. OneDestination(told.of)' = OneDestination(told'.of)
        BY DEF OneDestination
      <4> QED BY <4>1, <4>2 DEF StopsAreRight
    <3>1. QuotedFrom(r) /\ r.ask \in asked
      BY <1>2, <2>2, SentOrder DEF SoundRow
    <3>2. /\ k \in DOMAIN r.fulfillments
          /\ told'.msg.body.fulfillments[k] = OrderFulfillment(OrderDelivery(r.fulfillments[k]))
      BY <1>2, <2>2, SentFulfillments
    <3>3. r.fulfillments[k].type = first.type
      BY <3>2 DEF OneDestination
    <3> QED
      BY <1>2, <3>1, <3>2, <3>3, QuotedFulfillment, FirstSelected DEF FulfillmentType
  <2> QED
    BY <1>2, <2>1, <2>2, OnlySendTells DEF StopsAreRight
<1> QED
  BY <1>1, <1>2, InvariantHolds, PTL DEF Spec

\* An order of a seller of one country goes out as an import only with a
\* verified licence.
THEOREM ImportsHaveALicence == Spec => []ImportsAreLicensed
<1>1. Init => ImportsAreLicensed
  BY DEF Init, ImportsAreLicensed, OrderSent, Nothing
<1>2. ASSUME Inv, ImportsAreLicensed, [Next]_vars
      PROVE  ImportsAreLicensed'
  <2>0. licence' = licence
    BY <1>2, OnlySendTells
  <2>1. CASE told' = told
    BY <1>2, <2>0, <2>1 DEF ImportsAreLicensed, OrderSent, OneCountry
  <2>2. CASE Send
    <3> DEFINE r == read.of
               req == r.ask.req
    <3> SUFFICES ASSUME OrderSent', OneCountry(r),
                        NEW k \in DOMAIN told'.msg.body.fulfillments,
                        told'.msg.body.fulfillments[k].licence
                 PROVE  licence = "verified"
      <4>1. OrderSent' => told'.of = r
        BY <1>2, <2>2, SentOrder
      <4>2. OneCountry(told.of)' = OneCountry(told'.of)
        BY DEF OneCountry
      <4> QED BY <2>0, <4>1, <4>2 DEF ImportsAreLicensed
    <3>1. SoundRow(r) /\ r.ask \in asked
      BY <1>2, <2>2, SentOrder
    <3>2. /\ req \in Request /\ r.ask.home \in SelectLocations(req)
          /\ ~ImportRefused(req, r.ask.home, licence)
      BY <1>2, <3>1 DEF Inv, TypeOK, AskInv
    <3>3. /\ k \in DOMAIN r.fulfillments
          /\ told'.msg.body.fulfillments[k] = OrderFulfillment(OrderDelivery(r.fulfillments[k]))
      BY <1>2, <2>2, SentFulfillments
    <3>4. \E l \in DOMAIN req.fulfillments : TradeType(r.ask.home, req.fulfillments[l].to) = "import"
      <4>1. CASE r.kind = "rfq"
        <5>1. r.fulfillments = RfqFulfillments(req.fulfillments, r.ask.home)
          BY <3>1, <4>1 DEF SoundRow, RequestedFrom
        <5>2. /\ k \in DOMAIN req.fulfillments
              /\ IsFulfillmentRow(r.fulfillments[k])
              /\ r.fulfillments[k].trade = TradeType(r.ask.home, req.fulfillments[k].to)
          <6>1. k \in DOMAIN req.fulfillments
            BY <3>3, <5>1 DEF RfqFulfillments
          <6>2. LET f == RfqFulfillments(req.fulfillments, r.ask.home)[k]
                IN IsFulfillmentRow(f) /\ f.trade = TradeType(r.ask.home, req.fulfillments[k].to)
            <7> HIDE DEF req
            <7> QED BY <6>1, RequestedRow
          <6> QED BY <5>1, <6>1, <6>2
        <5>3. r.fulfillments[k].trade = "import"
          <6> HIDE DEF r
          <6> QED BY <3>3, <5>2, LicenceOfRow
        <5> QED BY <5>2, <5>3
      <4>2. CASE r.kind = "quote"
        <5>1. QuotedFrom(r)
          BY <3>1, <4>2 DEF SoundRow
        <5>2. PICK home \in r.answer.locs :
                 LET to == r.ask.message.fulfillments[1].end
                 IN to # Null /\ TradeType(home, to) = "import"
          BY <3>3, <5>1, QuotedFulfillment
        <5>3. /\ 1 \in DOMAIN req.fulfillments
              /\ TradeType(home, req.fulfillments[1].to) = "import"
          BY <1>2, <3>1, <5>2, FirstSelected
        <5>4. CountryOf[home] = CountryOf[r.ask.home]
          BY <3>2, <4>2 DEF OneCountry
        <5> QED BY <5>3, <5>4 DEF TradeType
      <4> QED BY <3>1, <4>1, <4>2 DEF SoundRow
    <3> QED
      BY <3>2, <3>4 DEF ImportRefused
  <2> QED
    BY <1>2, <2>1, <2>2, OnlySendTells DEF ImportsAreLicensed
<1> QED
  BY <1>1, <1>2, InvariantHolds, PTL DEF Spec

(* A payment read from the row of an on_init is confirmed as it was offered. *)
LEMMA SettledAsOffered ==
  ASSUME NEW pays, NEW total, \A k \in DOMAIN pays : pays[k].by # Null
  PROVE  LET rows == InitPayments(pays)
             sent == ConfirmPays([k \in DOMAIN rows |-> OrderPayment(rows[k])], total)
         IN /\ DOMAIN sent = DOMAIN pays
            /\ \A k \in DOMAIN pays : /\ sent[k].type = pays[k].type
                                      /\ sent[k].by = pays[k].by
                                      /\ sent[k].settlement = Settlement(pays[k])
<1> DEFINE rows == InitPayments(pays)
           read0 == [k \in DOMAIN rows |-> OrderPayment(rows[k])]
<1>1. /\ DOMAIN read0 = DOMAIN pays
      /\ \A k \in DOMAIN pays :
            /\ read0[k].type = pays[k].type /\ read0[k].by = pays[k].by
            /\ read0[k].settlement = IF pays[k].settlement = Null THEN {} ELSE pays[k].settlement
  BY DEF InitPayments, OrderPayment
<1> HIDE DEF read0
<1> QED
  BY <1>1 DEF ConfirmPays, Settlement, read0

\* The payments of a confirm are those of one on_init, and settled as it said.
THEOREM SettlementsAreAgreed == Spec => []SettlementIsAgreed
<1>1. Init => SettlementIsAgreed
  BY DEF Init, SettlementIsAgreed, Confirmed, Nothing
<1>2. ASSUME Inv, SettlementIsAgreed, [Next]_vars
      PROVE  SettlementIsAgreed'
  <2>1. CASE told' = told
    BY <1>2, <2>1 DEF SettlementIsAgreed, Confirmed
  <2>2. CASE Send
    <3> SUFFICES ASSUME Confirmed', DOMAIN told'.msg.pays # {}
                 PROVE  \E offer \in Offer :
                          /\ DOMAIN told'.msg.pays = DOMAIN offer.pays
                          /\ \A k \in DOMAIN offer.pays :
                                /\ told'.msg.pays[k].type = offer.pays[k].type
                                /\ told'.msg.pays[k].by = offer.pays[k].by
                                /\ told'.msg.pays[k].settlement = Settlement(offer.pays[k])
      BY DEF SettlementIsAgreed
    <3>1. told'.msg = ConfirmMessage(Order(read)) /\ read.head.terms # Null
      BY <1>2, <2>2, SentOrder DEF Confirmed, OrderSent
    <3>2. IsRead(read) /\ read.pays # Null
      BY <1>2, <2>2 DEF Send, Inv, ReadInv
    <3>3. told'.msg.pays =
             ConfirmPays([k \in DOMAIN read.pays |-> OrderPayment(read.pays[k])], read.head.total)
      BY <3>1, <3>2 DEF ConfirmMessage, Order, IsRead
    <3>4. read.pays # Empty
      BY <3>3 DEF ConfirmPays, Empty
    <3>5. PICK offer \in Offer : read.pays = InitPayments(offer.pays)
      BY <1>2, <2>2, <3>1, <3>2, <3>4 DEF Send, Inv, ReadInv, Billed
    <3>6. \A k \in DOMAIN offer.pays : offer.pays[k].by # Null
      BY OfferAssumption
    <3>7. ASSUME NEW total
          PROVE  LET rows == InitPayments(offer.pays)
                     sent == ConfirmPays([k \in DOMAIN rows |-> OrderPayment(rows[k])], total)
                 IN /\ DOMAIN sent = DOMAIN offer.pays
                    /\ \A k \in DOMAIN offer.pays :
                          /\ sent[k].type = offer.pays[k].type
                          /\ sent[k].by = offer.pays[k].by
                          /\ sent[k].settlement = Settlement(offer.pays[k])
      BY <3>6, SettledAsOffered
    <3> QED
      BY <3>3, <3>5, <3>7
  <2> QED
    BY <1>2, <2>1, <2>2, OnlySendTells DEF SettlementIsAgreed, Confirmed, OrderSent
<1> QED
  BY <1>1, <1>2, InvariantHolds, PTL DEF Spec

(* Of deliveries only, every one has its drop off.                         *)
LEMMA DeliveriesHaveDropOffs ==
  ASSUME NEW req \in Request, NEW home, NEW k \in DOMAIN req.fulfillments,
         \A l \in DOMAIN req.fulfillments : req.fulfillments[l].type = "delivery"
  PROVE  RfqFulfillments(req.fulfillments, home)[k].drop # Null
<1> DEFINE fs == req.fulfillments
           n == Len(fs)
<1>1. n \in Nat /\ DOMAIN fs = 1 .. n
  BY RequestAssumption, Lists
<1>2. Deliveries(fs) = 1 .. n
  BY <1>1 DEF Deliveries
<1>3. \A m \in 1 .. n : Cardinality(1 .. m) = m
  BY <1>1, FS_Interval
<1>4. n = 0 \/ Cardinality(1 .. n) = n
  BY <1>1, <1>3
<1>5. k \in 1 .. n /\ k <= Cardinality(Deliveries(fs))
  BY <1>1, <1>2, <1>4
<1>6. {e \in Deliveries(fs) : e <= k} = 1 .. k
  BY <1>1, <1>2, <1>5
<1>7. NthDelivery(fs, k) \in DOMAIN fs
  BY <1>1, <1>2, <1>3, <1>5, <1>6 DEF NthDelivery
<1> HIDE DEF fs
<1>8. RfqFulfillments(fs, home)[k].drop = [to |-> fs[NthDelivery(fs, k)].to]
  BY <1>1, <1>5, RequestedRow
<1> QED
  BY <1>7, <1>8, NullAssumption DEF fs

LEMMA QuotedDropOff ==
  ASSUME NEW r, QuotedFrom(r), NEW k \in DOMAIN r.fulfillments
  PROVE  r.fulfillments[k].drop = [to |-> r.ask.message.fulfillments[1].end]
<1>1. PICK home : r.fulfillments = QuotedFulfillments(r.ask.message, r.answer, home)
  BY DEF QuotedFrom
<1>2. k \in DOMAIN r.answer.fulfillments
  BY <1>1 DEF QuotedFulfillments
<1> QED
  BY <1>1, <1>2, QuotedRow DEF DropOff

\* A row that cannot be read is that of a requested quote with a pickup.
THEOREM PickupsAreUnreadable == Spec => []OnlyPickupsAreUnreadable
<1>1. Inv => OnlyPickupsAreUnreadable
  <2> SUFFICES ASSUME Inv, row # Null, NEW k \in DOMAIN row.fulfillments,
                      row.fulfillments[k].drop = Null
               PROVE  /\ row.kind = "rfq"
                      /\ \E l \in DOMAIN row.ask.req.fulfillments :
                            row.ask.req.fulfillments[l].type = "self_pickup"
    BY DEF OnlyPickupsAreUnreadable, Readable
  <2>1. SoundRow(row) /\ row.ask \in asked /\ row.ask.req \in Request
    BY DEF Inv, RowInv, SoundRow, TypeOK
  <2>2. row.kind = "rfq"
    <3> SUFFICES ASSUME QuotedFrom(row) PROVE FALSE
      BY <2>1 DEF SoundRow
    <3> DEFINE to == row.ask.message.fulfillments[1].end
    <3>1. row.fulfillments[k].drop = [to |-> to]
      BY QuotedDropOff
    <3>2. \/ to = Null
          \/ 1 \in DOMAIN row.ask.req.fulfillments /\ to = row.ask.req.fulfillments[1].to
      BY <2>1, FirstSelected
    <3> QED BY <2>1, <3>1, <3>2, NullAssumption
  <2>3. row.fulfillments = RfqFulfillments(row.ask.req.fulfillments, row.ask.home)
    BY <2>1, <2>2 DEF SoundRow, RequestedFrom
  <2>4. k \in DOMAIN row.ask.req.fulfillments
    BY <2>3 DEF RfqFulfillments
  <2>5. ~ \A l \in DOMAIN row.ask.req.fulfillments : row.ask.req.fulfillments[l].type = "delivery"
    BY <2>1, <2>3, <2>4, DeliveriesHaveDropOffs
  <2>6. \A l \in DOMAIN row.ask.req.fulfillments :
           row.ask.req.fulfillments[l].type \in {"delivery", "self_pickup"}
    BY <2>1, RequestAssumption DEF FulfillmentType
  <2> QED
    BY <2>2, <2>5, <2>6
<1> QED
  BY <1>1, InvariantHolds, PTL

-----------------------------------------------------------------------------
(* Charges.                                                                *)

(* A value of a quote is that of one of its entries.                       *)
LEMMA ValueIsQuoted ==
  ASSUME NEW breakup, IsList(breakup), NEW title, NEW id, ValueOf(breakup, title, id) # 0
  PROVE  \E k \in DOMAIN breakup : /\ breakup[k].title = title /\ breakup[k].id = id
                                   /\ breakup[k].value = ValueOf(breakup, title, id)
<1> DEFINE ks == Quoted(breakup, title, id)
<1>1. Len(breakup) \in Nat /\ ks \in SUBSET (1 .. Len(breakup))
  BY Lists DEF Quoted
<1>2. ks # {} /\ ValueOf(breakup, title, id) = breakup[LastOf(ks)].value
  BY DEF ValueOf
<1>3. LastOf(ks) \in ks
  <2> HIDE DEF ks
  <2> QED BY <1>1, <1>2, LastIsThere
<1> QED
  BY <1>2, <1>3 DEF Quoted

(* An entry that is the only one of its title and id is the value.         *)
LEMMA OnlyEntry ==
  ASSUME NEW breakup, IsList(breakup), NEW k \in DOMAIN breakup,
         \A l \in DOMAIN breakup :
            breakup[l].title = breakup[k].title /\ breakup[l].id = breakup[k].id => k = l
  PROVE  ValueOf(breakup, breakup[k].title, breakup[k].id) = breakup[k].value
<1>1. Quoted(breakup, breakup[k].title, breakup[k].id) = {k} /\ k \in Nat
  BY Lists DEF Quoted
<1>2. LastOf({k}) = k
  BY <1>1 DEF LastOf
<1> QED
  BY <1>1, <1>2 DEF ValueOf

LEMMA RequestedCharges ==
  ASSUME NEW fulfillments, NEW home, NEW k \in DOMAIN fulfillments,
         NEW f, f = RfqFulfillments(fulfillments, home)[k]
  PROVE  IsFulfillmentRow(f) /\ f.packing = 0 /\ f.delivery = 0 /\ f.misc = 0
  BY RequestedRow

(* What a row of a fulfillment or of a line charges.                       *)
LEMMA FulfillmentCharges ==
  ASSUME NEW r, r.kind \in {"rfq", "quote"}, r.kind = "rfq" => RequestedFrom(r),
         r.kind = "quote" => QuotedFrom(r),
         NEW k \in DOMAIN r.fulfillments, NEW t \in Charges
  PROVE  /\ OrderDelivery(r.fulfillments[k]).id = r.fulfillments[k].id
         /\ OrderDelivery(r.fulfillments[k])[t] =
               IF r.kind = "quote"
               THEN ValueOf(r.answer.breakup, t, r.fulfillments[k].id) ELSE 0
<1> DEFINE f == r.fulfillments[k]
<1>1. /\ IsFulfillmentRow(f)
      /\ r.kind = "rfq" => f.packing = 0 /\ f.delivery = 0 /\ f.misc = 0
      /\ r.kind = "quote" =>
            /\ f.packing = ValueOf(r.answer.breakup, "packing", f.id)
            /\ f.delivery = ValueOf(r.answer.breakup, "delivery", f.id)
            /\ f.misc = ValueOf(r.answer.breakup, "misc", f.id)
  <2>1. CASE r.kind = "rfq"
    <3>1. r.fulfillments = RfqFulfillments(r.ask.req.fulfillments, r.ask.home)
      BY <2>1 DEF RequestedFrom
    <3>2. k \in DOMAIN r.ask.req.fulfillments
      BY <3>1 DEF RfqFulfillments
    <3>3. f = RfqFulfillments(r.ask.req.fulfillments, r.ask.home)[k]
      BY <3>1
    <3> HIDE DEF f
    <3> QED BY <2>1, <3>2, <3>3, RequestedCharges
  <2>2. CASE r.kind = "quote"
    <3>1. PICK home : r.fulfillments = QuotedFulfillments(r.ask.message, r.answer, home)
      BY <2>2 DEF QuotedFrom
    <3>2. k \in DOMAIN r.answer.fulfillments
      BY <3>1 DEF QuotedFulfillments
    <3> QED BY <2>2, <3>1, <3>2, QuotedRow
  <2> QED BY <2>1, <2>2
<1> HIDE DEF f
<1>2. /\ OrderDelivery(f).id = f.id /\ OrderDelivery(f).packing = f.packing
      /\ OrderDelivery(f).delivery = f.delivery /\ OrderDelivery(f).misc = f.misc
  BY <1>1, DeliveryOfRow
<1>3. t \in {"packing", "delivery", "misc"}
  BY DEF Charges
<1> QED
  BY <1>1, <1>2, <1>3 DEF f

LEMMA LineCharges ==
  ASSUME NEW r, r.kind \in {"rfq", "quote"}, r.kind = "rfq" => RequestedFrom(r),
         r.kind = "quote" => QuotedFrom(r),
         NEW k \in DOMAIN r.lines, NEW t \in ItemAmounts
  PROVE  /\ OrderLine(r.lines[k]).id = r.lines[k].id
         /\ OrderLine(r.lines[k])[t] =
               IF r.kind = "quote" THEN ValueOf(r.answer.breakup, t, r.lines[k].id) ELSE 0
<1> DEFINE f == r.lines[k]
<1>1. /\ r.kind = "rfq" => f.item = 0 /\ f.tax = 0 /\ f.discount = 0
      /\ r.kind = "quote" =>
            /\ f.item = ValueOf(r.answer.breakup, "item", f.id)
            /\ f.tax = ValueOf(r.answer.breakup, "tax", f.id)
            /\ f.discount = ValueOf(r.answer.breakup, "discount", f.id)
  <2>1. CASE r.kind = "rfq"
    BY <2>1 DEF RequestedFrom, RfqLines
  <2>2. CASE r.kind = "quote"
    BY <2>2 DEF QuotedFrom, QuotedLines
  <2> QED BY <2>1, <2>2
<1> HIDE DEF f
<1>2. /\ OrderLine(f).id = f.id /\ OrderLine(f).item = f.item
      /\ OrderLine(f).tax = f.tax /\ OrderLine(f).discount = f.discount
  BY DEF OrderLine
<1>3. t \in {"item", "tax", "discount"}
  BY DEF ItemAmounts
<1> QED
  BY <1>1, <1>2, <1>3 DEF f

(* All of them are in the quote.                                           *)
LEMMA ChargesAreQuoted ==
  ASSUME NEW lines, NEW fs
  PROVE  /\ \A k \in DOMAIN fs, t \in Charges :
               [title |-> t, id |-> fs[k].id, value |-> fs[k][t]] \in QuoteOf(lines, fs)
         /\ \A k \in DOMAIN lines, t \in ItemAmounts :
               [title |-> t, id |-> lines[k].id, value |-> lines[k][t]] \in QuoteOf(lines, fs)
<1> DEFINE ofRow(k, t) == [title |-> t, id |-> fs[k].id, value |-> fs[k][t]]
           ofLine(k, t) == [title |-> t, id |-> lines[k].id, value |-> lines[k][t]]
           A == {ofRow(k, t) : k \in DOMAIN fs, t \in Charges}
           B == {ofLine(k, t) : k \in DOMAIN lines, t \in ItemAmounts}
<1>1. QuoteOf(lines, fs) = A \cup B
  BY DEF QuoteOf
<1>2. ASSUME NEW k \in DOMAIN fs, NEW t \in Charges
      PROVE  ofRow(k, t) \in A
  <2> HIDE DEF ofRow
  <2> QED OBVIOUS
<1>3. ASSUME NEW k \in DOMAIN lines, NEW t \in ItemAmounts
      PROVE  ofLine(k, t) \in B
  <2> HIDE DEF ofLine
  <2> QED OBVIOUS
<1>4. /\ \A k \in DOMAIN fs, t \in Charges : ofRow(k, t) \in QuoteOf(lines, fs)
      /\ \A k \in DOMAIN lines, t \in ItemAmounts : ofLine(k, t) \in QuoteOf(lines, fs)
  <2> HIDE DEF ofRow, ofLine, A, B
  <2> QED BY <1>1, <1>2, <1>3
<1> QED
  BY <1>4

(* What a confirm is built from.                                           *)
LEMMA SentConfirm ==
  ASSUME Inv, Send, Confirmed'
  PROVE  /\ told'.of = read.of /\ SoundRow(read.of)
         /\ told'.msg.total = read.of.total
         /\ told'.msg.quote =
               QuoteOf([k \in DOMAIN read.lines |-> OrderLine(read.lines[k])],
                       [k \in DOMAIN read.fulfillments |-> OrderDelivery(read.fulfillments[k])])
         /\ told'.msg.body =
               OrderBody([k \in DOMAIN read.lines |-> OrderLine(read.lines[k])],
                         [k \in DOMAIN read.fulfillments |-> OrderDelivery(read.fulfillments[k])])
         /\ read.lines \in {Empty, read.of.lines}
         /\ read.fulfillments \in {Empty, read.of.fulfillments}
<1>1. /\ told'.of = read.of /\ SoundRow(read.of) /\ told'.msg = ConfirmMessage(Order(read))
  BY SentOrder DEF Confirmed, OrderSent
<1>2. /\ IsRead(read) /\ read.head.total = read.of.total
      /\ read.lines \in {Empty, read.of.lines}
      /\ read.fulfillments \in {Empty, read.of.fulfillments}
  BY DEF Send, Inv, ReadInv, PartsOfOneOrder
<1>3. /\ Order(read).lines = [k \in DOMAIN read.lines |-> OrderLine(read.lines[k])]
      /\ Order(read).fulfillments =
            [k \in DOMAIN read.fulfillments |-> OrderDelivery(read.fulfillments[k])]
      /\ Order(read).head = read.head
  BY <1>2 DEF Order, IsRead
<1> QED
  BY <1>1, <1>2, <1>3 DEF ConfirmMessage

\* A confirm charges nothing the seller did not quote for the same item or
\* fulfillment of this very order, and names the total he quoted.
THEOREM NothingIsInvented == Spec => []NothingInvented
<1>1. Init => NothingInvented
  BY DEF Init, NothingInvented, Confirmed, Nothing
<1>2. ASSUME Inv, NothingInvented, [Next]_vars
      PROVE  NothingInvented'
  <2>1. CASE told' = told
    BY <1>2, <2>1 DEF NothingInvented, Confirmed
  <2>2. CASE Send
    <3> DEFINE r == read.of
               breakup == r.answer.breakup
    <3> SUFFICES ASSUME Confirmed'
                 PROVE  /\ told'.msg.total = IF r.kind = "quote" THEN r.answer.total ELSE 0
                        /\ \A c \in told'.msg.quote : c.value # 0 =>
                              /\ r.kind = "quote"
                              /\ \E k \in DOMAIN breakup : /\ breakup[k].title = c.title
                                                           /\ breakup[k].id = c.id
                                                           /\ breakup[k].value = c.value
      <4>1. Confirmed' => told'.of = r
        BY <1>2, <2>2, SentConfirm
      <4> QED BY <4>1 DEF NothingInvented
    <3>1. /\ r.kind \in {"rfq", "quote"} /\ (r.kind = "rfq" => RequestedFrom(r))
          /\ (r.kind = "quote" => QuotedFrom(r))
      BY <1>2, <2>2, SentConfirm DEF SoundRow
    <3>2. told'.msg.total = IF r.kind = "quote" THEN r.answer.total ELSE 0
      BY <1>2, <2>2, <3>1, SentConfirm DEF RequestedFrom, QuotedFrom
    <3>3. ASSUME NEW c \in told'.msg.quote, c.value # 0
          PROVE  r.kind = "quote" /\ c.value = ValueOf(breakup, c.title, c.id)
      <4> DEFINE lines == [k \in DOMAIN read.lines |-> OrderLine(read.lines[k])]
                 fs == [k \in DOMAIN read.fulfillments |-> OrderDelivery(read.fulfillments[k])]
      <4>1. told'.msg.quote = QuoteOf(lines, fs)
        BY <1>2, <2>2, SentConfirm
      <4>2. CASE \E k \in DOMAIN fs, t \in Charges :
                    c = [title |-> t, id |-> fs[k].id, value |-> fs[k][t]]
        <5>1. PICK k \in DOMAIN fs, t \in Charges :
                 c = [title |-> t, id |-> fs[k].id, value |-> fs[k][t]]
          BY <4>2
        <5>2. k \in DOMAIN r.fulfillments /\ fs[k] = OrderDelivery(r.fulfillments[k])
          BY <1>2, <2>2, SentConfirm DEF Empty
        <5>3. /\ fs[k].id = r.fulfillments[k].id
              /\ fs[k][t] = IF r.kind = "quote"
                            THEN ValueOf(breakup, t, r.fulfillments[k].id) ELSE 0
          <6> HIDE DEF r
          <6> QED BY <3>1, <5>2, FulfillmentCharges
        <5>4. c.title = t /\ c.id = r.fulfillments[k].id /\ c.value = fs[k][t]
          BY <5>1, <5>3
        <5> QED BY <3>3, <5>3, <5>4
      <4>3. CASE \E k \in DOMAIN lines, t \in ItemAmounts :
                    c = [title |-> t, id |-> lines[k].id, value |-> lines[k][t]]
        <5>1. PICK k \in DOMAIN lines, t \in ItemAmounts :
                 c = [title |-> t, id |-> lines[k].id, value |-> lines[k][t]]
          BY <4>3
        <5>2. k \in DOMAIN r.lines /\ lines[k] = OrderLine(r.lines[k])
          BY <1>2, <2>2, SentConfirm DEF Empty
        <5>3. /\ lines[k].id = r.lines[k].id
              /\ lines[k][t] = IF r.kind = "quote"
                               THEN ValueOf(breakup, t, r.lines[k].id) ELSE 0
          <6> HIDE DEF r
          <6> QED BY <3>1, <5>2, LineCharges
        <5>4. c.title = t /\ c.id = r.lines[k].id /\ c.value = lines[k][t]
          BY <5>1, <5>3
        <5> QED BY <3>3, <5>3, <5>4
      <4> HIDE DEF lines, fs
      <4> QED BY <4>1, <4>2, <4>3 DEF QuoteOf
    <3>4. r.kind = "quote" => IsList(breakup)
      BY <3>1, AnswerAssumption DEF QuotedFrom
    <3> HIDE DEF r, breakup
    <3> QED
      BY <3>2, <3>3, <3>4, ValueIsQuoted
  <2> QED
    BY <1>2, <2>1, <2>2, OnlySendTells DEF NothingInvented, Confirmed, OrderSent
<1> QED
  BY <1>1, <1>2, InvariantHolds, PTL DEF Spec

(* An item of an answer whose lines do not conflict has its line.          *)
LEMMA LineOfItem ==
  ASSUME NEW answer \in Answer, ~LinesConflict(answer.items), NEW i \in DOMAIN answer.items
  PROVE  i \in DOMAIN QuotedLines(answer) /\ QuotedLines(answer)[i].id = answer.items[i].id
<1>1. DOMAIN answer.items \subseteq Nat
  BY AnswerAssumption, Lists
<1>2. i \in RfqKept(answer.items)
  BY <1>1 DEF LinesConflict, RfqKept
<1> QED
  BY <1>2 DEF QuotedLines

\* A confirm repeats every charge of a well-formed quote, unless the order
\* was replaced while it was read.
THEOREM QuotesAreRepeated == Spec => []QuoteRepeated
<1>1. Init => QuoteRepeated
  BY DEF Init, QuoteRepeated, Confirmed, Nothing
<1>2. ASSUME Inv, QuoteRepeated, [Next]_vars
      PROVE  QuoteRepeated'
  <2>1. CASE told' = told
    BY <1>2, <2>1 DEF QuoteRepeated, Confirmed, Whole, WellFormed
  <2>2. CASE Send
    <3> DEFINE r == read.of
               breakup == r.answer.breakup
               lines == [k \in DOMAIN r.lines |-> OrderLine(r.lines[k])]
               fs == [k \in DOMAIN r.fulfillments |-> OrderDelivery(r.fulfillments[k])]
    <3> SUFFICES ASSUME Confirmed', r.kind = "quote", Whole(told'.msg.body),
                        WellFormed(r.answer), NEW k \in DOMAIN breakup
                 PROVE  [title |-> breakup[k].title, id |-> breakup[k].id,
                         value |-> breakup[k].value] \in told'.msg.quote
      <4>1. Confirmed' => told'.of = r
        BY <1>2, <2>2, SentConfirm
      <4> QED BY <4>1 DEF QuoteRepeated, Whole, WellFormed
    <3>1. QuotedFrom(r) /\ IsList(breakup)
      BY <1>2, <2>2, SentConfirm, AnswerAssumption DEF SoundRow, QuotedFrom
    <3>2. told'.msg.quote = QuoteOf(lines, fs)
      <4>1. read.lines # Empty /\ read.fulfillments # Empty
        BY <1>2, <2>2, SentConfirm DEF Whole, OrderBody, Empty
      <4> QED BY <1>2, <2>2, <4>1, SentConfirm
    <3>3. ValueOf(breakup, breakup[k].title, breakup[k].id) = breakup[k].value
      BY <3>1, OnlyEntry DEF WellFormed
    <3>4. CASE breakup[k].title \in Charges
      <4>1. PICK f \in DOMAIN r.answer.fulfillments : r.answer.fulfillments[f].id = breakup[k].id
        BY <3>4 DEF WellFormed
      <4>2. f \in DOMAIN r.fulfillments /\ r.fulfillments[f].id = breakup[k].id
        <5>1. PICK home : r.fulfillments = QuotedFulfillments(r.ask.message, r.answer, home)
          BY <3>1 DEF QuotedFrom
        <5>2. f \in DOMAIN r.fulfillments
          BY <5>1 DEF QuotedFulfillments
        <5>3. QuotedFulfillments(r.ask.message, r.answer, home)[f].id = r.answer.fulfillments[f].id
          <6> HIDE DEF r
          <6> QED BY QuotedRow
        <5> QED BY <4>1, <5>1, <5>2, <5>3
      <4>3. fs[f].id = breakup[k].id /\ fs[f][breakup[k].title] = breakup[k].value
        <5> HIDE DEF r
        <5> QED BY <3>1, <3>3, <3>4, <4>2, FulfillmentCharges
      <4>4. f \in DOMAIN fs
        BY <4>2
      <4> HIDE DEF fs, lines
      <4> QED BY <3>2, <3>4, <4>3, <4>4, ChargesAreQuoted
    <3>5. CASE breakup[k].title \notin Charges
      <4>1. PICK i \in DOMAIN r.answer.items : r.answer.items[i].id = breakup[k].id
        BY <3>5 DEF WellFormed
      <4>2. breakup[k].title \in ItemAmounts
        BY <3>5 DEF WellFormed
      <4>3. i \in DOMAIN r.lines /\ r.lines[i].id = breakup[k].id
        BY <3>1, <4>1, LineOfItem DEF QuotedFrom
      <4>4. lines[i].id = breakup[k].id /\ lines[i][breakup[k].title] = breakup[k].value
        <5> HIDE DEF r
        <5> QED BY <3>1, <3>3, <4>2, <4>3, LineCharges
      <4>5. i \in DOMAIN lines
        BY <4>3
      <4> HIDE DEF fs, lines
      <4> QED BY <3>2, <4>2, <4>4, <4>5, ChargesAreQuoted
    <3> QED
      BY <3>4, <3>5
  <2> QED
    BY <1>2, <2>1, <2>2, OnlySendTells DEF QuoteRepeated, Confirmed, OrderSent
<1> QED
  BY <1>1, <1>2, InvariantHolds, PTL DEF Spec
=============================================================================
