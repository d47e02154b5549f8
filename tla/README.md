# Verification of the ONDC B2B buyer application

This directory holds TLA+ modules that model the buyer application of this
repository, TLC configurations that check them on small instances, and theorems
about them that the TLA+ proof system checks for every value of the constants.

The application sits between a buyer's client and the ONDC network. A buyer
selects, initialises and confirms an order; each request is saved, sent to the
seller's platform and acknowledged at once; the seller answers later, on its
own, with a callback (`on_select`, `on_init`, ...). Nearly all the logic is in how
these two streams of HTTP requests meet in a PostgreSQL database: there is no
lock or actor in the program, only transactions, and one queue, the topic of
search answers.

## 1. The system

| component | code | state it keeps | operations |
|---|---|---|---|
| Order lifecycle | `routes/order/handlers.rs`, `routes/order/utils.rs`, `routes/ondc/handlers.rs` | `ondc_buyer_order_req` (requests), `commerce_data` with its lines, fulfillments, payments | `order_select/init/confirm/status/cancel/update`, `on_select/init/confirm/status/cancel/update` |
| Placing transactions, order numbers | `delete_order`, `initialize_order_select`, `initialize_order_on_select`, `get_series_no` | `commerce_data.urn`, `series_no_generator` | place and re-place an order, take a number |
| Payment | `routes/payment/*`, `payment_client.rs` | `commerce_payment_data` | create a payment order, notification, replacement by callbacks |
| Network lookup | `fetch_lookup_data` and `save_lookup_data_to_db` in `routes/ondc/utils.rs` | `network_participant` | look up, cache |
| Catalogue | `routes/product/*`, `on_search`, `kafka_client.rs`, `process_on_search` | `search_request`, Kafka topic, `ondc_seller_info`, `..._product_info`, `..._location_info` | search, produce, consume, upsert, notify |
| Outgoing requests | `send_ondc_payload`, `async_post_call_with_retry` in `schemas.rs` | none | send with retries |
| Access control | `middleware.rs`, `routes/ondc/middlewares.rs`, `user_client.rs` | none (user service) | headers, token, account, permission, seller's signature |
| Connection pool | `startup.rs`, every handler | connections | acquire, begin, commit |
| Chat, websocket, email | `chat_client.rs`, `websocket_client.rs`, `email_client.rs` | none (services) | notify |
| Listing | `get_order_list`, `order_fetch` | none | read |
| Configuration, telemetry, commands | `configuration.rs`, `telemetry.rs`, `commands.rs` | none | start-up |

How they interact. An endpoint saves its request and sends it, as two futures of
one task, and then answers the buyer. A callback finds the request it answers by
transaction and message id, reads the order, and works on it in a transaction of
its own. Both place orders: a select for a purchase order stores a requested
quote (`initialize_order_select`), and every `on_select` stores an accepted one
(`initialize_order_on_select`), each by deleting the row of the transaction
and inserting a new one that keeps the number. Callbacks other than `on_select`
change the row in place and replace its payment rows. The payment endpoints
read and change the payment rows beside them. Searching is apart from orders: answers go
through a topic to one consumer task of the process, which fills the catalogue that
selects read.

What is hard in it:

* **Partial failure.** `join` and `try_join` let a request be saved and not
  sent, sent and not saved, stored and not announced.
* **Order of events.** The seller's answer may be stored before the endpoint
  that asked for it has finished; a request may be sent although its sender
  timed out; answers come late and twice.
* **Stale reads.** Callbacks read the order outside their transaction; by the
  time they write, a select may have replaced the row.
* **Locks.** Numbers and rows are taken by concurrent transactions of several
  processes at READ COMMITTED; the payment "lock" is not one.
* **Crashes.** The process may die anywhere between its steps, and the
  consumer may lose its place in the group and resume at the committed offset.

`PROJECT.json` lists each hazard at its line, with the property about it.

## 2. The modules

| module | what it is |
|---|---|
| `OrderStatus` | states of an order on the wire and in the table, and `GetCommerceStatus` between them |
| `OrderBook` | abstract: what the order table promises to its readers |
| `OrderLifecycle` | endpoints, callbacks and the order of one transaction: protocol, status, number |
| `OrderLifecycleProofs`, `MCOrderLifecycle` | theorems about it, its instances for TLC |
| `OrderContents` | what an order says: conversions between requests, rows and messages, as operators |
| `QuoteFlow` | the contents of one order from the select to the confirm, over `OrderContents` |
| `QuoteFlowProofs`, `MCQuoteFlow` | theorems about it, its instances |
| `OrderReports`, `MCOrderReports` | what reports do to fulfillments, lines and documents, its instances |
| `ReportsAndPaymentsProofs` | theorems about `OrderReports` and `PaymentFlow` |
| `OrderNumbers` | abstract: numbers and orders, placed one at a time |
| `SelectTx` | placing transactions, statement by statement, with their locks |
| `SelectTxProofs`, `MCSelectTx` | theorems about it, its instances |
| `DbSessions` | connections and row locks of all handlers that write an order |
| `DbSessionsProofs`, `MCDbSessions` | theorems about it, its instances |
| `Notifications` | chat, websocket and commit of each handler |
| `NotificationsProofs`, `MCNotifications` | theorems about it, its instances |
| `PaymentTable` | the payment row, what the service and the buyer know of it, and what must be true of them |
| `PaymentFlow`, `MCPaymentFlow` | paying an order, on that table, its instances |
| `NetworkParticipants` | the table of participants, the registry, and calls with retries |
| `NetworkParticipantsProofs`, `MCNetworkParticipants` | theorems about it, its instances |
| `SearchPipeline` | searching, the topic of answers, its consumer and the catalogue |
| `SearchPipelineProofs`, `MCSearchPipeline` | theorems about it, its instances |

One order is seen from several sides, each in a module of its own:
`OrderLifecycle` has the requests and what a callback may do, with a transaction as
one step; `QuoteFlow` and `OrderReports` have the contents; `SelectTx` has the
statements that place it; `DbSessions` its locks; `Notifications` what others hear of it;
`PaymentFlow` its payment row. `OrderLifecycle` implements `OrderBook` and
`SelectTx` implements `OrderNumbers`, both checked and proved.

### OrderLifecycle

One ONDC transaction, that is one `external_urn`. `reqs` is the set of saved
requests, `delivered` the requests the seller has received, `acked` those the buyer got a
success for, `order` the row, with the flags `billed` (billing and terms are not
NULL) and `pays` (it has payment rows); `hand` and `cb` are the tasks of endpoints
and callbacks.

An endpoint is `StartRequest` (the reads and the payload: every endpoint but
select needs the order, confirm needs its billing), then `SaveRequest` or `SaveFails` and
`SendRequest` or `SendFails` in either order, then `Join`. `SendFails` has the
ambiguity of a retried HTTP request: the seller may have got it. The select uses `try_join`,
so a failure of one side drops the other; the other endpoints use
`join(..).await.1?` and look at the send only. A select for a purchase order goes on to
`RfqCommit` or `RfqAborts`; the commit stands whether or not the chat
message beside it succeeds.

A callback is `Receive` (the sequence checks and the reads outside the
transaction) and one commit action, or `CallbackFails`. `MaySend` is the seller: any answer to
a request it has, any number of times, and unsolicited `on_status`,
`on_cancel` and `on_update`, for which the code does not ask for a request.
`Restart` takes all tasks away and leaves the tables.

**Why a transaction is one step.** The database is used at READ COMMITTED. Two
transactions that work on the same `external_urn` meet at its row:

* Two that place the order: the second `DELETE` waits, finds its row gone (or there was none),
  takes a new number and goes on to its insert. A purchase order's select fails there, because `ON
  CONFLICT DO NOTHING` inserts no order and the fulfillments then refer to none. An `on_select`
  takes the row there is by then (`ON CONFLICT DO UPDATE`, `routes/order/utils.rs:783`). If it has a fulfillment id
  in common with that row's, their unique key makes it fail. If it has none, it commits: the row,
  which an `on_init` may have billed in between, becomes `QuoteAccepted` in place, with its id, number,
  type and billing, payments are added to it and the number taken is lost. So whenever an order is inserted,
  any `on_select`s in progress may have missed it (`Miss`, the field `missed` of a callback), and those end with
  `MergeSelect` instead of `CommitSelect`, or fail. The constant `OneCart` says that any two selects of the transaction have a
  fulfillment id in common; then there is no `MergeSelect`. `SelectTx` has all of this
  statement by statement (`InsertMerges`).
* `on_init` or `on_update` against a placing transaction: their first
  statement deletes payment rows that the other one deletes by cascade. One waits for
  the other; either it then finds nothing and `fetch_one` fails, or the
  two wait for each other and the database aborts one (`CallbackFails`, `RfqAborts`).
* `on_confirm`, `on_status` and `on_cancel` against a placing transaction: their `UPDATE`
  waits, changes nothing as its row is gone, and the payments they go on to delete
  are those of the new row. The foreign key of the new payments then refers to
  the old row and the transaction fails, unless the report has no payments: that case commits, and
  is the alternative `status = order.status` of `CommitReport`.

The waiting itself is in `DbSessions`.

**Abstracted.** Items, fulfillments, documents, prices, addresses and texts (see
`QuoteFlow` and `OrderReports`); the
buyer, seller and network participant records; the chat and websocket messages, except that
they may fail. `Plain` fixes fields that a handler does not read.

### OrderBook

The order as its readers may think of it: placed, initialised, reported on,
its payments replaced, each at one instant and from the order as it is at that instant. It
says openly where the code falls short of that: a report without payments may be
judged by the type of an order that was replaced meanwhile, or be lost; and without `OneCart`
an answer may be merged into an order that is there (`MergeQuote`).

### OrderContents and QuoteFlow

`OrderContents` has one operator for each conversion: the select message of a
request (`SelectMessage`), the rows of a requested quote (`RfqLines`,
`RfqFulfillments`, `RfqPayments`), the rows of an accepted one (`QuotedLines`, ...), and the messages built
from rows (`InitMessage`, `ConfirmMessage`, `UpdateMessage`). Rows are functions from
positions, as the vectors handed to `UNNEST` are, so that a vector with
entries missing gives the same NULLs. `Product` is the catalogue as `get_price` and the item codes
read it.

`QuoteFlow` is one order. `Select` and `StoreRfq` are `order_select`, whose store
may come late; `OnSelect` is an answer to any select made, at any time; `OnInit`
replaces payments and sets the terms. An endpoint is `ReadHead`, then
`ReadLines`, `ReadPayments` and `ReadFulfillments` in any order (the code's order is one of them), each with a
connection of its own and outside a transaction, then `Send`. `told` is the message the
last step sent, with the row its head was read from. `kind`, `ask`, `answer` and `offer` of a row are history.

Abstracted: amounts are small numbers, places and texts model values; contacts,
times, currencies, and the descriptive fields of items are left out.

### OrderReports

An order with its fulfillments, lines and documents, from the `on_select` on.
A callback is `ReadOrder` (the order), `ReadParts` (fulfillments and lines, by
the id of what was read) and `Store`, one action for each of `on_confirm`, `on_status`,
`on_cancel` and `on_update` under it; `Reselect` is another `on_select`. What a report is merged with is what was read. The
`UPDATE` of the order goes by the transaction id (`Hits`), those of fulfillments and
lines by the order id, and the payments of the report need the row that was read, as in
`OrderLifecycle`. A place is its address (which stands for city, state and country too), its gps and its area
code: `PickUp` and `NewDrop` keep the address that was read and take the gps and the area code of the report, the pickup's
only if there is one. `selection`, `by` and `cancelledBy` are history.

### DbSessions

A handler reads (`StartQuery`, `EndQuery`: each query takes a connection of the
pool), begins (`Begin`) and locks (`Lock`) what its statements lock, in their order
(`Locks`), then commits. `ReadsBefore` and `ReadsWithin` count the queries; `on_select`
alone reads between its `begin` and its first statement. Locks are those of PostgreSQL
(`Conflict`): a foreign key check shares, an update of no key excludes
updates, a delete excludes all. The acquire timeout (`AcquireTimeout`) and the
database's deadlock detection (`DeadlockAbort`) end a wait; `Dies` is any other failure. `Order` is a
set: the series of the numbers is what orders share.

Abstracted: rows of one table and order are locked together; the lists of locks are those of
reports with payments, which lock most. That a handler works on the order it read, and on
rows that are still there, is the business of the other modules: here each handler takes the locks
of a transaction that succeeds.

### Notifications

A handler runs through a program of steps (`SelectSteps`, `OnInitSteps`, ...): `room`
creates the chat, `post` posts to it, `write` is its statements and takes the
order's row, `send` tells the websocket and may fail without consequence, `must_send` may not, `commit`.
A select does the post beside the store, hence three programs. A post whose answer is lost
has been made or not. Handlers run once; `chat`, `socket` and `stored` are
the handlers that did it, in order. Whether an order is a purchase order is fixed for
each order here; texts and recipients are left out. No handler sends email.

### NetworkParticipants

`row` is the table `network_participant`, `version` the registry's entry of each
seller: a change of its key or address is a new version (`Rotate`). A seller's callback
is `ReadRow` or, without a row in its domain, `MissRow`, the call of the registry, `Save` (`ON
CONFLICT DO NOTHING`) and `Verify` with the key it got. A select is `ReadRow`
or refused, and the call of the seller. Both calls are
`async_post_call_with_retry`: `AnswerLost` is an attempt that timed out, `AnswerRefused` an answer that
ends the call, and an attempt that timed out may have reached the other side (`Reaches`). The signature
is modelled by which version of the key made it; the registry is honest, and the one
entry it answers is the seller's in the domain asked for.

### SelectTx and OrderNumbers

Any number of placing transactions on any number of orders and series. `row` and
`seriesNo` are what is committed, `rowLock` and `seriesLock` who holds the row or the unique key,
`tx` what each transaction has done. A blocked `DELETE` whose row is replaced goes on
with `series`, as PostgreSQL re-evaluates it and finds nothing. `OrderNumbers` has one step for
each placed order. `Basket` gives the sets of fulfillment ids that selects are about.

### PaymentFlow

One order with one payment row, which `PaymentTable` declares with what must be true of it. A creation reads the order, reads the payment,
asks the payment service, stores; a notification reads, writes; a callback reads the order
and later replaces the payment. The service creates payment orders, and
sends any notification about those the buyer was told, which may come again. `sellerPaid` and `raced` are
history variables used by properties only.

### SearchPipeline

A search is `StartSearch`, `SaveSearch` and `SendSearch` in either order, and
`AnswerBuyer`, which looks at the send only. `OnSearch` is the whole handler of a seller's
answer: it finds the search and puts the catalogue into the topic. All messages
have one key, so they are in one of the topic's partitions, in order: `log`. Its one consumer is `pc` and
`pos`; its steps are `StartConsumer`, `Take`, `SaveSeller`, the two upserts, `Notify` and
`CommitMessage`. An upsert is sent (`flight`) and later executed or not: `try_join` drops one when
the other fails, and what was dropped may still be executed while
the consumer is at later messages. `CommitMessage` only asks for the commit, `Committed` is
the broker. `Restart` loses the tasks and the commit asked for; the upserts in flight
end before the group gives the partition to the new consumer, 6 seconds later. `Rejoin` is the
same process losing its place in the group (the session of 6 seconds, `kafka_client.rs:104`, or the poll interval runs
out) and getting it back: the consumer reads the group's offset again, or without one goes to the end. The client does so when it is
polled, that is between two messages; upserts may still be in flight, and belong to an earlier `life` than those
awaited from then on. Assumed: a commit asked for earlier has by then been done
or is refused as one of an old generation. A row of the
catalogue is the number of the message it is from, a product's also says whether its price
without tax is one. `told`, `done`, `failed`, `reset` and `resumed` (restarts and rejoins) are history variables.

Abstracted: texts, prices and slabs; each seller has one location; `readable` stands for prices that
parse. An answer the producer reports as undelivered may still be in the topic, which is
`OnSearch` as well. Left out: more than one process, whose consumers would divide
the partitions, and undecodable messages, as the program alone produces.

## 3. What TLC checks

| run | instance | properties |
|---|---|---|
| `OrderEndpoints` | 2 endpoint tasks, 1 callback; an RFQ select, an init, a confirm, one cart; 2 rows, 1 number | `ProtocolOrder`, `OrderWasAskedFor`, `AckedIsDone` |
| `OrderCallbacks` | 1 endpoint task, 2 callbacks; an RFQ select whose ttl makes its answer a sale order, an init, different carts; 2 rows, 2 numbers | `QuoteStageIsLeftForGood`, `ReportsJudgedByTheirRow`, `ImplementsOrderBook` |
| `QuoteContents` | 5 requests, 5 answers, 2 offers; 1 select, 2 rows | `PartsOfOneOrder`, `NothingInvented`, `QuoteRepeated`, `StopsAreRight`, `ImportsAreLicensed`, `SettlementIsAgreed`, `OnlyPickupsAreUnreadable` |
| `OrderReports` | 2 callbacks, 8 reports, 2 selections; 1 fulfillment, 2 items, 2 rows | `TypeOK`, `AddressesAreKept`, `ReportsAreWhole`, `RefundsAreWhole`, `DocumentsAreKept`, `DropOffsAreKept` |
| `SelectTx` | 3 transactions, 2 orders, 1 series, 3 selects of which two share a fulfillment; 3 numbers | `NumbersAreUnique`, `OneBasket`, `NoDeadlock`, `ImplementsOrderNumbers` |
| `DbSessions` | 2 handlers of any kind, 2 orders, 2 connections, fair | `CirclesNeedPaymentsFirst`, `DeadlocksAreWithinAnOrder`, `OnlyOnSelectsStall`, `EveryTaskEnds` |
| `Notifications` | 3 handlers of any kind, a purchase order and a sale order | `StoredWasPosted`, `SocketFollowsStore`, `PostsOfTermsFollowStore` |
| `PaymentFlow` | 2 creations, 1 notification, 1 callback; 2 payment orders, 3 rows | `StatusHasCause`, `OnePaymentOrderPerRow` |
| `PaymentLock` | the same | finds `PaymentsAreLocked` violated (section 5) |
| `Participants` | 2 callbacks, 2 selects of a seller in two domains; 2 versions of its entry, 2 attempts of a call, fair | `RowDecides`, `OneAddressForAll`, `EveryRequestEnds` |
| `SearchPipeline` | 2 searches, one with `update_cache`; 2 messages of 4 kinds, 1 restart or rejoin, fair | `NoSilentSkip`, `ToldOncePerResumption`, `StoredNotBehind`, `ToldIsStored`, `TopicIsWorkedOff` |
| `SearchPrices` | the same, no restart or rejoin, no fairness | finds `UnitPriceWithoutTax` violated (section 5) |

What the properties say, where the name does not:

* `ReportsJudgedByTheirRow`, `ImplementsOrderBook`: a callback computes the new status from an
  order it read before its transaction, and still every change is one of the order as
  it is. That an order keeps its number (`UrnIsKept`), and is frozen
  without payments until it is selected again (`FrozenWithoutPayments`), is proved.
* `QuoteStageIsLeftForGood`: an order becomes a quote again only as a new row without billing; the one
  exception is an `on_select` of another cart that missed the order and is merged into it (`Merges`), which the
  instance of `OrderCallbacks` has and `OneCart` rules out. That run has a VIEW without `acked`,
  which no action reads and none of its properties mentions. `OrderWasAskedFor` needs `OneCart` for
  the type of an accepted quote only: a merged one has the type of the row it was merged into.
* `ToldOncePerResumption`: a buyer is told of an answer once between two resumptions, that is restarts or rejoins, at most.
* `ImplementsOrderNumbers`: the same for the statements that place orders; numbers are taken one by
  one and kept (`NumberIsKept`, proved).
* `PartsOfOneOrder`: an order that is replaced between the four queries of a reader
  gives empty parts and never parts of another order. `NothingInvented` and
  `SettlementIsAgreed` say of a confirm message what the reader may then rely on.
* `QuoteRepeated` assumes a quote that lists every charge once and of what it
  delivers (`WellFormed`); `StopsAreRight` a request for one kind of fulfillment to one place, as the code takes
  both from the first; `ImportsAreLicensed` a seller whose places are in one
  country, as the code looks at any one of them.
* `AddressesAreKept`, `ReportsAreWhole`, `RefundsAreWhole`: what a report may do when the order it
  was merged with is replaced. `AddressesAreKept` does not promise that goods go to the place that was selected: the
  address (with city, state and country) does not change, but each report overwrites the gps and the area code. It says
  that those are as selected or as reported of the same fulfillment, the gps of a start from the very report its status
  is from. `DocumentsAreKept` and `DropOffsAreKept` name the only ways in which these
  are lost.
* `CirclesNeedPaymentsFirst`: only the two handlers that delete payments before they touch the order can be
  part of a deadlock. `OnlyOnSelectsStall`: the pool is used up by tasks that wait for it
  only if each of its connections belongs to an `on_select`. `EveryTaskEnds`: the
  two timeouts suffice.
* `SocketFollowsStore`: reports are told before they are committed, and still in the order of
  the commits, because the row is locked; `PostsOfTermsFollowStore` says it of the chat for
  the two handlers that post under the lock.
* `RowDecides`, `OneAddressForAll`: what is cached of a seller once decides about its later callbacks
  and selects, whatever changes at the registry.

**Bounds.** Rows: each hazard of a replaced row needs one replacement after the first insert, so
2 rows, and payment rows are replaced twice. Numbers: 1 shows loss and
re-numbering in `OrderLifecycle`, a merge needs a second one; its theorems have any number; `SelectTx`
has 3, one for each transaction. Tasks: every
stale read needs one reader and one writer; the endpoints' hazards
need two endpoints and a callback. Three transactions are the least for a
chain of waiting, two on an order and one of another order on the same series; with two
handlers in `DbSessions` a circle and an exhausted pool both happen, circles of
more are in the theorem. Messages: two, so that one is passed by the commit of the next; the
mutants of all five properties are found with two, and longer logs are in the theorems.
Attempts: two, so that a call is repeated after an answer that was lost.
One resumption shows each hazard of a restart and of a rejoin.
`SellerState` is `{"Accepted"}`, the one state whose meaning depends on the record type.
The requests, answers and reports of `MCQuoteFlow` and `MCOrderReports` are one for
each branch of the conversions. The counters are bounded in the guards of the actions (`MaxRows`,
`MaxSeries`, `MaxNo`, `MaxCreated`, `MaxAsked`, `MaxLog`, `MaxResume`, `MaxVersion`).
The theorems do not depend on the bounds.

Tasks, transactions and orders are symmetric where they are interchangeable; runs with fairness and
the violation runs use no symmetry. `Notifications`, `Participants`, `QuoteContents` and
`OrderReports` switch the deadlock check off: handlers and requests run once
there, or the bound on selects or rows ends the run.

**Fairness.** There are three liveness properties.

* `TopicIsWorkedOff`: weak fairness of the consumer's steps; a ready task is polled, and a
  statement or request has an end, if only its timeout.
* `EveryTaskEnds`: strong fairness of taking a connection or a lock, as the pool and the
  database queue those that wait; weak fairness of ending what has begun and of the two
  timeouts. Starting a handler and dying have none.
* `EveryRequestEnds`: weak fairness of each request's step; an attempt ends, at the latest
  by its timeout of 5 seconds, and there are finitely many.

The order and payment modules state no liveness: a
seller need not answer and a buyer need not go on.

**Mutants.** The operators marked "Mutant" stand before the definition they change and
are used by no specification. Each is a bug one could write there, and the property it is
listed with in `PROJECT.json` fails when it replaces the definition.

## 4. What is proved

The theorems hold for every set of tasks, messages, orders, series, sellers and every
bound. They assume what the modules assume of their constants: the shape of `Act`,
`Rfq`, `Quick` and `OneCart`, that `None` and `NoEntry` differ from the values they stand beside, that
no select is empty (`BasketAssumption`), that bounds are numbers, that the vectors of requests,
answers and reports are lists (`IsList`), that a request has a fulfillment and each of them a place, that a payment
says who collects it, and that NULL is none of the values it stands beside. TLC evaluates them on
every run. Each component has a `TypeCorrect`.

* `OrderLifecycleProofs`. `Invariant` is inductive (`InvariantHolds`). The
  properties are not by themselves: that a confirm comes after an init
  (`ProtocolOrder`) follows from the payload having been built from a `billed` row, which an
  endpoint in progress remembers (`RequestsInProgress`) and which goes back to an
  `on_init`, whose callback was received for a saved and sent request
  (`ReadsAreSound`). `RowIdsAreFresh` makes a row id tell one row from its successor. From it:
  `SellerSeesProtocolOrder`, `EveryOrderWasAskedFor`, `AcknowledgementsAreTrue`, and
  for steps `UrnIsKeptAlways`, `QuotesAreFresh`, `FrozenUntilReselected`, the last two with the merge of an `on_select` as
  their stated exception; under `OneCart` there is none, which `QuotesAreFreshInOneCart` says. `ImplementsBook`: every
  step is an OrderBook step, a merge being `MergeQuote`, or leaves the order alone, and `ReportsJudgedAlways`; the core is that a snapshot
  with the id of the current row has its type.
* `SelectTxProofs`. `InvariantHolds`: who holds a lock is at work on what it
  locks, and a number taken is the next one of its series until its commit
  (`LocksAreHeldAtWork`); what a transaction knows at each statement
  (`WorkIsSound`). From it `NumbersAreUniqueAlways`, `NumberIsKeptAlways`, `OrdersAreNotMixed`,
  `ImplementsNumbers`, and `NoDeadlockAlways`: who holds a row waits for nobody, who holds a
  series waits for a row at most. If any two selects have a fulfillment in common,
  `NoNumberIsLost` too.
* `DbSessionsProofs`. A transaction has the locks of the statements behind it and no
  others, and no two have conflicting ones. In a circle without an `on_init` or
  `on_update` nobody waits for lines, fulfillments or payments, since both it and its blocker would have locked
  the order first; then nobody waits for the order; then nobody for a series
  (`CirclesHavePaymentsFirst`). `HoldersAreServed`: who holds a lock needs no more connections, so that pool and
  locks cannot wait for each other. `OrdersDoNotEntangle`: only the series is shared between orders; who waits
  for it has no lock yet and can be left out of a circle; all others wait for their own order, so that
  the tasks of one order in a circle are a circle by themselves. `OnSelectsAloneStall` needs a
  second invariant (`PoolInv`): at most `PoolMax` connections are in use, and only an `on_select` asks for one within its transaction, so that those who have
  one and wait for another have one each and are as many as the pool has.
* `NotificationsProofs`. How far a handler is in its program determines what it has posted,
  told and stored (`Handler`); at most one handler of an order has written and not ended
  (`Exclusive`), which carries what was told into the order of commits. From it the
  run's properties and `RoomsAreCreated` (only a refusal is posted to a chat nobody created), `QuotesAreThere`
  (a quote that is announced is stored) and `OneIsAhead`.
* `ReportsAndPaymentsProofs`, for `OrderReports`. Every row is sound (`SoundRow`): its
  fulfillments have the addresses of the selection it was stored from, with gps and area code selected or
  reported, and it has what the last
  report and the last cancel with payments said. Between its reads and its store a callback remembers an
  order that may be gone; if it is still there, what was read has that order's type, addresses
  and items (`SoundRead`). A report writes to fulfillments and lines of the order it was
  merged with only, and stores with payments only while that order is there, so that a
  report with payments is stored whole or not at all. From it `AddressesKept`, `ReportsWhole`,
  `RefundsWhole`, and for steps `DocumentsKept` and `DropOffsKept`. That a list has a last and
  an n-th entry is proved without induction, from least elements and cardinalities.
* `ReportsAndPaymentsProofs`, for `PaymentFlow` (the instance `Pay`, whose steps are on the
  variables of `PaymentTable`). A payment order anybody knows of exists at the service (`RealInv`),
  row ids are fresh, and as long as no creation stored on a row that had changed, a row was seen
  with one payment order at most, which is the one it has (`OneInv`). From it
  `StatusesHaveCauses`, `RealPaymentOrders` and `OneForEachRow`.
* `NetworkParticipantsProofs`. Nothing is looked up before the table is read, a row is never
  written twice, and the callback that stored it went to the registry. From it `RowsDecide`, `OneAddress`, `SelectsFollow`
  (a select is refused outside the domain of the row) and
  `SentReceived` (a success means the seller had the request, once for each attempt at most).
* `QuoteFlowProofs`. Lines and fulfillments of a row never change while the row is there, and ids are not
  used again: `ReadsAreOfOneOrder`. A row, or what a reader saw of it, is the translation of its request
  or of its answer (`SoundRow`), a select with an import was licensed (`AskInv`), and payments read with
  terms are those of an offer (`Billed`). The theorems follow the conversions from there to
  the message: what a charge, a stop or a settlement in it was made from. From the rows:
  `NoQuotedItemIsLost`, `PickupsAreUnreadable`; from the messages: `NothingIsInvented`,
  `QuotesAreRepeated`, `StopsAreThoseAskedFor`, `ImportsHaveALicence`, `SettlementsAreAgreed`. That the last
  entry of a list exists is proved as for the reports.
* `SearchPipelineProofs`. `InvariantHolds`: offsets stay behind the position
  (`Positions`); a statement in flight is of the message awaited or of one that failed
  (`InFlight`), so it can put nothing but a failed answer in place of a later
  one; and a processed message that did not fail is up to date in the catalogue if it is committed, was
  passed since the last resumption, or nothing was ever committed (`UpToDate`), which is what survives a
  restart or a rejoin that processes messages again. From it every safety property of the run, and
  `SavedSearchesAreKnown`, for any number of searches, sellers, messages, restarts and rejoins.

Every safety property of a passing run is stated by a theorem. Only model-checked: the three
liveness properties `TopicIsWorkedOff`, `EveryRequestEnds` and `EveryTaskEnds` (liveness under fairness is
beyond the prover).

## 5. What was found

`get_commerce_payments_with_lock` (`routes/payment/utils.rs:30`) says in its
name, span and error message that it locks the payment row, and runs a plain
`SELECT`. Run `PaymentLock` shows a row changed between this read and the
write it was made for. The consequences are stated by the properties of `PaymentFlow`, which hold only as long
as no creation stored on a row that changed (`raced`): two
creations may tell the buyer two payment orders for one payment.

`save_ondc_seller_product_info` (`routes/ondc/utils.rs:1257`) updates
`unit_price_without_tax` with the price *with* tax when the product is there already. Run `SearchPrices`
shows it with two answers about one product. The lines of a requested quote take their price from this
column (`get_price`), so its unit price depends on how often the product was searched for.

Worth knowing, and part of the specifications rather than findings:

* An order whose last callback had no payments accepts no callback but `on_select` any
  more (`FrozenWithoutPayments`).
* The save of an acknowledged init, confirm, status, cancel or update may be lost,
  `AckedIsDone` says it of selects only; the seller's `on_init` or
  `on_confirm` is then refused as out of sequence.
* A requested quote that is stored late replaces the seller's accepted quote.
* A requested quote with a self pickup cannot be read: `save_rfq_fulfillment` pushes a drop
  off for deliveries only (`routes/order/utils.rs:254`), `UNNEST` fills the column
  with NULL, and the read decodes it as `drop_off_data!` (line 1343). With several
  fulfillments the drop offs of the deliveries move to the first ones. `OnlyPickupsAreUnreadable` says
  that this is the only way.
* The buyer's two item terms change places at each send: `get_item_tags` (`routes/ondc/schemas.rs:703`)
  is given `item_req` and `packaging_req` (`routes/ondc/utils.rs:937`, `1479`) and puts the
  first under `PackagingsReq` and the second under `ItemReq`.
* The arbitration term is stored as the comparison with `"false"` (`routes/order/utils.rs:1847`)
  and written as it is (`routes/ondc/utils.rs:1872`), so that a confirm accepts the
  opposite of what was offered. `OrderContents` has all three conversions as they are.
* A seller registered in two domains is stored in the first one it called from: in the other its
  callbacks ask the registry every time and selects are refused. A key that changed
  at the registry is never taken over.
* A status report without an end stop, or without documents, erases the drop off or the
  documents; a lost drop off stays lost.
* With as many `on_select`s as connections the pool stands still until the acquire timeout.
* An answer to a search that was acknowledged may never be stored: if its processing fails, the
  next commit passes it; if it comes before the group's first commit, a restart
  does (`NoSilentSkip` says exactly when). An answer that panics the consumer stops
  all later ones at every restart, until a failing upsert lets it be passed.
* After a restart or a rejoin the catalogue may go back to an older answer and stay there, if the newer one
  fails when it is processed again (`StoredNotBehind` is about those that never failed).
* Two answers without a common fulfillment id that are stored at once are merged into one order
  and a number is lost. If an `on_init` came between the two, an initialised order with
  billing is `QuoteAccepted` again (`MergeSelect`).
* Reports overwrite the gps and the area code of a pickup and, `on_status`, of a drop off, and leave the
  address: an order may have an address and a gps that are two places.
* An order number is its prefix followed by the number (`models.rs:40`), so the series of the
  prefixes `A` and `A1` both have an `A11`.

## 6. Not modelled

* **Access control middleware.** Each request is checked on its own, by early returns in a fixed
  order, against the user service; nothing is stored and no two requests meet.
  The signature of sellers' callbacks is in `NetworkParticipants`.
* **Listing.** `get_order_list` and `order_fetch` read and store nothing; the queries that
  read one order for a message are in `QuoteFlow`.
* **Searching cached products.** `todo!()` in the code.
* **Clients of external services** (user, elastic search, email): requests and
  their I/O. What chat, websocket, payment service and registry do here is in the modules of their callers.
* **Configuration, telemetry, OpenAPI, commands**: start-up and generated documents.
* **Formats**: texts of messages and numbers, contacts, times, currencies, signatures and hashes as computations.

Left for later work: the statements of the callbacks with the contents of their rows, shown to implement the
one-step commits of `OrderLifecycle`, which would replace the argument in section 2
by a check; the composition of `OrderLifecycle` with `PaymentFlow`.
