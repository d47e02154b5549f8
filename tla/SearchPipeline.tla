---------------------------- MODULE SearchPipeline ----------------------------
(***************************************************************************)
(* Searching the network.  A search is saved and sent; sellers answer with *)
(* on_search, which puts the catalogue into one partition of a topic; one  *)
(* consumer task stores sellers, products and locations, tells the buyer   *)
(* and commits the offset.                                                 *)
(*                                                                         *)
(* The topic keeps what is produced in order.  A consumer that starts or   *)
(* rejoins its group goes on at the committed offset, or without one at    *)
(* the end of the topic, as the client does by default.                    *)
(***************************************************************************)
EXTENDS Naturals, Sequences

CONSTANTS
    Search,       \* (transaction_id, message_id) of searches
    UpdateCache,  \* those with update_cache
    Seller,       \* (seller_subscriber_id, provider_id), with one location each
    Item,         \* item ids
    Catalog,      \* what sellers may answer
    MaxLog,       \* bound: messages in the topic
    MaxResume,    \* bound: restarts of the process and rejoins of the consumer
    None

\* No items stands for a catalogue without providers; readable says whether
\* the maximum_value of every price is a number.
ASSUME CatalogAssumption ==
    /\ UpdateCache \subseteq Search
    /\ MaxLog \in Nat /\ MaxResume \in Nat
    /\ Catalog \subseteq [search: Search, seller: Seller, items: SUBSET Item, readable: BOOLEAN]

Row == [from: Nat, net: BOOLEAN]

ASSUME NoneAssumption == None \notin Nat \cup Row

Table == {"products", "locations"}

\* life: what resumed was when the statement was sent.
Statement == [table: Table, msg: 1..MaxLog, life: 0..MaxResume]

VARIABLES
    search,     \* the buyer's request for each search
    known,      \* searches with a row in search_request
    heard,      \* searches that reached the gateway
    log,        \* the topic
    committed,  \* the group's offset, None before its first commit
    requested,  \* the last commit asked for, None if it was answered
    pc,         \* where the consumer task is
    pos,        \* the message it is at, or waits for
    flight,     \* upserts that were sent to the database
    sellers,    \* ondc_seller_info
    product,    \* ondc_seller_product_info: which message a row is from
    location,   \* ondc_seller_location_info: the same
    told,       \* history: how often each message was announced to the buyer
    done,       \* history: messages processed with success
    failed,     \* history: messages whose processing returned an error
    reset,      \* history: length of the topic at the last start without an offset
    resumed     \* history: restarts and rejoins

searching == <<search, known, heard>>
topic == <<log, committed, requested>>
consumer == <<pc, pos, flight>>
catalogue == <<sellers, product, location>>
history == <<told, done, failed, reset, resumed>>
vars == <<searching, topic, consumer, catalogue, history>>

Idle == [stage |-> "idle", save |-> "none", send |-> "none"]
Outcome == {"none", "ok", "failed"}

Init ==
    /\ search = [s \in Search |-> Idle]
    /\ known = {} /\ heard = {}
    /\ log = <<>> /\ committed = None /\ requested = None
    /\ pc = "down" /\ pos = 1 /\ flight = {}
    /\ sellers = {}
    /\ product = [x \in Seller \X Item |-> None]
    /\ location = [x \in Seller |-> None]
    /\ told = [n \in 1..MaxLog |-> 0]
    /\ done = {} /\ failed = {} /\ reset = 0 /\ resumed = 0

-------------------------------------------------------------------------------
(* realtime_product_search and on_search                                       *)

\* The ids come with the request: a buyer may repeat a search.
StartSearch(s) ==
    /\ search[s].stage # "busy"
    /\ search' = [search EXCEPT ![s] = [Idle EXCEPT !.stage = "busy"]]
    /\ UNCHANGED <<known, heard, topic, consumer, catalogue, history>>

\* save_search_request
SaveSearch(s) ==
    /\ search[s].stage = "busy" /\ search[s].save = "none"
    /\ \/ search' = [search EXCEPT ![s].save = "ok"] /\ known' = known \cup {s}
       \/ search' = [search EXCEPT ![s].save = "failed"] /\ UNCHANGED known
    /\ UNCHANGED <<heard, topic, consumer, catalogue, history>>

\* A request that timed out may have arrived.
SendSearch(s) ==
    /\ search[s].stage = "busy" /\ search[s].send = "none"
    /\ \/ search' = [search EXCEPT ![s].send = "ok"] /\ heard' = heard \cup {s}
       \/ search' = [search EXCEPT ![s].send = "failed"] /\ heard' \in {heard, heard \cup {s}}
    /\ UNCHANGED <<known, topic, consumer, catalogue, history>>

\* join(..).await.1?: both have ended, the send alone decides what is said.
AnswerBuyer(s) ==
    /\ search[s].stage = "busy" /\ search[s].save # "none" /\ search[s].send # "none"
    /\ search' = [search EXCEPT ![s].stage = "answered"]
    /\ UNCHANGED <<known, heard, topic, consumer, catalogue, history>>

\* on_search of a known search: produced, whether or not the delivery is
\* confirmed in time.  A search that is not known is refused and leaves no trace.
OnSearch(c) ==
    /\ c.search \in heard \cap known
    /\ Len(log) < MaxLog
    /\ log' = Append(log, c)
    /\ UNCHANGED <<searching, committed, requested, consumer, catalogue, history>>

-------------------------------------------------------------------------------
(* kafka_client_search_consumer                                                *)

\* Mutant: the consumer does not use the group's offset.
StartConsumerAnew ==
    /\ pc = "down" /\ flight = {}
    /\ pc' = "poll" /\ pos' = 1
    /\ UNCHANGED <<searching, topic, flight, catalogue, history>>

\* The group gives the partition to a new consumer when the session of the
\* old one has run out, 6 seconds: by then the database has executed what it
\* was sent, or has not.  A start without an offset skips what is in the topic.
\* The error of a start that fails is ignored.
StartConsumer ==
    /\ pc = "down" /\ flight = {}
    /\ \/ /\ committed # None
          /\ pc' = "poll" /\ pos' = committed
          /\ UNCHANGED reset
       \/ /\ committed = None
          /\ pc' = "poll" /\ pos' = Len(log) + 1
          /\ reset' = Len(log)
       \/ pc' = "never" /\ UNCHANGED <<pos, reset>>
    /\ UNCHANGED <<searching, topic, flight, catalogue, told, done, failed, resumed>>

\* The session of the group, or the poll interval, ran out and the consumer
\* joins again: it reads the offset of the group anew.  The client does so
\* when it is polled, between two messages; a commit asked for before is
\* done by then (Committed) or refused, as one of an old generation.
Rejoin ==
    /\ pc = "poll"
    /\ resumed < MaxResume
    /\ resumed' = resumed + 1
    /\ requested' = None
    /\ \/ /\ committed # None
          /\ pos' = committed
          /\ UNCHANGED reset
       \/ /\ committed = None
          /\ pos' = Len(log) + 1
          /\ reset' = Len(log)
    /\ UNCHANGED <<searching, log, committed, pc, flight, catalogue, told, done, failed>>

\* Where a message leads: get_product_from_on_search_request panics on a price
\* it cannot read, and a panic ends the task.
Goes(c) == IF ~c.readable THEN "dead" ELSE IF c.items = {} THEN "ok" ELSE "seller"

\* Mutant: the offset is committed before the message is processed.
TakeAndCommit ==
    /\ pc = "poll" /\ pos <= Len(log)
    /\ pc' = Goes(log[pos])
    /\ requested' = pos + 1
    /\ UNCHANGED <<searching, log, committed, pos, flight, catalogue, history>>

Take ==
    /\ pc = "poll" /\ pos <= Len(log)
    /\ pc' = Goes(log[pos])
    /\ UNCHANGED <<searching, topic, pos, flight, catalogue, history>>

\* save_ondc_seller_info, whose error is dropped, and the start of the two
\* upserts that follow it.
SaveSeller ==
    /\ pc = "seller"
    /\ sellers' \in {sellers, sellers \cup {log[pos].seller}}
    /\ pc' = "join"
    /\ flight' = flight \cup [table: Table, msg: {pos}, life: {resumed}]
    /\ UNCHANGED <<searching, topic, pos, product, location, history>>

\* ON CONFLICT sets unit_price_without_tax to the price with tax; net says
\* that it is without.
StoreProducts(n) ==
    /\ product' = [x \in Seller \X Item |->
         IF x[1] = log[n].seller /\ x[2] \in log[n].items
         THEN [from |-> n, net |-> product[x] = None]
         ELSE product[x]]
    /\ UNCHANGED location

StoreLocation(n) ==
    /\ location' = [location EXCEPT ![log[n].seller] = n]
    /\ UNCHANGED product

\* The others were dropped by try_join, or sent before the last resumption.
Awaited(st) == pc = "join" /\ st.msg = pos /\ st.life = resumed

\* The second of the two has ended: the buyer is told, or todo!() is met.
Joined(st) ==
    /\ flight' = flight \ {st}
    /\ pc' = IF ~Awaited(st) \/ \E o \in flight' : Awaited(o) THEN pc
             ELSE IF log[pos].search \in UpdateCache THEN "dead" ELSE "notify"

\* A product or location refers to its seller.
Execute(st) ==
    /\ log[st.msg].seller \in sellers
    /\ IF st.table = "products" THEN StoreProducts(st.msg) ELSE StoreLocation(st.msg)
    /\ Joined(st)
    /\ UNCHANGED <<searching, topic, pos, sellers, history>>

\* Mutant: the error of an upsert is dropped like that of the seller.
FailExecuteDropped(st) ==
    /\ Joined(st)
    /\ UNCHANGED <<searching, topic, pos, catalogue, history>>

\* Mutant: a message that failed is tried again.
FailExecuteRetried(st) ==
    /\ flight' = flight \ {st}
    /\ IF Awaited(st)
       THEN pc' = "poll" /\ failed' = failed \cup {pos}
       ELSE UNCHANGED <<pc, failed>>
    /\ UNCHANGED <<searching, topic, pos, catalogue, told, done, reset, resumed>>

\* try_join drops the other upsert, which the database may still execute; the
\* consumer prints the error and goes on with the next message.
FailExecute(st) ==
    /\ flight' = flight \ {st}
    /\ IF Awaited(st)
       THEN pc' = "poll" /\ pos' = pos + 1 /\ failed' = failed \cup {pos}
       ELSE UNCHANGED <<pc, pos, failed>>
    /\ UNCHANGED <<searching, topic, catalogue, told, done, reset, resumed>>

\* send_msg, whose error is dropped.
Notify ==
    /\ pc = "notify"
    /\ pc' = "ok"
    /\ told' \in {told, [told EXCEPT ![pos] = @ + 1]}
    /\ UNCHANGED <<searching, topic, pos, flight, catalogue, done, failed, reset, resumed>>

\* Mutant: a message is taken again when its commit fails.
CommitMessageOrRetry ==
    /\ pc = "ok"
    /\ pc' = "poll" /\ done' = done \cup {pos}
    /\ \/ requested' = pos + 1 /\ pos' = pos + 1
       \/ UNCHANGED <<requested, pos>>
    /\ UNCHANGED <<searching, log, committed, flight, catalogue, told, failed, reset, resumed>>

\* commit_message only asks for the commit, and may fail to.
CommitMessage ==
    /\ pc = "ok"
    /\ pc' = "poll" /\ pos' = pos + 1 /\ done' = done \cup {pos}
    /\ requested' \in {requested, pos + 1}
    /\ UNCHANGED <<searching, log, committed, flight, catalogue, told, failed, reset, resumed>>

\* The broker gets to it.
Committed ==
    /\ requested # None
    /\ committed' = requested /\ requested' = None
    /\ UNCHANGED <<searching, log, consumer, catalogue, history>>

\* The process ends and is started again; what the database was sent it may
\* still execute.
Restart ==
    /\ pc # "down"
    /\ resumed < MaxResume
    /\ resumed' = resumed + 1
    /\ search' = [s \in Search |-> IF search[s].stage = "busy" THEN Idle ELSE search[s]]
    /\ pc' = "down"
    /\ requested' = None
    /\ UNCHANGED <<known, heard, log, committed, pos, flight, catalogue,
                   told, done, failed, reset>>

Consume ==
    \/ StartConsumer
    \/ Take
    \/ SaveSeller
    \/ \E st \in flight : Execute(st) \/ FailExecute(st)
    \/ Notify
    \/ CommitMessage

Next ==
    \/ \E s \in Search : StartSearch(s) \/ SaveSearch(s) \/ SendSearch(s) \/ AnswerBuyer(s)
    \/ \E c \in Catalog : OnSearch(c)
    \/ Consume
    \/ Committed
    \/ Rejoin
    \/ Restart

Spec == Init /\ [][Next]_vars

\* A task that can go on does, and the database answers.
FairSpec == Spec /\ WF_vars(Consume)

-------------------------------------------------------------------------------
(* Properties                                                                  *)

\* Types.
TypeOK ==
    /\ search \in [Search -> [stage: {"idle", "busy", "answered"}, save: Outcome, send: Outcome]]
    /\ known \subseteq Search /\ heard \subseteq Search
    /\ log \in Seq(Catalog) /\ Len(log) <= MaxLog
    /\ committed \in 1..MaxLog + 1 \cup {None} /\ requested \in 1..MaxLog + 1 \cup {None}
    /\ pc \in {"down", "never", "poll", "seller", "join", "notify", "ok", "dead"}
    /\ pos \in 1..MaxLog + 1
    /\ flight \subseteq Statement
    /\ sellers \subseteq Seller
    /\ product \in [Seller \X Item -> [from: 1..MaxLog, net: BOOLEAN] \cup {None}]
    /\ location \in [Seller -> 1..MaxLog \cup {None}]
    /\ told \in [1..MaxLog -> Nat]
    /\ done \subseteq 1..MaxLog /\ failed \subseteq 1..MaxLog
    /\ reset \in 0..MaxLog /\ resumed \in 0..MaxResume

\* When the buyer has been answered and the save did not fail, on_search
\* finds the search: a seller's answer is refused then only because of a
\* failed save (realtime_product_search, on_search).
SearchIsKnown ==
    \A s \in Search : search[s].stage = "answered" /\ search[s].save # "failed" => s \in known

\* What the consumer or the group's offset has passed was processed, or its
\* processing returned an error, unless it was in the topic at a start without
\* an offset.  So a message that panics is never passed
\* (kafka_client_search_consumer).
NoSilentSkip ==
    \A n \in 1..Len(log) :
        reset < n /\ (n < pos \/ (committed # None /\ n < committed)) => n \in done \cup failed

\* A buyer is told again of an answer only after the process was restarted or
\* its consumer joined the group again: the commit of what was announced may
\* not have been done by then (commit_message with CommitMode::Async).
ToldOncePerResumption == \A n \in 1..MaxLog : told[n] <= resumed + 1

\* What is stored under message n is of n or a later one, or of one whose
\* processing failed: the database may execute an upsert that was dropped.
NotBehind(n) ==
    LET c == log[n]
        Fresh(m) == m # None /\ (m >= n \/ m \in failed) IN
    c.items # {} =>
      /\ \A i \in c.items : /\ product[<<c.seller, i>>] # None
                            /\ Fresh(product[<<c.seller, i>>].from)
      /\ Fresh(location[c.seller])

\* An answer that was committed, and whose processing never failed, is in the
\* catalogue or was replaced by a later one, however often answers before and
\* after it are processed again (process_on_search, commit_message).
StoredNotBehind ==
    \A n \in done \ failed : committed # None /\ n < committed => NotBehind(n)

\* A buyer is told of products and locations that are in the catalogue.
ToldIsStored ==
    [][\A n \in 1..MaxLog : told'[n] # told[n] =>
         LET c == log[n] IN
         /\ location[c.seller] \in {n} \cup failed
         /\ \A i \in c.items : /\ product[<<c.seller, i>>] # None
                               /\ product[<<c.seller, i>>].from \in {n} \cup failed]_vars

\* Every message is processed with or without success, except those that were
\* in the topic at a start without an offset, and those behind a message on
\* which the consumer panics or a start that failed.
Stopped ==
    \/ pc = "never"
    \/ pc = "dead" /\ (~log[pos].readable \/ log[pos].search \in UpdateCache)

TopicIsWorkedOff ==
    \A n \in 1..MaxLog :
        (n <= Len(log)) ~> (n <= reset \/ n \in done \cup failed \/ Stopped)

\* unit_price_without_tax is the price without tax.
UnitPriceWithoutTax ==
    \A x \in Seller \X Item : product[x] # None => product[x].net
===============================================================================
