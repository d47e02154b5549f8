------------------------- MODULE SearchPipelineProofs -------------------------
(***************************************************************************)
(* Theorems about SearchPipeline, for all searches, catalogues and bounds. *)
(***************************************************************************)
EXTENDS SearchPipeline, TLAPS

USE CatalogAssumption, NoneAssumption

-------------------------------------------------------------------------------
(* The inductive invariant                                                     *)

\* Where the offsets may be.
Positions ==
    /\ pos <= Len(log) + 1
    /\ pc \in {"seller", "join", "notify", "ok", "dead"} => pos <= Len(log)
    /\ pc \in {"seller", "join", "notify"} => log[pos].items # {}
    /\ committed # None => committed <= pos
    /\ requested # None => requested <= pos /\ pc \notin {"down", "never"}
    /\ reset <= Len(log)
    /\ \A n \in done : n <= Len(log) /\ (committed = None => n < pos)
    /\ \A n \in failed : n <= Len(log)

\* What is in flight is awaited, was until the process ended, or was dropped.
InFlight ==
    \A st \in flight :
        /\ st.msg <= Len(log) /\ st.life <= resumed
        /\ \/ st.msg \in failed
           \/ st.msg = pos /\ pc = "join" /\ st.life = resumed
           \/ st.msg = pos /\ pc = "down"
        /\ st.life = resumed => st.msg <= pos /\ (st.msg = pos => pc = "join")

\* What the consumer has passed.
Passed == \A n \in 1..Len(log) : reset < n /\ n < pos => n \in done \cup failed

\* A search that was saved is known.
Searches ==
    \A s \in Search : /\ search[s].save = "ok" => s \in known
                      /\ search[s].stage = "answered" => search[s].save # "none"

\* Once between two resumptions: a message that may still be announced has
\* been announced before the last one only.
Tellings ==
    \A n \in 1..MaxLog :
        /\ told[n] <= resumed + 1
        /\ pc \in {"down", "never"} \/ n > pos \/ (n = pos /\ pc # "ok") => told[n] <= resumed

\* The upserts of the message the consumer is at which have ended.
Ended ==
    pc \in {"join", "notify", "ok"} =>
      LET c == log[pos] IN
      c.items # {} =>
        /\ [table |-> "locations", msg |-> pos, life |-> resumed] \notin flight =>
              location[c.seller] \in {pos} \cup failed
        /\ [table |-> "products", msg |-> pos, life |-> resumed] \notin flight =>
              \A i \in c.items : /\ product[<<c.seller, i>>] # None
                                 /\ product[<<c.seller, i>>].from \in {pos} \cup failed

\* Which messages cannot be behind in the catalogue.
Settled(n) ==
    \/ committed = None
    \/ committed # None /\ n < committed
    \/ pc \notin {"down", "never"} /\ n < pos

UpToDate == \A n \in done \ failed : Settled(n) => NotBehind(n)

Inv ==
    /\ TypeOK
    /\ Positions
    /\ InFlight
    /\ Passed
    /\ Searches
    /\ Tellings
    /\ Ended
    /\ UpToDate

-------------------------------------------------------------------------------
(* Every step preserves it                                                     *)

SearchStep ==
    \E s \in Search : StartSearch(s) \/ SaveSearch(s) \/ SendSearch(s) \/ AnswerBuyer(s)

\* The steps, as the proofs take them one by one.
LEMMA Steps ==
    ASSUME [Next]_vars
    PROVE  \/ UNCHANGED vars
           \/ SearchStep
           \/ \E c \in Catalog : OnSearch(c)
           \/ StartConsumer \/ Take \/ SaveSeller
           \/ \E st \in flight : Execute(st)
           \/ \E st \in flight : FailExecute(st)
           \/ Notify \/ CommitMessage \/ Committed \/ Rejoin \/ Restart
  BY DEF Next, Consume, SearchStep

\* The buyer's side does not touch the pipeline.
LEMMA SearchStepLeaves ==
    ASSUME SearchStep
    PROVE  UNCHANGED <<topic, consumer, catalogue, history>>
  BY DEF SearchStep, StartSearch, SaveSearch, SendSearch, AnswerBuyer

LEMMA RowsAreNotNone ==
    ASSUME NEW n \in Nat, NEW b \in BOOLEAN
    PROVE  [from |-> n, net |-> b] # None
<1>1. [from |-> n, net |-> b] \in Row
  BY DEF Row
<1> QED
  BY <1>1

LEMMA TypeStep ==
    ASSUME Inv, [Next]_vars
    PROVE  TypeOK'
<1>1. CASE UNCHANGED vars
  BY <1>1 DEF Inv, TypeOK, searching, topic, consumer, catalogue, history, vars
<1>2. CASE SearchStep
  <2>1. search' \in [Search -> [stage: {"idle", "busy", "answered"}, save: Outcome, send: Outcome]]
    <3>1. PICK s \in Search : StartSearch(s) \/ SaveSearch(s) \/ SendSearch(s) \/ AnswerBuyer(s)
      BY <1>2 DEF SearchStep
    <3>2. PICK r \in [stage: {"idle", "busy", "answered"}, save: Outcome, send: Outcome] :
            search' = [search EXCEPT ![s] = r]
      <4>1. search[s] \in [stage: {"idle", "busy", "answered"}, save: Outcome, send: Outcome]
        BY DEF Inv, TypeOK
      <4>2. CASE StartSearch(s)
        BY <4>2 DEF StartSearch, Idle, Outcome
      <4>3. CASE SaveSearch(s)
        BY <4>1, <4>3 DEF SaveSearch, Outcome
      <4>4. CASE SendSearch(s)
        BY <4>1, <4>4 DEF SendSearch, Outcome
      <4>5. CASE AnswerBuyer(s)
        BY <4>1, <4>5 DEF AnswerBuyer
      <4> QED
        BY <3>1, <4>2, <4>3, <4>4, <4>5
    <3> QED
      BY <3>2 DEF Inv, TypeOK
  <2>2. known' \subseteq Search /\ heard' \subseteq Search
    BY <1>2 DEF SearchStep, StartSearch, SaveSearch, SendSearch, AnswerBuyer, Inv, TypeOK
  <2> QED
    BY <1>2, <2>1, <2>2, SearchStepLeaves DEF Inv, TypeOK, topic, consumer, catalogue, history
<1>3. ASSUME NEW c \in Catalog, OnSearch(c) PROVE TypeOK'
  BY <1>3 DEF Inv, TypeOK, OnSearch, searching, consumer, catalogue, history
<1>4. CASE StartConsumer
  BY <1>4 DEF Inv, TypeOK, StartConsumer, searching, topic, catalogue
<1>5. CASE Take
  BY <1>5 DEF Inv, TypeOK, Take, Goes, searching, topic, catalogue, history
<1>6. CASE SaveSeller
  <2>1. [table: Table, msg: {pos}, life: {resumed}] \subseteq Statement
    BY <1>6 DEF Inv, TypeOK, Positions, Statement, SaveSeller
  <2>2. log[pos] \in Catalog
    BY <1>6 DEF Inv, TypeOK, Positions, SaveSeller
  <2>3. sellers' \subseteq Seller /\ flight' \subseteq Statement
    BY <1>6, <2>1, <2>2 DEF Inv, TypeOK, SaveSeller
  <2> QED
    BY <1>6, <2>3 DEF Inv, TypeOK, SaveSeller, searching, topic, history
<1>7. ASSUME NEW st \in flight, Execute(st) PROVE TypeOK'
  <2>1. st \in Statement /\ st.msg \in 1..MaxLog /\ log[st.msg].seller \in Seller
    BY DEF Inv, TypeOK, InFlight, Statement, Table
  <2>2. /\ flight' \subseteq Statement
        /\ pc' \in {"down", "never", "poll", "seller", "join", "notify", "ok", "dead"}
    BY <1>7 DEF Execute, Joined, Inv, TypeOK
  <2>3. product' \in [Seller \X Item -> [from: 1..MaxLog, net: BOOLEAN] \cup {None}]
    <3>1. CASE st.table = "products"
      <4>1. \A x \in Seller \X Item :
              [from |-> st.msg, net |-> product[x] = None] \in [from: 1..MaxLog, net: BOOLEAN]
        BY <2>1
      <4>2. \A x \in Seller \X Item : product[x] \in [from: 1..MaxLog, net: BOOLEAN] \cup {None}
        BY DEF Inv, TypeOK
      <4> DEFINE new(x) == IF x[1] = log[st.msg].seller /\ x[2] \in log[st.msg].items
                           THEN [from |-> st.msg, net |-> product[x] = None]
                           ELSE product[x]
      <4>3. product' = [x \in Seller \X Item |-> new(x)]
        BY <1>7, <3>1 DEF Execute, StoreProducts
      <4>4. \A x \in Seller \X Item : new(x) \in [from: 1..MaxLog, net: BOOLEAN] \cup {None}
        BY <4>1, <4>2
      <4> HIDE DEF new
      <4> QED
        BY <4>3, <4>4
    <3>2. CASE st.table # "products"
      BY <1>7, <3>2 DEF Execute, StoreLocation, Inv, TypeOK
    <3> QED
      BY <3>1, <3>2
  <2>4. location' \in [Seller -> 1..MaxLog \cup {None}]
    BY <1>7, <2>1 DEF Execute, StoreProducts, StoreLocation, Inv, TypeOK
  <2> QED
    BY <1>7, <2>2, <2>3, <2>4 DEF Execute, Inv, TypeOK, searching, topic, history
<1>8. ASSUME NEW st \in flight, FailExecute(st) PROVE TypeOK'
  <2>1. flight' \subseteq Statement /\ failed' \subseteq 1..MaxLog /\ pos' \in 1..MaxLog + 1
    <3>1. CASE Awaited(st)
      <4>1. pos \in 1..MaxLog /\ pos' = pos + 1 /\ failed' = failed \cup {pos} /\ flight' \subseteq flight
        BY <1>8, <3>1 DEF FailExecute, Awaited, Inv, TypeOK, Positions
      <4>2. flight \subseteq Statement /\ failed \subseteq 1..MaxLog
        BY DEF Inv, TypeOK
      <4>3. pos + 1 \in 1..MaxLog + 1
        BY <4>1
      <4> QED
        BY <4>1, <4>2, <4>3
    <3>2. CASE ~Awaited(st)
      BY <1>8, <3>2 DEF FailExecute, Inv, TypeOK
    <3> QED
      BY <3>1, <3>2
  <2> QED
    BY <1>8, <2>1 DEF FailExecute, Inv, TypeOK, searching, topic, catalogue
<1>9. CASE Notify
  <2>1. told' \in [1..MaxLog -> Nat]
    BY <1>9 DEF Notify, Inv, TypeOK
  <2> QED
    BY <1>9, <2>1 DEF Notify, Inv, TypeOK, searching, topic, catalogue
<1>10. CASE CommitMessage
  <2>1. pos \in 1..MaxLog /\ pos + 1 \in 1..MaxLog + 1
    BY <1>10 DEF Inv, TypeOK, Positions, CommitMessage
  <2>2. /\ pos' \in 1..MaxLog + 1 /\ done' \subseteq 1..MaxLog
        /\ requested' \in 1..MaxLog + 1 \cup {None} /\ pc' = "poll"
    BY <1>10, <2>1 DEF Inv, TypeOK, CommitMessage
  <2> QED
    BY <1>10, <2>2 DEF Inv, TypeOK, CommitMessage, searching, catalogue
<1>11. CASE Committed
  BY <1>11 DEF Inv, TypeOK, Committed, searching, consumer, catalogue, history
<1>12. CASE Restart
  <2>1. search' \in [Search -> [stage: {"idle", "busy", "answered"}, save: Outcome, send: Outcome]]
    <3>1. Idle \in [stage: {"idle", "busy", "answered"}, save: Outcome, send: Outcome]
      BY DEF Idle, Outcome
    <3> QED
      BY <1>12, <3>1 DEF Restart, Inv, TypeOK
  <2> QED
    BY <1>12, <2>1 DEF Restart, Inv, TypeOK, catalogue
<1>13. CASE Rejoin
  BY <1>13 DEF Inv, TypeOK, Rejoin, searching, catalogue
<1> QED
  BY Steps, <1>1, <1>2, <1>3, <1>4, <1>5, <1>6, <1>7, <1>8, <1>9, <1>10, <1>11, <1>12,
     <1>13

LEMMA PositionsStep ==
    ASSUME Inv, [Next]_vars
    PROVE  Positions'
<1>1. CASE UNCHANGED vars
  BY <1>1 DEF Inv, Positions, topic, consumer, history, vars
<1>2. CASE SearchStep
  BY <1>2, SearchStepLeaves DEF Inv, Positions, topic, consumer, history
<1>3. ASSUME NEW c \in Catalog, OnSearch(c) PROVE Positions'
  BY <1>3 DEF Inv, TypeOK, Positions, OnSearch, consumer, history
<1>4. CASE StartConsumer
  BY <1>4 DEF Inv, TypeOK, Positions, StartConsumer, topic
<1>5. CASE Take
  BY <1>5 DEF Inv, Positions, Take, Goes, topic, history
<1>6. CASE SaveSeller
  BY <1>6 DEF Inv, Positions, SaveSeller, topic, history
<1>7. ASSUME NEW st \in flight, Execute(st) PROVE Positions'
  BY <1>7 DEF Inv, Positions, Execute, Joined, Awaited, topic, history
<1>8. ASSUME NEW st \in flight, FailExecute(st) PROVE Positions'
  <2>1. CASE Awaited(st)
    <3>1. /\ pos \in 1..Len(log) /\ pos' = pos + 1 /\ pc' = "poll" /\ failed' = failed \cup {pos}
          /\ UNCHANGED <<log, committed, requested, reset, done>>
      BY <1>8, <2>1 DEF Inv, TypeOK, Positions, FailExecute, Awaited, topic
    <3>2. /\ committed # None => committed \in Nat
          /\ requested # None => requested \in Nat
          /\ done \subseteq Nat /\ Len(log) \in Nat
      BY DEF Inv, TypeOK
    <3>3. \A n \in done' : n <= Len(log') /\ (committed' = None => n < pos')
      BY <3>1, <3>2 DEF Inv, Positions
    <3>4. \A n \in failed' : n <= Len(log')
      BY <3>1 DEF Inv, Positions
    <3>5. pos' <= Len(log') + 1 /\ reset' <= Len(log')
      BY <3>1, <3>2 DEF Inv, Positions
    <3>6. /\ committed' # None => committed' <= pos'
          /\ requested' # None => requested' <= pos'
      BY <3>1, <3>2 DEF Inv, Positions
    <3> QED
      BY <3>1, <3>3, <3>4, <3>5, <3>6 DEF Positions
  <2>2. CASE ~Awaited(st)
    BY <1>8, <2>2 DEF Inv, TypeOK, Positions, FailExecute, searching, topic, catalogue
  <2> QED
    BY <2>1, <2>2
<1>9. CASE Notify
  BY <1>9 DEF Inv, Positions, Notify, topic
<1>10. CASE CommitMessage
  BY <1>10 DEF Inv, TypeOK, Positions, CommitMessage
<1>11. CASE Committed
  BY <1>11 DEF Inv, Positions, Committed, consumer, history
<1>12. CASE Restart
  BY <1>12 DEF Inv, Positions, Restart
<1>13. CASE Rejoin
  <2>1. CASE committed # None
    <3>1. committed \in Nat /\ committed <= pos /\ pos <= Len(log) + 1 /\ pos \in Nat /\ Len(log) \in Nat
      BY <2>1 DEF Inv, TypeOK, Positions
    <3>2. pos' = committed /\ pc' = "poll" /\ requested' = None
            /\ UNCHANGED <<log, committed, done, failed, reset>>
      BY <1>13, <2>1 DEF Rejoin
    <3> QED
      BY <2>1, <3>1, <3>2 DEF Inv, Positions
  <2>2. CASE committed = None
    <3>1. Len(log) \in Nat /\ done \subseteq Nat
      BY DEF Inv, TypeOK
    <3>2. pos' = Len(log) + 1 /\ reset' = Len(log) /\ pc' = "poll" /\ requested' = None
            /\ UNCHANGED <<log, committed, done, failed>>
      BY <1>13, <2>2 DEF Rejoin
    <3> QED
      BY <2>2, <3>1, <3>2 DEF Inv, Positions
  <2> QED
    BY <2>1, <2>2
<1> QED
  BY Steps, <1>1, <1>2, <1>3, <1>4, <1>5, <1>6, <1>7, <1>8, <1>9, <1>10, <1>11, <1>12,
     <1>13

LEMMA InFlightStep ==
    ASSUME Inv, [Next]_vars
    PROVE  InFlight'
<1>1. CASE UNCHANGED vars
  BY <1>1 DEF Inv, InFlight, topic, consumer, history, vars
<1>2. CASE SearchStep
  BY <1>2, SearchStepLeaves DEF Inv, InFlight, topic, consumer, history
<1>3. ASSUME NEW c \in Catalog, OnSearch(c) PROVE InFlight'
  BY <1>3 DEF Inv, TypeOK, InFlight, Statement, OnSearch, consumer, history
<1>4. CASE StartConsumer
  BY <1>4 DEF Inv, InFlight, StartConsumer
<1>5. CASE Take
  BY <1>5 DEF Inv, InFlight, Take, topic, history
<1>6. CASE SaveSeller
  BY <1>6 DEF Inv, TypeOK, Positions, InFlight, SaveSeller, topic, history
<1>7. ASSUME NEW st \in flight, Execute(st) PROVE InFlight'
  BY <1>7 DEF Inv, InFlight, Execute, Joined, Awaited, topic, history
<1>8. ASSUME NEW st \in flight, FailExecute(st) PROVE InFlight'
  BY <1>8 DEF Inv, TypeOK, InFlight, Statement, FailExecute, topic
<1>9. CASE Notify
  BY <1>9 DEF Inv, InFlight, Notify, topic
<1>10. CASE CommitMessage
  BY <1>10 DEF Inv, TypeOK, InFlight, Statement, CommitMessage
<1>11. CASE Committed
  BY <1>11 DEF Inv, InFlight, Committed, consumer, history
<1>12. CASE Restart
  BY <1>12 DEF Inv, TypeOK, InFlight, Statement, Restart
<1>13. CASE Rejoin
  BY <1>13 DEF Inv, TypeOK, InFlight, Statement, Rejoin
<1> QED
  BY Steps, <1>1, <1>2, <1>3, <1>4, <1>5, <1>6, <1>7, <1>8, <1>9, <1>10, <1>11, <1>12,
     <1>13

LEMMA PassedStep ==
    ASSUME Inv, [Next]_vars
    PROVE  Passed'
<1>1. CASE UNCHANGED vars
  BY <1>1 DEF Inv, Passed, topic, consumer, history, vars
<1>2. CASE SearchStep
  BY <1>2, SearchStepLeaves DEF Inv, Passed, topic, consumer, history
<1>3. ASSUME NEW c \in Catalog, OnSearch(c) PROVE Passed'
  BY <1>3 DEF Inv, TypeOK, Positions, Passed, OnSearch, consumer, history
<1>4. CASE StartConsumer
  BY <1>4 DEF Inv, TypeOK, Positions, Passed, StartConsumer
<1>5. CASE Take
  BY <1>5 DEF Inv, Passed, Take, topic, history
<1>6. CASE SaveSeller
  BY <1>6 DEF Inv, Passed, SaveSeller, topic, history
<1>7. ASSUME NEW st \in flight, Execute(st) PROVE Passed'
  BY <1>7 DEF Inv, Passed, Execute, topic, history
<1>8. ASSUME NEW st \in flight, FailExecute(st) PROVE Passed'
  BY <1>8 DEF Inv, TypeOK, Passed, FailExecute, topic
<1>9. CASE Notify
  BY <1>9 DEF Inv, Passed, Notify, topic
<1>10. CASE CommitMessage
  BY <1>10 DEF Inv, TypeOK, Passed, CommitMessage
<1>11. CASE Committed
  BY <1>11 DEF Inv, Passed, Committed, consumer, history
<1>12. CASE Restart
  BY <1>12 DEF Inv, Passed, Restart
<1>13. CASE Rejoin
  BY <1>13 DEF Inv, TypeOK, Positions, Passed, Rejoin
<1> QED
  BY Steps, <1>1, <1>2, <1>3, <1>4, <1>5, <1>6, <1>7, <1>8, <1>9, <1>10, <1>11, <1>12,
     <1>13

LEMMA SearchesStep ==
    ASSUME Inv, [Next]_vars
    PROVE  Searches'
<1>1. CASE UNCHANGED vars
  BY <1>1 DEF Inv, Searches, searching, vars
<1>2. CASE SearchStep
  <2>1. PICK s \in Search : StartSearch(s) \/ SaveSearch(s) \/ SendSearch(s) \/ AnswerBuyer(s)
    BY <1>2 DEF SearchStep
  <2> DEFINE Good(r, x, k) == /\ r.save = "ok" => x \in k
                              /\ r.stage = "answered" => r.save # "none"
  <2>2. known \subseteq known' /\ \A x \in Search : x # s => search'[x] = search[x]
    BY <2>1 DEF StartSearch, SaveSearch, SendSearch, AnswerBuyer, Inv, TypeOK
  <2>3. Good(search'[s], s, known')
    <3>1. Good(search[s], s, known)
      BY DEF Inv, Searches
    <3>2. CASE StartSearch(s)
      BY <3>2 DEF StartSearch, Idle, Inv, TypeOK
    <3>3. CASE SaveSearch(s)
      BY <3>1, <3>3 DEF SaveSearch, Inv, TypeOK
    <3>4. CASE SendSearch(s)
      BY <3>1, <3>4 DEF SendSearch, Inv, TypeOK
    <3>5. CASE AnswerBuyer(s)
      BY <3>1, <3>5 DEF AnswerBuyer, Inv, TypeOK
    <3> QED
      BY <2>1, <3>2, <3>3, <3>4, <3>5
  <2> QED
    BY <2>2, <2>3 DEF Inv, Searches
<1>3. ASSUME NEW c \in Catalog, OnSearch(c) PROVE Searches'
  BY <1>3 DEF Inv, Searches, OnSearch, searching
<1>4. CASE StartConsumer
  BY <1>4 DEF Inv, Searches, StartConsumer, searching
<1>5. CASE Take
  BY <1>5 DEF Inv, Searches, Take, searching
<1>6. CASE SaveSeller
  BY <1>6 DEF Inv, Searches, SaveSeller, searching
<1>7. ASSUME NEW st \in flight, Execute(st) PROVE Searches'
  BY <1>7 DEF Inv, Searches, Execute, searching
<1>8. ASSUME NEW st \in flight, FailExecute(st) PROVE Searches'
  BY <1>8 DEF Inv, Searches, FailExecute, searching
<1>9. CASE Notify
  BY <1>9 DEF Inv, Searches, Notify, searching
<1>10. CASE CommitMessage
  BY <1>10 DEF Inv, Searches, CommitMessage, searching
<1>11. CASE Committed
  BY <1>11 DEF Inv, Searches, Committed, searching
<1>12. CASE Restart
  <2>1. known' = known /\ \A s \in Search : search'[s] = search[s] \/ search'[s] = Idle
    BY <1>12 DEF Restart
  <2> QED
    BY <2>1 DEF Inv, Searches, Idle
<1>13. CASE Rejoin
  BY <1>13 DEF Inv, Searches, Rejoin, searching
<1> QED
  BY Steps, <1>1, <1>2, <1>3, <1>4, <1>5, <1>6, <1>7, <1>8, <1>9, <1>10, <1>11, <1>12,
     <1>13

LEMMA TellingsStep ==
    ASSUME Inv, [Next]_vars
    PROVE  Tellings'
<1>1. CASE UNCHANGED vars
  BY <1>1 DEF Inv, Tellings, consumer, history, vars
<1>2. CASE SearchStep
  BY <1>2, SearchStepLeaves DEF Inv, Tellings, consumer, history
<1>3. ASSUME NEW c \in Catalog, OnSearch(c) PROVE Tellings'
  BY <1>3 DEF Inv, Tellings, OnSearch, consumer, history
<1>4. CASE StartConsumer
  BY <1>4 DEF Inv, Tellings, StartConsumer
<1>5. CASE Take
  BY <1>5 DEF Inv, Tellings, Take, Goes, history
<1>6. CASE SaveSeller
  BY <1>6 DEF Inv, Tellings, SaveSeller, history
<1>7. ASSUME NEW st \in flight, Execute(st) PROVE Tellings'
  BY <1>7 DEF Inv, Tellings, Execute, Joined, Awaited, history
<1>8. ASSUME NEW st \in flight, FailExecute(st) PROVE Tellings'
  BY <1>8 DEF Inv, TypeOK, Tellings, FailExecute
<1>9. CASE Notify
  BY <1>9 DEF Inv, TypeOK, Tellings, Notify, searching
<1>10. CASE CommitMessage
  BY <1>10 DEF Inv, TypeOK, Tellings, CommitMessage
<1>11. CASE Committed
  BY <1>11 DEF Inv, Tellings, Committed, consumer, history
<1>12. CASE Restart
  BY <1>12 DEF Inv, TypeOK, Tellings, Restart
<1>13. CASE Rejoin
  BY <1>13 DEF Inv, TypeOK, Tellings, Rejoin
<1> QED
  BY Steps, <1>1, <1>2, <1>3, <1>4, <1>5, <1>6, <1>7, <1>8, <1>9, <1>10, <1>11, <1>12,
     <1>13

LEMMA EndedStep ==
    ASSUME Inv, [Next]_vars
    PROVE  Ended'
<1>1. CASE UNCHANGED vars
  BY <1>1 DEF Inv, Ended, topic, consumer, catalogue, history, vars
<1>2. CASE SearchStep
  BY <1>2, SearchStepLeaves DEF Inv, Ended, topic, consumer, catalogue, history
<1>3. ASSUME NEW c \in Catalog, OnSearch(c) PROVE Ended'
  BY <1>3 DEF Inv, TypeOK, Positions, Ended, OnSearch, consumer, catalogue, history
<1>4. CASE StartConsumer
  BY <1>4 DEF Inv, Ended, StartConsumer
<1>5. CASE Take
  BY <1>5 DEF Inv, Ended, Take, Goes, topic
<1>6. CASE SaveSeller
  <2>1. \A t \in Table : [table |-> t, msg |-> pos, life |-> resumed] \in flight'
    BY <1>6 DEF SaveSeller
  <2>2. "locations" \in Table /\ "products" \in Table /\ UNCHANGED <<pos, resumed>>
    BY <1>6 DEF SaveSeller, Table, history
  <2> QED
    BY <2>1, <2>2 DEF Ended
<1>7. ASSUME NEW st \in flight, Execute(st) PROVE Ended'
  <2> DEFINE c == log[pos]
             mine(t) == [table |-> t, msg |-> pos, life |-> resumed]
  <2> SUFFICES ASSUME pc' \in {"join", "notify", "ok"}, c.items # {}
               PROVE  /\ mine("locations") \notin flight' => location'[c.seller] \in {pos} \cup failed
                      /\ mine("products") \notin flight' =>
                           \A i \in c.items : /\ product'[<<c.seller, i>>] # None
                                              /\ product'[<<c.seller, i>>].from \in {pos} \cup failed
    BY <1>7 DEF Ended, Execute, topic, history
  <2>1. /\ st \in Statement /\ st.msg \in 1..MaxLog /\ st.msg \in {pos} \cup failed
        /\ flight' = flight \ {st}
    BY <1>7 DEF Execute, Joined, Inv, TypeOK, InFlight, Statement
  <2>2. pc \in {"join", "notify", "ok"} /\ pos \in 1..Len(log)
    BY <1>7 DEF Execute, Joined, Awaited, Inv, TypeOK, Positions
  <2>3. c \in Catalog
    BY <2>2 DEF Inv, TypeOK
  <2>4. /\ st = mine("locations") => st.table # "products"
        /\ st = mine("products") => st.table = "products" /\ st.msg = pos
        /\ st = mine("locations") => st.msg = pos
    OBVIOUS
  <2>5. ASSUME mine("locations") \notin flight' PROVE location'[c.seller] \in {pos} \cup failed
    <3>1. CASE location'[c.seller] = st.msg
      BY <2>1, <3>1
    <3>2. CASE location'[c.seller] # st.msg
      <4>1. location'[c.seller] = location[c.seller] /\ st # mine("locations")
        BY <1>7, <2>3, <2>4, <3>2 DEF Execute, StoreProducts, StoreLocation, Inv, TypeOK
      <4> QED
        BY <2>1, <2>2, <2>5, <4>1 DEF Inv, Ended
    <3> QED
      BY <3>1, <3>2
  <2>6. ASSUME mine("products") \notin flight', NEW i \in c.items
        PROVE  /\ product'[<<c.seller, i>>] # None
               /\ product'[<<c.seller, i>>].from \in {pos} \cup failed
    <3> DEFINE x == <<c.seller, i>>
               row == [from |-> st.msg, net |-> product[x] = None]
    <3>0. st.msg \in Nat /\ (product[x] = None) \in BOOLEAN
      BY <2>1
    <3>1. x \in Seller \X Item /\ row # None
      BY <2>3, <2>6, <3>0, RowsAreNotNone
    <3>2. CASE product'[x] = row
      BY <2>1, <3>1, <3>2
    <3>3. CASE product'[x] # row
      <4>1. product'[x] = product[x] /\ st # mine("products")
        BY <1>7, <2>4, <3>1, <3>3 DEF Execute, StoreProducts, StoreLocation
      <4> QED
        BY <2>1, <2>2, <2>6, <4>1 DEF Inv, Ended
    <3> QED
      BY <3>2, <3>3
  <2> QED
    BY <2>5, <2>6
<1>8. ASSUME NEW st \in flight, FailExecute(st) PROVE Ended'
  BY <1>8 DEF Inv, InFlight, Ended, FailExecute, Awaited, topic, catalogue
<1>9. CASE Notify
  BY <1>9 DEF Inv, Ended, Notify, topic, catalogue
<1>10. CASE CommitMessage
  BY <1>10 DEF Inv, Ended, CommitMessage
<1>11. CASE Committed
  BY <1>11 DEF Inv, Ended, Committed, consumer, catalogue, history
<1>12. CASE Restart
  BY <1>12 DEF Inv, Ended, Restart
<1>13. CASE Rejoin
  BY <1>13 DEF Inv, Ended, Rejoin
<1> QED
  BY Steps, <1>1, <1>2, <1>3, <1>4, <1>5, <1>6, <1>7, <1>8, <1>9, <1>10, <1>11, <1>12,
     <1>13

\* What is not behind stays so while neither log nor catalogue change and no
\* processing is forgotten.
LEMMA StaysUpToDate ==
    ASSUME Inv, NEW n \in done, NotBehind(n),
           UNCHANGED <<product, location>>, failed \subseteq failed', log'[n] = log[n]
    PROVE  NotBehind(n)'
  BY DEF NotBehind

\* A statement of a later message, or of one that failed, leaves no earlier one behind.
LEMMA ExecuteKeepsUpToDate ==
    ASSUME Inv, NEW st \in flight, Execute(st), NEW n \in done, n < pos, NotBehind(n)
    PROVE  NotBehind(n)'
<1> DEFINE c == log[n]
           Fresh(m) == m # None /\ (m >= n \/ m \in failed)
<1>1. /\ st \in Statement /\ st.msg \in 1..MaxLog /\ st.msg <= Len(log) /\ Fresh(st.msg)
      /\ n \in 1..Len(log) /\ log' = log /\ failed' = failed
  BY DEF Execute, topic, history, Inv, TypeOK, Positions, InFlight, Statement, Table
<1>2. c \in Catalog /\ log[st.msg] \in Catalog
  BY <1>1 DEF Inv, TypeOK
<1>3. ASSUME c.items # {}, NEW i \in c.items
      PROVE  product'[<<c.seller, i>>] # None /\ Fresh(product'[<<c.seller, i>>].from)
  <2> DEFINE x == <<c.seller, i>>
  <2>1. x \in Seller \X Item /\ product[x] # None /\ Fresh(product[x].from)
    BY <1>2, <1>3 DEF NotBehind
  <2>2. product'[x] = product[x] \/ product'[x] = [from |-> st.msg, net |-> product[x] = None]
    BY <2>1 DEF Execute, StoreProducts, StoreLocation
  <2>3. [from |-> st.msg, net |-> product[x] = None] # None
    <3>1. st.msg \in Nat /\ (product[x] = None) \in BOOLEAN
      BY <1>1
    <3> QED
      BY <3>1, RowsAreNotNone
  <2> QED
    BY <1>1, <2>1, <2>2, <2>3
<1>4. ASSUME c.items # {} PROVE Fresh(location'[c.seller])
  <2>1. location'[c.seller] = location[c.seller] \/ location'[c.seller] = st.msg
    BY <1>2 DEF Execute, StoreProducts, StoreLocation, Inv, TypeOK
  <2> QED
    BY <1>1, <1>4, <2>1 DEF NotBehind
<1> QED
  BY <1>1, <1>3, <1>4 DEF NotBehind

\* What has been processed is not behind.
LEMMA ProcessedIsUpToDate ==
    ASSUME Inv, pc = "ok"
    PROVE  NotBehind(pos)
<1> DEFINE c == log[pos]
<1>1. pos \in 1..Len(log) /\ pos \in Nat /\ \A m \in {pos} \cup failed : m # None
  BY DEF Inv, TypeOK, Positions
<1>2. \A t \in Table : [table |-> t, msg |-> pos, life |-> resumed] \notin flight
  BY DEF Inv, InFlight
<1>3. ASSUME c.items # {}
      PROVE  /\ location[c.seller] \in {pos} \cup failed
             /\ \A i \in c.items : /\ product[<<c.seller, i>>] # None
                                   /\ product[<<c.seller, i>>].from \in {pos} \cup failed
  BY <1>2, <1>3 DEF Inv, Ended, Table
<1>4. \A m \in {pos} \cup failed : m # None /\ (m >= pos \/ m \in failed)
  BY <1>1
<1> QED
  BY <1>3, <1>4 DEF NotBehind

LEMMA UpToDateStep ==
    ASSUME Inv, [Next]_vars
    PROVE  UpToDate'
<1> SUFFICES ASSUME NEW n \in done', n \notin failed', Settled(n)'
             PROVE  NotBehind(n)'
  BY DEF UpToDate
<1>1. CASE UNCHANGED vars
  BY <1>1 DEF Inv, UpToDate, Settled, NotBehind, vars, topic, consumer, catalogue, history
<1>2. CASE SearchStep
  BY <1>2, SearchStepLeaves
     DEF Inv, UpToDate, Settled, NotBehind, topic, consumer, catalogue, history
<1>3. ASSUME NEW c \in Catalog, OnSearch(c) PROVE NotBehind(n)'
  <2>1. n \in done \ failed /\ Settled(n)
    BY <1>3 DEF OnSearch, Settled, consumer, history
  <2>2. log'[n] = log[n]
    BY <1>3, <2>1 DEF OnSearch, Inv, TypeOK, Positions
  <2> QED
    BY <1>3, <2>1, <2>2, StaysUpToDate DEF OnSearch, Inv, UpToDate, catalogue, history
<1>4. CASE StartConsumer
  <2>1. n \in done \ failed /\ Settled(n)
    BY <1>4 DEF StartConsumer, Settled, topic, Inv, TypeOK
  <2> QED
    BY <1>4, <2>1, StaysUpToDate DEF StartConsumer, Inv, UpToDate, topic, catalogue
<1>5. CASE Take
  <2>1. n \in done \ failed /\ Settled(n)
    BY <1>5 DEF Take, Goes, Settled, topic, history
  <2> QED
    BY <1>5, <2>1, StaysUpToDate DEF Take, Inv, UpToDate, topic, catalogue, history
<1>6. CASE SaveSeller
  <2>1. n \in done \ failed /\ Settled(n)
    BY <1>6 DEF SaveSeller, Settled, topic, history
  <2> QED
    BY <1>6, <2>1, StaysUpToDate DEF SaveSeller, Inv, UpToDate, topic, history
<1>7. ASSUME NEW st \in flight, Execute(st) PROVE NotBehind(n)'
  <2>1. n \in done \ failed /\ Settled(n)
    BY <1>7 DEF Execute, Joined, Awaited, Settled, topic, history
  <2>2. n < pos
    BY <2>1 DEF Inv, TypeOK, Positions, Settled
  <2> QED
    BY <1>7, <2>1, <2>2, ExecuteKeepsUpToDate DEF Inv, UpToDate
<1>8. ASSUME NEW st \in flight, FailExecute(st) PROVE NotBehind(n)'
  <2>1. n \in done \ failed /\ failed \subseteq failed'
    BY <1>8 DEF FailExecute
  <2>2. Settled(n)
    BY <1>8, <2>1 DEF FailExecute, Awaited, Settled, topic, Inv, TypeOK
  <2> QED
    BY <1>8, <2>1, <2>2, StaysUpToDate DEF FailExecute, Inv, UpToDate, topic, catalogue
<1>9. CASE Notify
  <2>1. n \in done \ failed /\ Settled(n)
    BY <1>9 DEF Notify, Settled, topic
  <2> QED
    BY <1>9, <2>1, StaysUpToDate DEF Notify, Inv, UpToDate, topic, catalogue
<1>10. CASE CommitMessage
  <2>1. CASE n = pos
    BY <1>10, <2>1, ProcessedIsUpToDate DEF CommitMessage, NotBehind, catalogue
  <2>2. CASE n # pos
    <3>1. n \in done \ failed /\ Settled(n)
      BY <1>10, <2>2 DEF CommitMessage, Settled, Inv, TypeOK
    <3> QED
      BY <1>10, <3>1, StaysUpToDate DEF CommitMessage, Inv, UpToDate, catalogue
  <2> QED
    BY <2>1, <2>2
<1>11. CASE Committed
  <2>1. n \in done \ failed /\ Settled(n)
    BY <1>11 DEF Committed, Settled, consumer, history, Inv, TypeOK, Positions
  <2> QED
    BY <1>11, <2>1, StaysUpToDate DEF Committed, Inv, UpToDate, catalogue, history
<1>12. CASE Restart
  <2>1. n \in done \ failed /\ Settled(n)
    BY <1>12 DEF Restart, Settled
  <2> QED
    BY <1>12, <2>1, StaysUpToDate DEF Restart, Inv, UpToDate, catalogue
<1>13. CASE Rejoin
  <2>1. n \in done \ failed /\ Settled(n)
    BY <1>13 DEF Rejoin, Settled, Inv, TypeOK, Positions
  <2> QED
    BY <1>13, <2>1, StaysUpToDate DEF Rejoin, Inv, UpToDate, catalogue
<1> QED
  BY Steps, <1>1, <1>2, <1>3, <1>4, <1>5, <1>6, <1>7, <1>8, <1>9, <1>10, <1>11, <1>12,
     <1>13

-------------------------------------------------------------------------------
(* Theorems                                                                    *)

LEMMA InitInv == Init => Inv
<1> SUFFICES ASSUME Init PROVE Inv
  OBVIOUS
<1>1. TypeOK
  <2>1. Idle \in [stage: {"idle", "busy", "answered"}, save: Outcome, send: Outcome]
    BY DEF Idle, Outcome
  <2>2. log \in Seq(Catalog) /\ Len(log) = 0
    BY DEF Init
  <2> QED
    BY <2>1, <2>2 DEF Init, TypeOK
<1>2. Positions /\ InFlight /\ Passed /\ Tellings /\ Ended /\ UpToDate
  BY DEF Init, Positions, InFlight, Passed, Tellings, Ended, UpToDate
<1>3. Searches
  BY DEF Init, Searches, Idle
<1> QED
  BY <1>1, <1>2, <1>3 DEF Inv

\* The inductive invariant: what a position, a statement in flight, a
\* processed message and a row of the catalogue say of each other.
THEOREM InvariantHolds == Spec => []Inv
<1>1. ASSUME Inv, [Next]_vars PROVE Inv'
  BY <1>1, TypeStep, PositionsStep, InFlightStep, PassedStep, SearchesStep, TellingsStep,
     EndedStep, UpToDateStep DEF Inv
<1> QED
  BY InitInv, <1>1, PTL DEF Spec

\* Types, for all searches, catalogues and bounds.
THEOREM TypeCorrect == Spec => []TypeOK
<1>1. Inv => TypeOK
  BY DEF Inv
<1> QED
  BY <1>1, InvariantHolds, PTL

\* When the buyer has been answered and the save did not fail, on_search
\* finds the search.
THEOREM SavedSearchesAreKnown == Spec => []SearchIsKnown
<1>1. Inv => SearchIsKnown
  <2> SUFFICES ASSUME Inv, NEW s \in Search, search[s].stage = "answered", search[s].save # "failed"
               PROVE  s \in known
    BY DEF SearchIsKnown
  <2>1. search[s].save \in {"none", "ok", "failed"}
    BY DEF Inv, TypeOK, Outcome
  <2> QED
    BY <2>1 DEF Inv, Searches
<1> QED
  BY <1>1, InvariantHolds, PTL

\* The consumer and the group's offset pass no message that was not
\* processed or did not fail, except at a start without an offset.
THEOREM NothingIsSkippedSilently == Spec => []NoSilentSkip
<1>1. Inv => NoSilentSkip
  <2> SUFFICES ASSUME Inv, NEW n \in 1..Len(log), reset < n,
                      n < pos \/ (committed # None /\ n < committed)
               PROVE  n \in done \cup failed
    BY DEF NoSilentSkip
  <2>1. n < pos
    BY DEF Inv, TypeOK, Positions
  <2> QED
    BY <2>1 DEF Inv, Passed
<1> QED
  BY <1>1, InvariantHolds, PTL

\* A buyer is told of an answer at most once between two resumptions: a
\* restart of the process, or a rejoin of the group at the committed offset.
THEOREM BuyersAreToldAgainOnlyAfterResumptions == Spec => []ToldOncePerResumption
<1>1. Inv => ToldOncePerResumption
  BY DEF Inv, Tellings, ToldOncePerResumption
<1> QED
  BY <1>1, InvariantHolds, PTL

\* The catalogue never falls behind an answer that was committed and did not fail.
THEOREM CatalogueIsNotBehind == Spec => []StoredNotBehind
<1>1. Inv => StoredNotBehind
  BY DEF Inv, UpToDate, Settled, StoredNotBehind
<1> QED
  BY <1>1, InvariantHolds, PTL

\* A buyer is told of what is in the catalogue.
THEOREM BuyersAreToldOfWhatIsStored == Spec => ToldIsStored
<1>1. ASSUME Inv, [Next]_vars, NEW n \in 1..MaxLog, told'[n] # told[n]
      PROVE  LET c == log[n] IN
             /\ location[c.seller] \in {n} \cup failed
             /\ \A i \in c.items : /\ product[<<c.seller, i>>] # None
                                   /\ product[<<c.seller, i>>].from \in {n} \cup failed
  <2>1. Notify
    <3>1. told' # told
      BY <1>1
    <3> QED
      BY <1>1, <3>1, Steps, SearchStepLeaves
         DEF vars, history, OnSearch, StartConsumer, Take, SaveSeller, Execute, FailExecute,
             CommitMessage, Committed, Rejoin, Restart
  <2>2. n = pos /\ pc = "notify"
    BY <1>1, <2>1 DEF Notify, Inv, TypeOK
  <2>3. log[pos].items # {} /\ \A t \in Table : [table |-> t, msg |-> pos, life |-> resumed] \notin flight
    BY <1>1, <2>2 DEF Inv, Positions, InFlight
  <2> QED
    BY <1>1, <2>2, <2>3 DEF Inv, Ended, Table
<1>2. Inv /\ [Next]_vars =>
        [\A n \in 1..MaxLog : told'[n] # told[n] =>
           LET c == log[n] IN
           /\ location[c.seller] \in {n} \cup failed
           /\ \A i \in c.items : /\ product[<<c.seller, i>>] # None
                                 /\ product[<<c.seller, i>>].from \in {n} \cup failed]_vars
  BY <1>1
<1> QED
  BY <1>2, InvariantHolds, PTL DEF Spec, ToldIsStored
===============================================================================
