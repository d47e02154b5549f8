------------------------------ MODULE DbSessions ------------------------------
(***************************************************************************)
(* What the handlers that write an order ask of the database at the same   *)
(* time: connections of a pool that has PoolMax of them, and locks on the  *)
(* rows of the order, which stay with a transaction until it ends.         *)
(*                                                                         *)
(* A handler first reads, each query on a connection of its own, then      *)
(* begins a transaction and keeps its connection; on_select reads again    *)
(* before its first statement.  What the statements store is the other     *)
(* modules' business: here a transaction is the locks it asks for, in the  *)
(* order of its statements.                                                *)
(***************************************************************************)
EXTENDS Naturals, FiniteSets, Sequences

CONSTANTS
    Task,     \* handlers at work, of all processes of one pool
    Order,    \* orders, by external_urn
    Served,   \* what the tasks may be
    PoolMax,  \* max_connections
    None

Kind == {"select", "on_select", "on_init", "on_confirm", "on_status", "on_cancel",
         "on_update", "create_payment", "notify_payment"}

ASSUME PoolAssumption == PoolMax \in Nat \ {0}
ASSUME ServedAssumption == Served \subseteq Kind
ASSUME NoneAssumption == None \notin Order

\* Rows of one order that the statements lock together, and the series of
\* the order numbers, which all orders share.
Class == {"order", "items", "fulfillments", "payments"}
Row == [order: Order, class: Class] \cup [order: {None}, class: {"series"}]

\* FOR KEY SHARE by the foreign key check of an insert, FOR NO KEY UPDATE by
\* an update, FOR UPDATE by a delete.
Mode == {"share", "update", "delete"}

Conflict(m, n) == IF m = "share" THEN n = "delete" ELSE m = "delete" \/ n # "share"

\* The queries that run before the transaction: the request and the order,
\* or the minimal order, or what order_select looks up.
ReadsBefore == [k \in Kind |->
    CASE k \in {"on_select", "create_payment", "notify_payment"} -> 1
      [] k = "select" -> 4
      [] OTHER -> 5]

\* The three queries of on_select between its begin and its first statement.
ReadsWithin == [k \in Kind |-> IF k = "on_select" THEN 3 ELSE 0]

\* Mutant: on_cancel replaces the payments before it updates the order.
LocksOfOrderLate(k) ==
    IF k = "on_cancel"
    THEN {<< <<"payments", "delete">>, <<"order", "update">>, <<"fulfillments", "update">>,
             <<"items", "update">> >>}
    ELSE {<< <<"order", "update">>, <<"payments", "update">> >>}

\* The locks of a transaction: class and mode, statement by statement.
Locks(k) ==
    CASE k \in {"select", "on_select"} ->
           {<< <<"order", "delete">>, <<"items", "delete">>, <<"fulfillments", "delete">>,
               <<"payments", "delete">> >>,
            << <<"series", "update">>, <<"order", "delete">> >>}
      [] k \in {"on_init", "on_update"} ->
           {<< <<"payments", "delete">>, <<"order", "share">>, <<"order", "update">> >>}
      [] k \in {"on_confirm", "on_status"} ->
           {<< <<"order", "update">>, <<"fulfillments", "update">>, <<"payments", "delete">> >>}
      [] k = "on_cancel" ->
           {<< <<"order", "update">>, <<"payments", "delete">>, <<"fulfillments", "update">>,
               <<"items", "update">> >>}
      [] OTHER ->
           {<< <<"order", "update">>, <<"payments", "update">> >>}

VARIABLES
    task,  \* what each handler is doing
    held   \* the locks of each transaction

vars == <<task, held>>

\* todo queries wait for a connection, busy ones have one; conn is the
\* connection of the transaction, left the locks it will still ask for.
Off == [pc |-> "off", kind |-> None, order |-> None, todo |-> 0, busy |-> 0,
        conn |-> FALSE, left |-> <<>>]

Init ==
    /\ task = [t \in Task |-> Off]
    /\ held = [t \in Task |-> {}]

Used(t) == task[t].busy + (IF task[t].conn THEN 1 ELSE 0)

\* The connections in use, those of each task numbered.
InUse == UNION {{t} \X (1 .. Used(t)) : t \in Task}

\* A connection is free.
Free == Cardinality(InUse) < PoolMax

\* Mutant: the rows that belong to orders are not matched by their order.
RowOfAny(t, class) ==
    IF class = "order" THEN [order |-> task[t].order, class |-> class]
    ELSE [order |-> None, class |-> class]

RowOf(t, class) ==
    IF class = "series" THEN [order |-> None, class |-> class]
    ELSE [order |-> task[t].order, class |-> class]

\* The lock a transaction asks for next, once it does not read.
Asks(t) == task[t].conn /\ task[t].pc # "failed" /\ task[t].todo = 0 /\ task[t].busy = 0
           /\ task[t].left # <<>>
Wanted(t) == [row |-> RowOf(t, Head(task[t].left)[1]), mode |-> Head(task[t].left)[2]]

\* Who holds a lock that conflicts with it.
Blockers(t) ==
    {u \in Task \ {t} :
        Asks(t) /\ \E h \in held[u] : h.row = Wanted(t).row /\ Conflict(h.mode, Wanted(t).mode)}

\* Each waits for another of them; none of them could be left out.
Circle(S) == S # {} /\ \A t \in S : Blockers(t) \cap S # {}
Deadlock(S) == Circle(S) /\ \A R \in SUBSET S : Circle(R) => R = S

\* A query, or the begin, waits for a connection.
WaitsForPool(t) ==
    \/ task[t].todo > 0
    \/ task[t].pc = "read" /\ task[t].busy = 0

----------------------------------------------------------------------------
Start(t) ==
    /\ task[t] = Off
    /\ \E k \in Served, o \in Order :
          task' = [task EXCEPT ![t] =
                      [pc |-> "read", kind |-> k, order |-> o, todo |-> ReadsBefore[k],
                       busy |-> 0, conn |-> FALSE, left |-> <<>>]]
    /\ UNCHANGED held

StartQuery(t) ==
    /\ task[t].todo > 0
    /\ Free
    /\ task' = [task EXCEPT ![t].todo = @ - 1, ![t].busy = @ + 1]
    /\ UNCHANGED held

EndQuery(t) ==
    /\ task[t].busy > 0
    /\ task' = [task EXCEPT ![t].busy = @ - 1]
    /\ UNCHANGED held

\* Mutant: every handler begins before it reads.
BeginFirst(t) ==
    /\ task[t].pc = "read"
    /\ task[t].busy = 0 /\ ~task[t].conn
    /\ Free
    /\ \E locks \in Locks(task[t].kind) :
          task' = [task EXCEPT ![t].pc = "work", ![t].conn = TRUE, ![t].left = locks]
    /\ UNCHANGED held

\* pool.begin(); a select finds the order to replace, or takes a number.
Begin(t) ==
    /\ task[t].pc = "read"
    /\ task[t].todo = 0 /\ task[t].busy = 0
    /\ Free
    /\ \E locks \in Locks(task[t].kind) :
          task' = [task EXCEPT ![t].pc = "work", ![t].conn = TRUE, ![t].left = locks,
                               ![t].todo = ReadsWithin[task[t].kind]]
    /\ UNCHANGED held

\* A statement gets the lock it asks for.
Lock(t) ==
    /\ Asks(t)
    /\ Blockers(t) = {}
    /\ held' = [held EXCEPT ![t] = @ \cup {Wanted(t)}]
    /\ task' = [task EXCEPT ![t].left = Tail(@)]

\* The connection goes back to the pool, the locks with it.
Ends(t) ==
    /\ task' = [task EXCEPT ![t] = Off]
    /\ held' = [held EXCEPT ![t] = {}]

Commit(t) ==
    /\ task[t].pc = "work"
    /\ task[t].todo = 0 /\ task[t].busy = 0 /\ task[t].left = <<>>
    /\ Ends(t)

\* Mutant: only a begin has a timeout.
AcquireTimeoutOfBegin(t) ==
    /\ task[t].pc = "read" /\ WaitsForPool(t) /\ ~Free
    /\ task' = [task EXCEPT ![t].pc = "failed", ![t].todo = 0]
    /\ UNCHANGED held

\* acquire_timeout: all that still wait in the join give up, those that have
\* a connection run to their end.
AcquireTimeout(t) ==
    /\ WaitsForPool(t) /\ ~Free
    /\ task' = [task EXCEPT ![t].pc = "failed", ![t].todo = 0]
    /\ UNCHANGED held

\* The handler returns its error, the transaction is rolled back.
Fail(t) ==
    /\ task[t].pc = "failed" /\ task[t].busy = 0
    /\ Ends(t)

\* deadlock_timeout: the database aborts a transaction that waits in a circle.
DeadlockAbort(t) ==
    /\ \E S \in SUBSET Task : t \in S /\ Deadlock(S)
    /\ Ends(t)

\* A statement, the chat server or the process fails.
Dies(t) == task[t] # Off /\ Ends(t)

Work(t) == StartQuery(t) \/ EndQuery(t) \/ Begin(t) \/ Lock(t) \/ Commit(t) \/ Fail(t)

Next ==
    \E t \in Task :
        \/ Start(t)
        \/ Work(t)
        \/ AcquireTimeout(t)
        \/ DeadlockAbort(t)
        \/ Dies(t)

Spec == Init /\ [][Next]_vars

\* The pool and the locks serve those that wait in turn; the two timeouts
\* strike whoever goes on waiting.
FairSpec ==
    /\ Spec
    /\ \A t \in Task :
          /\ SF_vars(StartQuery(t)) /\ WF_vars(EndQuery(t)) /\ SF_vars(Begin(t))
          /\ SF_vars(Lock(t)) /\ WF_vars(Commit(t)) /\ WF_vars(Fail(t))
          /\ WF_vars(AcquireTimeout(t)) /\ WF_vars(DeadlockAbort(t))

----------------------------------------------------------------------------
(* What must hold.                                                         *)

Pc == {"off", "read", "work", "failed"}

\* Tasks and locks are what they may be.
TypeOK ==
    /\ task \in [Task -> [pc: Pc, kind: Kind \cup {None}, order: Order \cup {None},
                          todo: Nat, busy: Nat, conn: BOOLEAN,
                          left: Seq((Class \cup {"series"}) \X Mode)]]
    /\ held \in [Task -> SUBSET [row: Row, mode: Mode]]

\* Whoever holds a lock has all the connections it will need: the pool and
\* the locks cannot wait for each other.
HoldersNeedNoConnection ==
    \A t \in Task : held[t] # {} => ~WaitsForPool(t)

\* Handlers whose first statement is about the order never wait for each
\* other in a circle: in each there is an on_init or an on_update, whose
\* first statement deletes the payments.
CirclesNeedPaymentsFirst ==
    \A S \in SUBSET Task :
        Circle(S) => \E t \in S : task[t].kind \in {"on_init", "on_update"}

\* Two orders never wait for each other in a circle, although a select holds
\* the series they share while it waits for its order.
DeadlocksAreWithinAnOrder ==
    \A S \in SUBSET Task :
        Deadlock(S) => \A t, u \in S : task[t].order = task[u].order

\* The pool is exhausted by tasks that wait for it only when all its
\* connections belong to on_selects that read within their transaction.
OnlyOnSelectsStall ==
    LET users == {t \in Task : Used(t) > 0} IN
    ~Free /\ (\A t \in users : WaitsForPool(t) /\ task[t].busy = 0) =>
        Cardinality(users) = PoolMax /\ \A t \in users : task[t].kind = "on_select"

\* The waiting ends: neither the locks nor the pool keep a handler for ever.
EveryTaskEnds == \A t \in Task : task[t] # Off ~> task[t] = Off
=============================================================================
