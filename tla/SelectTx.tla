------------------------------- MODULE SelectTx -------------------------------
(***************************************************************************)
(* The transactions that place an order, statement by statement: on a      *)
(* purchase order's select (initialize_order_select) and on the seller's   *)
(* on_select (initialize_order_on_select).  Both delete the order of the   *)
(* external_urn, keep its number or take the next one of the series,       *)
(* insert the order, its items and its fulfillments, and commit.           *)
(*                                                                         *)
(* The database is PostgreSQL at READ COMMITTED: a statement sees what is  *)
(* committed when it starts, a row that is changed and a unique key that   *)
(* is inserted stay locked until their transaction ends.                   *)
(***************************************************************************)
EXTENDS Naturals

CONSTANTS
    Tx,      \* tasks with a transaction, of all processes
    Order,   \* external_urns
    Key,     \* (subscriber_id, series_type, prefix) of series_no_generator
    Basket,  \* what a select may be about: the sets of its fulfillment ids
    MaxNo,   \* bound: numbers taken from a series
    None

\* An order has a fulfillment.
ASSUME BasketAssumption == {} \notin Basket

Urn == [key: Key, no: Nat]
Fids == SUBSET UNION Basket
Row == [urn: Urn, fids: Fids]
Kind == {"rfq", "on_select"}
Pc == {"delete", "blocked", "series", "insert", "commit"}
Work == [pc: Pc, kind: Kind, order: Order, key: Key, fids: Basket,
         urn: Urn \cup {None}, merge: BOOLEAN]

ASSUME NoneAssumption ==
    None \notin Tx \cup Urn \cup Row \cup Work

VARIABLES
    row,         \* committed orders in commerce_data, by external_urn
    seriesNo,    \* committed series_no, 0 for a series without a row
    rowLock,     \* who holds the row, or the unique key, of an external_urn
    seriesLock,  \* who holds the row, or the unique key, of a series
    tx           \* what each task's transaction is doing

vars == <<row, seriesNo, rowLock, seriesLock, tx>>

Init ==
    /\ row = [o \in Order |-> None]
    /\ seriesNo = [k \in Key |-> 0]
    /\ rowLock = [o \in Order |-> None]
    /\ seriesLock = [k \in Key |-> None]
    /\ tx = [t \in Tx |-> None]

At(t, pc) == tx[t] # None /\ tx[t].pc = pc
Goto(t, pc) == tx' = [tx EXCEPT ![t].pc = pc]

\* What ends with a transaction.
Unlock(t) ==
    /\ rowLock' = [o \in Order |-> IF rowLock[o] = t THEN None ELSE rowLock[o]]
    /\ seriesLock' = [k \in Key |-> IF seriesLock[k] = t THEN None ELSE seriesLock[k]]

\* The prefix of the series is a setting the business may change between two
\* selects, so the key is chosen anew.
Begin(t, kind, o, k, fids) ==
    /\ tx[t] = None
    /\ tx' = [tx EXCEPT ![t] = [pc |-> "delete", kind |-> kind, order |-> o, key |-> k,
                                fids |-> fids, urn |-> None, merge |-> FALSE]]
    /\ UNCHANGED <<row, seriesNo, rowLock, seriesLock>>

\* Mutant: an order that is placed again takes a new number, too.
DeleteRowRenumbers(t) ==
    LET o == tx[t].order IN
    /\ row[o] # None /\ rowLock[o] = None
    /\ rowLock' = [rowLock EXCEPT ![o] = t]
    /\ Goto(t, "series")
    /\ UNCHANGED <<row, seriesNo, seriesLock>>

\* DELETE ... RETURNING urn, of a row that is there and free.
DeleteRow(t) ==
    LET o == tx[t].order IN
    /\ row[o] # None /\ rowLock[o] = None
    /\ rowLock' = [rowLock EXCEPT ![o] = t]
    /\ tx' = [tx EXCEPT ![t].urn = row[o].urn, ![t].pc = "insert"]
    /\ UNCHANGED <<row, seriesNo, seriesLock>>

\* delete_order: nothing to delete, a row to delete, or a row to wait for.
DeleteOrder(t) ==
    /\ At(t, "delete")
    /\ LET o == tx[t].order IN
       \/ row[o] = None /\ Goto(t, "series")
                        /\ UNCHANGED <<row, seriesNo, rowLock, seriesLock>>
       \/ DeleteRow(t)
       \/ row[o] # None /\ rowLock[o] # None /\ Goto(t, "blocked")
                        /\ UNCHANGED <<row, seriesNo, rowLock, seriesLock>>

\* The row waited for is still there and free again.
ResumeDelete(t) == At(t, "blocked") /\ DeleteRow(t)

\* Mutant: the number is computed without waiting for the series.
GetSeriesNoUnlocked(t) ==
    LET k == tx[t].key IN
    /\ At(t, "series")
    /\ seriesNo[k] < MaxNo
    /\ seriesLock' = [seriesLock EXCEPT ![k] = t]
    /\ tx' = [tx EXCEPT ![t].urn = [key |-> k, no |-> seriesNo[k] + 1], ![t].pc = "insert"]
    /\ UNCHANGED <<row, seriesNo, rowLock>>

\* get_series_no: the upsert of generate_series waits for the series and
\* works on what is committed then.
GetSeriesNo(t) ==
    LET k == tx[t].key IN
    /\ At(t, "series")
    /\ seriesLock[k] = None
    /\ seriesNo[k] < MaxNo
    /\ seriesLock' = [seriesLock EXCEPT ![k] = t]
    /\ tx' = [tx EXCEPT ![t].urn = [key |-> k, no |-> seriesNo[k] + 1], ![t].pc = "insert"]
    /\ UNCHANGED <<row, seriesNo, rowLock>>

\* The insert of the order finds no row, or the one it deleted itself.
InsertOrder(t) ==
    LET o == tx[t].order IN
    /\ At(t, "insert")
    /\ rowLock[o] = t \/ (rowLock[o] = None /\ row[o] = None)
    /\ rowLock' = [rowLock EXCEPT ![o] = t]
    /\ Goto(t, "commit")
    /\ UNCHANGED <<row, seriesNo, seriesLock>>

Conflict(t) ==
    LET o == tx[t].order IN
    /\ At(t, "insert")
    /\ rowLock[o] = None /\ row[o] # None

\* Mutant: fulfillments are upserted, as the items are.
InsertMergesAny(t) ==
    LET o == tx[t].order IN
    /\ Conflict(t)
    /\ tx[t].kind = "on_select"
    /\ rowLock' = [rowLock EXCEPT ![o] = t]
    /\ tx' = [tx EXCEPT ![t].merge = TRUE, ![t].pc = "commit"]
    /\ UNCHANGED <<row, seriesNo, seriesLock>>

\* A select answered twice at once: ON CONFLICT DO UPDATE takes the row of
\* the other answer, the items are upserted and the fulfillments added to it.
InsertMerges(t) ==
    LET o == tx[t].order IN
    /\ Conflict(t)
    /\ tx[t].kind = "on_select"
    /\ tx[t].fids \cap row[o].fids = {}
    /\ rowLock' = [rowLock EXCEPT ![o] = t]
    /\ tx' = [tx EXCEPT ![t].merge = TRUE, ![t].pc = "commit"]
    /\ UNCHANGED <<row, seriesNo, seriesLock>>

Rollback(t) ==
    /\ tx' = [tx EXCEPT ![t] = None]
    /\ Unlock(t)
    /\ UNCHANGED <<row, seriesNo>>

\* The fulfillments of a purchase order refer to a row ON CONFLICT DO NOTHING
\* did not insert; those the row already has violate their unique key.
InsertFails(t) ==
    /\ Conflict(t)
    /\ tx[t].kind = "rfq" \/ tx[t].fids \cap row[tx[t].order].fids # {}
    /\ Rollback(t)

\* The order as it is after the commit.
Stored(t) ==
    LET w == tx[t] IN
    IF w.merge
    THEN [urn |-> row[w.order].urn, fids |-> row[w.order].fids \cup w.fids]
    ELSE [urn |-> w.urn, fids |-> w.fids]

\* Mutant: a number is counted whenever an order is stored.
CommitAlwaysCounts(t) ==
    LET w == tx[t]
        o == w.order
    IN
    /\ At(t, "commit")
    /\ row' = [row EXCEPT ![o] = Stored(t)]
    /\ seriesNo' = [seriesNo EXCEPT ![w.key] = @ + 1]
    /\ tx' = [tx EXCEPT ![t] = None]
    /\ Unlock(t)

\* Of the transactions that waited to delete the row, those whose row is
\* gone go on as if there had been none; a row that was only updated, they
\* wait for still.
Commit(t) ==
    LET w == tx[t]
        o == w.order
        taken == seriesLock[w.key] = t
    IN
    /\ At(t, "commit")
    /\ row' = [row EXCEPT ![o] = Stored(t)]
    /\ seriesNo' = IF taken THEN [seriesNo EXCEPT ![w.key] = @ + 1] ELSE seriesNo
    /\ tx' = [u \in Tx |->
                 IF u = t THEN None
                 ELSE IF At(u, "blocked") /\ tx[u].order = o /\ ~w.merge
                      THEN [tx[u] EXCEPT !.pc = "series"]
                      ELSE tx[u]]
    /\ Unlock(t)

\* A statement fails, a prefix is not configured, the process dies.
Fail(t) == tx[t] # None /\ Rollback(t)

Step(t) ==
    \/ DeleteOrder(t)
    \/ ResumeDelete(t)
    \/ GetSeriesNo(t)
    \/ InsertOrder(t)
    \/ InsertMerges(t)
    \/ InsertFails(t)
    \/ Commit(t)

Next ==
    \E t \in Tx :
        \/ \E kind \in Kind, o \in Order, k \in Key, fids \in Basket :
               Begin(t, kind, o, k, fids)
        \/ Step(t)
        \/ Fail(t)

Spec == Init /\ [][Next]_vars

----------------------------------------------------------------------------
(* What must hold.                                                         *)

\* Tables and transactions hold what they may.
TypeOK ==
    /\ row \in [Order -> Row \cup {None}]
    /\ seriesNo \in [Key -> Nat]
    /\ rowLock \in [Order -> Tx \cup {None}]
    /\ seriesLock \in [Key -> Tx \cup {None}]
    /\ tx \in [Tx -> Work \cup {None}]

\* No two orders of a series have the same number, although the number is
\* computed long before it is committed, and by several processes.
NumbersAreUnique ==
    \A o, p \in Order :
        o # p /\ row[o] # None /\ row[p] # None => row[o].urn # row[p].urn

\* An order is what one select was about, or several with nothing in common:
\* never a mixture of two that share a fulfillment.
OneBasket ==
    \A o \in Order : row[o] # None =>
        \E parts \in SUBSET Basket :
            /\ row[o].fids = UNION parts
            /\ \A b, c \in parts : b # c => b \cap c = {}

\* For whom a transaction waits: at the delete and at the insert for the row
\* of its order, between them for its series.
WaitsFor(t, u) ==
    /\ u # t /\ tx[t] # None
    /\ \/ tx[t].pc \in {"blocked", "insert"} /\ rowLock[tx[t].order] = u
       \/ tx[t].pc = "series" /\ seriesLock[tx[t].key] = u

\* No transactions wait for each other in a circle, although they lock rows
\* of two tables: of every set of them one waits for none of the set.
NoDeadlock ==
    \A S \in SUBSET Tx : S # {} => \E t \in S : \A u \in S : ~WaitsFor(t, u)

\* Who holds a lock is at work on what it locks, and a number that was taken
\* is the next of its series until it is committed.
LocksAreHeldAtWork ==
    /\ \A k \in Key : \A t \in Tx : seriesLock[k] = t =>
         /\ tx[t] # None /\ tx[t].pc \in {"insert", "commit"} /\ tx[t].key = k
         /\ tx[t].urn = [key |-> k, no |-> seriesNo[k] + 1]
    /\ \A o \in Order : \A t \in Tx : rowLock[o] = t =>
         tx[t] # None /\ tx[t].pc \in {"insert", "commit"} /\ tx[t].order = o

\* Where each transaction stands: before the insert it has the number of the
\* row it deleted or a new one, before the commit it holds the row as well.
Taken(t) == seriesLock[tx[t].key] = t
Kept(t) ==
    LET o == tx[t].order IN
    rowLock[o] = t /\ row[o] # None /\ row[o].urn = tx[t].urn

Sound(t) ==
    LET w == tx[t] IN
    /\ w.pc # "commit" => ~w.merge
    /\ w.pc = "blocked" => row[w.order] # None
    /\ w.pc = "insert" => IF Taken(t) THEN rowLock[w.order] # t ELSE Kept(t)
    /\ w.pc = "commit" =>
         /\ rowLock[w.order] = t
         /\ w.merge => /\ row[w.order] # None /\ Taken(t)
                       /\ w.fids \cap row[w.order].fids = {}
         /\ ~w.merge => IF Taken(t) THEN row[w.order] = None ELSE Kept(t)

WorkIsSound == \A t \in Tx : tx[t] # None => Sound(t)

NumbersAreCounted ==
    \A o \in Order : row[o] # None => row[o].urn.no \in 1..seriesNo[row[o].urn.key]

\* The inductive invariant behind the theorems of SelectTxProofs.
Invariant ==
    /\ TypeOK
    /\ LocksAreHeldAtWork
    /\ WorkIsSound
    /\ NumbersAreCounted
    /\ NumbersAreUnique

\* Placing an order again, twice at once or with another prefix, does not
\* change its number.
NumberIsKept ==
    [][\A o \in Order : row[o] # None => row'[o] # None /\ row'[o].urn = row[o].urn]_vars

\* Statement by statement, the transactions place orders one at a time.
Numbers == INSTANCE OrderNumbers WITH placed <- row, last <- seriesNo
ImplementsOrderNumbers == Numbers!Spec
=============================================================================
