----------------------------- MODULE Notifications -----------------------------
(***************************************************************************)
(* Who is told what of an order, and when it is stored.  Every callback,   *)
(* the payment service's notification and a purchase order's select write  *)
(* the order in a transaction; on the way they post to the chat of buyer   *)
(* and seller (purchase orders only) and send a message to the buyer's     *)
(* websocket, some of them before and some after the commit.               *)
(*                                                                         *)
(* The statements of a handler are one step here, which takes the lock of  *)
(* the order row and keeps it until the transaction ends.  A handler has   *)
(* an identity, so that what was told can be compared with what was        *)
(* stored; texts are left out.                                             *)
(***************************************************************************)
EXTENDS Naturals, Sequences, SequencesExt

CONSTANTS
    Task,      \* handlers, each of which runs once
    Order,     \* orders, by external_urn
    Purchase   \* those that are purchase orders: their select has another ttl

ASSUME PurchaseAssumption == Purchase \subseteq Order

Creating == {"select", "on_select"}
Reporting == {"on_init", "on_confirm", "on_status", "on_cancel", "on_update"}
Kind == Creating \cup Reporting \cup {"on_select_error", "notify_payment"}

VARIABLES
    task,    \* what each handler is doing
    rooms,   \* the orders with a chat at the chat server
    chat,    \* per order, the handlers that posted to its chat
    socket,  \* per order, the handlers whose websocket message went out
    stored   \* per order, the handlers whose transaction committed

vars == <<task, rooms, chat, socket, stored>>

Idle == [pc |-> "idle", kind |-> "none", order |-> "none", todo |-> <<>>, wrote |-> FALSE]

Init ==
    /\ task = [t \in Task |-> Idle]
    /\ rooms = {}
    /\ chat = [o \in Order |-> <<>>]
    /\ socket = [o \in Order |-> <<>>]
    /\ stored = [o \in Order |-> <<>>]

----------------------------------------------------------------------------
(* What a handler does, step by step.                                      *)

\* initialize_order_select beside send_rfq_request_chat, after the chat was
\* created for the request; a sale order's select neither stores nor posts.
SelectSteps ==
    {<<"room", "post", "write", "commit">>,
     <<"room", "write", "post", "commit">>,
     <<"room", "write", "commit", "post">>}

\* A quote is told once it is stored, a refusal stores nothing.
OnSelectSteps(purchase) ==
    IF purchase THEN <<"room", "write", "post", "commit", "send">>
    ELSE <<"write", "commit", "send">>

OnSelectErrorSteps == <<"post", "commit", "send">>

\* Mutant: the buyer is told when it is certain.
OnInitStepsCertain(purchase) ==
    IF purchase THEN <<"write", "post", "commit", "send">> ELSE <<"write", "commit", "send">>

\* Mutant: the chat is a courtesy of its own, after the commit.
OnInitStepsCourtesy(purchase) ==
    IF purchase THEN <<"write", "send", "commit", "post">> ELSE <<"write", "send", "commit">>

\* Mutant: the chat is told first, as on_status and on_cancel do.
OnInitStepsFirst(purchase) ==
    IF purchase THEN <<"post", "write", "send", "commit">> ELSE <<"write", "send", "commit">>

\* on_init and on_confirm.
OnInitSteps(purchase) ==
    IF purchase THEN <<"write", "post", "send", "commit">> ELSE <<"write", "send", "commit">>

OnStatusSteps(purchase) ==
    IF purchase THEN <<"post", "write", "send", "commit">> ELSE <<"write", "send", "commit">>

\* on_cancel and on_update: the websocket hears of those that were asked for.
OnCancelSteps(purchase) ==
    IF purchase THEN {<<"post", "write", "send", "commit">>, <<"post", "write", "commit">>}
    ELSE {<<"write", "send", "commit">>, <<"write", "commit">>}

\* A payment that is paid already is left alone.
NotifySteps == {<<"write", "must_send", "commit">>, <<"commit">>}

Steps(k, purchase) ==
    CASE k = "select" -> SelectSteps
      [] k = "on_select" -> {OnSelectSteps(purchase)}
      [] k = "on_select_error" -> {OnSelectErrorSteps}
      [] k \in {"on_init", "on_confirm"} -> {OnInitSteps(purchase)}
      [] k = "on_status" -> {OnStatusSteps(purchase)}
      [] k \in {"on_cancel", "on_update"} -> OnCancelSteps(purchase)
      [] k = "notify_payment" -> NotifySteps

----------------------------------------------------------------------------
KindOf(t) == task[t].kind
Now(t) == IF task[t].pc = "run" THEN Head(task[t].todo) ELSE "none"
Exists(o) == \E i \in DOMAIN stored[o] : KindOf(stored[o][i]) \in Creating

\* Only an order that is there is reported on, and only a purchase order is
\* stored by its select.
Start(t) ==
    /\ task[t] = Idle
    /\ \E k \in Kind, o \in Order :
          /\ k \in Reporting \cup {"notify_payment"} => Exists(o)
          /\ k = "select" => o \in Purchase
          /\ \E todo \in Steps(k, o \in Purchase) :
                task' = [task EXCEPT ![t] = [pc |-> "run", kind |-> k, order |-> o,
                                             todo |-> todo, wrote |-> FALSE]]
    /\ UNCHANGED <<rooms, chat, socket, stored>>

Goes(t) ==
    task' = [task EXCEPT ![t].todo = Tail(@),
                         ![t].pc = IF Len(task[t].todo) = 1 THEN "done" ELSE @]

\* A handler that ends gives its locks back: with its commit or without.
Gives(t) == task' = [task EXCEPT ![t].pc = "failed", ![t].wrote = FALSE]

\* get_chat_links creates the chat of the transaction, if there is none.
Room(t) ==
    /\ Now(t) = "room"
    /\ rooms' = rooms \cup {task[t].order}
    /\ Goes(t)
    /\ UNCHANGED <<chat, socket, stored>>

\* send_chat_data arrives, and so does its answer ...
Post(t) ==
    /\ Now(t) = "post"
    /\ chat' = [chat EXCEPT ![task[t].order] = Append(@, t)]
    /\ Goes(t)
    /\ UNCHANGED <<rooms, socket, stored>>

\* ... or its answer does not, which ends the handler as an error does.
PostUnanswered(t) ==
    /\ Now(t) = "post"
    /\ chat' = [chat EXCEPT ![task[t].order] = Append(@, t)]
    /\ Gives(t)
    /\ UNCHANGED <<rooms, socket, stored>>

\* The statements, once no other transaction has the row of the order.
Write(t) ==
    /\ Now(t) = "write"
    /\ \A u \in Task : task[u].wrote => task[u].order # task[t].order
    /\ task' = [task EXCEPT ![t].todo = Tail(@), ![t].wrote = TRUE]
    /\ UNCHANGED <<rooms, chat, socket, stored>>

\* send_msg; its result is dropped, except by the payment notification.
Send(t) ==
    /\ Now(t) \in {"send", "must_send"}
    /\ socket' = [socket EXCEPT ![task[t].order] = Append(@, t)]
    /\ Goes(t)
    /\ UNCHANGED <<rooms, chat, stored>>

SendFails(t) ==
    /\ Now(t) \in {"send", "must_send"}
    /\ \/ Now(t) = "send" /\ Goes(t)
       \/ Now(t) = "must_send" /\ Gives(t)
    /\ UNCHANGED <<rooms, chat, socket, stored>>

Commit(t) ==
    /\ Now(t) = "commit"
    /\ stored' = IF task[t].wrote THEN [stored EXCEPT ![task[t].order] = Append(@, t)]
                 ELSE stored
    /\ task' = [task EXCEPT ![t].todo = Tail(@), ![t].wrote = FALSE,
                            ![t].pc = IF Len(task[t].todo) = 1 THEN "done" ELSE @]
    /\ UNCHANGED <<rooms, chat, socket>>

\* A read, a statement, the commit, the chat server or the process fails.
Dies(t) ==
    /\ task[t].pc = "run"
    /\ Gives(t)
    /\ UNCHANGED <<rooms, chat, socket, stored>>

Next ==
    \E t \in Task :
        \/ Start(t)
        \/ Room(t)
        \/ Post(t) \/ PostUnanswered(t)
        \/ Write(t)
        \/ Send(t) \/ SendFails(t)
        \/ Commit(t)
        \/ Dies(t)

Spec == Init /\ [][Next]_vars

----------------------------------------------------------------------------
(* What must hold.                                                         *)

Step == {"room", "post", "write", "send", "must_send", "commit"}

\* Handlers are at a step of theirs; what was told or stored a handler did,
\* once and for its order.
TypeOK ==
    /\ task \in [Task -> [pc: {"idle", "run", "done", "failed"}, kind: Kind \cup {"none"},
                          order: Order \cup {"none"}, todo: Seq(Step), wrote: BOOLEAN]]
    /\ rooms \subseteq Order
    /\ \A f \in {chat, socket, stored} :
         /\ f \in [Order -> Seq(Task)]
         /\ \A o \in Order : \A i \in DOMAIN f[o] : task[f[o][i]].order = o
         /\ \A o \in Order : IsInjective(f[o])

\* Whatever a callback stored of a purchase order, the chat has a post of it,
\* whenever processes die: chat and order do not drift apart.
StoredWasPosted ==
    \A o \in Purchase : \A t \in Range(stored[o]) :
        KindOf(t) \in Reporting \cup {"on_select"} => t \in Range(chat[o])

\* Nothing is posted to a chat nobody created, but the refusal of a select,
\* which is posted whether or not a quote was requested.
PostsHaveARoom ==
    \A o \in Order : \A t \in Range(chat[o]) :
        KindOf(t) # "on_select_error" => o \in rooms

Before(s, t, u) == \E i, j \in DOMAIN s : i < j /\ s[i] = t /\ s[j] = u

\* What the websocket hears from reports and payments it hears in the order
\* in which they are stored, although it hears of them before the commit:
\* they hold the row of the order meanwhile.
SocketFollowsStore ==
    \A o \in Order : \A t, u \in Range(stored[o]) :
        {KindOf(t), KindOf(u)} \cap {"select", "on_select"} = {} =>
            ~(Before(stored[o], t, u) /\ Before(socket[o], u, t))

\* At most one handler of an order that is still alive has told its buyer
\* something that is not stored.
OneTellsAhead ==
    \A t, u \in Task :
        /\ {task[t].pc, task[u].pc} = {"run"}
        /\ task[t].order = task[u].order
        /\ KindOf(t) # "on_select_error" /\ KindOf(u) # "on_select_error"
        /\ \A v \in {t, u} : v \in Range(socket[task[v].order])
                              /\ v \notin Range(stored[task[v].order])
        => t = u

\* Of a quote the buyer is told over the websocket once it is stored: a quote
\* that is announced is there.
QuotesAreToldOnceStored ==
    \A o \in Order : \A t \in Range(socket[o]) :
        KindOf(t) = "on_select" => t \in Range(stored[o])

\* The posts of on_init and on_confirm come in the order in which they are
\* stored; those of other callbacks may overtake each other.
PostsOfTermsFollowStore ==
    \A o \in Purchase : \A t, u \in Range(stored[o]) :
        {KindOf(t), KindOf(u)} \subseteq {"on_init", "on_confirm"} =>
            ~(Before(stored[o], t, u) /\ Before(chat[o], u, t))
=============================================================================
