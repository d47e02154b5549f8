-------------------------- MODULE NotificationsProofs --------------------------
(***************************************************************************)
(* Safety of Notifications, for any number of handlers and orders.  What a *)
(* handler has posted, sent and stored follows from how far it is in its   *)
(* program (Handler); that at most one handler of an order has written and *)
(* not ended (Exclusive) carries what was told into the order of commits.  *)
(***************************************************************************)
EXTENDS Notifications, TLAPS

Sends == {"send", "must_send"}
Terms == {"on_init", "on_confirm"}
Told == Kind \ Creating

(* A step of name s is among the first n of program p.                     *)
Done(p, n, s) == \E i \in 1 .. n : p[i] = s

(* t has done the first n steps of p and the rest is left.                 *)
At(t, p, n) ==
    /\ n < Len(p)
    /\ Len(task[t].todo) = Len(p) - n
    /\ \A i \in 1 .. Len(task[t].todo) : task[t].todo[i] = p[n + i]

Did(t, p, n) ==
    LET o == task[t].order
    IN /\ t \in Range(chat[o]) <=> Done(p, n, "post")
       /\ t \in Range(socket[o]) => Done(p, n, "send") \/ Done(p, n, "must_send")
       /\ t \in Range(stored[o]) <=> Done(p, n, "write") /\ Done(p, n, "commit")
       /\ task[t].wrote <=> Done(p, n, "write") /\ ~Done(p, n, "commit")
       /\ Done(p, n, "room") => o \in rooms

Handler(t) ==
    /\ task[t].pc = "idle" =>
          /\ task[t] = Idle
          /\ \A o \in Order : t \notin Range(chat[o]) \cup Range(socket[o]) \cup Range(stored[o])
    /\ task[t].pc # "idle" => task[t].kind \in Kind /\ task[t].order \in Order
    /\ task[t].pc # "run" => ~task[t].wrote
    /\ task[t].pc = "run" =>
          /\ task[t].kind \in Reporting /\ task[t].order \in Purchase => task[t].order \in rooms
          /\ task[t].kind = "select" => task[t].order \in Purchase
          /\ \E p \in Steps(task[t].kind, task[t].order \in Purchase), n \in Nat :
                At(t, p, n) /\ Did(t, p, n)

(* At most one handler of an order has written and not ended.              *)
Exclusive ==
    \A t, u \in Task :
        task[t].wrote /\ task[u].wrote /\ task[t].order = task[u].order => t = u

(* A purchase order that was stored has a chat.                            *)
StoredHasARoom == \A o \in Purchase : Exists(o) => o \in rooms

(* In log f, handlers of kinds in K come in the order of log g ...         *)
Follows(f, g, K) ==
    \A o \in Order : \A t, u \in Range(g[o]) :
        KindOf(t) \in K /\ KindOf(u) \in K => ~(Before(g[o], t, u) /\ Before(f[o], u, t))

(* ... and one that holds the row comes after all in g.                    *)
Ahead(f, g, K) ==
    \A t \in Task : task[t].wrote /\ KindOf(t) \in K =>
        \A u \in Range(g[task[t].order]) :
            KindOf(u) \in K => ~Before(f[task[t].order], t, u)

Inv ==
    /\ TypeOK
    /\ \A t \in Task : Handler(t)
    /\ Exclusive
    /\ StoredHasARoom
    /\ StoredWasPosted
    /\ PostsHaveARoom
    /\ QuotesAreToldOnceStored
    /\ Follows(socket, stored, Told) /\ Ahead(socket, stored, Told)
    /\ Follows(chat, stored, Terms) /\ Ahead(chat, stored, Terms)

-----------------------------------------------------------------------------
(* The programs.                                                           *)

(* What the steps of a program come after.                                 *)
Shape(k, b, p) ==
    /\ p \in Seq(Step) /\ Len(p) > 0
    /\ Done(p, Len(p), "commit")
    /\ \A i, j \in 1 .. Len(p) : p[i] = p[j] \/ (p[i] \in Sends /\ p[j] \in Sends) => i = j
    /\ \A i \in 1 .. Len(p) :
          LET after(s) == Done(p, i - 1, s)
          IN /\ p[i] = "commit" /\ b /\ k \in Reporting \cup {"on_select"} => after("post")
             /\ p[i] = "commit" /\ b /\ k \in Creating => after("room")
             /\ p[i] = "write" =>
                   /\ ~after("commit") /\ ~after("send") /\ ~after("must_send")
                   /\ k \in Terms => ~after("post")
             /\ p[i] \in Sends /\ k = "on_select" => after("write") /\ after("commit")
             /\ p[i] \in Sends /\ k \notin {"on_select", "on_select_error"} =>
                   after("write") /\ ~after("commit")
             /\ p[i] \in Sends /\ k = "on_select_error" => ~Done(p, Len(p), "write")
             /\ p[i] = "post" /\ k \in Terms => after("write") /\ ~after("commit")
             /\ p[i] = "post" /\ k \in Creating => after("room")
             /\ p[i] = "post" /\ k \in Reporting => b
             /\ p[i] = "post" => k # "notify_payment"

LEMMA Programs ==
  ASSUME NEW k \in Kind, NEW b \in BOOLEAN, k = "select" => b, NEW p \in Steps(k, b)
  PROVE  Shape(k, b, p)
<1> USE DEF Shape, Done, Step, Sends, Terms, Reporting, Creating, Kind
<1>1. CASE k = "select"
  <2>1. p \in SelectSteps /\ b
    BY <1>1 DEF Steps
  <2>2. CASE p = <<"room", "post", "write", "commit">>
    BY <1>1, <2>1, <2>2
  <2>3. CASE p = <<"room", "write", "post", "commit">>
    BY <1>1, <2>1, <2>3
  <2>4. CASE p = <<"room", "write", "commit", "post">>
    BY <1>1, <2>1, <2>4
  <2> QED
    BY <2>1, <2>2, <2>3, <2>4 DEF SelectSteps
<1>2. CASE k = "on_select"
  <2>1. p = OnSelectSteps(b)
    BY <1>2 DEF Steps
  <2>2. CASE b /\ p = <<"room", "write", "post", "commit", "send">>
    BY <1>2, <2>2
  <2>3. CASE ~b /\ p = <<"write", "commit", "send">>
    BY <1>2, <2>3
  <2> QED
    BY <2>1, <2>2, <2>3 DEF OnSelectSteps
<1>3. CASE k = "on_select_error"
  <2>1. p = <<"post", "commit", "send">>
    BY <1>3 DEF Steps, OnSelectErrorSteps
  <2> QED
    BY <1>3, <2>1
<1>4. CASE k \in {"on_init", "on_confirm"}
  <2>1. p = OnInitSteps(b)
    BY <1>4 DEF Steps
  <2>2. CASE b /\ p = <<"write", "post", "send", "commit">>
    BY <1>4, <2>2
  <2>3. CASE ~b /\ p = <<"write", "send", "commit">>
    BY <1>4, <2>3
  <2> QED
    BY <2>1, <2>2, <2>3 DEF OnInitSteps
<1>5. CASE k \in {"on_status", "on_cancel", "on_update"}
  <2>1. p = OnStatusSteps(b) \/ p \in OnCancelSteps(b)
    BY <1>5 DEF Steps
  <2>2. CASE b /\ p = <<"post", "write", "send", "commit">>
    BY <1>5, <2>2
  <2>3. CASE b /\ p = <<"post", "write", "commit">>
    BY <1>5, <2>3
  <2>4. CASE ~b /\ p = <<"write", "send", "commit">>
    BY <1>5, <2>4
  <2>5. CASE ~b /\ p = <<"write", "commit">>
    BY <1>5, <2>5
  <2> QED
    BY <2>1, <2>2, <2>3, <2>4, <2>5 DEF OnStatusSteps, OnCancelSteps
<1>6. CASE k = "notify_payment"
  <2>1. p \in NotifySteps
    BY <1>6 DEF Steps
  <2>2. CASE p = <<"write", "must_send", "commit">>
    BY <1>6, <2>2
  <2>3. CASE p = <<"commit">>
    BY <1>6, <2>3
  <2> QED
    BY <2>1, <2>2, <2>3 DEF NotifySteps
<1> QED
  BY <1>1, <1>2, <1>3, <1>4, <1>5, <1>6

-----------------------------------------------------------------------------
(* Logs.                                                                   *)

LEMMA RangeOfAppend ==
  ASSUME NEW S, NEW s \in Seq(S), NEW x \in S
  PROVE  /\ Append(s, x) \in Seq(S)
         /\ Range(Append(s, x)) = Range(s) \cup {x}
  <1>1. Len(Append(s, x)) = Len(s) + 1 /\ Append(s, x)[Len(s) + 1] = x
    OBVIOUS
  <1>2. \A i \in 1 .. Len(s) : Append(s, x)[i] = s[i]
    OBVIOUS
  <1> QED
    BY <1>1, <1>2 DEF Range

LEMMA InjectiveAppend ==
  ASSUME NEW S, NEW s \in Seq(S), NEW x \in S, IsInjective(s), x \notin Range(s)
  PROVE  IsInjective(Append(s, x))
  BY DEF Range, IsInjective

LEMMA BeforeAppend ==
  ASSUME NEW S, NEW s \in Seq(S), NEW x \in S, NEW t, NEW u
  PROVE  Before(Append(s, x), t, u) => Before(s, t, u) \/ (u = x /\ t \in Range(s))
  BY DEF Range, Before

LEMMA BeforeIsIn ==
  ASSUME NEW s, NEW t, NEW u, Before(s, t, u)
  PROVE  t \in Range(s) /\ u \in Range(s)
  BY DEF Range, Before
-----------------------------------------------------------------------------
(* What a handler at work knows.                                           *)

LEMMA NowIs ==
  ASSUME TypeOK, NEW t \in Task, task[t].pc = "run",
         NEW p \in Seq(Step), NEW n \in Nat, At(t, p, n)
  PROVE  /\ n + 1 \in 1 .. Len(p) /\ Now(t) = p[n + 1]
         /\ \A s : Done(p, n + 1, s) <=> Done(p, n, s) \/ p[n + 1] = s
         /\ Len(Tail(task[t].todo)) = Len(p) - (n + 1)
         /\ \A i \in 1 .. Len(Tail(task[t].todo)) : Tail(task[t].todo)[i] = p[(n + 1) + i]
<1>1. task[t].todo \in Seq(Step)
  BY DEF TypeOK
<1>2. Len(p) \in Nat /\ Len(task[t].todo) > 0
  BY <1>1 DEF At
<1>3. Head(task[t].todo) = task[t].todo[1] /\ Len(Tail(task[t].todo)) = Len(task[t].todo) - 1
  BY <1>1, <1>2
<1>4. \A i \in 1 .. Len(Tail(task[t].todo)) : Tail(task[t].todo)[i] = task[t].todo[i + 1]
  BY <1>1, <1>2
<1>5. \A s : Done(p, n + 1, s) <=> Done(p, n, s) \/ p[n + 1] = s
  BY DEF Done
<1>6. n + 1 \in 1 .. Len(p) /\ Now(t) = p[n + 1]
  BY <1>2, <1>3 DEF At, Now
<1>7. /\ Len(Tail(task[t].todo)) = Len(p) - (n + 1)
      /\ \A i \in 1 .. Len(Tail(task[t].todo)) : Tail(task[t].todo)[i] = p[(n + 1) + i]
  <2> DEFINE d == Tail(task[t].todo)
  <2>1. Len(task[t].todo) = Len(p) - n /\ Len(d) = Len(p) - (n + 1)
    BY <1>2, <1>3 DEF At
  <2>2. ASSUME NEW i \in 1 .. Len(d)
        PROVE  d[i] = p[(n + 1) + i]
    <3>1. i + 1 \in 1 .. Len(task[t].todo) /\ d[i] = task[t].todo[i + 1]
      BY <1>2, <1>4, <2>1
    <3>2. task[t].todo[i + 1] = p[n + (i + 1)] /\ n + (i + 1) = (n + 1) + i
      BY <3>1 DEF At
    <3> QED
      BY <3>1, <3>2
  <2> QED
    BY <2>1, <2>2
<1> QED
  BY <1>5, <1>6, <1>7

(* Where t is in its program, and what it knows there.                     *)
Knows(t) ==
    LET o == task[t].order
        k == task[t].kind
    IN /\ Now(t) \in Step
       /\ Now(t) = "post" =>
             /\ t \notin Range(chat[o])
             /\ k \in Terms => t \notin Range(stored[o])
             /\ k # "on_select_error" => o \in rooms
       /\ Now(t) \in Sends =>
             /\ t \notin Range(socket[o])
             /\ k \in Told => t \notin Range(stored[o])
             /\ k = "on_select" => t \in Range(stored[o])
       /\ Now(t) = "write" =>
             /\ t \notin Range(socket[o])
             /\ k \in Terms => t \notin Range(chat[o])
             /\ Len(task[t].todo) > 1
       /\ Now(t) = "commit" =>
             /\ t \notin Range(stored[o])
             /\ o \in Purchase /\ k \in Reporting \cup {"on_select"} => t \in Range(chat[o])
             /\ o \in Purchase /\ k \in Creating => o \in rooms

LEMMA HandlerKnows ==
  ASSUME Inv, NEW t \in Task, task[t].pc = "run"
  PROVE  Knows(t)
<1> DEFINE o == task[t].order
           k == task[t].kind
           b == o \in Purchase
<1>1. k \in Kind /\ o \in Order /\ (k = "select" => b)
  BY DEF Inv, Handler
<1>2. PICK p \in Steps(k, b), n \in Nat : At(t, p, n) /\ Did(t, p, n)
  BY DEF Inv, Handler
<1>3. Shape(k, b, p)
  <2>1. b \in BOOLEAN
    OBVIOUS
  <2> HIDE DEF b
  <2> QED
    BY <1>1, <2>1, Programs
<1>4. p \in Seq(Step)
  BY <1>3 DEF Shape
<1>5. n + 1 \in 1 .. Len(p) /\ Now(t) = p[n + 1]
  BY <1>2, <1>4, NowIs DEF Inv
<1>6. p[n + 1] \in Step
  BY <1>4, <1>5
<1>7. \A s : p[n + 1] = s => ~Done(p, n, s)
  BY <1>3, <1>5 DEF Shape, Done
<1>8. p[n + 1] \in Sends => ~Done(p, n, "send") /\ ~Done(p, n, "must_send")
  BY <1>3, <1>5 DEF Shape, Done, Sends
<1> DEFINE after(s) == Done(p, n, s)
<1>9. /\ p[n + 1] = "commit" /\ b /\ k \in Reporting \cup {"on_select"} => after("post")
      /\ p[n + 1] = "commit" /\ b /\ k \in Creating => after("room")
      /\ p[n + 1] = "write" =>
            /\ ~after("commit") /\ ~after("send") /\ ~after("must_send")
            /\ k \in Terms => ~after("post")
      /\ p[n + 1] \in Sends /\ k = "on_select" => after("write") /\ after("commit")
      /\ p[n + 1] \in Sends /\ k \notin {"on_select", "on_select_error"} =>
            after("write") /\ ~after("commit")
      /\ p[n + 1] \in Sends /\ k = "on_select_error" => ~Done(p, Len(p), "write")
      /\ p[n + 1] = "post" /\ k \in Terms => after("write") /\ ~after("commit")
      /\ p[n + 1] = "post" /\ k \in Creating => after("room")
      /\ p[n + 1] = "post" /\ k \in Reporting => b
      /\ p[n + 1] = "post" => k # "notify_payment"
  <2>1. (n + 1) - 1 = n
    OBVIOUS
  <2> QED
    BY <1>3, <1>5, <2>1 DEF Shape
<1>10. Done(p, n, "write") => Done(p, Len(p), "write")
  BY <1>4, <1>5 DEF Done
<1>11. p[n + 1] = "write" => Len(task[t].todo) > 1
  <2>1. Done(p, Len(p), "commit")
    BY <1>3 DEF Shape
  <2>2. ASSUME p[n + 1] = "write"
        PROVE  n + 1 < Len(p)
    BY <1>4, <1>5, <1>9, <2>1, <2>2 DEF Done
  <2> QED
    BY <1>2, <1>4, <2>2 DEF At
<1>12. k \in Reporting /\ b => o \in rooms
  BY DEF Inv, Handler
<1>13. Now(t) = "post" /\ k # "on_select_error" => o \in rooms
  BY <1>1, <1>2, <1>5, <1>9, <1>12 DEF Did, Kind
<1>14. Now(t) \in Sends /\ k \in Told => t \notin Range(stored[o])
  BY <1>1, <1>2, <1>5, <1>9, <1>10 DEF Did, Told, Creating
<1> QED
  BY <1>1, <1>2, <1>5, <1>6, <1>7, <1>8, <1>9, <1>11, <1>13, <1>14 DEF Knows, Did
-----------------------------------------------------------------------------
(* What a step of t changes.                                               *)

(* Log g is f, or f and t at its end.                                      *)
Logged(f, g, t) == g = [f EXCEPT ![task[t].order] = Append(f[task[t].order], t)]

Grows(f, g, t) == g = f \/ (t \notin Range(f[task[t].order]) /\ Logged(f, g, t))

(* What that means for its entries and their order.                        *)
Grown(f, g, t) ==
    /\ g \in [Order -> Seq(Task)]
    /\ \A o \in Order : o # task[t].order => g[o] = f[o]
    /\ \A o \in Order : Range(f[o]) \subseteq Range(g[o])
    /\ \A o \in Order : Range(g[o]) \subseteq Range(f[o]) \cup {t}
    /\ \A o \in Order : IsInjective(f[o]) => IsInjective(g[o])
    /\ \A o \in Order, x, y \in Task :
          Before(g[o], x, y) => Before(f[o], x, y) \/ (y = t /\ x \in Range(f[o]))

LEMMA GrowsFacts ==
  ASSUME NEW f \in [Order -> Seq(Task)], NEW g, NEW t \in Task, task[t].order \in Order,
         Grows(f, g, t)
  PROVE  Grown(f, g, t)
<1> USE DEF Grown
<1>1. CASE g = f
  BY <1>1
<1>2. CASE t \notin Range(f[task[t].order]) /\ Logged(f, g, t)
  <2> DEFINE s == f[task[t].order]
  <2>1. s \in Seq(Task) /\ g[task[t].order] = Append(s, t)
    BY <1>2 DEF Logged
  <2>2. \A o \in Order : o # task[t].order => g[o] = f[o]
    BY <1>2 DEF Logged
  <2>3. Append(s, t) \in Seq(Task) /\ Range(Append(s, t)) = Range(s) \cup {t}
    BY <2>1, RangeOfAppend
  <2>4. IsInjective(s) => IsInjective(Append(s, t))
    BY <1>2, <2>1, InjectiveAppend
  <2>5. \A x, y : Before(Append(s, t), x, y) => Before(s, x, y) \/ (y = t /\ x \in Range(s))
    BY <2>1, BeforeAppend
  <2>6. g \in [Order -> Seq(Task)]
    BY <1>2, <2>3 DEF Logged
  <2>7. ASSUME NEW o \in Order
        PROVE  /\ Range(f[o]) \subseteq Range(g[o]) /\ Range(g[o]) \subseteq Range(f[o]) \cup {t}
               /\ IsInjective(f[o]) => IsInjective(g[o])
               /\ \A x, y \in Task : Before(g[o], x, y) =>
                     Before(f[o], x, y) \/ (y = t /\ x \in Range(f[o]))
    <3>1. CASE o = task[t].order
      <4>1. f[o] = s /\ g[o] = Append(s, t)
        BY <2>1, <3>1
      <4>2. Range(s) \subseteq Range(Append(s, t)) /\ Range(Append(s, t)) \subseteq Range(s) \cup {t}
        BY <2>3
      <4> HIDE DEF s
      <4> QED
        BY <2>4, <2>5, <4>1, <4>2
    <3>2. CASE o # task[t].order
      BY <2>2, <3>2
    <3> QED
      BY <3>1, <3>2
  <2> QED
    BY <2>2, <2>6, <2>7
<1> QED
  BY <1>1, <1>2 DEF Grows

Record ==
    [pc: {"idle", "run", "done", "failed"}, kind: Kind \cup {"none"},
     order: Order \cup {"none"}, todo: Seq(Step), wrote: BOOLEAN]

(* This becomes of t, and nobody else changes.                             *)
Becomes(t, pc, todo, wrote) ==
    /\ \A u \in Task : u # t => task'[u] = task[u]
    /\ task'[t].kind = task[t].kind /\ task'[t].order = task[t].order
    /\ task'[t].pc = pc /\ task'[t].todo = todo /\ task'[t].wrote = wrote
    /\ task' \in [Task -> Record]

(* t ends or goes on; nobody else does anything.                           *)
Acts(t) ==
    /\ task[t].pc = "run" /\ Knows(t)
    /\ \A u \in Task : u # t => task'[u] = task[u]
    /\ task'[t].kind = task[t].kind /\ task'[t].order = task[t].order
    /\ task' \in [Task -> Record]
    /\ task'[t].wrote => task[t].wrote \/ Now(t) = "write"
    /\ chat' = chat \/ (Now(t) = "post" /\ Logged(chat, chat', t))
    /\ socket' = socket \/ (Now(t) \in Sends /\ Logged(socket, socket', t))
    /\ \/ stored' = stored
       \/ /\ Now(t) = "commit" /\ task[t].wrote /\ ~task'[t].wrote
          /\ Logged(stored, stored', t)
    /\ rooms' = rooms \/ (Now(t) = "room" /\ rooms' = rooms \cup {task[t].order})
    /\ Now(t) = "write" /\ task'[t].wrote =>
          \A u \in Task : task[u].wrote => task[u].order # task[t].order

(* t does its next step as its program says.                               *)
Moves(t) ==
    /\ Acts(t)
    /\ task'[t].todo = Tail(task[t].todo)
    /\ task'[t].pc \in {"run", "done"}
    /\ task'[t].pc = "run" => Len(task[t].todo) > 1
    /\ task'[t].pc = "done" => Len(task[t].todo) = 1
    /\ task'[t].wrote <=> (task[t].wrote \/ Now(t) = "write") /\ Now(t) # "commit"
    /\ Now(t) = "post" => Logged(chat, chat', t)
    /\ Now(t) = "commit" /\ task[t].wrote =>
          Logged(stored, stored', t)
    /\ Now(t) = "room" => rooms' = rooms \cup {task[t].order}

(* t ends early.                                                           *)
Fails(t) == Acts(t) /\ task'[t].pc = "failed" /\ ~task'[t].wrote /\ stored' = stored

LEMMA ActionsMoveOrFail ==
  ASSUME Inv, NEW t \in Task,
         \/ Room(t) \/ Post(t) \/ PostUnanswered(t) \/ Write(t)
         \/ Send(t) \/ SendFails(t) \/ Commit(t) \/ Dies(t)
  PROVE  Moves(t) \/ Fails(t)
<1>1. task[t].pc = "run"
  BY DEF Room, Post, PostUnanswered, Write, Send, SendFails, Commit, Dies, Now
<1>2. Knows(t)
  BY <1>1, HandlerKnows
<1>3. /\ task \in [Task -> Record]
      /\ task[t].wrote \in BOOLEAN
  BY DEF Inv, TypeOK, Record
<1>4. task[t].todo \in Seq(Step) /\ Len(task[t].todo) > 0 /\ Tail(task[t].todo) \in Seq(Step)
  <2>1. PICK p \in Steps(task[t].kind, task[t].order \in Purchase), n \in Nat : At(t, p, n)
    BY <1>1 DEF Inv, Handler
  <2>2. task[t].todo \in Seq(Step)
    BY <1>3 DEF Record
  <2>3. task[t].kind \in Kind /\ (task[t].kind = "select" => task[t].order \in Purchase)
    BY <1>1 DEF Inv, Handler
  <2>4. Len(p) \in Nat
    <3> DEFINE b == task[t].order \in Purchase
    <3>1. b \in BOOLEAN
      OBVIOUS
    <3> HIDE DEF b
    <3> QED
      BY <2>1, <2>3, <3>1, Programs DEF Shape
  <2> QED
    BY <2>1, <2>2, <2>4 DEF At
<1> DEFINE r == task[t]
           rest == IF Len(r.todo) = 1 THEN "done" ELSE r.pc
<1>14. r \in Record
  BY <1>3
<1>15. task[t].todo \in Seq(Step) /\ Len(task[t].todo) \in Nat /\ 0 < Len(task[t].todo)
  BY <1>4
<1>16. Goes(t) => Becomes(t, rest, Tail(r.todo), r.wrote)
  <2> SUFFICES ASSUME Goes(t) PROVE Becomes(t, rest, Tail(r.todo), r.wrote)
    OBVIOUS
  <2> DEFINE w == [r EXCEPT !.todo = Tail(r.todo), !.pc = rest]
  <2>1. task' = [task EXCEPT ![t] = w]
    BY <1>3 DEF Goes
  <2>2. w \in Record /\ w.todo = Tail(r.todo) /\ w.pc = rest /\ w.wrote = r.wrote
        /\ w.kind = r.kind /\ w.order = r.order
    BY <1>1, <1>14, <1>4 DEF Record
  <2> QED
    BY <1>3, <2>1, <2>2 DEF Becomes
<1>17. Gives(t) => Becomes(t, "failed", r.todo, FALSE)
  <2> SUFFICES ASSUME Gives(t) PROVE Becomes(t, "failed", r.todo, FALSE)
    OBVIOUS
  <2> DEFINE w == [r EXCEPT !.pc = "failed", !.wrote = FALSE]
  <2>1. task' = [task EXCEPT ![t] = w]
    BY <1>3 DEF Gives
  <2>2. w \in Record /\ w.todo = r.todo /\ w.pc = "failed" /\ w.wrote = FALSE
        /\ w.kind = r.kind /\ w.order = r.order
    BY <1>14 DEF Record
  <2> QED
    BY <1>3, <2>1, <2>2 DEF Becomes
<1>18. Write(t) => Becomes(t, r.pc, Tail(r.todo), TRUE)
  <2> SUFFICES ASSUME Write(t) PROVE Becomes(t, r.pc, Tail(r.todo), TRUE)
    OBVIOUS
  <2> DEFINE w == [r EXCEPT !.todo = Tail(r.todo), !.wrote = TRUE]
  <2>1. task' = [task EXCEPT ![t] = w]
    BY <1>3 DEF Write
  <2>2. w \in Record /\ w.todo = Tail(r.todo) /\ w.pc = r.pc /\ w.wrote = TRUE
        /\ w.kind = r.kind /\ w.order = r.order
    BY <1>14, <1>4 DEF Record
  <2> QED
    BY <1>3, <2>1, <2>2 DEF Becomes
<1>19. Commit(t) => Becomes(t, rest, Tail(r.todo), FALSE)
  <2> SUFFICES ASSUME Commit(t) PROVE Becomes(t, rest, Tail(r.todo), FALSE)
    OBVIOUS
  <2> DEFINE w == [r EXCEPT !.todo = Tail(r.todo), !.wrote = FALSE, !.pc = rest]
  <2>1. task' = [task EXCEPT ![t] = w]
    BY <1>3 DEF Commit
  <2>2. w \in Record /\ w.todo = Tail(r.todo) /\ w.pc = rest /\ w.wrote = FALSE
        /\ w.kind = r.kind /\ w.order = r.order
    BY <1>1, <1>14, <1>4 DEF Record
  <2> QED
    BY <1>3, <2>1, <2>2 DEF Becomes
<1>20. rest \in {"run", "done"} /\ (rest = "run" => Len(r.todo) > 1) /\ (rest = "done" => Len(r.todo) = 1)
  <2>1. CASE Len(r.todo) = 1
    BY <2>1
  <2>2. CASE Len(r.todo) # 1
    <3>1. \A m \in Nat : 0 < m /\ m # 1 => m > 1
      OBVIOUS
    <3>2. Len(r.todo) > 1
      BY <1>15, <2>2, <3>1
    <3> QED
      BY <1>1, <2>2, <3>2
  <2> QED
    BY <2>1, <2>2
<1> HIDE DEF rest
<1> USE DEF Sends, Logged, Becomes
<1>5. CASE Room(t)
  BY <1>1, <1>2, <1>3, <1>20, <1>16, <1>5 DEF Room, Moves, Acts
<1>6. CASE Post(t)
  BY <1>1, <1>2, <1>3, <1>20, <1>16, <1>6 DEF Post, Moves, Acts
<1>7. CASE PostUnanswered(t)
  BY <1>1, <1>2, <1>3, <1>17, <1>7 DEF PostUnanswered, Fails, Acts
<1>8. CASE Write(t)
  BY <1>1, <1>2, <1>3, <1>20, <1>18, <1>8 DEF Write, Moves, Acts, Knows
<1>9. CASE Send(t)
  BY <1>1, <1>2, <1>3, <1>20, <1>16, <1>9 DEF Send, Moves, Acts
<1>10. CASE SendFails(t) /\ Goes(t)
  BY <1>1, <1>2, <1>3, <1>20, <1>16, <1>10 DEF SendFails, Moves, Acts
<1>11. CASE SendFails(t) /\ Gives(t)
  BY <1>1, <1>2, <1>3, <1>17, <1>11 DEF SendFails, Fails, Acts
<1>12. CASE Commit(t)
  BY <1>1, <1>2, <1>3, <1>20, <1>19, <1>12 DEF Commit, Moves, Acts
<1>13. CASE Dies(t)
  BY <1>1, <1>2, <1>3, <1>17, <1>13 DEF Dies, Fails, Acts
<1> QED
  BY <1>5, <1>6, <1>7, <1>8, <1>9, <1>10, <1>11, <1>12, <1>13 DEF SendFails
-----------------------------------------------------------------------------
(* A step preserves each part of the invariant.                            *)

LEMMA LogsGrow ==
  ASSUME Inv, NEW t \in Task, Acts(t)
  PROVE  /\ task[t].order \in Order
         /\ Grown(chat, chat', t) /\ Grown(socket, socket', t) /\ Grown(stored, stored', t)
         /\ rooms \subseteq rooms' /\ rooms' \subseteq Order
         /\ \A u \in Task : task'[u].kind = task[u].kind /\ task'[u].order = task[u].order
<1>1. task[t].order \in Order
  BY DEF Acts, Inv, Handler
<1>2. /\ chat \in [Order -> Seq(Task)] /\ socket \in [Order -> Seq(Task)]
      /\ stored \in [Order -> Seq(Task)] /\ rooms \subseteq Order
  BY DEF Inv, TypeOK
<1>3. Grows(chat, chat', t) /\ Grows(socket, socket', t) /\ Grows(stored, stored', t)
  BY DEF Acts, Knows, Grows
<1>4. rooms \subseteq rooms' /\ rooms' \subseteq Order
  BY <1>1, <1>2 DEF Acts
<1>5. \A u \in Task : task'[u].kind = task[u].kind /\ task'[u].order = task[u].order
  BY DEF Acts
<1>6. Grown(chat, chat', t) /\ Grown(socket, socket', t) /\ Grown(stored, stored', t)
  BY <1>1, <1>2, <1>3, GrowsFacts
<1> QED
  BY <1>1, <1>4, <1>5, <1>6

(* What the logs have of u, whoever acts.                                  *)
LEMMA RangesGrow ==
  ASSUME Inv, NEW t \in Task, Acts(t), NEW o \in Order
  PROVE  /\ Range(chat[o]) \subseteq Range(chat'[o]) /\ Range(chat'[o]) \subseteq Range(chat[o]) \cup {t}
         /\ Range(socket[o]) \subseteq Range(socket'[o]) /\ Range(socket'[o]) \subseteq Range(socket[o]) \cup {t}
         /\ Range(stored[o]) \subseteq Range(stored'[o]) /\ Range(stored'[o]) \subseteq Range(stored[o]) \cup {t}
         /\ Range(chat'[o]) \subseteq Task /\ Range(socket'[o]) \subseteq Task
         /\ Range(stored'[o]) \subseteq Task
<1>1. /\ chat'[o] \in Seq(Task) /\ socket'[o] \in Seq(Task) /\ stored'[o] \in Seq(Task)
  BY LogsGrow DEF Grown
<1>2. \A x \in Seq(Task) : Range(x) \subseteq Task
  BY DEF Range
<1>3. ASSUME NEW f, NEW g, Grown(f, g, t)
      PROVE  Range(f[o]) \subseteq Range(g[o]) /\ Range(g[o]) \subseteq Range(f[o]) \cup {t}
  BY <1>3 DEF Grown
<1>4. Range(chat[o]) \subseteq Range(chat'[o]) /\ Range(chat'[o]) \subseteq Range(chat[o]) \cup {t}
  BY <1>3, LogsGrow
<1>5. Range(socket[o]) \subseteq Range(socket'[o]) /\ Range(socket'[o]) \subseteq Range(socket[o]) \cup {t}
  BY <1>3, LogsGrow
<1>6. Range(stored[o]) \subseteq Range(stored'[o]) /\ Range(stored'[o]) \subseteq Range(stored[o]) \cup {t}
  BY <1>3, LogsGrow
<1> QED
  BY <1>1, <1>2, <1>4, <1>5, <1>6

(* Entries of a log are of its order.                                      *)
LEMMA LogsAreOfTheirOrder ==
  ASSUME Inv, NEW o \in Order, NEW u \in Range(chat[o]) \cup Range(socket[o]) \cup Range(stored[o])
  PROVE  u \in Task /\ task[u].order = o /\ task[u].pc # "idle"
<1>1. \A f \in {chat, socket, stored} : f[o] \in Seq(Task) /\ \A i \in DOMAIN f[o] : task[f[o][i]].order = o
  BY DEF Inv, TypeOK
<1>2. PICK f \in {chat, socket, stored} : u \in Range(f[o])
  OBVIOUS
<1>3. PICK i \in DOMAIN f[o] : u = f[o][i]
  BY <1>2 DEF Range
<1>4. u \in Task /\ task[u].order = o
  BY <1>1, <1>2, <1>3
<1>5. task[u].pc # "idle"
  BY <1>4 DEF Inv, Handler
<1> QED
  BY <1>4, <1>5

LEMMA ActsType ==
  ASSUME Inv, NEW t \in Task, Acts(t)
  PROVE  TypeOK'
<1>1. ASSUME NEW f \in {chat, socket, stored}, NEW g, Grown(f, g, t)
      PROVE  /\ g \in [Order -> Seq(Task)]
             /\ \A o \in Order : \A i \in DOMAIN g[o] : task'[g[o][i]].order = o
             /\ \A o \in Order : IsInjective(g[o])
  <2>1. \A o \in Order : IsInjective(f[o]) /\ \A i \in DOMAIN f[o] : task[f[o][i]].order = o
    BY DEF Inv, TypeOK
  <2>2. g \in [Order -> Seq(Task)] /\ \A o \in Order : IsInjective(g[o])
    <3>1. g \in [Order -> Seq(Task)]
      BY <1>1 DEF Grown
    <3>2. \A o \in Order : IsInjective(f[o]) => IsInjective(g[o])
      BY <1>1 DEF Grown
    <3> QED
      BY <2>1, <3>1, <3>2
  <2>3. ASSUME NEW o \in Order, NEW i \in DOMAIN g[o]
        PROVE  task'[g[o][i]].order = o
    <3>1. g[o][i] \in Range(g[o]) /\ g[o][i] \in Task
      BY <2>2, <2>3 DEF Range
    <3>2. \A u \in Range(f[o]) : task[u].order = o
      BY <2>1 DEF Range
    <3>3. CASE g[o][i] \in Range(f[o])
      BY <3>1, <3>2, <3>3, LogsGrow
    <3>4. CASE g[o][i] \notin Range(f[o])
      <4>1. g[o][i] = t /\ o = task[t].order
        <5>1. o # task[t].order => g[o] = f[o]
          BY <1>1 DEF Grown
        <5>2. Range(g[o]) \subseteq Range(f[o]) \cup {t}
          BY <1>1 DEF Grown
        <5> QED
          BY <3>1, <3>4, <5>1, <5>2
      <4> QED
        BY <4>1, LogsGrow
    <3> QED
      BY <3>3, <3>4
  <2> QED
    BY <2>2, <2>3
<1>2. task' \in [Task -> Record] /\ rooms' \subseteq Order
  BY LogsGrow DEF Acts
<1>3. Grown(chat, chat', t) /\ Grown(socket, socket', t) /\ Grown(stored, stored', t)
  BY LogsGrow
<1> QED
  BY <1>1, <1>2, <1>3 DEF TypeOK, Record
LEMMA OthersHandle ==
  ASSUME Inv, NEW t \in Task, Acts(t), NEW u \in Task, u # t
  PROVE  Handler(u)'
<1>1. task'[u] = task[u] /\ Handler(u)
  BY DEF Acts, Inv
<1>2. \A o \in Order : /\ u \in Range(chat'[o]) <=> u \in Range(chat[o])
                       /\ u \in Range(socket'[o]) <=> u \in Range(socket[o])
                       /\ u \in Range(stored'[o]) <=> u \in Range(stored[o])
  BY RangesGrow
<1>3. rooms \subseteq rooms'
  BY LogsGrow
<1>4. ASSUME task[u].pc = "run"
      PROVE  \E p \in Steps(task'[u].kind, task'[u].order \in Purchase), n \in Nat :
                At(u, p, n)' /\ Did(u, p, n)'
  <2>1. PICK p \in Steps(task[u].kind, task[u].order \in Purchase), n \in Nat :
           At(u, p, n) /\ Did(u, p, n)
    BY <1>1, <1>4 DEF Handler
  <2>2. At(u, p, n)'
    BY <1>1, <2>1 DEF At
  <2>3. task[u].order \in Order
    BY <1>1, <1>4 DEF Handler
  <2>4. Did(u, p, n)'
    BY <1>1, <1>2, <1>3, <2>1, <2>3 DEF Did
  <2> QED
    BY <1>1, <2>1, <2>2, <2>4
<1> QED
  BY <1>1, <1>2, <1>3, <1>4 DEF Handler

LEMMA MovesHandle ==
  ASSUME Inv, NEW t \in Task, Moves(t)
  PROVE  Handler(t)'
<1> DEFINE o == task[t].order
           k == task[t].kind
           b == o \in Purchase
<1>1. Acts(t) /\ task[t].pc = "run" /\ Knows(t) /\ TypeOK
  BY DEF Moves, Acts, Inv
<1>2. /\ k \in Kind /\ o \in Order /\ (k = "select" => b) /\ (k \in Reporting /\ b => o \in rooms)
      /\ task'[t].kind = k /\ task'[t].order = o
  BY <1>1 DEF Inv, Handler, Acts
<1>3. PICK p \in Steps(k, b), n \in Nat : At(t, p, n) /\ Did(t, p, n)
  BY <1>1 DEF Inv, Handler
<1>4. Shape(k, b, p)
  <2>1. b \in BOOLEAN
    OBVIOUS
  <2> HIDE DEF b
  <2> QED
    BY <1>2, <2>1, Programs
<1>5. p \in Seq(Step) /\ Len(p) \in Nat
  BY <1>4 DEF Shape
<1>6. /\ n + 1 \in 1 .. Len(p) /\ Now(t) = p[n + 1]
      /\ \A s : Done(p, n + 1, s) <=> Done(p, n, s) \/ Now(t) = s
      /\ Len(Tail(task[t].todo)) = Len(p) - (n + 1)
      /\ \A i \in 1 .. Len(Tail(task[t].todo)) : Tail(task[t].todo)[i] = p[(n + 1) + i]
  BY <1>1, <1>3, <1>5, NowIs
<1>7. Len(task[t].todo) = Len(p) - n
  BY <1>3 DEF At
<1>8. ASSUME task'[t].pc = "run"
      PROVE  At(t, p, n + 1)'
  <2>1. Len(task[t].todo) > 1 /\ task'[t].todo = Tail(task[t].todo)
    BY <1>8 DEF Moves
  <2>2. n + 1 < Len(p)
    BY <1>5, <1>7, <2>1
  <2> QED
    BY <1>6, <2>1, <2>2 DEF At
<1>9. \A f \in {chat, socket, stored} : \A g : Logged(f, g, t) => t \in Range(g[o])
  <2> SUFFICES ASSUME NEW f \in {chat, socket, stored}, NEW g, Logged(f, g, t)
               PROVE  t \in Range(g[o])
    OBVIOUS
  <2>1. f \in [Order -> Seq(Task)]
    BY <1>1 DEF TypeOK
  <2>2. g[o] = Append(f[o], t) /\ f[o] \in Seq(Task)
    BY <1>2, <2>1 DEF Logged
  <2> QED
    BY <2>2, RangeOfAppend
<1>10. t \in Range(chat'[o]) <=> Done(p, n + 1, "post")
  <2>1. t \in Range(chat[o]) <=> Done(p, n, "post")
    BY <1>3 DEF Did
  <2>2. Now(t) = "post" => t \in Range(chat'[o])
    BY <1>9 DEF Moves
  <2>3. Now(t) # "post" => chat' = chat
    BY <1>1 DEF Acts
  <2> QED
    BY <1>6, <2>1, <2>2, <2>3
<1>11. t \in Range(socket'[o]) => Done(p, n + 1, "send") \/ Done(p, n + 1, "must_send")
  <2>1. t \in Range(socket[o]) => Done(p, n, "send") \/ Done(p, n, "must_send")
    BY <1>3 DEF Did
  <2>2. socket' = socket \/ Now(t) = "send" \/ Now(t) = "must_send"
    BY <1>1 DEF Acts, Sends
  <2> QED
    BY <1>6, <2>1, <2>2
<1>12. /\ task[t].wrote <=> Done(p, n, "write") /\ ~Done(p, n, "commit")
       /\ t \in Range(stored[o]) <=> Done(p, n, "write") /\ Done(p, n, "commit")
  BY <1>3 DEF Did
<1>13. Now(t) = "commit" => ~Done(p, n, "commit")
  <2>1. \A i, j \in 1 .. Len(p) : p[i] = p[j] => i = j
    BY <1>4 DEF Shape
  <2>2. \A i \in 1 .. n : i \in 1 .. Len(p) /\ i # n + 1
    BY <1>5, <1>6
  <2> QED
    BY <1>6, <2>1, <2>2 DEF Done
<1>14. Now(t) = "write" => ~Done(p, n, "commit")
  <2>1. (n + 1) - 1 = n
    OBVIOUS
  <2> QED
    BY <1>4, <1>6, <2>1 DEF Shape
<1>15. task'[t].wrote <=> Done(p, n + 1, "write") /\ ~Done(p, n + 1, "commit")
  <2>1. task'[t].wrote <=> (task[t].wrote \/ Now(t) = "write") /\ Now(t) # "commit"
    BY DEF Moves
  <2> QED
    BY <1>6, <1>12, <1>14, <2>1
<1>16. t \in Range(stored'[o]) <=> Done(p, n + 1, "write") /\ Done(p, n + 1, "commit")
  <2>1. Now(t) # "commit" => stored' = stored
    BY <1>1 DEF Acts
  <2>2. Now(t) = "commit" /\ task[t].wrote => t \in Range(stored'[o])
    BY <1>9 DEF Moves
  <2>3. Now(t) = "commit" /\ ~task[t].wrote => stored' = stored
    BY <1>1 DEF Acts
  <2> QED
    BY <1>6, <1>12, <1>13, <1>14, <2>1, <2>2, <2>3
<1>17. Done(p, n + 1, "room") => o \in rooms'
  <2>1. Done(p, n, "room") => o \in rooms
    BY <1>3 DEF Did
  <2>2. rooms \subseteq rooms'
    BY <1>1, LogsGrow
  <2>3. Now(t) = "room" => o \in rooms'
    BY DEF Moves
  <2> QED
    BY <1>6, <2>1, <2>2, <2>3
<1>18. Did(t, p, n + 1)'
  BY <1>2, <1>10, <1>11, <1>15, <1>16, <1>17 DEF Did
<1>19. ASSUME task'[t].pc = "done"
       PROVE  ~task'[t].wrote
  <2>1. n + 1 = Len(p)
    BY <1>5, <1>7, <1>19 DEF Moves
  <2>2. Done(p, n + 1, "commit")
    BY <1>4, <2>1 DEF Shape
  <2> QED
    BY <1>15, <2>2
<1>20. task'[t].pc \in {"run", "done"} /\ rooms \subseteq rooms' /\ n + 1 \in Nat
  BY <1>1, LogsGrow DEF Moves
<1> QED
  BY <1>2, <1>8, <1>18, <1>19, <1>20 DEF Handler
LEMMA FailsHandle ==
  ASSUME Inv, NEW t \in Task, Fails(t)
  PROVE  Handler(t)'
<1>1. task'[t].pc = "failed" /\ ~task'[t].wrote
  BY DEF Fails
<1>2. task'[t].kind \in Kind /\ task'[t].order \in Order
  BY DEF Fails, Acts, Inv, Handler
<1> QED
  BY <1>1, <1>2 DEF Handler

LEMMA ActsExclusive ==
  ASSUME Inv, NEW t \in Task, Acts(t)
  PROVE  Exclusive'
<1> SUFFICES ASSUME NEW u \in Task, NEW v \in Task, task'[u].wrote, task'[v].wrote,
                    task'[u].order = task'[v].order
             PROVE  u = v
  BY DEF Exclusive
<1>1. \A x, y \in Task : task[x].wrote /\ task[y].wrote /\ task[x].order = task[y].order => x = y
  BY DEF Inv, Exclusive
<1>2. task[u].order = task[v].order
  BY LogsGrow
<1>3. CASE u = t /\ v # t
  <2>1. task[v].wrote
    BY <1>3 DEF Acts
  <2>2. Now(t) # "write"
    BY <1>2, <1>3, <2>1 DEF Acts
  <2> QED
    BY <1>1, <1>2, <1>3, <2>1, <2>2 DEF Acts
<1>4. CASE v = t /\ u # t
  <2>1. task[u].wrote
    BY <1>4 DEF Acts
  <2>2. Now(t) # "write"
    BY <1>2, <1>4, <2>1 DEF Acts
  <2> QED
    BY <1>1, <1>2, <1>4, <2>1, <2>2 DEF Acts
<1>5. CASE u # t /\ v # t
  BY <1>1, <1>2, <1>5 DEF Acts
<1> QED
  BY <1>3, <1>4, <1>5

(* A purchase order's rooms, posts and quotes.                             *)
LEMMA ActsTell ==
  ASSUME Inv, NEW t \in Task, Acts(t)
  PROVE  /\ StoredHasARoom' /\ StoredWasPosted' /\ PostsHaveARoom'
         /\ QuotesAreToldOnceStored'
<1>1. /\ \A u \in Task : task'[u].kind = task[u].kind
      /\ task[t].order \in Order /\ rooms \subseteq rooms' /\ Knows(t)
  BY LogsGrow DEF Acts
<1>2. /\ \A o \in Order : o # task[t].order => chat'[o] = chat[o] /\ socket'[o] = socket[o] /\ stored'[o] = stored[o]
  BY LogsGrow DEF Grown
<1>3. \A o \in Order : /\ Range(stored[o]) \subseteq Task /\ Range(socket[o]) \subseteq Task
                       /\ Range(chat[o]) \subseteq Task
  BY LogsAreOfTheirOrder
<1>4. ASSUME NEW o \in Order, NEW u \in Range(stored'[o])
      PROVE  u \in Task /\ (u \in Range(stored[o]) \/ (u = t /\ o = task[t].order /\ Now(t) = "commit"))
  BY <1>2, <1>3, <1>4, RangesGrow DEF Acts
<1>5. ASSUME NEW o \in Order, NEW u \in Range(chat'[o])
      PROVE  u \in Task /\ (u \in Range(chat[o]) \/ (u = t /\ o = task[t].order /\ Now(t) = "post"))
  BY <1>2, <1>3, <1>5, RangesGrow DEF Acts
<1>6. ASSUME NEW o \in Order, NEW u \in Range(socket'[o])
      PROVE  u \in Task /\ (u \in Range(socket[o]) \/ (u = t /\ o = task[t].order /\ Now(t) \in Sends))
  BY <1>2, <1>3, <1>6, RangesGrow DEF Acts
<1>7. \A o \in Order : Exists(o) <=> \E u \in Range(stored[o]) : task[u].kind \in Creating
  BY DEF Exists, KindOf, Range
<1>8. \A o \in Order : Exists(o)' <=> \E u \in Range(stored'[o]) : task'[u].kind \in Creating
  BY DEF Exists, KindOf, Range
<1>9. StoredHasARoom'
  <2> SUFFICES ASSUME NEW o \in Purchase, Exists(o)'
               PROVE  o \in rooms'
    BY DEF StoredHasARoom
  <2>1. o \in Order
    BY PurchaseAssumption
  <2>2. PICK u \in Range(stored'[o]) : task'[u].kind \in Creating
    BY <1>8, <2>1
  <2>3. u \in Task /\ task[u].kind \in Creating
    BY <1>1, <1>4, <2>1, <2>2
  <2>4. CASE u \in Range(stored[o])
    BY <1>1, <1>7, <2>1, <2>3, <2>4 DEF Inv, StoredHasARoom
  <2>5. CASE u = t /\ o = task[t].order /\ Now(t) = "commit"
    BY <1>1, <2>3, <2>5 DEF Knows
  <2> QED
    BY <1>4, <2>1, <2>4, <2>5
<1>10. StoredWasPosted'
  <2> SUFFICES ASSUME NEW o \in Purchase, NEW u \in Range(stored'[o]),
                      task'[u].kind \in Reporting \cup {"on_select"}
               PROVE  u \in Range(chat'[o])
    BY DEF StoredWasPosted, KindOf
  <2>1. o \in Order
    BY PurchaseAssumption
  <2>2. u \in Task /\ task[u].kind \in Reporting \cup {"on_select"}
    BY <1>1, <1>4, <2>1
  <2>3. u \in Range(chat[o])
    <3>1. CASE u \in Range(stored[o])
      BY <2>2, <3>1 DEF Inv, StoredWasPosted, KindOf
    <3>2. CASE u = t /\ o = task[t].order /\ Now(t) = "commit"
      BY <1>1, <2>2, <3>2 DEF Knows
    <3> QED
      BY <1>4, <2>1, <3>1, <3>2
  <2> QED
    BY <2>1, <2>3, RangesGrow
<1>11. PostsHaveARoom'
  <2> SUFFICES ASSUME NEW o \in Order, NEW u \in Range(chat'[o]),
                      task'[u].kind # "on_select_error"
               PROVE  o \in rooms'
    BY DEF PostsHaveARoom, KindOf
  <2>1. u \in Task /\ task[u].kind # "on_select_error"
    BY <1>1, <1>5
  <2>2. CASE u \in Range(chat[o])
    BY <1>1, <2>1, <2>2 DEF Inv, PostsHaveARoom, KindOf
  <2>3. CASE u = t /\ o = task[t].order /\ Now(t) = "post"
    BY <1>1, <2>1, <2>3 DEF Knows
  <2> QED
    BY <1>5, <2>2, <2>3
<1>12. QuotesAreToldOnceStored'
  <2> SUFFICES ASSUME NEW o \in Order, NEW u \in Range(socket'[o]),
                      task'[u].kind = "on_select"
               PROVE  u \in Range(stored'[o])
    BY DEF QuotesAreToldOnceStored, KindOf
  <2>1. u \in Task /\ task[u].kind = "on_select"
    BY <1>1, <1>6
  <2>2. u \in Range(stored[o])
    <3>1. CASE u \in Range(socket[o])
      BY <2>1, <3>1 DEF Inv, QuotesAreToldOnceStored, KindOf
    <3>2. CASE u = t /\ o = task[t].order /\ Now(t) \in Sends
      BY <1>1, <2>1, <3>2 DEF Knows
    <3> QED
      BY <1>6, <3>1, <3>2
  <2> QED
    BY <2>2, RangesGrow
<1> QED
  BY <1>9, <1>10, <1>11, <1>12
(* A log f that t may extend to g before it commits, while it holds the    *)
(* row, keeps the order of the commits.                                    *)
LEMMA ActsFollow ==
  ASSUME Inv, NEW t \in Task, Acts(t), NEW f, NEW g, NEW K, Grown(f, g, t),
         Follows(f, stored, K), Ahead(f, stored, K),
         \/ g = f
         \/ /\ stored' = stored /\ Now(t) # "write"
            /\ task[t].kind \in K => t \notin Range(stored[task[t].order]),
         Now(t) = "write" /\ task[t].kind \in K => t \notin Range(f[task[t].order])
  PROVE  /\ \A o \in Order : \A x, y \in Range(stored'[o]) :
               task[x].kind \in K /\ task[y].kind \in K =>
                   ~(Before(stored'[o], x, y) /\ Before(g[o], y, x))
         /\ \A u \in Task : task'[u].wrote /\ task[u].kind \in K =>
               \A x \in Range(stored'[task[u].order]) :
                  task[x].kind \in K => ~Before(g[task[u].order], u, x)
<1>1. /\ \A o \in Order, x, y \in Task :
             Before(stored'[o], x, y) => Before(stored[o], x, y) \/ (y = t /\ x \in Range(stored[o]))
      /\ \A o \in Order : o # task[t].order => stored'[o] = stored[o] /\ g[o] = f[o]
      /\ task[t].order \in Order
  BY LogsGrow DEF Grown
<1>2. \A o \in Order, x, y \in Task :
         Before(g[o], x, y) => Before(f[o], x, y) \/ (y = t /\ x \in Range(f[o]))
  BY DEF Grown
<1>3. \A o \in Order : Range(stored'[o]) \subseteq Task /\ \A x \in Range(stored[o]) : task[x].order = o
  BY RangesGrow, LogsAreOfTheirOrder
<1>4. ASSUME NEW o \in Order, NEW x \in Range(stored'[o]), NEW y \in Range(stored'[o]),
             task[x].kind \in K, task[y].kind \in K,
             Before(stored'[o], x, y), Before(g[o], y, x)
      PROVE  FALSE
  <2>1. x \in Task /\ y \in Task
    BY <1>3
  <2>2. CASE Before(stored[o], x, y)
    <3>1. x \in Range(stored[o]) /\ y \in Range(stored[o])
      BY <2>2, BeforeIsIn
    <3>2. ~Before(f[o], y, x)
      BY <1>4, <2>2, <3>1 DEF Follows, KindOf
    <3>3. g # f /\ x = t
      BY <1>2, <1>4, <2>1, <3>2
    <3>4. task[t].order = o
      BY <1>3, <3>1, <3>3
    <3> QED
      BY <1>4, <3>1, <3>3, <3>4
  <2>3. CASE y = t /\ x \in Range(stored[o]) /\ stored' # stored
    <3>1. g = f /\ Now(t) = "commit" /\ task[t].wrote
      BY <2>3 DEF Acts
    <3>2. task[t].order = o
      BY <1>1, <1>3, <1>4, <2>3, BeforeIsIn
    <3>3. ~Before(f[o], t, x)
      BY <1>4, <2>3, <3>1, <3>2 DEF Ahead, KindOf
    <3> QED
      BY <1>4, <2>3, <3>1, <3>3
  <2> QED
    BY <1>1, <1>4, <2>1, <2>2, <2>3
<1>5. ASSUME NEW u \in Task, task'[u].wrote, task[u].kind \in K,
             NEW x \in Range(stored'[task[u].order]), task[x].kind \in K,
             Before(g[task[u].order], u, x)
      PROVE  FALSE
  <2> DEFINE o == task[u].order
  <2>1. o \in Order
    <3>1. CASE u = t
      BY <1>1, <3>1
    <3>2. CASE u # t
      <4>1. task[u].wrote
        BY <1>5, <3>2 DEF Acts
      <4> QED
        BY <4>1 DEF Inv, Handler
    <3> QED
      BY <3>1, <3>2
  <2>2. x \in Task
    BY <1>3, <1>5, <2>1
  <2>3. CASE Now(t) = "write" /\ u = t
    <3>1. g = f /\ stored' = stored /\ t \notin Range(f[o])
      BY <1>5, <2>3 DEF Acts
    <3> QED
      BY <1>5, <2>3, <3>1, BeforeIsIn
  <2>4. CASE ~(Now(t) = "write" /\ u = t)
    <3>1. task[u].wrote
      BY <1>5, <2>4 DEF Acts
    <3>2. stored'[o] = stored[o]
      <4>1. CASE o # task[t].order
        BY <1>1, <2>1, <4>1
      <4>2. CASE o = task[t].order /\ stored' # stored
        <5>1. task[t].wrote /\ ~task'[t].wrote
          BY <4>2 DEF Acts
        <5>2. u = t
          BY <3>1, <4>2, <5>1 DEF Inv, Exclusive
        <5> QED
          BY <1>5, <5>1, <5>2
      <4> QED
        BY <4>1, <4>2
    <3>3. x \in Range(stored[o]) /\ task[x].order = o
      BY <1>3, <1>5, <2>1, <3>2
    <3>4. ~Before(f[o], u, x)
      BY <1>5, <3>1, <3>3 DEF Ahead, KindOf
    <3>5. g # f /\ x = t
      BY <1>2, <1>5, <2>1, <2>2, <3>4
    <3> QED
      BY <1>5, <3>3, <3>5
  <2> QED
    BY <2>3, <2>4
<1> QED
  BY <1>4, <1>5

LEMMA ActsInv ==
  ASSUME Inv, NEW t \in Task, Moves(t) \/ Fails(t)
  PROVE  Inv'
<1>1. Acts(t) /\ Knows(t)
  BY DEF Moves, Fails, Acts
<1>2. \A u \in Task : Handler(u)'
  BY <1>1, MovesHandle, FailsHandle, OthersHandle
<1>3. /\ TypeOK' /\ Exclusive' /\ StoredHasARoom' /\ StoredWasPosted' /\ PostsHaveARoom'
      /\ QuotesAreToldOnceStored'
  BY <1>1, ActsType, ActsExclusive, ActsTell
<1>4. \A u \in Task : task'[u].kind = task[u].kind /\ task'[u].order = task[u].order
  BY <1>1, LogsGrow
<1>5. \A o \in Order : Range(stored'[o]) \subseteq Task
  BY <1>1, RangesGrow
<1>6. \A u \in Task : task'[u].wrote => task'[u].order \in Order
  BY <1>2 DEF Handler
<1>7. Grown(chat, chat', t) /\ Grown(socket, socket', t)
  BY <1>1, LogsGrow
<1>8. Follows(socket, stored, Told)' /\ Ahead(socket, stored, Told)'
  <2>1. \/ socket' = socket
        \/ /\ stored' = stored /\ Now(t) # "write"
           /\ task[t].kind \in Told => t \notin Range(stored[task[t].order])
    BY <1>1 DEF Acts, Knows, Sends
  <2>2. Now(t) = "write" /\ task[t].kind \in Told => t \notin Range(socket[task[t].order])
    BY <1>1 DEF Knows
  <2>3. Follows(socket, stored, Told) /\ Ahead(socket, stored, Told)
    BY DEF Inv
  <2>4. /\ \A o \in Order : \A x, y \in Range(stored'[o]) :
              task[x].kind \in Told /\ task[y].kind \in Told =>
                  ~(Before(stored'[o], x, y) /\ Before(socket'[o], y, x))
        /\ \A u \in Task : task'[u].wrote /\ task[u].kind \in Told =>
              \A x \in Range(stored'[task[u].order]) :
                 task[x].kind \in Told => ~Before(socket'[task[u].order], u, x)
    BY <1>1, <1>7, <2>1, <2>2, <2>3, ActsFollow
  <2>5. Told' = Told
    BY DEF Told, Kind, Creating, Reporting
  <2> QED
    BY <1>4, <1>5, <1>6, <2>4, <2>5 DEF Follows, Ahead, KindOf
<1>9. Follows(chat, stored, Terms)' /\ Ahead(chat, stored, Terms)'
  <2>1. \/ chat' = chat
        \/ /\ stored' = stored /\ Now(t) # "write"
           /\ task[t].kind \in Terms => t \notin Range(stored[task[t].order])
    BY <1>1 DEF Acts, Knows
  <2>2. Now(t) = "write" /\ task[t].kind \in Terms => t \notin Range(chat[task[t].order])
    BY <1>1 DEF Knows
  <2>3. Follows(chat, stored, Terms) /\ Ahead(chat, stored, Terms)
    BY DEF Inv
  <2>4. /\ \A o \in Order : \A x, y \in Range(stored'[o]) :
              task[x].kind \in Terms /\ task[y].kind \in Terms =>
                  ~(Before(stored'[o], x, y) /\ Before(chat'[o], y, x))
        /\ \A u \in Task : task'[u].wrote /\ task[u].kind \in Terms =>
              \A x \in Range(stored'[task[u].order]) :
                 task[x].kind \in Terms => ~Before(chat'[task[u].order], u, x)
    BY <1>1, <1>7, <2>1, <2>2, <2>3, ActsFollow
  <2> QED
    BY <1>4, <1>5, <1>6, <2>4 DEF Follows, Ahead, KindOf
<1> QED
  BY <1>2, <1>3, <1>8, <1>9 DEF Inv

(* A handler that starts is in no log yet.                                 *)
LEMMA StartInv ==
  ASSUME Inv, NEW t \in Task, Start(t)
  PROVE  Inv'
<1>20. PICK k \in Kind, o \in Order :
         /\ k \in Reporting \cup {"notify_payment"} => Exists(o)
         /\ k = "select" => o \in Purchase
         /\ \E todo \in Steps(k, o \in Purchase) :
               task' = [task EXCEPT ![t] = [pc |-> "run", kind |-> k, order |-> o,
                                            todo |-> todo, wrote |-> FALSE]]
  BY DEF Start
<1>21. PICK todo \in Steps(k, o \in Purchase) :
         task' = [task EXCEPT ![t] = [pc |-> "run", kind |-> k, order |-> o,
                                      todo |-> todo, wrote |-> FALSE]]
  BY <1>20
<1>1. /\ k \in Reporting \cup {"notify_payment"} => Exists(o)
      /\ k = "select" => o \in Purchase
  BY <1>20
<1>2. task[t] = Idle /\ UNCHANGED <<rooms, chat, socket, stored>>
  BY DEF Start
<1>3. Shape(k, o \in Purchase, todo)
  <2> DEFINE b == o \in Purchase
  <2>1. b \in BOOLEAN
    OBVIOUS
  <2>2. k = "select" => b
    BY <1>1
  <2>3. todo \in Steps(k, b)
    OBVIOUS
  <2> HIDE DEF b
  <2>4. Shape(k, b, todo)
    BY <2>1, <2>2, <2>3, Programs
  <2> QED
    BY <2>4 DEF b
<1> DEFINE w == [pc |-> "run", kind |-> k, order |-> o, todo |-> todo, wrote |-> FALSE]
<1>4. /\ task' = [task EXCEPT ![t] = w] /\ task \in [Task -> Record] /\ task'[t] = w
      /\ \A u \in Task : u # t => task'[u] = task[u]
  BY <1>21 DEF Inv, TypeOK, Record
<1>5. w \in Record
  BY <1>3 DEF Record, Shape
<1>6. \A p \in Order : t \notin Range(chat[p]) \cup Range(socket[p]) \cup Range(stored[p])
  BY <1>2 DEF Inv, Handler, Idle
<1>7. \A p \in Order : \A u \in Range(chat[p]) \cup Range(socket[p]) \cup Range(stored[p]) :
         u \in Task /\ task'[u] = task[u]
  BY <1>4, <1>6, LogsAreOfTheirOrder
<1>8. TypeOK'
  <2>1. task' \in [Task -> Record]
    BY <1>4, <1>5
  <2>2. ASSUME NEW f \in {chat, socket, stored}
        PROVE  /\ f \in [Order -> Seq(Task)]
               /\ \A p \in Order : \A i \in DOMAIN f[p] : task'[f[p][i]].order = p
               /\ \A p \in Order : IsInjective(f[p])
    <3>1. /\ f \in [Order -> Seq(Task)]
          /\ \A p \in Order : \A i \in DOMAIN f[p] : task[f[p][i]].order = p
          /\ \A p \in Order : IsInjective(f[p])
      BY DEF Inv, TypeOK
    <3>2. \A p \in Order : \A i \in DOMAIN f[p] : task'[f[p][i]] = task[f[p][i]]
      BY <1>7 DEF Range
    <3> QED
      BY <3>1, <3>2
  <2>3. rooms \subseteq Order
    BY DEF Inv, TypeOK
  <2> QED
    BY <1>2, <2>1, <2>2, <2>3 DEF TypeOK, Record
<1>9. ASSUME NEW u \in Task
      PROVE  Handler(u)'
  <2>1. CASE u # t
    BY <1>2, <1>4, <2>1 DEF Inv, Handler, At, Did
  <2>2. CASE u = t
    <3>1. /\ task'[t].pc = "run" /\ task'[t].kind = k /\ task'[t].order = o
          /\ task'[t].todo = todo /\ ~task'[t].wrote
      BY <1>4
    <3>2. todo \in Seq(Step) /\ Len(todo) > 0 /\ Len(todo) \in Nat
      BY <1>3 DEF Shape
    <3>3. At(t, todo, 0)'
      BY <3>1, <3>2 DEF At
    <3>4. \A s : ~Done(todo, 0, s)
      BY DEF Done
    <3>5. Did(t, todo, 0)'
      BY <1>2, <1>6, <3>1, <3>4 DEF Did
    <3>6. k \in Reporting /\ o \in Purchase => o \in rooms'
      BY <1>1, <1>2 DEF Inv, StoredHasARoom
    <3>7. task'[t].kind = "select" => task'[t].order \in Purchase
      BY <1>1, <3>1
    <3>8. todo \in Steps(task'[t].kind, task'[t].order \in Purchase)
      BY <3>1
    <3> QED
      BY <2>2, <3>1, <3>3, <3>5, <3>6, <3>7, <3>8 DEF Handler
  <2> QED
    BY <2>1, <2>2
<1>10. Exclusive'
  BY <1>4 DEF Inv, Exclusive
<1>11. StoredHasARoom' /\ StoredWasPosted' /\ PostsHaveARoom' /\ QuotesAreToldOnceStored'
  <2>1. \A p \in Order : Exists(p)' <=> Exists(p)
    BY <1>2, <1>7 DEF Exists, KindOf, Range
  <2> QED
    BY <1>2, <1>7, <2>1, PurchaseAssumption
    DEF Inv, StoredHasARoom, StoredWasPosted, PostsHaveARoom, QuotesAreToldOnceStored, KindOf
<1>12. ASSUME NEW f \in {chat, socket}, NEW K, Follows(f, stored, K), Ahead(f, stored, K)
       PROVE  /\ \A p \in Order : \A x, y \in Range(stored[p]) :
                    task'[x].kind \in K /\ task'[y].kind \in K =>
                        ~(Before(stored[p], x, y) /\ Before(f[p], y, x))
              /\ \A u \in Task : task'[u].wrote /\ task'[u].kind \in K =>
                    \A x \in Range(stored[task'[u].order]) :
                       task'[x].kind \in K => ~Before(f[task'[u].order], u, x)
  <2>1. \A u \in Task : task'[u].wrote => u # t /\ task'[u] = task[u] /\ task[u].order \in Order
    BY <1>4 DEF Inv, Handler
  <2> QED
    BY <1>7, <1>12, <2>1 DEF Follows, Ahead, KindOf
<1>13. /\ Follows(socket, stored, Told)' /\ Ahead(socket, stored, Told)'
       /\ Follows(chat, stored, Terms)' /\ Ahead(chat, stored, Terms)'
  BY <1>2, <1>12 DEF Inv, Follows, Ahead, KindOf
<1> QED
  BY <1>8, <1>9, <1>10, <1>11, <1>13 DEF Inv

-----------------------------------------------------------------------------

LEMMA InitInv == Init => Inv
<1> SUFFICES ASSUME Init
             PROVE  Inv
  OBVIOUS
<1>1. \A o \in Order : Range(chat[o]) = {} /\ Range(socket[o]) = {} /\ Range(stored[o]) = {}
  BY DEF Init, Range
<1>2. TypeOK
  BY DEF Init, TypeOK, Idle, IsInjective
<1>3. \A t \in Task : Handler(t) /\ ~task[t].wrote
  BY <1>1 DEF Init, Handler, Idle
<1>4. \A o \in Order : ~Exists(o)
  BY DEF Init, Exists
<1>5. StoredHasARoom /\ StoredWasPosted /\ PostsHaveARoom /\ QuotesAreToldOnceStored
  BY <1>1, <1>4, PurchaseAssumption
  DEF StoredHasARoom, StoredWasPosted, PostsHaveARoom, QuotesAreToldOnceStored
<1> QED
  BY <1>1, <1>2, <1>3, <1>5 DEF Inv, Exclusive, Follows, Ahead

LEMMA StepInv == Inv /\ [Next]_vars => Inv'
<1> SUFFICES ASSUME Inv, [Next]_vars
             PROVE  Inv'
  OBVIOUS
<1>1. CASE UNCHANGED vars
  BY <1>1 DEF vars, Inv, TypeOK, Handler, At, Did, Exclusive, StoredHasARoom, Exists, StoredWasPosted,
              PostsHaveARoom, QuotesAreToldOnceStored, Follows, Ahead, KindOf
<1>2. ASSUME NEW t \in Task, Start(t)
      PROVE  Inv'
  BY <1>2, StartInv
<1>3. ASSUME NEW t \in Task,
             \/ Room(t) \/ Post(t) \/ PostUnanswered(t) \/ Write(t)
             \/ Send(t) \/ SendFails(t) \/ Commit(t) \/ Dies(t)
      PROVE  Inv'
  BY <1>3, ActionsMoveOrFail, ActsInv
<1> QED
  BY <1>1, <1>2, <1>3 DEF Next

\* The inductive invariant of what is told and stored.
THEOREM InvariantHolds == Spec => []Inv
BY InitInv, StepInv, PTL DEF Spec

\* Every reachable state of Notifications is well typed, and nobody posts,
\* sends or stores twice.
THEOREM TypeCorrect == Spec => []TypeOK
<1>1. Inv => TypeOK
  BY DEF Inv
<1> QED
  BY <1>1, InvariantHolds, PTL

\* What a callback stored of a purchase order was posted to its chat.
THEOREM WhatIsStoredWasPosted == Spec => []StoredWasPosted
<1>1. Inv => StoredWasPosted
  BY DEF Inv
<1> QED
  BY <1>1, InvariantHolds, PTL

\* Only the refusal of a select is posted to a chat nobody created.
THEOREM RoomsAreCreated == Spec => []PostsHaveARoom
<1>1. Inv => PostsHaveARoom
  BY DEF Inv
<1> QED
  BY <1>1, InvariantHolds, PTL

\* A quote the buyer is told of over the websocket is stored.
THEOREM QuotesAreThere == Spec => []QuotesAreToldOnceStored
<1>1. Inv => QuotesAreToldOnceStored
  BY DEF Inv
<1> QED
  BY <1>1, InvariantHolds, PTL

LEMMA StoredKinds ==
  ASSUME Inv, NEW o \in Order, NEW t \in Range(stored[o])
  PROVE  t \in Task /\ KindOf(t) \in Kind
BY LogsAreOfTheirOrder DEF Inv, Handler, KindOf

\* What reports and payments tell over the websocket they tell in the order
\* of their commits, although they tell it before.
THEOREM SocketFollowsCommits == Spec => []SocketFollowsStore
<1>1. Inv => SocketFollowsStore
  BY StoredKinds DEF Inv, SocketFollowsStore, Follows, Told, Creating
<1> QED
  BY <1>1, InvariantHolds, PTL

\* on_init and on_confirm are posted in the order of their commits.
THEOREM PostsFollowCommits == Spec => []PostsOfTermsFollowStore
<1>1. Inv => PostsOfTermsFollowStore
  BY PurchaseAssumption DEF Inv, PostsOfTermsFollowStore, Follows, Terms
<1> QED
  BY <1>1, InvariantHolds, PTL
(* Who has told something that is not stored has written.                  *)
LEMMA TellersHaveWritten ==
  ASSUME Inv, NEW t \in Task, task[t].pc = "run", task[t].kind # "on_select_error",
         t \in Range(socket[task[t].order]), t \notin Range(stored[task[t].order])
  PROVE  task[t].wrote
<1> DEFINE k == task[t].kind
           b == task[t].order \in Purchase
<1>1. PICK p \in Steps(k, b), n \in Nat : At(t, p, n) /\ Did(t, p, n)
  BY DEF Inv, Handler
<1>2. Shape(k, b, p)
  <2>1. k \in Kind /\ (k = "select" => b) /\ b \in BOOLEAN
    BY DEF Inv, Handler
  <2> HIDE DEF b
  <2> QED
    BY <1>1, <2>1, Programs
<1>3. Len(p) \in Nat /\ n < Len(p)
  BY <1>1, <1>2 DEF Shape, At
<1>4. PICK i \in 1 .. n : p[i] \in Sends
  BY <1>1 DEF Did, Done, Sends
<1>5. i \in 1 .. Len(p) /\ \A j \in 1 .. (i - 1) : j \in 1 .. n
  BY <1>3
<1>6. k = "on_select" => Done(p, i - 1, "write") /\ Done(p, i - 1, "commit")
  BY <1>2, <1>4, <1>5 DEF Shape
<1>7. k # "on_select" => Done(p, i - 1, "write")
  BY <1>2, <1>4, <1>5 DEF Shape
<1>8. \A s : Done(p, i - 1, s) => Done(p, n, s)
  BY <1>5 DEF Done
<1> QED
  BY <1>1, <1>6, <1>7, <1>8 DEF Did

\* Of the handlers of an order that are alive, one at most has told its buyer
\* something that is not stored.
THEOREM OneIsAhead == Spec => []OneTellsAhead
<1>1. Inv => OneTellsAhead
  <2> SUFFICES ASSUME Inv, NEW t \in Task, NEW u \in Task,
                      task[t].pc = "run", task[u].pc = "run", task[t].order = task[u].order,
                      task[t].kind # "on_select_error", task[u].kind # "on_select_error",
                      \A v \in {t, u} : v \in Range(socket[task[v].order])
                                       /\ v \notin Range(stored[task[v].order])
               PROVE  t = u
    BY DEF OneTellsAhead, KindOf
  <2>1. task[t].wrote /\ task[u].wrote
    BY TellersHaveWritten
  <2> QED
    BY <2>1 DEF Inv, Exclusive
<1> QED
  BY <1>1, InvariantHolds, PTL
=============================================================================
