--------------------------- MODULE DbSessionsProofs ---------------------------
(***************************************************************************)
(* Safety of DbSessions, for any number of handlers, orders and            *)
(* connections.  A transaction has the locks of the statements behind it   *)
(* and no others, and two transactions never have conflicting ones.        *)
(* Hence, in a circle without an on_init or an on_update: nobody waits for *)
(* lines, fulfillments or payments, since both it and its blocker would    *)
(* have locked the order; then nobody waits for the order, since its       *)
(* blocker would wait for one of those; then nobody waits for a series.    *)
(* In any circle, whoever waits for a series has no lock yet and can be    *)
(* left out; the others wait within their orders.                          *)
(***************************************************************************)
EXTENDS DbSessions, FiniteSetTheorems, TLAPS

Step == (Class \cup {"series"}) \X Mode

Later == {"items", "fulfillments", "payments"}

PaymentsFirst == {"on_init", "on_update"}

(* The first n locks of a program p, as t takes them.                      *)
Taken(t, p, n) == {[row |-> RowOf(t, p[i][1]), mode |-> p[i][2]] : i \in 1 .. n}

(* t has done the first n statements of p and the rest is left.            *)
At(t, p, n) ==
    /\ n <= Len(p)
    /\ Len(task[t].left) = Len(p) - n
    /\ \A i \in 1 .. Len(task[t].left) : task[t].left[i] = p[n + i]
    /\ held[t] = Taken(t, p, n)

TaskInv ==
    \A t \in Task :
        /\ task[t].pc = "off" => task[t] = Off
        /\ task[t].pc # "off" => task[t].kind \in Kind /\ task[t].order \in Order
        /\ task[t].pc = "read" => ~task[t].conn
        /\ held[t] # {} => task[t].pc = "work" /\ task[t].todo = 0
        /\ task[t].pc = "work" =>
              \E p \in Locks(task[t].kind), n \in Nat : At(t, p, n)

Exclusive ==
    \A t, u \in Task : t # u =>
        \A g \in held[t], h \in held[u] : g.row = h.row => ~Conflict(g.mode, h.mode)

Inv == TypeOK /\ TaskInv /\ Exclusive

-----------------------------------------------------------------------------
(* The programs.                                                           *)

(* Locks and their modes are well formed.                                  *)
LEMMA ProgramsAreSeqs ==
  ASSUME NEW k \in Kind, NEW p \in Locks(k)
  PROVE  p \in Seq(Step)
  <1>1. \A c \in {"order", "items", "fulfillments", "payments", "series"}, m \in Mode :
           <<c, m>> \in Step
    BY DEF Step, Class
  <1>2. "share" \in Mode /\ "update" \in Mode /\ "delete" \in Mode
    BY DEF Mode
  <1>3. CASE k \in {"select", "on_select"}
    <2>1. CASE p = << <<"order", "delete">>, <<"items", "delete">>,
                      <<"fulfillments", "delete">>, <<"payments", "delete">> >>
      BY <1>1, <1>2, <2>1
    <2>2. CASE p = << <<"series", "update">>, <<"order", "delete">> >>
      BY <1>1, <1>2, <2>2
    <2> QED BY <1>3, <2>1, <2>2 DEF Locks
  <1>4. CASE k \in {"on_init", "on_update"}
    <2>1. p = << <<"payments", "delete">>, <<"order", "share">>, <<"order", "update">> >>
      BY <1>4 DEF Locks
    <2> QED BY <1>1, <1>2, <2>1
  <1>5. CASE k \in {"on_confirm", "on_status"}
    <2>1. p = << <<"order", "update">>, <<"fulfillments", "update">>,
                 <<"payments", "delete">> >>
      BY <1>5 DEF Locks
    <2> QED BY <1>1, <1>2, <2>1
  <1>6. CASE k = "on_cancel"
    <2>1. p = << <<"order", "update">>, <<"payments", "delete">>,
                 <<"fulfillments", "update">>, <<"items", "update">> >>
      BY <1>6 DEF Locks
    <2> QED BY <1>1, <1>2, <2>1
  <1>7. CASE k \in {"create_payment", "notify_payment"}
    <2>1. p = << <<"order", "update">>, <<"payments", "update">> >>
      BY <1>7 DEF Locks
    <2> QED BY <1>1, <1>2, <2>1
  <1> QED BY <1>3, <1>4, <1>5, <1>6, <1>7 DEF Kind

(* What the handlers have in common that do not touch the payments first.  *)
Shape(p) ==
    \A i \in 1 .. Len(p) :
        /\ p[i][1] \in Later \cup {"order", "series"}
        /\ p[i][1] \in Later => i > 1 /\ p[1][1] = "order"
        /\ p[i][1] = "order" =>
              /\ p[i][2] # "share"
              /\ \A j \in (i + 1) .. Len(p) : p[j][1] \in Later
        /\ p[i][1] = "series" => \A j \in (i + 1) .. Len(p) : p[j][1] = "order"

LEMMA ProgramShapes ==
  ASSUME NEW k \in Kind \ PaymentsFirst, NEW p \in Locks(k)
  PROVE  Shape(p)
  <1>1. CASE k \in {"select", "on_select"}
    <2>1. CASE p = << <<"order", "delete">>, <<"items", "delete">>,
                      <<"fulfillments", "delete">>, <<"payments", "delete">> >>
      BY <2>1 DEF Shape, Later
    <2>2. CASE p = << <<"series", "update">>, <<"order", "delete">> >>
      BY <2>2 DEF Shape, Later
    <2> QED BY <1>1, <2>1, <2>2 DEF Locks
  <1>2. CASE k \in {"on_confirm", "on_status"}
    <2>1. p = << <<"order", "update">>, <<"fulfillments", "update">>,
                 <<"payments", "delete">> >>
      BY <1>2 DEF Locks
    <2> QED BY <2>1 DEF Shape, Later
  <1>3. CASE k = "on_cancel"
    <2>1. p = << <<"order", "update">>, <<"payments", "delete">>,
                 <<"fulfillments", "update">>, <<"items", "update">> >>
      BY <1>3 DEF Locks
    <2> QED BY <2>1 DEF Shape, Later
  <1>4. CASE k \in {"create_payment", "notify_payment"}
    <2>1. p = << <<"order", "update">>, <<"payments", "update">> >>
      BY <1>4 DEF Locks
    <2> QED BY <2>1 DEF Shape, Later
  <1> QED BY <1>1, <1>2, <1>3, <1>4 DEF Kind, PaymentsFirst

LEMMA ConflictSymmetric ==
  ASSUME NEW m \in Mode, NEW n \in Mode
  PROVE  Conflict(m, n) <=> Conflict(n, m)
  BY DEF Mode, Conflict

-----------------------------------------------------------------------------

LEMMA InitInv == Init => Inv
  BY DEF Init, Inv, TypeOK, TaskInv, Exclusive, Off, Pc

(* t ends: its locks go, everybody else's stay.                            *)
LEMMA EndsInv ==
  ASSUME Inv, NEW t \in Task, Ends(t)
  PROVE  Inv'
  <1> USE DEF Ends, Inv
  <1>1. TypeOK'
    BY DEF TypeOK, Off, Pc
  <1>2. TaskInv'
    <2> SUFFICES ASSUME NEW u \in Task
                 PROVE  /\ task'[u].pc = "off" => task'[u] = Off
                        /\ task'[u].pc # "off" =>
                              task'[u].kind \in Kind /\ task'[u].order \in Order
                        /\ task'[u].pc = "read" => ~task'[u].conn
                        /\ held'[u] # {} => task'[u].pc = "work" /\ task'[u].todo = 0
                        /\ task'[u].pc = "work" =>
                              \E p \in Locks(task'[u].kind), n \in Nat : At(u, p, n)'
      BY DEF TaskInv
    <2>1. CASE u = t
      BY <2>1 DEF TypeOK, Off
    <2>2. CASE u # t
      <3>1. task'[u] = task[u] /\ held'[u] = held[u]
        BY <2>2 DEF TypeOK
      <3>2. \A p, n : At(u, p, n) => At(u, p, n)'
        BY <3>1 DEF At, Taken, RowOf
      <3> QED BY <3>1, <3>2 DEF TaskInv
    <2> QED BY <2>1, <2>2
  <1>3. Exclusive'
    BY DEF TypeOK, Exclusive
  <1> QED BY <1>1, <1>2, <1>3

(* A step of t that neither takes nor releases a lock, nor changes what it *)
(* has left to do.                                                         *)
LEMMA QuietInv ==
  ASSUME Inv, NEW t \in Task, UNCHANGED held,
         NEW w \in [pc: Pc, kind: Kind, order: Order, todo: Nat, busy: Nat,
                    conn: BOOLEAN, left: Seq(Step)],
         task' = [task EXCEPT ![t] = w],
         w.pc # "off", w.pc = "read" => ~w.conn,
         held[t] # {} => w.pc = "work" /\ w.todo = 0,
         w.pc = "work" =>
            \/ \E p \in Locks(w.kind) : w.left = p /\ held[t] = {}
            \/ /\ task[t].pc = "work" /\ w.kind = task[t].kind
               /\ w.order = task[t].order /\ w.left = task[t].left
  PROVE  Inv'
  <1> USE DEF Inv
  <1>1. TypeOK'
    BY DEF TypeOK, Step
  <1>2. TaskInv'
    <2> SUFFICES ASSUME NEW u \in Task
                 PROVE  /\ task'[u].pc = "off" => task'[u] = Off
                        /\ task'[u].pc # "off" =>
                              task'[u].kind \in Kind /\ task'[u].order \in Order
                        /\ task'[u].pc = "read" => ~task'[u].conn
                        /\ held'[u] # {} => task'[u].pc = "work" /\ task'[u].todo = 0
                        /\ task'[u].pc = "work" =>
                              \E p \in Locks(task'[u].kind), n \in Nat : At(u, p, n)'
      BY DEF TaskInv
    <2>1. CASE u = t
      <3>1. task'[u] = w
        BY <2>1 DEF TypeOK
      <3>2. ASSUME NEW p \in Locks(w.kind), w.left = p, held[t] = {}
            PROVE  At(t, p, 0)'
        <4>1. p \in Seq(Step)
          BY <3>2, ProgramsAreSeqs
        <4>2. Taken(t, p, 0)' = {}
          BY DEF Taken
        <4> QED BY <2>1, <3>1, <3>2, <4>1, <4>2 DEF At
      <3>3. ASSUME w.order = task[t].order, w.left = task[t].left, NEW p, NEW n, At(t, p, n)
            PROVE  At(t, p, n)'
        BY <2>1, <3>1, <3>3 DEF At, Taken, RowOf
      <3>4. w.pc = "work" => \E p \in Locks(w.kind), n \in Nat : At(t, p, n)'
        <4> SUFFICES ASSUME w.pc = "work"
                     PROVE  \E p \in Locks(w.kind), n \in Nat : At(t, p, n)'
          OBVIOUS
        <4>1. CASE \E p \in Locks(w.kind) : w.left = p /\ held[t] = {}
          BY <4>1, <3>2
        <4>2. CASE /\ task[t].pc = "work" /\ w.kind = task[t].kind
                   /\ w.order = task[t].order /\ w.left = task[t].left
          BY <4>2, <3>3 DEF TaskInv
        <4> QED BY <4>1, <4>2
      <3> QED BY <2>1, <3>1, <3>4
    <2>2. CASE u # t
      <3>1. task'[u] = task[u] /\ held'[u] = held[u]
        BY <2>2 DEF TypeOK
      <3>2. \A p, n : At(u, p, n) => At(u, p, n)'
        BY <3>1 DEF At, Taken, RowOf
      <3> QED BY <3>1, <3>2 DEF TaskInv
    <2> QED BY <2>1, <2>2
  <1>3. Exclusive'
    BY DEF Exclusive
  <1> QED BY <1>1, <1>2, <1>3

(* A statement gets its lock: one more of its program is taken.            *)
LEMMA LockInv ==
  ASSUME Inv, NEW t \in Task, Lock(t)
  PROVE  Inv'
  <1> USE DEF Inv
  <1> DEFINE w == task[t]
             l == Wanted(t)
  <1>1. /\ w.pc = "work" /\ w.todo = 0 /\ w.left # <<>>
        /\ w.kind \in Kind /\ w.order \in Order
        /\ w.left \in Seq(Step)
        /\ task' = [task EXCEPT ![t].left = Tail(w.left)]
        /\ held' = [held EXCEPT ![t] = held[t] \cup {l}]
    BY DEF Lock, Asks, TypeOK, TaskInv, Pc, Off, Step
  <1>2. Head(w.left) = w.left[1] /\ w.left[1] \in Step
    BY <1>1
  <1>3. l \in [row: Row, mode: Mode]
    BY <1>1, <1>2 DEF Wanted, RowOf, Row, Step
  <1>4. TypeOK'
    <2>1. Tail(w.left) \in Seq(Step)
      BY <1>1
    <2> QED BY <1>1, <1>3, <2>1 DEF TypeOK, Step
  <1>5. task'[t].left = Tail(w.left) /\ task'[t].pc = "work" /\ task'[t].todo = 0
        /\ task'[t].kind = w.kind /\ task'[t].order = w.order
        /\ held'[t] = held[t] \cup {l}
    BY <1>1 DEF TypeOK
  <1>6. PICK p \in Locks(w.kind), n \in Nat : At(t, p, n)
    BY <1>1 DEF TaskInv
  <1>7. At(t, p, n + 1)'
    <2>1. p \in Seq(Step)
      BY <1>1, ProgramsAreSeqs
    <2>2. /\ Len(w.left) = Len(p) - n /\ Len(w.left) > 0
          /\ Len(Tail(w.left)) = Len(w.left) - 1
          /\ \A i \in 1 .. Len(Tail(w.left)) : Tail(w.left)[i] = w.left[i + 1]
          /\ w.left[1] = p[n + 1]
      BY <1>1, <1>6, <2>1 DEF At
    <2>3. \A i \in 1 .. Len(Tail(w.left)) : Tail(w.left)[i] = p[(n + 1) + i]
      <3> SUFFICES ASSUME NEW i \in 1 .. Len(Tail(w.left))
                   PROVE  Tail(w.left)[i] = p[(n + 1) + i]
        OBVIOUS
      <3>1. i + 1 \in 1 .. Len(w.left) /\ n + (i + 1) = (n + 1) + i
        BY <2>1, <2>2
      <3>2. w.left[i + 1] = p[n + (i + 1)]
        BY <1>6, <3>1 DEF At
      <3> QED BY <2>2, <3>1, <3>2
    <2>4. l = [row |-> RowOf(t, p[n + 1][1]), mode |-> p[n + 1][2]]
      BY <1>2, <2>2 DEF Wanted
    <2>5. Taken(t, p, n + 1)' = Taken(t, p, n) \cup {l}
      <3>1. \A c : RowOf(t, c)' = RowOf(t, c)
        BY <1>5 DEF RowOf
      <3>2. 1 .. (n + 1) = (1 .. n) \cup {n + 1}
        OBVIOUS
      <3> QED BY <2>4, <3>1, <3>2 DEF Taken
    <2>6. n + 1 <= Len(p) /\ Len(task'[t].left) = Len(p) - (n + 1)
      BY <1>5, <2>1, <2>2
    <2> QED BY <1>5, <1>6, <2>3, <2>5, <2>6 DEF At
  <1>8. TaskInv'
    <2> SUFFICES ASSUME NEW u \in Task
                 PROVE  /\ task'[u].pc = "off" => task'[u] = Off
                        /\ task'[u].pc # "off" =>
                              task'[u].kind \in Kind /\ task'[u].order \in Order
                        /\ task'[u].pc = "read" => ~task'[u].conn
                        /\ held'[u] # {} => task'[u].pc = "work" /\ task'[u].todo = 0
                        /\ task'[u].pc = "work" =>
                              \E q \in Locks(task'[u].kind), m \in Nat : At(u, q, m)'
      BY DEF TaskInv
    <2>1. CASE u = t
      <3>1. n + 1 \in Nat
        OBVIOUS
      <3> QED BY <1>1, <1>5, <1>6, <1>7, <2>1, <3>1
    <2>2. CASE u # t
      <3>1. task'[u] = task[u] /\ held'[u] = held[u]
        BY <1>1, <2>2 DEF TypeOK
      <3>2. \A q, m : At(u, q, m) => At(u, q, m)'
        BY <3>1 DEF At, Taken, RowOf
      <3> QED BY <3>1, <3>2 DEF TaskInv
    <2> QED BY <2>1, <2>2
  <1>9. Exclusive'
    <2> SUFFICES ASSUME NEW u \in Task, NEW v \in Task, u # v,
                        NEW g \in held'[u], NEW h \in held'[v], g.row = h.row
                 PROVE  ~Conflict(g.mode, h.mode)
      BY DEF Exclusive
    <2>1. ASSUME NEW x \in Task, x # t, NEW y \in held[x], y.row = l.row
          PROVE  ~Conflict(y.mode, l.mode) /\ ~Conflict(l.mode, y.mode)
      <3>1. y.mode \in Mode /\ l.mode \in Mode
        BY <1>3, <2>1 DEF TypeOK
      <3>2. ~Conflict(y.mode, l.mode)
        BY <2>1 DEF Lock, Blockers
      <3> QED BY <3>1, <3>2, ConflictSymmetric
    <2>2. CASE u = t
      <3>1. h \in held[v] /\ (g \in held[t] \/ g = l)
        BY <1>1, <2>2 DEF TypeOK
      <3> QED BY <2>1, <2>2, <3>1 DEF Exclusive
    <2>3. CASE v = t
      <3>1. g \in held[u] /\ (h \in held[t] \/ h = l)
        BY <1>1, <2>3 DEF TypeOK
      <3> QED BY <2>1, <2>3, <3>1 DEF Exclusive
    <2>4. CASE u # t /\ v # t
      <3>1. g \in held[u] /\ h \in held[v]
        BY <1>1, <2>4 DEF TypeOK
      <3> QED BY <3>1 DEF Exclusive
    <2> QED BY <2>2, <2>3, <2>4
  <1> QED BY <1>4, <1>8, <1>9

LEMMA NextInv == Inv /\ [Next]_vars => Inv'
  <1> SUFFICES ASSUME Inv, [Next]_vars PROVE Inv'
    OBVIOUS
  <1> DEFINE Tasks == [pc: Pc, kind: Kind, order: Order, todo: Nat, busy: Nat,
                       conn: BOOLEAN, left: Seq(Step)]
  <1>0. \A t \in Task : task[t].pc # "off" => task[t] \in Tasks
    BY DEF Inv, TypeOK, TaskInv, Step
  <1>1. ASSUME NEW t \in Task, Start(t) PROVE Inv'
    <2>1. PICK k \in Served, o \in Order :
            task' = [task EXCEPT ![t] =
                      [pc |-> "read", kind |-> k, order |-> o, todo |-> ReadsBefore[k],
                       busy |-> 0, conn |-> FALSE, left |-> <<>>]]
      BY <1>1 DEF Start
    <2> DEFINE w == [pc |-> "read", kind |-> k, order |-> o, todo |-> ReadsBefore[k],
                     busy |-> 0, conn |-> FALSE, left |-> <<>>]
    <2>2. k \in Kind /\ ReadsBefore[k] \in Nat
      BY ServedAssumption DEF ReadsBefore
    <2>3. w \in Tasks /\ w.pc = "read" /\ ~w.conn
      BY <2>2 DEF Pc
    <2>4. held[t] = {} /\ UNCHANGED held
      BY <1>1 DEF Start, Off, Inv, TaskInv
    <2> HIDE DEF w
    <2> QED BY <2>1, <2>3, <2>4, QuietInv DEF w
  <1>2. ASSUME NEW t \in Task, StartQuery(t) PROVE Inv'
    <2> DEFINE w == [task[t] EXCEPT !.todo = @ - 1, !.busy = @ + 1]
    <2>1. task[t].todo > 0 /\ task[t].pc # "off" /\ task[t] \in Tasks
      BY <1>2, <1>0 DEF StartQuery, Off, Inv, TaskInv
    <2>2. /\ w \in Tasks /\ w.pc = task[t].pc /\ w.kind = task[t].kind
          /\ w.order = task[t].order /\ w.left = task[t].left /\ w.conn = task[t].conn
      <3>1. task[t].todo - 1 \in Nat /\ task[t].busy + 1 \in Nat
        BY <2>1
      <3> QED BY <2>1, <3>1
    <2>3. held[t] = {}
      BY <2>1 DEF Inv, TaskInv
    <2>4. task' = [task EXCEPT ![t] = w] /\ UNCHANGED held
      BY <1>2 DEF StartQuery, Inv, TypeOK
    <2>5. w.pc = "read" => ~w.conn
      BY <2>2 DEF Inv, TaskInv
    <2> HIDE DEF w
    <2> QED BY <2>1, <2>2, <2>3, <2>4, <2>5, QuietInv
  <1>3. ASSUME NEW t \in Task, EndQuery(t) PROVE Inv'
    <2> DEFINE w == [task[t] EXCEPT !.busy = @ - 1]
    <2>1. task[t].busy > 0 /\ task[t].pc # "off" /\ task[t] \in Tasks
      BY <1>3, <1>0 DEF EndQuery, Off, Inv, TaskInv
    <2>2. /\ w \in Tasks /\ w.pc = task[t].pc /\ w.kind = task[t].kind
          /\ w.order = task[t].order /\ w.left = task[t].left /\ w.conn = task[t].conn
          /\ w.todo = task[t].todo
      BY <2>1
    <2>3. held[t] # {} => w.pc = "work" /\ w.todo = 0
      BY <2>2 DEF Inv, TaskInv
    <2>4. task' = [task EXCEPT ![t] = w] /\ UNCHANGED held
      BY <1>3 DEF EndQuery, Inv, TypeOK
    <2>5. w.pc = "read" => ~w.conn
      BY <2>2 DEF Inv, TaskInv
    <2> HIDE DEF w
    <2> QED BY <2>1, <2>2, <2>3, <2>4, <2>5, QuietInv
  <1>4. ASSUME NEW t \in Task, Begin(t) PROVE Inv'
    <2>0. PICK p \in Locks(task[t].kind) :
            task' = [task EXCEPT ![t].pc = "work", ![t].conn = TRUE, ![t].left = p,
                                 ![t].todo = ReadsWithin[task[t].kind]]
      BY <1>4 DEF Begin
    <2> DEFINE w == [task[t] EXCEPT !.pc = "work", !.conn = TRUE, !.left = p,
                                    !.todo = ReadsWithin[task[t].kind]]
    <2>1. task[t].pc = "read" /\ task[t] \in Tasks /\ held[t] = {}
      BY <1>4, <1>0 DEF Begin, Inv, TaskInv
    <2>2. ReadsWithin[task[t].kind] \in Nat /\ p \in Seq(Step)
      BY <2>0, <2>1, ProgramsAreSeqs DEF ReadsWithin
    <2>3. w \in Tasks /\ w.pc = "work" /\ w.kind = task[t].kind /\ w.left = p
      BY <2>1, <2>2 DEF Pc
    <2>4. task' = [task EXCEPT ![t] = w] /\ UNCHANGED held
      BY <1>4, <2>0 DEF Begin, Inv, TypeOK
    <2> HIDE DEF w
    <2> QED BY <2>0, <2>1, <2>3, <2>4, QuietInv
  <1>5. ASSUME NEW t \in Task, AcquireTimeout(t) PROVE Inv'
    <2> DEFINE w == [task[t] EXCEPT !.pc = "failed", !.todo = 0]
    <2>1. task[t].pc # "off" /\ task[t] \in Tasks /\ held[t] = {}
      <3>1. task[t].pc # "off"
        BY <1>5 DEF AcquireTimeout, WaitsForPool, Off, Inv, TaskInv
      <3>2. held[t] = {}
        BY <1>5 DEF AcquireTimeout, WaitsForPool, Inv, TaskInv
      <3> QED BY <1>0, <3>1, <3>2
    <2>2. w \in Tasks /\ w.pc = "failed"
      BY <2>1 DEF Pc
    <2>3. task' = [task EXCEPT ![t] = w] /\ UNCHANGED held
      BY <1>5 DEF AcquireTimeout, Inv, TypeOK
    <2> HIDE DEF w
    <2> QED BY <2>1, <2>2, <2>3, QuietInv
  <1>6. ASSUME NEW t \in Task, Lock(t) PROVE Inv'
    BY <1>6, LockInv
  <1>7. ASSUME NEW t \in Task, Commit(t) \/ Fail(t) \/ DeadlockAbort(t) \/ Dies(t)
        PROVE  Inv'
    BY <1>7, EndsInv DEF Commit, Fail, DeadlockAbort, Dies
  <1>8. CASE UNCHANGED vars
    <2>1. TypeOK' /\ Exclusive'
      BY <1>8 DEF vars, Inv, TypeOK, Exclusive
    <2>2. \A t, p, n : At(t, p, n) => At(t, p, n)'
      BY <1>8 DEF vars, At, Taken, RowOf
    <2>3. TaskInv'
      BY <1>8, <2>2 DEF vars, Inv, TaskInv
    <2> QED BY <2>1, <2>3 DEF Inv
  <1> QED
    BY <1>1, <1>2, <1>3, <1>4, <1>5, <1>6, <1>7, <1>8 DEF Next, Work

LEMMA SpecInv == Spec => []Inv
  BY InitInv, NextInv, PTL DEF Spec

(* Tasks and locks are what they may be.                                   *)
THEOREM TypeCorrect == Spec => []TypeOK
  <1>1. Inv => TypeOK
    BY DEF Inv
  <1> QED BY SpecInv, <1>1, PTL

(* Whoever holds a lock has all the connections it will need, whatever the *)
(* size of the pool.                                                       *)
THEOREM HoldersAreServed == Spec => []HoldersNeedNoConnection
  <1>1. Inv => HoldersNeedNoConnection
    BY DEF Inv, TypeOK, TaskInv, HoldersNeedNoConnection, WaitsForPool
  <1> QED BY SpecInv, <1>1, PTL

-----------------------------------------------------------------------------

(* In a circle everybody asks for a lock, the next of its program, and     *)
(* somebody in the circle has taken a conflicting one.                     *)
LEMMA Waiting ==
  ASSUME Inv, NEW t \in Task, NEW u \in Task, u \in Blockers(t)
  PROVE  /\ t # u /\ task[t].pc = "work" /\ task[t].kind \in Kind
         /\ task[t].left # <<>> /\ task[t].left \in Seq(Step)
         /\ \E h \in held[u] : h.row = Wanted(t).row /\ Conflict(h.mode, Wanted(t).mode)
  BY DEF Blockers, Asks, Inv, TypeOK, TaskInv, Step, Off, Pc

(* Where such a handler is in its program.                                 *)
LEMMA Place ==
  ASSUME Inv, NEW t \in Task, task[t].pc = "work", task[t].kind \in Kind \ PaymentsFirst,
         task[t].left # <<>>, task[t].left \in Seq(Step)
  PROVE  \E p \in Seq(Step), n \in Nat :
            /\ Shape(p) /\ n + 1 \in 1 .. Len(p)
            /\ Head(task[t].left) = p[n + 1]
            /\ held[t] = Taken(t, p, n)
  <1>1. PICK p \in Locks(task[t].kind), n \in Nat : At(t, p, n)
    BY DEF Inv, TaskInv
  <1>2. p \in Seq(Step) /\ Shape(p)
    BY ProgramsAreSeqs, ProgramShapes
  <1>3. Len(task[t].left) > 0 /\ Head(task[t].left) = task[t].left[1]
    OBVIOUS
  <1>4. n + 1 \in 1 .. Len(p) /\ task[t].left[1] = p[n + 1]
    BY <1>1, <1>2, <1>3 DEF At
  <1> QED BY <1>1, <1>2, <1>3, <1>4 DEF At

(* What the place says of its locks: it wants lines, fulfillments or       *)
(* payments, or has them, only when it has its order, and not in the       *)
(* shared mode; it wants nothing but those once it has its order, and the  *)
(* order once it has a number.                                             *)
HasOrder(t) ==
    \E h \in held[t] :
        h.row = [order |-> task[t].order, class |-> "order"] /\ h.mode # "share"

LEMMA PlaceLocks ==
  ASSUME Inv, NEW t \in Task, task[t].pc = "work", task[t].kind \in Kind \ PaymentsFirst,
         task[t].left # <<>>, task[t].left \in Seq(Step)
  PROVE  /\ Head(task[t].left)[1] \in Later \cup {"order", "series"}
         /\ Head(task[t].left)[1] \in Later => HasOrder(t)
         /\ \A h \in held[t] :
               /\ h.row.class \in Later => HasOrder(t)
               /\ h.row.class # "series" => h.row.order = task[t].order
               /\ h.row.class = "order" => Head(task[t].left)[1] \in Later
               /\ h.row.class = "series" => Head(task[t].left)[1] = "order"
  <1>1. PICK p \in Seq(Step), n \in Nat :
            /\ Shape(p) /\ n + 1 \in 1 .. Len(p)
            /\ Head(task[t].left) = p[n + 1]
            /\ held[t] = Taken(t, p, n)
    BY Place
  <1>2. ASSUME n >= 1, p[1][1] = "order" PROVE HasOrder(t)
    <2>1. 1 \in 1 .. n /\ 1 \in 1 .. Len(p)
      BY <1>1, <1>2
    <2>2. [row |-> RowOf(t, p[1][1]), mode |-> p[1][2]] \in held[t]
      BY <1>1, <2>1 DEF Taken
    <2>3. p[1][2] # "share"
      BY <1>1, <1>2, <2>1 DEF Shape
    <2> QED BY <1>2, <2>2, <2>3 DEF HasOrder, RowOf
  <1>3. p[n + 1][1] \in Later \cup {"order", "series"}
    BY <1>1 DEF Shape
  <1>4. p[n + 1][1] \in Later => HasOrder(t)
    <2> SUFFICES ASSUME p[n + 1][1] \in Later PROVE HasOrder(t)
      OBVIOUS
    <2>1. n + 1 > 1 /\ p[1][1] = "order"
      BY <1>1 DEF Shape
    <2> QED BY <1>2, <2>1
  <1>5. ASSUME NEW h \in held[t]
        PROVE  /\ h.row.class \in Later => HasOrder(t)
               /\ h.row.class # "series" => h.row.order = task[t].order
               /\ h.row.class = "order" => p[n + 1][1] \in Later
               /\ h.row.class = "series" => p[n + 1][1] = "order"
    <2>1. PICK i \in 1 .. n : h = [row |-> RowOf(t, p[i][1]), mode |-> p[i][2]]
      BY <1>1 DEF Taken
    <2>2. /\ h.row.class = p[i][1]
          /\ p[i][1] # "series" => h.row.order = task[t].order
      BY <2>1 DEF RowOf
    <2>3. i \in 1 .. Len(p) /\ n + 1 \in (i + 1) .. Len(p) /\ n >= 1
      BY <1>1, <2>1
    <2>4. p[i][1] \in Later => p[1][1] = "order"
      BY <1>1, <2>3 DEF Shape
    <2>5. /\ p[i][1] = "order" => p[n + 1][1] \in Later
          /\ p[i][1] = "series" => p[n + 1][1] = "order"
      BY <1>1, <2>3 DEF Shape
    <2> QED BY <1>2, <2>2, <2>3, <2>4, <2>5
  <1> QED BY <1>1, <1>3, <1>4, <1>5

(* In every circle there is a handler that deletes the payments first.     *)
THEOREM CirclesHavePaymentsFirst == Spec => []CirclesNeedPaymentsFirst
  <1>1. Inv => CirclesNeedPaymentsFirst
    <2> SUFFICES ASSUME Inv, NEW S \in SUBSET Task, Circle(S),
                        \A t \in S : task[t].kind \notin PaymentsFirst
                 PROVE  FALSE
      BY DEF CirclesNeedPaymentsFirst, PaymentsFirst
    <2>1. \A t \in S : \E u \in S : u \in Blockers(t)
      BY DEF Circle
    <2>2. ASSUME NEW t \in S
          PROVE  /\ task[t].pc = "work" /\ task[t].kind \in Kind \ PaymentsFirst
                 /\ task[t].left # <<>> /\ task[t].left \in Seq(Step)
      BY <2>1, Waiting
    <2>3. ASSUME NEW t \in S
          PROVE  \E u \in S : /\ u # t
                              /\ \E h \in held[u] : h.row = Wanted(t).row
      BY <2>1, Waiting
    <2>4. ASSUME NEW t \in S
          PROVE  /\ Head(task[t].left)[1] \in Later \cup {"order", "series"}
                 /\ Head(task[t].left)[1] \in Later => HasOrder(t)
                 /\ \A h \in held[t] :
                       /\ h.row.class \in Later => HasOrder(t)
                       /\ h.row.class # "series" => h.row.order = task[t].order
                       /\ h.row.class = "order" => Head(task[t].left)[1] \in Later
                       /\ h.row.class = "series" => Head(task[t].left)[1] = "order"
      BY <2>2, PlaceLocks
    <2>5. ASSUME NEW t \in S
          PROVE  /\ Wanted(t).row.class = Head(task[t].left)[1]
                 /\ Head(task[t].left)[1] # "series" =>
                       Wanted(t).row.order = task[t].order
      BY DEF Wanted, RowOf
    <2>6. ASSUME NEW t \in S, Head(task[t].left)[1] \in Later PROVE FALSE
      <3>1. PICK u \in S : u # t /\ \E h \in held[u] : h.row = Wanted(t).row
        BY <2>3
      <3>2. PICK h \in held[u] : h.row = Wanted(t).row
        BY <3>1
      <3>3. h.row.class \in Later /\ h.row.class # "series" /\ h.row.order = task[t].order
        BY <2>5, <2>6, <3>2 DEF Later
      <3>4. HasOrder(t) /\ HasOrder(u) /\ task[u].order = task[t].order
        BY <2>4, <2>6, <3>2, <3>3
      <3>5. PICK a \in held[t], b \in held[u] :
               /\ a.row = b.row /\ a.mode # "share" /\ b.mode # "share"
        BY <3>4 DEF HasOrder
      <3>6. a.mode \in Mode /\ b.mode \in Mode
        BY <3>5 DEF Inv, TypeOK
      <3>7. Conflict(a.mode, b.mode)
        BY <3>5, <3>6 DEF Conflict, Mode
      <3> QED BY <3>1, <3>5, <3>7 DEF Inv, Exclusive
    <2>7. ASSUME NEW t \in S, Head(task[t].left)[1] = "order" PROVE FALSE
      <3>1. PICK u \in S : \E h \in held[u] : h.row = Wanted(t).row
        BY <2>3
      <3>2. Head(task[u].left)[1] \in Later
        BY <2>4, <2>5, <2>7, <3>1
      <3> QED BY <2>6, <3>2
    <2>8. ASSUME NEW t \in S, Head(task[t].left)[1] = "series" PROVE FALSE
      <3>1. PICK u \in S : \E h \in held[u] : h.row = Wanted(t).row
        BY <2>3
      <3>2. Head(task[u].left)[1] = "order"
        BY <2>4, <2>5, <2>8, <3>1
      <3> QED BY <2>7, <3>2
    <2>9. \E t \in S : TRUE
      BY DEF Circle
    <2> QED BY <2>4, <2>6, <2>7, <2>8, <2>9
  <1> QED BY SpecInv, <1>1, PTL

-----------------------------------------------------------------------------
(* Circles and orders.                                                     *)

(* A number is taken before anything else.                                 *)
SeriesFirst(p) == \A i \in 1 .. Len(p) : p[i][1] = "series" => i = 1

LEMMA ProgramsTakeTheSeriesFirst ==
  ASSUME NEW k \in Kind, NEW p \in Locks(k)
  PROVE  SeriesFirst(p)
  <1>1. CASE k \in {"select", "on_select"}
    <2>1. CASE p = << <<"order", "delete">>, <<"items", "delete">>,
                      <<"fulfillments", "delete">>, <<"payments", "delete">> >>
      BY <2>1 DEF SeriesFirst
    <2>2. CASE p = << <<"series", "update">>, <<"order", "delete">> >>
      BY <2>2 DEF SeriesFirst
    <2> QED BY <1>1, <2>1, <2>2 DEF Locks
  <1>2. CASE k \in {"on_init", "on_update"}
    <2>1. p = << <<"payments", "delete">>, <<"order", "share">>, <<"order", "update">> >>
      BY <1>2 DEF Locks
    <2> QED BY <2>1 DEF SeriesFirst
  <1>3. CASE k \notin {"select", "on_select", "on_init", "on_update"}
    BY <1>3, ProgramShapes DEF Kind, PaymentsFirst, Shape, SeriesFirst, Later
  <1> QED BY <1>1, <1>2, <1>3

(* Whoever waits for a series has no lock, and the rows that are not of a  *)
(* series are of the order of whoever has locked them.                     *)
LEMMA WaitingWithinOrders ==
  ASSUME Inv, NEW t \in Task, task[t].pc = "work", task[t].kind \in Kind,
         task[t].left # <<>>, task[t].left \in Seq(Step)
  PROVE  /\ Head(task[t].left)[1] = "series" => held[t] = {}
         /\ \A h \in held[t] : h.row.class # "series" => h.row.order = task[t].order
  <1>1. PICK p \in Locks(task[t].kind), n \in Nat : At(t, p, n)
    BY DEF Inv, TaskInv
  <1>2. p \in Seq(Step) /\ SeriesFirst(p)
    BY ProgramsAreSeqs, ProgramsTakeTheSeriesFirst
  <1>3. Len(task[t].left) > 0 /\ Head(task[t].left) = task[t].left[1]
    OBVIOUS
  <1>4. n + 1 \in 1 .. Len(p) /\ Head(task[t].left) = p[n + 1]
    BY <1>1, <1>2, <1>3 DEF At
  <1>5. Head(task[t].left)[1] = "series" => held[t] = {}
    <2> SUFFICES ASSUME Head(task[t].left)[1] = "series" PROVE held[t] = {}
      OBVIOUS
    <2>1. 1 .. n = {}
      BY <1>2, <1>4 DEF SeriesFirst
    <2> QED BY <1>1, <2>1 DEF At, Taken
  <1>6. ASSUME NEW h \in held[t], h.row.class # "series"
        PROVE  h.row.order = task[t].order
    BY <1>1, <1>6 DEF At, Taken, RowOf
  <1> QED BY <1>5, <1>6

(* Two orders never wait for each other in a circle: a circle in which     *)
(* each is needed is within one order, although all share the series.      *)
THEOREM OrdersDoNotEntangle == Spec => []DeadlocksAreWithinAnOrder
  <1>1. Inv => DeadlocksAreWithinAnOrder
    <2> SUFFICES ASSUME Inv, NEW S \in SUBSET Task, Deadlock(S),
                        NEW t \in S, NEW u \in S
                 PROVE  task[t].order = task[u].order
      BY DEF DeadlocksAreWithinAnOrder
    <2> DEFINE OnSeries(v) == Head(task[v].left)[1] = "series"
    <2>1. \A v \in S : \E w \in S : w \in Blockers(v)
      BY DEF Deadlock, Circle
    <2>2. ASSUME NEW R \in SUBSET S, NEW v \in R,
                 \A w \in R : \E x \in R : x \in Blockers(w)
          PROVE  R = S
      <3>1. R \in SUBSET Task
        BY <2>2
      <3>2. Circle(R)
        BY <2>2 DEF Circle
      <3> QED BY <3>1, <3>2 DEF Deadlock
    <2>3. ASSUME NEW v \in S
          PROVE  /\ OnSeries(v) => held[v] = {}
                 /\ \A h \in held[v] : h.row.class # "series" => h.row.order = task[v].order
      <3>1. /\ task[v].pc = "work" /\ task[v].kind \in Kind
            /\ task[v].left # <<>> /\ task[v].left \in Seq(Step)
        BY <2>1, Waiting
      <3> QED BY <3>1, WaitingWithinOrders
    <2>4. ASSUME NEW v \in S, NEW w \in S, w \in Blockers(v)
          PROVE  v # w /\ \E h \in held[w] : h.row = Wanted(v).row
      BY <2>4, Waiting
    <2>5. ASSUME NEW v \in S
          PROVE  /\ Wanted(v).row.class = Head(task[v].left)[1]
                 /\ ~OnSeries(v) => Wanted(v).row.order = task[v].order
      BY DEF Wanted, RowOf
    <2>6. ASSUME NEW v \in S, OnSeries(v) PROVE FALSE
      <3> DEFINE R == S \ {v}
      <3>1. \A w \in S, x \in S : x \in Blockers(w) => x # v
        BY <2>3, <2>4, <2>6
      <3>2. \E x \in S : x \in Blockers(v)
        BY <2>1
      <3>3. \A w \in R : \E x \in R : x \in Blockers(w)
        BY <2>1, <3>1
      <3>4. \E x : x \in R
        BY <3>1, <3>2
      <3>5. R = S
        <4> HIDE DEF R
        <4>1. R \in SUBSET S
          BY DEF R
        <4> QED BY <2>2, <3>3, <3>4, <4>1
      <3> QED BY <3>5
    <2>7. ASSUME NEW v \in S, NEW w \in S, w \in Blockers(v)
          PROVE  task[w].order = task[v].order
      <3>1. PICK h \in held[w] : h.row = Wanted(v).row
        BY <2>4, <2>7
      <3>2. h.row.class # "series" /\ h.row.order = task[v].order
        BY <2>5, <2>6, <3>1
      <3> QED BY <2>3, <3>2
    <2>8. {v \in S : task[v].order = task[t].order} = S
      <3> DEFINE R == {v \in S : task[v].order = task[t].order}
      <3>1. \A w \in R : \E x \in R : x \in Blockers(w)
        BY <2>1, <2>7
      <3>2. t \in R /\ R \in SUBSET S
        OBVIOUS
      <3> HIDE DEF R
      <3>3. R = S
        BY <2>2, <3>1, <3>2
      <3> QED BY <3>3 DEF R
    <2> QED BY <2>8
  <1> QED BY SpecInv, <1>1, PTL

-----------------------------------------------------------------------------
(* The pool.                                                               *)

(* No more connections are in use than there are, and only an on_select    *)
(* asks for another one while it has its transaction.                      *)
PoolInv ==
    /\ IsFiniteSet(InUse) /\ Cardinality(InUse) <= PoolMax
    /\ \A t \in Task :
          task[t].todo > 0 =>
              \/ task[t].pc = "read"
              \/ task[t].pc = "work" /\ task[t].kind = "on_select"

LEMMA UsedType ==
  ASSUME TypeOK
  PROVE  \A t \in Task : Used(t) \in Nat
  BY DEF TypeOK, Used

(* Only t's connections change.                                            *)
OnlyOf(t) == \A u \in Task \ {t} : task'[u] = task[u]

LEMMA FewerInUse ==
  ASSUME TypeOK, TypeOK', NEW t \in Task, OnlyOf(t), Used(t)' <= Used(t),
         IsFiniteSet(InUse), Cardinality(InUse) <= PoolMax
  PROVE  IsFiniteSet(InUse)' /\ Cardinality(InUse)' <= PoolMax
<1>1. \A u \in Task : Used(u) \in Nat /\ Used(u)' \in Nat /\ Used(u)' <= Used(u)
  <2>1. \A u \in Task : Used(u) \in Nat
    BY UsedType
  <2>2. \A u \in Task : Used(u)' \in Nat
    BY DEF TypeOK, Used
  <2>3. \A u \in Task \ {t} : Used(u)' = Used(u)
    BY DEF OnlyOf, Used
  <2> QED BY <2>1, <2>2, <2>3
<1>2. ASSUME NEW c \in InUse'
      PROVE  c \in InUse
  <2>1. PICK u \in Task : c \in {u} \X (1 .. Used(u)')
    BY DEF InUse
  <2>2. c \in {u} \X (1 .. Used(u))
    BY <1>1, <2>1
  <2> QED BY <2>2 DEF InUse
<1>3. InUse' \in SUBSET InUse
  BY <1>2
<1>4. Cardinality(InUse) \in Nat /\ Cardinality(InUse') \in Nat /\ PoolMax \in Nat
  BY <1>3, FS_CardinalityType, FS_Subset, PoolAssumption
<1> QED
  BY <1>3, <1>4, FS_Subset

LEMMA OneMoreInUse ==
  ASSUME TypeOK, NEW t \in Task, OnlyOf(t), Used(t)' = Used(t) + 1, Free,
         IsFiniteSet(InUse)
  PROVE  IsFiniteSet(InUse)' /\ Cardinality(InUse)' <= PoolMax
<1> DEFINE new == <<t, Used(t) + 1>>
<1>1. \A u \in Task : Used(u) \in Nat
  BY UsedType
<1>2. \A u \in Task \ {t} : Used(u)' = Used(u)
  BY DEF OnlyOf, Used
<1>3. ASSUME NEW c \in InUse'
      PROVE  c \in InUse \cup {new}
  <2>1. PICK u \in Task : c \in {u} \X (1 .. Used(u)')
    BY DEF InUse
  <2>2. c = new \/ c \in {u} \X (1 .. Used(u))
    <3>1. CASE u = t
      BY <1>1, <2>1, <3>1
    <3>2. CASE u # t
      BY <1>2, <2>1, <3>2
    <3> QED BY <3>1, <3>2
  <2> QED BY <2>2 DEF InUse
<1>4. ASSUME NEW c \in InUse \cup {new}
      PROVE  c \in InUse'
  <2>1. CASE c = new
    <3>1. c \in {t} \X (1 .. Used(t)')
      BY <1>1, <2>1
    <3> QED BY <3>1 DEF InUse
  <2>2. CASE c \in InUse
    <3>1. PICK u \in Task : c \in {u} \X (1 .. Used(u))
      BY <2>2 DEF InUse
    <3>2. c \in {u} \X (1 .. Used(u)')
      <4>1. CASE u = t
        BY <1>1, <3>1, <4>1
      <4>2. CASE u # t
        BY <1>2, <3>1, <4>2
      <4> QED BY <4>1, <4>2
    <3> QED BY <3>2 DEF InUse
  <2> QED BY <2>1, <2>2
<1>5. InUse' = InUse \cup {new}
  BY <1>3, <1>4
<1> HIDE DEF new
<1>6. /\ IsFiniteSet(InUse \cup {new}) /\ Cardinality(InUse) \in Nat
      /\ Cardinality(InUse \cup {new}) \in {Cardinality(InUse), Cardinality(InUse) + 1}
  BY FS_AddElement, FS_CardinalityType
<1> QED
  BY <1>5, <1>6, PoolAssumption DEF Free

LEMMA InitPool == Init => PoolInv
<1> SUFFICES ASSUME Init PROVE PoolInv
  OBVIOUS
<1>1. InUse = {}
  <2>1. \A t \in Task : Used(t) = 0
    BY DEF Init, Off, Used
  <2> QED BY <2>1 DEF InUse
<1> QED
  BY <1>1, FS_EmptySet, PoolAssumption DEF Init, Off, PoolInv

LEMMA NextPool == Inv /\ PoolInv /\ [Next]_vars => PoolInv'
<1> SUFFICES ASSUME Inv, PoolInv, [Next]_vars PROVE PoolInv'
  OBVIOUS
<1>0. TypeOK /\ TypeOK' /\ TaskInv
  BY NextInv DEF Inv
<1>1. ASSUME NEW t \in Task, StartQuery(t) PROVE PoolInv'
  <2>1. /\ task'[t] = [task[t] EXCEPT !.todo = @ - 1, !.busy = @ + 1]
        /\ OnlyOf(t) /\ Free /\ task[t].todo > 0
    BY <1>0, <1>1 DEF StartQuery, OnlyOf, TypeOK
  <2>2. Used(t)' = Used(t) + 1
    BY <1>0, <2>1 DEF Used, TypeOK
  <2>3. IsFiniteSet(InUse)' /\ Cardinality(InUse)' <= PoolMax
    BY <1>0, <2>1, <2>2, OneMoreInUse DEF PoolInv
  <2>4. task'[t].pc = task[t].pc /\ task'[t].kind = task[t].kind
    BY <1>0, <2>1 DEF TypeOK
  <2>5. \A u \in Task : task'[u].todo > 0 =>
              \/ task'[u].pc = "read"
              \/ task'[u].pc = "work" /\ task'[u].kind = "on_select"
    <3>1. /\ task[t].pc = "read" \/ (task[t].pc = "work" /\ task[t].kind = "on_select")
          /\ \A u \in Task \ {t} : task'[u] = task[u]
      BY <2>1 DEF PoolInv, OnlyOf
    <3> QED BY <2>4, <3>1 DEF PoolInv
  <2> QED BY <2>3, <2>5 DEF PoolInv
<1>2. ASSUME NEW t \in Task, Begin(t) PROVE PoolInv'
  <2>1. PICK p \in Locks(task[t].kind) :
           task' = [task EXCEPT ![t].pc = "work", ![t].conn = TRUE, ![t].left = p,
                                ![t].todo = ReadsWithin[task[t].kind]]
    BY <1>2 DEF Begin
  <2>2. /\ task'[t].busy = task[t].busy /\ task'[t].conn /\ task'[t].pc = "work"
        /\ task'[t].kind = task[t].kind /\ task'[t].todo = ReadsWithin[task[t].kind]
        /\ OnlyOf(t) /\ Free /\ task[t].kind \in Kind /\ ~task[t].conn /\ task[t].busy = 0
    BY <1>0, <1>2, <2>1 DEF Begin, OnlyOf, TypeOK, TaskInv
  <2>3. Used(t)' = Used(t) + 1
    BY <2>2 DEF Used
  <2>4. IsFiniteSet(InUse)' /\ Cardinality(InUse)' <= PoolMax
    BY <1>0, <2>2, <2>3, OneMoreInUse DEF PoolInv
  <2>5. task'[t].todo > 0 => task'[t].kind = "on_select"
    BY <2>2 DEF ReadsWithin
  <2> QED BY <2>2, <2>4, <2>5 DEF PoolInv, OnlyOf
<1>3. ASSUME NEW t \in Task, OnlyOf(t), Used(t)' <= Used(t),
             \/ task'[t].todo = 0 \/ task'[t].pc = "read"
             \/ task'[t].pc = task[t].pc /\ task'[t].kind = task[t].kind
                /\ task'[t].todo = task[t].todo
      PROVE  PoolInv'
  <2>1. IsFiniteSet(InUse)' /\ Cardinality(InUse)' <= PoolMax
    BY <1>0, <1>3, FewerInUse DEF PoolInv
  <2>2. \A u \in Task : task'[u].todo > 0 =>
              \/ task'[u].pc = "read"
              \/ task'[u].pc = "work" /\ task'[u].kind = "on_select"
    BY <1>3 DEF PoolInv, OnlyOf
  <2> QED BY <2>1, <2>2 DEF PoolInv
<1>4. ASSUME NEW t \in Task, Start(t) PROVE PoolInv'
  <2>1. OnlyOf(t) /\ task'[t].pc = "read" /\ task'[t].busy = 0 /\ ~task'[t].conn
    BY <1>0, <1>4 DEF Start, OnlyOf, TypeOK
  <2>2. Used(t)' = 0 /\ Used(t) \in Nat
    BY <1>0, <2>1, UsedType DEF Used
  <2> QED BY <1>3, <2>1, <2>2
<1>5. ASSUME NEW t \in Task, EndQuery(t) PROVE PoolInv'
  <2>1. /\ task'[t] = [task[t] EXCEPT !.busy = @ - 1] /\ task[t].busy > 0 /\ OnlyOf(t)
    BY <1>0, <1>5 DEF EndQuery, OnlyOf, TypeOK
  <2>2. /\ task'[t].busy = task[t].busy - 1 /\ task'[t].conn = task[t].conn
        /\ task'[t].pc = task[t].pc /\ task'[t].kind = task[t].kind
        /\ task'[t].todo = task[t].todo /\ task[t].busy \in Nat
    BY <1>0, <2>1 DEF TypeOK
  <2>3. Used(t)' <= Used(t)
    BY <2>2 DEF Used
  <2> QED BY <1>3, <2>1, <2>2, <2>3
<1>6. ASSUME NEW t \in Task, Lock(t) PROVE PoolInv'
  <2>1. /\ OnlyOf(t) /\ task'[t].busy = task[t].busy /\ task'[t].conn = task[t].conn
        /\ task'[t].todo = 0
    BY <1>0, <1>6 DEF Lock, Asks, OnlyOf, TypeOK
  <2>2. Used(t)' <= Used(t)
    BY <1>0, <2>1, UsedType DEF Used
  <2> QED BY <1>3, <2>1, <2>2
<1>7. ASSUME NEW t \in Task, AcquireTimeout(t) PROVE PoolInv'
  <2>1. /\ OnlyOf(t) /\ task'[t].busy = task[t].busy /\ task'[t].conn = task[t].conn
        /\ task'[t].todo = 0
    BY <1>0, <1>7 DEF AcquireTimeout, OnlyOf, TypeOK
  <2>2. Used(t)' <= Used(t)
    BY <1>0, <2>1, UsedType DEF Used
  <2> QED BY <1>3, <2>1, <2>2
<1>8. ASSUME NEW t \in Task, Ends(t) PROVE PoolInv'
  <2>1. OnlyOf(t) /\ task'[t] = Off
    BY <1>0, <1>8 DEF Ends, OnlyOf, TypeOK
  <2>2. Used(t)' = 0 /\ Used(t) \in Nat /\ task'[t].todo = 0
    BY <1>0, <2>1, UsedType DEF Used, Off
  <2> QED BY <1>3, <2>1, <2>2
<1>9. CASE UNCHANGED vars
  <2>1. InUse' = InUse
    BY <1>9 DEF vars, InUse, Used
  <2> QED BY <1>9, <2>1 DEF vars, PoolInv
<1> QED
  BY <1>1, <1>2, <1>4, <1>5, <1>6, <1>7, <1>8, <1>9
     DEF Next, Work, Commit, Fail, DeadlockAbort, Dies

(* When everybody who has a connection waits for another, each has one.    *)
LEMMA UsersCounted ==
  ASSUME Inv, IsFiniteSet(InUse), NEW users,
         users = {t \in Task : Used(t) > 0}, \A t \in users : Used(t) = 1
  PROVE  Cardinality(users) = Cardinality(InUse)
<1> DEFINE f == [c \in InUse |-> c[1]]
<1>0. \A t \in Task : Used(t) \in Nat
  BY UsedType DEF Inv
<1>1. ASSUME NEW c \in InUse
      PROVE  c[1] \in users /\ c = <<c[1], 1>>
  <2>1. PICK t \in Task : c \in {t} \X (1 .. Used(t))
    BY DEF InUse
  <2> QED BY <1>0, <2>1
<1>2. ASSUME NEW t \in users
      PROVE  <<t, 1>> \in InUse
  <2>1. <<t, 1>> \in {t} \X (1 .. Used(t))
    OBVIOUS
  <2> QED BY <2>1 DEF InUse
<1>3. f \in Bijection(InUse, users)
  <2>1. f \in Injection(InUse, users)
    BY <1>1 DEF Injection, IsInjective
  <2>2. f \in Surjection(InUse, users)
    <3>1. \A t \in users : f[<<t, 1>>] = t
      BY <1>2
    <3> QED BY <1>1, <1>2, <3>1 DEF Surjection
  <2> QED BY <2>1, <2>2 DEF Bijection
<1> QED
  BY <1>3, FS_Bijection DEF ExistsBijection

(* The pool is exhausted by tasks that wait for it only when all its       *)
(* connections belong to on_selects that read within their transaction.    *)
THEOREM OnSelectsAloneStall == Spec => []OnlyOnSelectsStall
<1>1. Inv /\ PoolInv => OnlyOnSelectsStall
  <2> DEFINE users == {t \in Task : Used(t) > 0}
  <2> SUFFICES ASSUME Inv, PoolInv, ~Free,
                      \A t \in users : WaitsForPool(t) /\ task[t].busy = 0
               PROVE  /\ Cardinality(users) = PoolMax
                      /\ \A t \in users : task[t].kind = "on_select"
    BY DEF OnlyOnSelectsStall
  <2>1. ASSUME NEW t \in users
        PROVE  task[t].conn /\ Used(t) = 1 /\ task[t].kind = "on_select"
    <3>1. task[t].conn /\ Used(t) = 1
      BY DEF Used
    <3>2. task[t].pc # "read" /\ task[t].todo > 0
      BY <3>1 DEF Inv, TaskInv, WaitsForPool
    <3> QED BY <3>1, <3>2 DEF PoolInv
  <2> HIDE DEF users
  <2>2. Cardinality(users) = Cardinality(InUse)
    BY <2>1, UsersCounted DEF PoolInv, users
  <2>3. Cardinality(InUse) \in Nat /\ Cardinality(InUse) = PoolMax
    BY FS_CardinalityType, PoolAssumption DEF PoolInv, Free
  <2> QED BY <2>1, <2>2, <2>3
<1>2. Spec => []PoolInv
  BY SpecInv, InitPool, NextPool, PTL DEF Spec
<1> QED BY SpecInv, <1>1, <1>2, PTL

=============================================================================
