------------------------ MODULE OrderLifecycleProofs ------------------------
(* Proofs about OrderLifecycle, for any tasks, requests and bounds.         *)
EXTENDS OrderLifecycle, TLAPS

USE MessageAssumption, NoneAssumption

\* What an insert of a row does to the tables' domains.
LEMMA NewOrderType ==
    ASSUME TypeOK, NEW type \in OrderType, NEW status \in CommerceStatusType,
           NEW pays \in BOOLEAN, NewOrder(type, status, pays)
    PROVE  order' \in Order /\ nextId' \in Nat /\ series' \in Nat
<1>1. order # None => order \in Order
  BY DEF TypeOK
<1> QED
  BY <1>1 DEF TypeOK, NewOrder, Order

\* What a merge does to the row of the order.
LEMMA MergedType ==
    ASSUME TypeOK, NEW c \in Callback, MergeSelect(c)
    PROVE  /\ order \in Order /\ order # None /\ order' \in Order /\ order' # None
           /\ order'.id = order.id /\ order'.urn = order.urn /\ order'.type = order.type
           /\ order'.billed = order.billed /\ order'.status = "QuoteAccepted"
           /\ order'.pays = (order.pays \/ cb[c].reply.pays) /\ cb[c].reply.pays \in BOOLEAN
           /\ series \in Nat /\ series' = series + 1
<1>1. order \in Order /\ order # None
  BY DEF TypeOK, MergeSelect
<1>2. cb[c].reply.pays \in BOOLEAN
  BY DEF TypeOK, MergeSelect, Storing, Open, Read, Reply
<1>3. order' = [order EXCEPT !.status = "QuoteAccepted", !.pays = order.pays \/ cb[c].reply.pays]
  BY <1>1 DEF MergeSelect, Order
<1>4. order' \in Order
  BY <1>1, <1>2, <1>3 DEF Order, CommerceStatusType
<1>5. series \in Nat /\ series' = series + 1
  BY DEF TypeOK, MergeSelect
<1> QED
  BY <1>1, <1>2, <1>3, <1>4, <1>5 DEF Order

\* What becomes of the callbacks beside a select that inserts: they are as
\* they were, but for having missed the order.
LEMMA MissType ==
    ASSUME TypeOK, NEW M \in SUBSET Storing
    PROVE  /\ Miss(M) \in [Callback -> Read \cup {None}]
           /\ \A d \in Callback : Miss(M)[d] # None =>
                 /\ cb[d] # None /\ Miss(M)[d].reply = cb[d].reply
                 /\ Miss(M)[d].snap = cb[d].snap
<1>1. \A d \in Callback : cb[d] \in Read \cup {None}
  BY DEF TypeOK
<1>2. \A d \in M : cb[d] \in Read /\ cb[d] # None
  BY <1>1 DEF Storing, Open
<1>3. \A d \in M : [cb[d] EXCEPT !.missed = TRUE] \in Read
  BY <1>2 DEF Read
<1> QED
  BY <1>1, <1>2, <1>3 DEF Miss, Read

\* A reported status is a status of commerce_data.
LEMMA ReportedStatusType ==
    ASSUME NEW reply \in Reply, NEW type
    PROVE  ReportedStatus(reply, type) \in CommerceStatusType
<1>1. reply.state \in ONDCOrderStatus
  BY DEF Reply
<1> QED
  BY <1>1 DEF ReportedStatus, GetCommerceStatus, ONDCOrderStatus, CommerceStatusType

\* Every step keeps every variable in its domain.
LEMMA TypeStep == TypeOK /\ [Next]_vars => TypeOK'
<1> SUFFICES ASSUME TypeOK, [Next]_vars PROVE TypeOK'
  OBVIOUS
<1> USE DEF TypeOK, rows
<1>1. ASSUME NEW h \in Handler, NEW m \in Message, StartRequest(h, m) PROVE TypeOK'
  BY <1>1 DEF StartRequest, Task, Idle
<1>2. ASSUME NEW h \in Handler, SaveRequest(h) PROVE TypeOK'
  BY <1>2 DEF SaveRequest, Task, Idle
<1>3. ASSUME NEW h \in Handler, SaveFails(h) PROVE TypeOK'
  BY <1>3 DEF SaveFails, Task, Idle
<1>4. ASSUME NEW h \in Handler, SendRequest(h) PROVE TypeOK'
  BY <1>4 DEF SendRequest, Task, Idle
<1>5. ASSUME NEW h \in Handler, SendFails(h) PROVE TypeOK'
  BY <1>5 DEF SendFails, Task, Idle
<1>6. ASSUME NEW h \in Handler, Join(h) PROVE TypeOK'
  BY <1>6 DEF Join, HandlerDone, Task, Idle
<1>7. ASSUME NEW h \in Handler, RfqCommit(h) PROVE TypeOK'
  <2>1. order' \in Order /\ nextId' \in Nat /\ series' \in Nat
    BY <1>7, NewOrderType DEF RfqCommit, OrderType, CommerceStatusType
  <2>2. hand[h].msg \in Message
    BY <1>7 DEF RfqCommit, Task, Idle
  <2>3. cb' \in [Callback -> Read \cup {None}]
    BY <1>7, MissType DEF RfqCommit
  <2> QED
    BY <1>7, <2>1, <2>2, <2>3 DEF RfqCommit, HandlerDone
<1>8. ASSUME NEW h \in Handler, RfqAborts(h) PROVE TypeOK'
  BY <1>8 DEF RfqAborts, HandlerDone
<1>9. ASSUME NEW c \in Callback, NEW reply \in Reply, Receive(c, reply) PROVE TypeOK'
  <2>1. reply.act # "select" => order \in Order
    BY <1>9 DEF Receive, InSequence
  <2>2. cb'[c] \in Read
    BY <1>9, <2>1 DEF Receive, Snapshot, Order, Read
  <2> QED
    BY <1>9, <2>2 DEF Receive
<1>10. ASSUME NEW c \in Callback, CommitSelect(c) PROVE TypeOK'
  <2>1. cb[c].reply \in Reply
    BY <1>10 DEF CommitSelect, Storing, Open, Read
  <2>2. cb[c].reply.pays \in BOOLEAN /\ TypeByTtl(cb[c].reply.msg) \in OrderType
    BY <2>1 DEF Reply, TypeByTtl, OrderType
  <2>3. order' \in Order \cup {None} /\ nextId' \in Nat /\ series' \in Nat
    BY <1>10, <2>2, NewOrderType DEF CommitSelect, CommerceStatusType
  <2>4. cb' \in [Callback -> Read \cup {None}]
    BY <1>10, MissType DEF CommitSelect
  <2> QED
    BY <1>10, <2>3, <2>4 DEF CommitSelect
<1>18. ASSUME NEW c \in Callback, RejectSelect(c) PROVE TypeOK'
  BY <1>18 DEF RejectSelect, CallbackDone
<1>19. ASSUME NEW c \in Callback, MergeSelect(c) PROVE TypeOK'
  <2>1. order' \in Order /\ series' \in Nat
    BY <1>19, MergedType
  <2>2. UNCHANGED <<reqs, delivered, acked, nextId, hand>> /\ cb' = [cb EXCEPT ![c] = None]
    BY <1>19 DEF MergeSelect, CallbackDone
  <2> QED
    BY <2>1, <2>2
<1>11. ASSUME NEW c \in Callback, CommitInit(c) PROVE TypeOK'
  BY <1>11 DEF CommitInit, Open, PaymentsReplaced, CallbackDone, Order, Read, Reply, CommerceStatusType
<1>12. ASSUME NEW c \in Callback, CommitReport(c) PROVE TypeOK'
  <2>1. cb[c].reply \in Reply /\ order \in Order
    BY <1>12 DEF CommitReport, Open, PaymentsReplaced, Read
  <2>2. cb[c].reply.pays \in BOOLEAN /\ order.status \in CommerceStatusType
    BY <2>1 DEF Reply, Order
  <2>3. ReportedStatus(cb[c].reply, cb[c].snap.type) \in CommerceStatusType
    BY <2>1, ReportedStatusType
  <2>4. PICK status \in CommerceStatusType :
             order' = [order EXCEPT !.status = status, !.pays = cb[c].reply.pays]
    BY <1>12, <2>2, <2>3 DEF CommitReport
  <2>5. order' \in Order
    BY <2>1, <2>2, <2>4 DEF Order
  <2> QED
    BY <1>12, <2>5 DEF CommitReport, CallbackDone
<1>13. ASSUME NEW c \in Callback, CommitUpdate(c) PROVE TypeOK'
  BY <1>13 DEF CommitUpdate, Open, PaymentsReplaced, CallbackDone, Order, Read, Reply
<1>14. ASSUME NEW c \in Callback, CallbackFails(c) PROVE TypeOK'
  BY <1>14 DEF CallbackFails, CallbackDone
<1>15. CASE OtherOrder
  BY <1>15 DEF OtherOrder
<1>16. CASE Restart
  BY <1>16 DEF Restart
<1>17. CASE UNCHANGED vars
  BY <1>17 DEF vars
<1> QED
  BY <1>1, <1>2, <1>3, <1>4, <1>5, <1>6, <1>7, <1>8, <1>9, <1>10, <1>11, <1>12,
     <1>13, <1>14, <1>15, <1>16, <1>17, <1>18, <1>19 DEF Next, Endpoint, SellerCallback

\* Every reachable state is well typed: tables hold what their columns may
\* hold, tasks are at a point of their code.
THEOREM TypeCorrect == Spec => []TypeOK
<1>1. Init => TypeOK
  BY DEF Init, TypeOK, Idle
<1> QED
  BY <1>1, TypeStep, PTL DEF Spec

----------------------------------------------------------------------------
(* The inductive invariant.  The saved and the delivered requests only grow *)
(* and the order row only gives way to a newer one, so what was known of a  *)
(* task or of the order stays true until the task itself moves.             *)

Grows ==
    /\ reqs \subseteq reqs'
    /\ delivered \subseteq delivered'
    /\ nextId <= nextId'
    /\ order # None => order' # None /\ order.id <= order'.id

\* The order row is as it was, or a change of it in place.
SameRow ==
    \/ order' = order
    \/ order # None /\ order' # None /\ order'.id = order.id /\ order'.type = order.type

\* A fresh row: any snapshot is of an older one.
FreshRow == order' # None /\ order'.id = nextId /\ nextId' = nextId + 1

\* What is known of an endpoint that does not move stays true.
LEMMA RequestsKept ==
    ASSUME RequestsInProgress, Grows, hand' = hand
    PROVE  RequestsInProgress'
BY DEF RequestsInProgress, Grows, Selects, Inits

\* So does what is known of the endpoints beside the one that moves.
LEMMA OtherRequestsKept ==
    ASSUME TypeOK, RequestsInProgress, Grows, NEW h \in Handler, NEW task \in Task \cup {Idle},
           hand' = [hand EXCEPT ![h] = task],
           task # Idle =>
              /\ task.save = "ok" => task.msg \in reqs'
              /\ task.send = "ok" => task.msg \in delivered'
              /\ task.msg \in Selects => "failed" \notin {task.save, task.send}
              /\ task.pc = "rfq" => /\ task.msg \in Selects /\ Rfq[task.msg]
                                    /\ task.save = "ok" /\ task.send = "ok"
              /\ task.msg \notin Selects => delivered' \cap Selects # {}
              /\ Act[task.msg] = "confirm" => delivered' \cap Inits # {}
    PROVE  RequestsInProgress'
<1>1. hand'[h] = task /\ \A g \in Handler \ {h} : hand'[g] = hand[g]
  BY DEF TypeOK
<1> SUFFICES ASSUME NEW g \in Handler, hand'[g] # Idle
             PROVE  LET t == hand'[g]
                    IN  /\ t.save = "ok" => t.msg \in reqs'
                        /\ t.send = "ok" => t.msg \in delivered'
                        /\ t.msg \in Selects => "failed" \notin {t.save, t.send}
                        /\ t.pc = "rfq" => /\ t.msg \in Selects /\ Rfq[t.msg]
                                           /\ t.save = "ok" /\ t.send = "ok"
                        /\ t.msg \notin Selects => delivered' \cap Selects # {}
                        /\ Act[t.msg] = "confirm" => delivered' \cap Inits # {}
  BY DEF RequestsInProgress, Selects, Inits
<1>2. CASE g = h
  BY <1>1, <1>2
<1>3. CASE g # h
  BY <1>1, <1>3 DEF RequestsInProgress, Grows
<1> QED
  BY <1>2, <1>3

\* What a callback read stays sound when it is over or nothing it read of
\* changes but in place or for a fresh row.
LEMMA ReadsKept ==
    ASSUME TypeOK, RowIdsAreFresh, ReadsAreSound, Grows, SameRow \/ FreshRow,
           \A c \in Callback : cb'[c] # None =>
              cb[c] # None /\ cb'[c].reply = cb[c].reply /\ cb'[c].snap = cb[c].snap
    PROVE  ReadsAreSound'
<1> SUFFICES ASSUME NEW c \in Callback, cb'[c] # None
             PROVE  LET reply == cb'[c].reply
                        snap == cb'[c].snap
                    IN  /\ reply.act \notin OnItsOwn =>
                             reply.msg \in reqs' \cap delivered' /\ Act[reply.msg] = reply.act
                        /\ reply.act # "select" => order' # None
                        /\ reply.act \notin {"select", "init"} =>
                             /\ snap # None
                             /\ snap.id <= order'.id
                             /\ snap.id = order'.id => snap.type = order'.type
  BY DEF ReadsAreSound
<1>1. cb[c] # None /\ cb'[c].reply = cb[c].reply /\ cb'[c].snap = cb[c].snap
  OBVIOUS
<1>2. cb[c].reply.act # "select" => order \in Order /\ order # None
  BY <1>1 DEF ReadsAreSound, TypeOK
<1>3. order # None => order.id \in Nat /\ order.id < nextId /\ nextId \in Nat
  BY DEF TypeOK, RowIdsAreFresh, Order
<1>4. cb[c].snap # None => cb[c].snap.id \in Nat
  BY <1>1 DEF TypeOK, Read, Snapshot
<1>5. CASE SameRow
  BY <1>1, <1>2, <1>3, <1>4, <1>5 DEF ReadsAreSound, Grows, SameRow
<1>6. CASE FreshRow
  BY <1>1, <1>2, <1>3, <1>4, <1>6 DEF ReadsAreSound, Grows, FreshRow
<1> QED
  BY <1>5, <1>6

\* An order that does not change was asked for as before.
LEMMA AskedKept ==
    ASSUME OrderWasAskedFor, Grows, order' = order
    PROVE  OrderWasAskedFor'
BY DEF OrderWasAskedFor, Grows, Selects, Inits, TypeByTtl

\* What was acknowledged stays done.
LEMMA AckedKept ==
    ASSUME AckedIsDone, Grows, acked' = acked
    PROVE  AckedIsDone'
BY DEF AckedIsDone, Grows, Selects

\* The order of the steps the seller has seen does not change when it sees
\* no new request.
LEMMA ProtocolKept ==
    ASSUME ProtocolOrder, delivered' = delivered
    PROVE  ProtocolOrder'
BY DEF ProtocolOrder, Selects, Inits

----------------------------------------------------------------------------
(* The steps of the buyer's endpoints.                                      *)

LEMMA StartRequestInv ==
    ASSUME Invariant, TypeOK', NEW h \in Handler, NEW m \in Message, StartRequest(h, m)
    PROVE  Invariant'
<1> USE DEF Invariant
<1> DEFINE task == [pc |-> "join", msg |-> m, save |-> "todo", send |-> "todo"]
<1>1. UNCHANGED <<reqs, delivered, acked, rows, cb>> /\ hand' = [hand EXCEPT ![h] = task]
  BY DEF StartRequest
<1>2. Grows /\ SameRow
  BY <1>1 DEF Grows, SameRow, rows, TypeOK, Order
<1>3. task \in Task
  BY DEF Task
<1>4. m \notin Selects => delivered \cap Selects # {}
  BY DEF StartRequest, OrderWasAskedFor
<1>5. Act[m] = "confirm" => delivered \cap Inits # {}
  BY DEF StartRequest, NoBilling, OrderWasAskedFor, Selects
<1>6. RequestsInProgress'
  BY <1>1, <1>2, <1>3, <1>4, <1>5, OtherRequestsKept
<1>7. RowIdsAreFresh'
  BY <1>1 DEF RowIdsAreFresh, rows
<1>8. ReadsAreSound'
  BY <1>1, <1>2, ReadsKept
<1>9. ProtocolOrder' /\ OrderWasAskedFor' /\ AckedIsDone'
  BY <1>1, <1>2, ProtocolKept, AskedKept, AckedKept DEF rows
<1> QED
  BY <1>6, <1>7, <1>8, <1>9

LEMMA SaveRequestInv ==
    ASSUME Invariant, TypeOK', NEW h \in Handler, SaveRequest(h)
    PROVE  Invariant'
<1> USE DEF Invariant
<1> DEFINE task == [hand[h] EXCEPT !.save = "ok"]
<1>1. /\ UNCHANGED <<delivered, acked, rows, cb>> /\ hand' = [hand EXCEPT ![h] = task]
      /\ reqs' = reqs \cup {hand[h].msg}
  BY DEF SaveRequest
<1>2. Grows /\ SameRow
  BY <1>1 DEF Grows, SameRow, rows, TypeOK, Order
<1>3. hand[h] \in Task /\ hand[h] # Idle /\ hand[h].pc = "join"
  BY DEF SaveRequest, TypeOK, Idle
<1>4. task \in Task /\ task.msg = hand[h].msg /\ task.pc = "join" /\ task.send = hand[h].send
                     /\ task.save = "ok"
  BY <1>3 DEF Task
<1>5. RequestsInProgress'
  <2>1. /\ task.send = "ok" => task.msg \in delivered'
        /\ task.msg \in Selects => "failed" \notin {task.save, task.send}
        /\ task.msg \notin Selects => delivered' \cap Selects # {}
        /\ Act[task.msg] = "confirm" => delivered' \cap Inits # {}
    BY <1>1, <1>3, <1>4 DEF RequestsInProgress
  <2> HIDE DEF task
  <2> QED
    BY <1>1, <1>2, <1>4, <2>1, OtherRequestsKept
<1>6. RowIdsAreFresh'
  BY <1>1 DEF RowIdsAreFresh, rows
<1>7. ReadsAreSound'
  BY <1>1, <1>2, ReadsKept
<1>8. ProtocolOrder' /\ OrderWasAskedFor' /\ AckedIsDone'
  BY <1>1, <1>2, ProtocolKept, AskedKept, AckedKept DEF rows
<1> QED
  BY <1>5, <1>6, <1>7, <1>8

LEMMA SaveFailsInv ==
    ASSUME Invariant, TypeOK', NEW h \in Handler, SaveFails(h)
    PROVE  Invariant'
<1> USE DEF Invariant
<1> DEFINE task == IF IsSelect(h) THEN Idle ELSE [hand[h] EXCEPT !.save = "failed"]
<1>1. UNCHANGED <<reqs, delivered, acked, rows, cb>> /\ hand' = [hand EXCEPT ![h] = task]
  BY DEF SaveFails
<1>2. Grows /\ SameRow
  BY <1>1 DEF Grows, SameRow, rows, TypeOK, Order
<1>3. hand[h] \in Task /\ hand[h] # Idle /\ hand[h].pc = "join"
  BY DEF SaveFails, TypeOK, Idle
<1>4. task \in Task \cup {Idle}
  BY <1>3 DEF Task
<1>5. RequestsInProgress'
  <2>1. task # Idle =>
          /\ task.save = "ok" => task.msg \in reqs'
          /\ task.send = "ok" => task.msg \in delivered'
          /\ task.msg \in Selects => "failed" \notin {task.save, task.send}
          /\ task.pc # "rfq"
          /\ task.msg \notin Selects => delivered' \cap Selects # {}
          /\ Act[task.msg] = "confirm" => delivered' \cap Inits # {}
    BY <1>1, <1>3 DEF RequestsInProgress, IsSelect, Task
  <2> HIDE DEF task
  <2> QED
    BY <1>1, <1>2, <1>4, <2>1, OtherRequestsKept
<1>6. RowIdsAreFresh'
  BY <1>1 DEF RowIdsAreFresh, rows
<1>7. ReadsAreSound'
  BY <1>1, <1>2, ReadsKept
<1>8. ProtocolOrder' /\ OrderWasAskedFor' /\ AckedIsDone'
  BY <1>1, <1>2, ProtocolKept, AskedKept, AckedKept DEF rows
<1> QED
  BY <1>5, <1>6, <1>7, <1>8

\* The seller sees a request of a task in progress: in order, because of what
\* the task was started on.
LEMMA DeliveryInOrder ==
    ASSUME Invariant, NEW h \in Handler, hand[h] # Idle,
           delivered' \in {delivered, delivered \cup {hand[h].msg}}
    PROVE  ProtocolOrder'
<1> USE DEF Invariant
<1>1. /\ hand[h].msg \notin Selects => delivered \cap Selects # {}
      /\ Act[hand[h].msg] = "confirm" => delivered \cap Inits # {}
  BY DEF RequestsInProgress
<1> QED
  BY <1>1 DEF ProtocolOrder, Selects, Inits

LEMMA SendRequestInv ==
    ASSUME Invariant, TypeOK', NEW h \in Handler, SendRequest(h)
    PROVE  Invariant'
<1> USE DEF Invariant
<1> DEFINE task == [hand[h] EXCEPT !.send = "ok"]
<1>1. /\ UNCHANGED <<reqs, acked, rows, cb>> /\ hand' = [hand EXCEPT ![h] = task]
      /\ delivered' = delivered \cup {hand[h].msg}
  BY DEF SendRequest
<1>2. Grows /\ SameRow
  BY <1>1 DEF Grows, SameRow, rows, TypeOK, Order
<1>3. hand[h] \in Task /\ hand[h] # Idle /\ hand[h].pc = "join"
  BY DEF SendRequest, TypeOK, Idle
<1>4. task \in Task /\ task.msg = hand[h].msg /\ task.pc = "join" /\ task.save = hand[h].save
                     /\ task.send = "ok"
  BY <1>3 DEF Task
<1>5. RequestsInProgress'
  <2>1. /\ task.save = "ok" => task.msg \in reqs'
        /\ task.msg \in Selects => "failed" \notin {task.save, task.send}
        /\ task.msg \notin Selects => delivered' \cap Selects # {}
        /\ Act[task.msg] = "confirm" => delivered' \cap Inits # {}
    BY <1>1, <1>3, <1>4 DEF RequestsInProgress
  <2> HIDE DEF task
  <2> QED
    BY <1>1, <1>2, <1>4, <2>1, OtherRequestsKept
<1>6. RowIdsAreFresh'
  BY <1>1 DEF RowIdsAreFresh, rows
<1>7. ReadsAreSound'
  BY <1>1, <1>2, ReadsKept
<1>8. ProtocolOrder'
  BY <1>1, <1>3, DeliveryInOrder
<1>9. OrderWasAskedFor' /\ AckedIsDone'
  BY <1>1, <1>2, AskedKept, AckedKept DEF rows
<1> QED
  BY <1>5, <1>6, <1>7, <1>8, <1>9

LEMMA SendFailsInv ==
    ASSUME Invariant, TypeOK', NEW h \in Handler, SendFails(h)
    PROVE  Invariant'
<1> USE DEF Invariant
<1> DEFINE task == IF IsSelect(h) THEN Idle ELSE [hand[h] EXCEPT !.send = "failed"]
<1>1. /\ UNCHANGED <<reqs, acked, rows, cb>> /\ hand' = [hand EXCEPT ![h] = task]
      /\ delivered' \in {delivered, delivered \cup {hand[h].msg}}
  BY DEF SendFails
<1>2. Grows /\ SameRow
  BY <1>1 DEF Grows, SameRow, rows, TypeOK, Order
<1>3. hand[h] \in Task /\ hand[h] # Idle /\ hand[h].pc = "join"
  BY DEF SendFails, TypeOK, Idle
<1>4. task \in Task \cup {Idle}
  BY <1>3 DEF Task
<1>5. RequestsInProgress'
  <2>1. task # Idle =>
          /\ task.save = "ok" => task.msg \in reqs'
          /\ task.send # "ok"
          /\ task.msg \in Selects => "failed" \notin {task.save, task.send}
          /\ task.pc # "rfq"
          /\ task.msg \notin Selects => delivered' \cap Selects # {}
          /\ Act[task.msg] = "confirm" => delivered' \cap Inits # {}
    BY <1>1, <1>3 DEF RequestsInProgress, IsSelect, Task
  <2> HIDE DEF task
  <2> QED
    BY <1>1, <1>2, <1>4, <2>1, OtherRequestsKept
<1>6. RowIdsAreFresh'
  BY <1>1 DEF RowIdsAreFresh, rows
<1>7. ReadsAreSound'
  BY <1>1, <1>2, ReadsKept
<1>8. ProtocolOrder'
  BY <1>1, <1>3, DeliveryInOrder
<1>9. OrderWasAskedFor' /\ AckedIsDone'
  BY <1>1, <1>2, AskedKept, AckedKept DEF rows
<1> QED
  BY <1>5, <1>6, <1>7, <1>8, <1>9

LEMMA JoinInv ==
    ASSUME Invariant, TypeOK', NEW h \in Handler, Join(h)
    PROVE  Invariant'
<1> USE DEF Invariant
<1>1. UNCHANGED <<reqs, delivered, rows, cb>>
  BY DEF Join
<1>2. Grows /\ SameRow
  BY <1>1 DEF Grows, SameRow, rows, TypeOK, Order
<1>3. hand[h] \in Task /\ hand[h] # Idle /\ hand[h].pc = "join" /\ hand[h].save # "todo"
                       /\ hand[h].send # "todo"
  BY DEF Join, TypeOK, Idle
<1>4. IsSelect(h) => hand[h].save = "ok" /\ hand[h].send = "ok"
  BY <1>3 DEF IsSelect, RequestsInProgress, Task
<1>5. CASE IsSelect(h) /\ Rfq[hand[h].msg]
  <2> DEFINE task == [hand[h] EXCEPT !.pc = "rfq"]
  <2>1. hand' = [hand EXCEPT ![h] = task] /\ acked' = acked
    BY <1>5 DEF Join
  <2>2. task \in Task /\ task.msg = hand[h].msg /\ task.save = "ok" /\ task.send = "ok"
    BY <1>3, <1>4, <1>5 DEF Task
  <2>3. task.msg \in reqs /\ task.msg \in delivered /\ task.msg \in Selects /\ Rfq[task.msg]
    BY <1>3, <1>4, <1>5, <2>2 DEF RequestsInProgress, IsSelect
  <2>4. Act[task.msg] # "confirm"
    BY <2>3 DEF Selects
  <2>5. RequestsInProgress'
    <3> HIDE DEF task
    <3> QED
      BY <1>1, <1>2, <2>1, <2>2, <2>3, <2>4, OtherRequestsKept
  <2> QED
    BY <1>1, <1>2, <2>1, <2>5, ReadsKept, ProtocolKept, AskedKept, AckedKept
       DEF RowIdsAreFresh, rows
<1>6. CASE ~(IsSelect(h) /\ Rfq[hand[h].msg])
  <2>1. /\ hand' = [hand EXCEPT ![h] = Idle]
        /\ acked' = IF hand[h].send = "ok" THEN acked \cup {hand[h].msg} ELSE acked
    BY <1>6 DEF Join, HandlerDone
  <2>2. RequestsInProgress'
    BY <1>1, <1>2, <2>1, OtherRequestsKept
  <2>3. AckedIsDone'
    <3>1. hand[h].send = "ok" => hand[h].msg \in delivered
      BY <1>3 DEF RequestsInProgress
    <3>2. hand[h].msg \in Selects => hand[h].msg \in reqs /\ ~Rfq[hand[h].msg]
      BY <1>3, <1>4, <1>6 DEF RequestsInProgress, IsSelect
    <3> QED
      BY <1>1, <2>1, <3>1, <3>2 DEF AckedIsDone, rows, Selects
  <2> QED
    BY <1>1, <1>2, <2>1, <2>2, <2>3, ReadsKept, ProtocolKept, AskedKept
       DEF RowIdsAreFresh, rows
<1> QED
  BY <1>5, <1>6

\* An insert leaves a fresh row.
LEMMA NewOrderIsFresh ==
    ASSUME TypeOK, RowIdsAreFresh, UNCHANGED <<reqs, delivered>>,
           NEW type \in OrderType, NEW status \in CommerceStatusType, NEW pays \in BOOLEAN,
           NewOrder(type, status, pays)
    PROVE  /\ Grows
           /\ FreshRow
           /\ RowIdsAreFresh'
           /\ order'.type = type /\ order'.status = status /\ order'.billed = FALSE
<1>1. order # None => order.id \in Nat
  BY DEF TypeOK, Order
<1>2. nextId \in Nat
  BY DEF TypeOK
<1>3. order' # None
  BY NewOrderType
<1>4. /\ order'.id = nextId /\ nextId' = nextId + 1
      /\ order'.type = type /\ order'.status = status /\ order'.billed = FALSE
  BY DEF NewOrder
<1> QED
  BY <1>1, <1>2, <1>3, <1>4 DEF Grows, FreshRow, RowIdsAreFresh

LEMMA RfqCommitInv ==
    ASSUME Invariant, TypeOK', NEW h \in Handler, RfqCommit(h)
    PROVE  Invariant'
<1> USE DEF Invariant
<1>1. /\ UNCHANGED <<reqs, delivered>> /\ hand' = [hand EXCEPT ![h] = Idle]
      /\ acked' \in {acked, acked \cup {hand[h].msg}}
      /\ \E M \in SUBSET Storing : cb' = Miss(M)
  BY DEF RfqCommit, HandlerDone
<1>2. PICK pays \in BOOLEAN : NewOrder("purchase", "QuoteRequested", pays)
  BY DEF RfqCommit
<1>3. /\ Grows /\ FreshRow /\ RowIdsAreFresh'
      /\ order'.type = "purchase" /\ order'.status = "QuoteRequested" /\ order'.billed = FALSE
  BY <1>1, <1>2, NewOrderIsFresh DEF OrderType, CommerceStatusType
<1>4. /\ hand[h].msg \in reqs /\ hand[h].msg \in delivered /\ hand[h].msg \in Selects
      /\ Rfq[hand[h].msg]
  BY DEF RfqCommit, RequestsInProgress, Idle
<1>5. RequestsInProgress'
  BY <1>1, <1>3, OtherRequestsKept
<1>6. ReadsAreSound'
  BY <1>1, <1>3, MissType, ReadsKept
<1>7. OrderWasAskedFor'
  BY <1>1, <1>3, <1>4 DEF OrderWasAskedFor, Selects
<1>8. AckedIsDone'
  BY <1>1, <1>3, <1>4 DEF AckedIsDone, Grows, FreshRow, Selects
<1>9. ProtocolOrder'
  BY <1>1, ProtocolKept
<1> QED
  BY <1>3, <1>5, <1>6, <1>7, <1>8, <1>9

LEMMA RfqAbortsInv ==
    ASSUME Invariant, TypeOK', NEW h \in Handler, RfqAborts(h)
    PROVE  Invariant'
<1> USE DEF Invariant
<1>1. UNCHANGED <<reqs, delivered, acked, rows, cb>> /\ hand' = [hand EXCEPT ![h] = Idle]
  BY DEF RfqAborts, HandlerDone
<1>2. Grows /\ SameRow
  BY <1>1 DEF Grows, SameRow, rows, TypeOK, Order
<1>3. RequestsInProgress'
  BY <1>1, <1>2, OtherRequestsKept
<1> QED
  BY <1>1, <1>2, <1>3, ReadsKept, ProtocolKept, AskedKept, AckedKept DEF RowIdsAreFresh, rows

----------------------------------------------------------------------------
(* The steps of the seller's callbacks.                                     *)

LEMMA ReceiveInv ==
    ASSUME Invariant, TypeOK', NEW c \in Callback, NEW reply \in Reply, Receive(c, reply)
    PROVE  Invariant'
<1> USE DEF Invariant
<1> DEFINE read == [reply |-> reply,
                    snap |-> IF reply.act \in {"select", "init"} THEN None
                             ELSE [id |-> order.id, type |-> order.type],
                    missed |-> FALSE]
<1>1. UNCHANGED <<reqs, delivered, acked, rows, hand>> /\ cb' = [cb EXCEPT ![c] = read]
  BY DEF Receive
<1>2. Grows /\ SameRow
  BY <1>1 DEF Grows, SameRow, rows, TypeOK, Order
<1>3. reply.act \notin OnItsOwn => reply.msg \in reqs \cap delivered /\ Act[reply.msg] = reply.act
  BY DEF Receive, MaySend, InSequence
<1>4. reply.act # "select" => order # None /\ order \in Order
  BY DEF Receive, InSequence, TypeOK
<1>5. reply.act \notin {"select", "init"} => [id |-> order.id, type |-> order.type] \in Snapshot
  BY <1>4 DEF Order, Snapshot
<1>6. ReadsAreSound'
  <2>1. cb'[c] = read /\ \A d \in Callback \ {c} : cb'[d] = cb[d]
    BY <1>1 DEF TypeOK
  <2>2. order # None => order.id <= order.id
    BY DEF TypeOK, Order
  <2>3. reply.act \notin {"select", "init"} =>
           read.snap # None /\ read.snap.id = order.id /\ read.snap.type = order.type
    BY <1>5
  <2> SUFFICES ASSUME NEW d \in Callback, cb'[d] # None
               PROVE  LET r == cb'[d].reply
                          snap == cb'[d].snap
                      IN  /\ r.act \notin OnItsOwn =>
                               r.msg \in reqs \cap delivered /\ Act[r.msg] = r.act
                          /\ r.act # "select" => order # None
                          /\ r.act \notin {"select", "init"} =>
                               /\ snap # None
                               /\ snap.id <= order.id
                               /\ snap.id = order.id => snap.type = order.type
    BY <1>1 DEF ReadsAreSound, rows
  <2>4. CASE d = c
    BY <1>3, <1>4, <2>1, <2>2, <2>3, <2>4
  <2>5. CASE d # c
    BY <2>1, <2>5 DEF ReadsAreSound
  <2> QED
    BY <2>4, <2>5
<1> QED
  BY <1>1, <1>2, <1>6, RequestsKept, ProtocolKept, AskedKept, AckedKept DEF RowIdsAreFresh, rows

LEMMA RejectSelectInv ==
    ASSUME Invariant, TypeOK', NEW c \in Callback, RejectSelect(c)
    PROVE  Invariant'
<1> USE DEF Invariant
<1>1. UNCHANGED <<reqs, delivered, acked, rows, hand>> /\ cb' = [cb EXCEPT ![c] = None]
  BY DEF RejectSelect, CallbackDone
<1>2. \A d \in Callback : cb'[d] \in {cb[d], None}
  BY <1>1 DEF TypeOK
<1>3. Grows /\ SameRow
  BY <1>1 DEF Grows, SameRow, rows, TypeOK, Order
<1> QED
  BY <1>1, <1>2, <1>3, RequestsKept, ReadsKept, ProtocolKept, AskedKept, AckedKept
     DEF RowIdsAreFresh, rows

\* An on_select answers a select that was saved and sent.
LEMMA SelectWasAskedFor ==
    ASSUME Invariant, NEW c \in Callback, Open(c, "select")
    PROVE  cb[c].reply \in Reply /\ cb[c].reply.msg \in reqs \cap delivered \cap Selects
<1>1. cb[c] # None /\ cb[c].reply \in Reply /\ cb[c].reply.act = "select"
  BY DEF Invariant, Open, TypeOK, Read
<1> QED
  BY <1>1 DEF Invariant, ReadsAreSound, OnItsOwn, Selects, TypeOK

LEMMA CommitSelectInv ==
    ASSUME Invariant, TypeOK', NEW c \in Callback, CommitSelect(c)
    PROVE  Invariant'
<1> USE DEF Invariant
<1> DEFINE msg == cb[c].reply.msg
<1>1. UNCHANGED <<reqs, delivered, acked, hand>>
  BY DEF CommitSelect
<1>2. \A d \in Callback : cb'[d] # None =>
         cb[d] # None /\ cb'[d].reply = cb[d].reply /\ cb'[d].snap = cb[d].snap
  <2>1. PICK M \in SUBSET (Storing \ {c}) : cb' = [Miss(M) EXCEPT ![c] = None]
    BY DEF CommitSelect
  <2> QED
    BY <2>1, MissType
<1>3. cb[c].reply \in Reply /\ msg \in reqs \cap delivered \cap Selects
  BY SelectWasAskedFor DEF CommitSelect, Storing
<1>4. NewOrder(TypeByTtl(msg), "QuoteAccepted", cb[c].reply.pays)
  BY DEF CommitSelect
<1>5. TypeByTtl(msg) \in OrderType /\ cb[c].reply.pays \in BOOLEAN
  BY <1>3 DEF TypeByTtl, OrderType, Reply
<1>6. /\ Grows /\ FreshRow /\ RowIdsAreFresh'
      /\ order'.type = TypeByTtl(msg) /\ order'.status = "QuoteAccepted"
      /\ order'.billed = FALSE
  <2>1. "QuoteAccepted" \in CommerceStatusType
    BY DEF CommerceStatusType
  <2>2. TypeOK /\ RowIdsAreFresh
    OBVIOUS
  <2> HIDE DEF msg
  <2> QED
    BY ONLY <1>1, <1>4, <1>5, <2>1, <2>2, NewOrderIsFresh
<1>7. OrderWasAskedFor'
  <2>1. order'.status # "QuoteRequested" /\ order'.billed # TRUE
    BY <1>6
  <2> HIDE DEF msg
  <2> QED
    BY <1>1, <1>3, <1>6, <2>1 DEF OrderWasAskedFor, Selects, TypeByTtl
<1>8. AckedIsDone'
  BY <1>1, <1>6, AckedKept
<1> QED
  BY <1>1, <1>2, <1>6, <1>7, <1>8, RequestsKept, ReadsKept, ProtocolKept

LEMMA MergeSelectInv ==
    ASSUME Invariant, TypeOK', NEW c \in Callback, MergeSelect(c)
    PROVE  Invariant'
<1> USE DEF Invariant
<1>1. UNCHANGED <<reqs, delivered, acked, nextId, hand>> /\ cb' = [cb EXCEPT ![c] = None]
  BY DEF MergeSelect, CallbackDone
<1>2. \A d \in Callback : cb'[d] \in {cb[d], None}
  BY <1>1 DEF TypeOK
<1>3. /\ order \in Order /\ order # None /\ order' # None
      /\ order'.id = order.id /\ order'.type = order.type
      /\ order'.billed = order.billed /\ order'.status = "QuoteAccepted"
  BY MergedType
<1>4. order.id \in Nat
  BY <1>3 DEF Order
<1>5. Grows /\ SameRow
  BY <1>1, <1>3, <1>4 DEF Grows, SameRow, TypeOK
<1>6. RowIdsAreFresh'
  BY <1>1, <1>3 DEF RowIdsAreFresh
<1>7. OrderWasAskedFor'
  BY <1>1, <1>3 DEF OrderWasAskedFor, MergeSelect, Selects, Inits, TypeByTtl
<1> QED
  BY <1>1, <1>2, <1>5, <1>6, <1>7, RequestsKept, ReadsKept, ProtocolKept, AckedKept

\* A change of the row in place, by a callback that is then over.
LEMMA ChangeInPlace ==
    ASSUME Invariant, TypeOK', NEW c \in Callback, order # None, order' # None,
           UNCHANGED <<reqs, delivered, acked, nextId, series, hand>>, CallbackDone(c),
           order'.id = order.id, order'.type = order.type,
           order'.status \in {"QuoteRequested", "QuoteAccepted"} => order'.status = order.status,
           order'.billed => order.billed \/ reqs \cap delivered \cap Inits # {}
    PROVE  Invariant'
<1> USE DEF Invariant
<1>1. order.id \in Nat
  BY DEF TypeOK, Order
<1>2. Grows /\ SameRow
  BY <1>1 DEF Grows, SameRow, TypeOK
<1>3. \A d \in Callback : cb'[d] \in {cb[d], None}
  BY DEF TypeOK, CallbackDone
<1>4. RowIdsAreFresh'
  BY DEF RowIdsAreFresh
<1>5. OrderWasAskedFor'
  BY DEF OrderWasAskedFor, Selects, Inits, TypeByTtl
<1> QED
  BY <1>2, <1>3, <1>4, <1>5, RequestsKept, ReadsKept, ProtocolKept, AckedKept

LEMMA CommitInitInv ==
    ASSUME Invariant, TypeOK', NEW c \in Callback, CommitInit(c)
    PROVE  Invariant'
<1> USE DEF Invariant
<1>1. order # None /\ order \in Order
  BY DEF CommitInit, PaymentsReplaced, TypeOK
<1>2. order' = [order EXCEPT !.status = "Initialized", !.billed = TRUE,
                             !.pays = cb[c].reply.pays]
  BY DEF CommitInit
<1>3. order' \in Order
  <2>1. cb[c].reply.pays \in BOOLEAN
    BY DEF CommitInit, Open, TypeOK, Read, Reply
  <2> QED
    BY <1>1, <1>2, <2>1 DEF Order, CommerceStatusType
<1>4. order' # None /\ order'.id = order.id /\ order'.type = order.type
                   /\ order'.status = "Initialized"
  BY <1>1, <1>2, <1>3 DEF Order
<1>5. reqs \cap delivered \cap Inits # {}
  <2>1. cb[c] # None /\ cb[c].reply.act = "init"
    BY DEF CommitInit, Open
  <2>2. cb[c].reply.msg \in reqs \cap delivered /\ Act[cb[c].reply.msg] = "init"
    BY <2>1 DEF ReadsAreSound, OnItsOwn
  <2> QED
    BY <2>2 DEF Inits, TypeOK
<1> QED
  BY <1>1, <1>4, <1>5, ChangeInPlace DEF CommitInit

LEMMA CommitReportInv ==
    ASSUME Invariant, TypeOK', NEW c \in Callback, CommitReport(c)
    PROVE  Invariant'
<1> USE DEF Invariant
<1>1. order # None /\ order \in Order
  BY DEF CommitReport, PaymentsReplaced, TypeOK
<1>2. cb[c].reply.pays \in BOOLEAN /\ cb[c].reply.state \in ONDCOrderStatus
  BY DEF CommitReport, Open, TypeOK, Read, Reply
<1>3. ReportedStatus(cb[c].reply, cb[c].snap.type) \in ONDCOrderStatus
  BY <1>2 DEF ReportedStatus, GetCommerceStatus, ONDCOrderStatus
<1>4. PICK status \in ONDCOrderStatus \cup {order.status} :
         order' = [order EXCEPT !.status = status, !.pays = cb[c].reply.pays]
  BY <1>3 DEF CommitReport
<1>5. order' \in Order
  BY <1>1, <1>2, <1>4 DEF Order, CommerceStatusType
<1>6. /\ order' # None /\ order'.id = order.id /\ order'.type = order.type
      /\ order'.billed = order.billed /\ order'.status = status
  BY <1>1, <1>4, <1>5 DEF Order
<1>7. status \in {"QuoteRequested", "QuoteAccepted"} => status = order.status
  BY DEF ONDCOrderStatus
<1> QED
  BY <1>1, <1>6, <1>7, ChangeInPlace DEF CommitReport

LEMMA CommitUpdateInv ==
    ASSUME Invariant, TypeOK', NEW c \in Callback, CommitUpdate(c)
    PROVE  Invariant'
<1> USE DEF Invariant
<1>1. order # None /\ order \in Order
  BY DEF CommitUpdate, PaymentsReplaced, TypeOK
<1>2. cb[c].reply.pays \in BOOLEAN
  BY DEF CommitUpdate, Open, TypeOK, Read, Reply
<1>3. order' = [order EXCEPT !.pays = cb[c].reply.pays]
  BY DEF CommitUpdate
<1>4. order' \in Order
  BY <1>1, <1>2, <1>3 DEF Order
<1>5. /\ order' # None /\ order'.id = order.id /\ order'.type = order.type
      /\ order'.billed = order.billed /\ order'.status = order.status
  BY <1>1, <1>3, <1>4 DEF Order
<1> QED
  BY <1>1, <1>5, ChangeInPlace DEF CommitUpdate

LEMMA CallbackFailsInv ==
    ASSUME Invariant, TypeOK', NEW c \in Callback, CallbackFails(c)
    PROVE  Invariant'
<1> USE DEF Invariant
<1>1. UNCHANGED <<reqs, delivered, acked, rows, hand>> /\ cb' = [cb EXCEPT ![c] = None]
  BY DEF CallbackFails, CallbackDone
<1>2. \A d \in Callback : cb'[d] \in {cb[d], None}
  BY <1>1 DEF TypeOK
<1>3. Grows /\ SameRow
  BY <1>1 DEF Grows, SameRow, rows, TypeOK, Order
<1> QED
  BY <1>1, <1>2, <1>3, RequestsKept, ReadsKept, ProtocolKept, AskedKept, AckedKept
     DEF RowIdsAreFresh, rows

----------------------------------------------------------------------------
(* The steps of the surroundings, and the theorems.                         *)

LEMMA OtherOrderInv ==
    ASSUME Invariant, TypeOK', OtherOrder
    PROVE  Invariant'
<1> USE DEF Invariant
<1>1. UNCHANGED <<reqs, delivered, acked, order, nextId, hand, cb>>
  BY DEF OtherOrder
<1>2. Grows /\ SameRow
  BY <1>1 DEF Grows, SameRow, TypeOK, Order
<1> QED
  BY <1>1, <1>2, RequestsKept, ReadsKept, ProtocolKept, AskedKept, AckedKept
     DEF RowIdsAreFresh

LEMMA RestartInv ==
    ASSUME Invariant, TypeOK', Restart
    PROVE  Invariant'
<1> USE DEF Invariant
<1>1. /\ UNCHANGED <<reqs, delivered, acked, rows>>
      /\ hand' = [h \in Handler |-> Idle] /\ cb' = [c \in Callback |-> None]
  BY DEF Restart
<1>2. Grows /\ SameRow
  BY <1>1 DEF Grows, SameRow, rows, TypeOK, Order
<1>3. RequestsInProgress' /\ ReadsAreSound'
  BY <1>1 DEF RequestsInProgress, ReadsAreSound
<1> QED
  BY <1>1, <1>2, <1>3, ProtocolKept, AskedKept, AckedKept DEF RowIdsAreFresh, rows

LEMMA StutterInv ==
    ASSUME Invariant, UNCHANGED vars
    PROVE  Invariant'
<1> USE DEF Invariant
<1>1. UNCHANGED <<reqs, delivered, acked, rows, hand, cb>>
  BY DEF vars, rows
<1>2. Grows /\ SameRow
  BY <1>1 DEF Grows, SameRow, rows, TypeOK, Order
<1>3. TypeOK'
  BY <1>1 DEF TypeOK, rows
<1> QED
  BY <1>1, <1>2, <1>3, RequestsKept, ReadsKept, ProtocolKept, AskedKept, AckedKept
     DEF RowIdsAreFresh, rows

LEMMA InvariantInit == Init => Invariant
BY DEF Init, Invariant, TypeOK, RowIdsAreFresh, RequestsInProgress, ReadsAreSound,
       ProtocolOrder, OrderWasAskedFor, AckedIsDone

LEMMA InvariantStep == Invariant /\ [Next]_vars => Invariant'
<1> SUFFICES ASSUME Invariant, [Next]_vars PROVE Invariant'
  OBVIOUS
<1>1. TypeOK'
  BY TypeStep DEF Invariant
<1>2. ASSUME NEW h \in Handler, Endpoint(h) PROVE Invariant'
  BY <1>1, <1>2, StartRequestInv, SaveRequestInv, SaveFailsInv, SendRequestInv, SendFailsInv,
     JoinInv, RfqCommitInv, RfqAbortsInv DEF Endpoint
<1>3. ASSUME NEW c \in Callback, SellerCallback(c) PROVE Invariant'
  BY <1>1, <1>3, ReceiveInv, RejectSelectInv, CommitSelectInv, MergeSelectInv, CommitInitInv, CommitReportInv, CommitUpdateInv,
     CallbackFailsInv DEF SellerCallback
<1> QED
  BY <1>1, <1>2, <1>3, OtherOrderInv, RestartInv, StutterInv DEF Next

\* The strengthened invariant: the protocol, the acknowledgements and the
\* requests in progress hold together in every reachable state.
THEOREM InvariantHolds == Spec => []Invariant
BY InvariantInit, InvariantStep, PTL DEF Spec

\* The seller hears of the steps of a transaction in their order.
THEOREM SellerSeesProtocolOrder == Spec => []ProtocolOrder
<1>1. Invariant => ProtocolOrder
  BY DEF Invariant
<1> QED
  BY <1>1, InvariantHolds, PTL

\* No order row without the select, and no billing terms without the init,
\* that were saved and sent for it.
THEOREM EveryOrderWasAskedFor == Spec => []OrderWasAskedFor
<1>1. Invariant => OrderWasAskedFor
  BY DEF Invariant
<1> QED
  BY <1>1, InvariantHolds, PTL

\* A success the buyer was shown is true and stays true.
THEOREM AcknowledgementsAreTrue == Spec => []AckedIsDone
<1>1. Invariant => AckedIsDone
  BY DEF Invariant
<1> QED
  BY <1>1, InvariantHolds, PTL

----------------------------------------------------------------------------
(* What a step may never do.                                                *)

\* The effect of any one step on the order row: none, a fresh row, a change in
\* place by an on_init, a report or an on_update that found payment rows, or a
\* merge by an on_select that missed the order.
Inserted ==
    /\ order' # None /\ order'.id = nextId /\ ~order'.billed
    /\ order # None => order'.urn = order.urn
    /\ order'.status \in {"QuoteRequested", "QuoteAccepted"}

ChangedInPlace ==
    /\ order # None /\ order.pays
    /\ order' # None /\ order'.id = order.id /\ order'.urn = order.urn
    /\ order'.status = order.status
         \/ order'.status \in ONDCOrderStatus \cup {"Initialized"}

Merged ==
    /\ order # None /\ order' # None /\ order'.id = order.id /\ order'.urn = order.urn
    /\ order'.status = "QuoteAccepted"
    /\ \E c \in Callback : Merges(c)

LEMMA InsertedByNewOrder ==
    ASSUME TypeOK, NEW type \in OrderType,
           NEW status \in {"QuoteRequested", "QuoteAccepted"}, NEW pays \in BOOLEAN,
           NewOrder(type, status, pays)
    PROVE  Inserted
<1>1. order' # None
  BY NewOrderType DEF CommerceStatusType
<1>2. /\ order'.id = nextId /\ order'.billed = FALSE /\ order'.status = status
      /\ order # None => order'.urn = order.urn
  BY DEF NewOrder
<1> QED
  BY <1>1, <1>2 DEF Inserted

LEMMA EffectOnOrder ==
    ASSUME TypeOK, [Next]_vars
    PROVE  order' = order \/ Inserted \/ ChangedInPlace \/ Merged
<1>1. ASSUME NEW h \in Handler, Endpoint(h), order' # order PROVE Inserted
  <2>1. PICK pays \in BOOLEAN : NewOrder("purchase", "QuoteRequested", pays)
    BY <1>1 DEF Endpoint, StartRequest, SaveRequest, SaveFails, SendRequest, SendFails, Join,
       RfqCommit, RfqAborts, rows
  <2> QED
    BY <2>1, InsertedByNewOrder DEF OrderType
<1>2. ASSUME NEW c \in Callback, CommitSelect(c) PROVE Inserted
  <2>1. cb[c].reply \in Reply
    BY <1>2 DEF CommitSelect, Storing, Open, TypeOK, Read
  <2>2. NewOrder(TypeByTtl(cb[c].reply.msg), "QuoteAccepted", cb[c].reply.pays)
    BY <1>2 DEF CommitSelect
  <2>3. TypeByTtl(cb[c].reply.msg) \in OrderType /\ cb[c].reply.pays \in BOOLEAN
    BY <2>1 DEF TypeByTtl, OrderType, Reply
  <2> QED
    BY <2>2, <2>3, InsertedByNewOrder
<1>3. ASSUME NEW c \in Callback, CommitInit(c) PROVE ChangedInPlace
  <2>1. order \in Order /\ order # None /\ order.pays /\ cb[c].reply.pays \in BOOLEAN
    BY <1>3 DEF CommitInit, Open, PaymentsReplaced, TypeOK, Read, Reply
  <2>2. order' = [order EXCEPT !.status = "Initialized", !.billed = TRUE,
                               !.pays = cb[c].reply.pays]
    BY <1>3 DEF CommitInit
  <2>3. order' \in Order
    BY <2>1, <2>2 DEF Order, CommerceStatusType
  <2> QED
    BY <2>1, <2>2, <2>3 DEF ChangedInPlace, Order
<1>4. ASSUME NEW c \in Callback, CommitReport(c) PROVE ChangedInPlace
  <2>1. order \in Order /\ order # None /\ order.pays /\ cb[c].reply \in Reply
    BY <1>4 DEF CommitReport, Open, PaymentsReplaced, TypeOK, Read
  <2>2. cb[c].reply.pays \in BOOLEAN /\ cb[c].reply.state \in ONDCOrderStatus
    BY <2>1 DEF Reply
  <2>3. ReportedStatus(cb[c].reply, cb[c].snap.type) \in ONDCOrderStatus
    BY <2>2 DEF ReportedStatus, GetCommerceStatus, ONDCOrderStatus
  <2>4. PICK status \in ONDCOrderStatus \cup {order.status} :
           order' = [order EXCEPT !.status = status, !.pays = cb[c].reply.pays]
    BY <1>4, <2>3 DEF CommitReport
  <2>5. order' \in Order
    BY <2>1, <2>2, <2>4 DEF Order, CommerceStatusType
  <2> QED
    BY <2>1, <2>4, <2>5 DEF ChangedInPlace, Order
<1>5. ASSUME NEW c \in Callback, CommitUpdate(c) PROVE ChangedInPlace
  <2>1. order \in Order /\ order # None /\ order.pays /\ cb[c].reply.pays \in BOOLEAN
    BY <1>5 DEF CommitUpdate, Open, PaymentsReplaced, TypeOK, Read, Reply
  <2>2. order' = [order EXCEPT !.pays = cb[c].reply.pays]
    BY <1>5 DEF CommitUpdate
  <2>3. order' \in Order
    BY <2>1, <2>2 DEF Order
  <2> QED
    BY <2>1, <2>2, <2>3 DEF ChangedInPlace, Order
<1>7. ASSUME NEW c \in Callback, MergeSelect(c) PROVE Merged
  <2>1. Merges(c)
    BY <1>7 DEF Merges, MergeSelect, CallbackDone, TypeOK
  <2> QED
    BY <1>7, <2>1, MergedType DEF Merged
<1>6. ASSUME NEW c \in Callback, SellerCallback(c)
      PROVE  order' = order \/ Inserted \/ ChangedInPlace \/ Merged
  BY <1>2, <1>3, <1>4, <1>5, <1>6, <1>7
     DEF SellerCallback, Receive, RejectSelect, CallbackFails, rows
<1> QED
  BY <1>1, <1>6 DEF Next, OtherOrder, Restart, vars, rows

\* The order is never lost and keeps its number, whoever re-creates it.
THEOREM UrnIsKeptAlways == Spec => UrnIsKept
<1>1. TypeOK /\ [Next]_vars => [order # None => order' # None /\ order'.urn = order.urn]_vars
  BY EffectOnOrder DEF Inserted, ChangedInPlace, Merged
<1> QED
  BY <1>1, TypeCorrect, PTL DEF Spec, UrnIsKept

\* A quote is a fresh row: no callback takes an order back to that stage but
\* an on_select that ran beside another select, in an instance where selects
\* need not have a fulfillment in common (initialize_order_on_select).
THEOREM QuotesAreFresh == Spec => QuoteStageIsLeftForGood
<1> DEFINE A == order # None /\ order' # None
                  /\ order'.status \in {"QuoteRequested", "QuoteAccepted"}
                  /\ order'.status # order.status
                => \/ order'.id > order.id /\ ~order'.billed
                   \/ order'.status = "QuoteAccepted" /\ \E c \in Callback : Merges(c)
<1>1. Invariant /\ [Next]_vars => [A]_vars
  <2> SUFFICES ASSUME Invariant, [Next]_vars, order # None PROVE A
    OBVIOUS
  <2>1. order.id \in Nat /\ nextId \in Nat /\ order.id < nextId
    BY DEF Invariant, TypeOK, RowIdsAreFresh, Order
  <2>2. order' = order \/ Inserted \/ ChangedInPlace \/ Merged
    BY EffectOnOrder DEF Invariant
  <2> QED
    BY <2>1, <2>2 DEF Inserted, ChangedInPlace, Merged, ONDCOrderStatus
<1> QED
  BY <1>1, InvariantHolds, PTL DEF Spec, QuoteStageIsLeftForGood

\* When any two selects of the transaction share a fulfillment id, the unique
\* key of the fulfillments leaves no exception: every quote is a fresh row.
THEOREM QuotesAreFreshInOneCart ==
    ASSUME OneCart
    PROVE  Spec => [][order # None /\ order' # None
                        /\ order'.status \in {"QuoteRequested", "QuoteAccepted"}
                        /\ order'.status # order.status
                      => order'.id > order.id /\ ~order'.billed]_vars
<1>1. \A c \in Callback : ~Merges(c)
  BY DEF Merges
<1>2. Invariant /\ [Next]_vars =>
        [order # None /\ order' # None
           /\ order'.status \in {"QuoteRequested", "QuoteAccepted"}
           /\ order'.status # order.status
         => order'.id > order.id /\ ~order'.billed]_vars
  <2> SUFFICES ASSUME Invariant, [Next]_vars, order # None, order' # None,
                      order'.status \in {"QuoteRequested", "QuoteAccepted"},
                      order'.status # order.status
               PROVE  order'.id > order.id /\ ~order'.billed
    OBVIOUS
  <2>1. order.id \in Nat /\ nextId \in Nat /\ order.id < nextId
    BY DEF Invariant, TypeOK, RowIdsAreFresh, Order
  <2>2. order' = order \/ Inserted \/ ChangedInPlace
    BY <1>1, EffectOnOrder DEF Invariant, Merged
  <2> QED
    BY <2>1, <2>2 DEF Inserted, ChangedInPlace, ONDCOrderStatus
<1> QED
  BY <1>2, InvariantHolds, PTL DEF Spec

\* Without payment rows only selecting again moves the order: on a fresh row,
\* or as an answer that ran beside another select.
THEOREM FrozenUntilReselected == Spec => FrozenWithoutPayments
<1> DEFINE A == order # None /\ order' # order /\ ~order.pays
                => order'.id > order.id \/ \E c \in Callback : Merges(c)
<1>1. Invariant /\ [Next]_vars => [A]_vars
  <2> SUFFICES ASSUME Invariant, [Next]_vars, order # None PROVE A
    OBVIOUS
  <2>1. order.id \in Nat /\ nextId \in Nat /\ order.id < nextId
    BY DEF Invariant, TypeOK, RowIdsAreFresh, Order
  <2>2. order' = order \/ Inserted \/ ChangedInPlace \/ Merged
    BY EffectOnOrder DEF Invariant
  <2> QED
    BY <2>1, <2>2 DEF Inserted, ChangedInPlace, Merged
<1> QED
  BY <1>1, InvariantHolds, PTL DEF Spec, FrozenWithoutPayments

----------------------------------------------------------------------------
(* OrderLifecycle implements OrderBook, and a report is judged by the row it *)
(* lands on.                                                                *)

USE MessageAssumption, NoneAssumption

book == IF order = None THEN None ELSE Entry(order)

\* The book and the tables share their vocabulary.
LEMMA SameVocabulary ==
    /\ Book!OrderType = OrderType
    /\ Book!CommerceStatusType = CommerceStatusType
    /\ Book!Reports = Reports
    /\ \A act, docs : Book!Proforma(act, docs) = Proforma(act, docs)
    /\ \A state, type, proforma :
          Book!GetCommerceStatus(state, type, proforma) = GetCommerceStatus(state, type, proforma)
BY DEF Book!OrderType, OrderType, Book!CommerceStatusType, CommerceStatusType, Book!ONDCOrderStatus,
   ONDCOrderStatus, Book!Reports, Reports, Book!Proforma, Proforma, Book!GetCommerceStatus,
   GetCommerceStatus

\* The entry of a row is an entry of the book.
LEMMA EntryType ==
    ASSUME NEW row \in Order
    PROVE  /\ Entry(row) \in Book!Entry
           /\ Entry(row) # None
           /\ Entry(row).urn = row.urn /\ Entry(row).type = row.type /\ Entry(row).status = row.status
           /\ Entry(row).billed = row.billed /\ Entry(row).pays = row.pays
BY SameVocabulary, EntryAssumption DEF Order, Entry, Book!Entry

\* What makes a step of the tables a step of the book.
LEMMA PlacedInBook ==
    ASSUME TypeOK, NEW type \in OrderType, NEW status \in CommerceStatusType,
           NEW pays \in BOOLEAN, NewOrder(type, status, pays)
    PROVE  Book!Place(type, status, pays)
<1>1. order' # None
  BY NewOrderType
<1>2. order # None => order \in Order
  BY DEF TypeOK
<1>3. Entry(order)' = [urn |-> IF order = None THEN series + 1 ELSE order.urn,
                       type |-> type, status |-> status, billed |-> FALSE, pays |-> pays]
  BY DEF NewOrder, Entry
<1>4. CASE order = None
  BY <1>1, <1>3, <1>4 DEF NewOrder, Book!Place
<1>5. CASE order # None
  <2>1. Entry(order) # None /\ Entry(order).urn = order.urn
    BY <1>2, <1>5, EntryType
  <2> QED
    BY <1>1, <1>3, <1>5, <2>1 DEF NewOrder, Book!Place
<1> QED
  BY <1>4, <1>5

\* Entries are equal when their fields are.
LEMMA SameEntry ==
    ASSUME NEW e \in Book!Entry, NEW f \in Book!Entry, e.urn = f.urn, e.type = f.type,
           e.status = f.status, e.billed = f.billed, e.pays = f.pays
    PROVE  e = f
BY DEF Book!Entry

\* A change of the row in place is a change of the entry.
LEMMA ChangedInBook ==
    ASSUME TypeOK, order # None, order.pays, NEW status \in CommerceStatusType,
           NEW billed \in BOOLEAN, NEW pays \in BOOLEAN,
           order' = [order EXCEPT !.status = status, !.billed = billed, !.pays = pays],
           UNCHANGED series
    PROVE  Book!Change(status, billed, pays)
<1>1. order \in Order
  BY DEF TypeOK
<1>2. order' \in Order /\ order' # None
  BY <1>1 DEF Order
<1>3. Entry(order) \in Book!Entry /\ Entry(order) # None
  BY <1>1, EntryType
<1>4. Entry(order)' = [Entry(order) EXCEPT !.status = status, !.billed = billed, !.pays = pays]
  <2> DEFINE e == [Entry(order) EXCEPT !.status = status, !.billed = billed, !.pays = pays]
  <2>1. /\ order'.urn = order.urn /\ order'.type = order.type
        /\ order'.status = status /\ order'.billed = billed /\ order'.pays = pays
    BY <1>1 DEF Order
  <2>2. /\ Entry(order') \in Book!Entry
        /\ Entry(order').urn = order.urn /\ Entry(order').type = order.type
        /\ Entry(order').status = status /\ Entry(order').billed = billed
        /\ Entry(order').pays = pays
    BY <1>2, <2>1, EntryType
  <2>3. e \in Book!Entry
    BY <1>3, SameVocabulary DEF Book!Entry
  <2>4. /\ e.urn = Entry(order).urn /\ e.type = Entry(order).type
        /\ e.status = status /\ e.billed = billed /\ e.pays = pays
    BY <1>3 DEF Book!Entry
  <2>5. Entry(order).urn = order.urn /\ Entry(order).type = order.type
    BY DEF Entry
  <2> HIDE DEF e
  <2>6. Entry(order') = e
    BY <2>2, <2>3, <2>4, <2>5, SameEntry
  <2> QED
    BY <2>6 DEF e
<1>5. Entry(order).pays
  BY DEF Entry
<1>6. book = Entry(order) /\ book' = Entry(order)'
  BY <1>2 DEF book
<1>7. book' = [book EXCEPT !.status = status, !.billed = billed, !.pays = pays]
  BY <1>4, <1>6
<1>8. book # None /\ book.pays
  BY <1>3, <1>5, <1>6
<1> QED
  BY <1>7, <1>8 DEF Book!Change, book

\* A merge into the row is a merge into the entry.
LEMMA MergedInBook ==
    ASSUME TypeOK, NEW c \in Callback, MergeSelect(c)
    PROVE  Book!MergeQuote
<1> DEFINE pays == cb[c].reply.pays
           e == [Entry(order) EXCEPT !.status = "QuoteAccepted", !.pays = @ \/ pays]
<1>1. /\ order \in Order /\ order # None /\ order' \in Order /\ order' # None
      /\ order'.urn = order.urn /\ order'.type = order.type
      /\ order'.billed = order.billed /\ order'.status = "QuoteAccepted"
      /\ order'.pays = (order.pays \/ pays) /\ pays \in BOOLEAN
      /\ series' = series + 1
  BY MergedType
<1>2. order.pays \in BOOLEAN
  BY <1>1 DEF Order
<1>3. Entry(order) \in Book!Entry /\ Entry(order') \in Book!Entry /\ Entry(order) # None
  BY <1>1, EntryType
<1>4. e \in Book!Entry /\ e.urn = Entry(order).urn /\ e.type = Entry(order).type
        /\ e.billed = Entry(order).billed /\ e.status = "QuoteAccepted"
        /\ e.pays = (Entry(order).pays \/ pays)
  <2>1. (Entry(order).pays \/ pays) \in BOOLEAN
    OBVIOUS
  <2>2. "QuoteAccepted" \in Book!CommerceStatusType
    BY SameVocabulary DEF CommerceStatusType
  <2> QED
    BY <1>3, <2>1, <2>2 DEF Book!Entry
<1>5. Entry(order') = e
  <2>1. /\ Entry(order').urn = e.urn /\ Entry(order').type = e.type
        /\ Entry(order').status = e.status /\ Entry(order').billed = e.billed
        /\ Entry(order').pays = e.pays
    BY <1>1, <1>4, EntryType
  <2> HIDE DEF e
  <2> QED
    BY <1>3, <1>4, <2>1, SameEntry
<1>6. book = Entry(order) /\ book' = Entry(order')
  BY <1>1 DEF book, Entry
<1>7. ~OneCart
  BY DEF MergeSelect
<1> QED
  BY <1>1, <1>3, <1>5, <1>6, <1>7 DEF Book!MergeQuote, book

LEMMA BookStep == Invariant /\ [Next]_vars => [Book!Next]_<<book, series>>
<1> SUFFICES ASSUME Invariant, [Next]_vars PROVE [Book!Next]_<<book, series>>
  OBVIOUS
<1> USE DEF Invariant
<1>1. CASE UNCHANGED rows
  BY <1>1 DEF rows, book, Entry
<1>8. ASSUME NEW c \in Callback, MergeSelect(c) PROVE Book!Next
  BY <1>8, MergedInBook DEF Book!Next
<1>2. ASSUME NEW h \in Handler, RfqCommit(h) PROVE Book!Next
  BY <1>2, PlacedInBook DEF RfqCommit, Book!Next, Book!RequestQuote, OrderType, CommerceStatusType
<1>3. ASSUME NEW c \in Callback, CommitSelect(c) PROVE Book!Next
  <2>1. cb[c].reply \in Reply
    BY <1>3 DEF CommitSelect, Storing, Open, TypeOK, Read
  <2>2. TypeByTtl(cb[c].reply.msg) \in OrderType /\ cb[c].reply.pays \in BOOLEAN
    BY <2>1 DEF TypeByTtl, OrderType, Reply
  <2>3. NewOrder(TypeByTtl(cb[c].reply.msg), "QuoteAccepted", cb[c].reply.pays)
    BY <1>3 DEF CommitSelect
  <2>4. Book!Place(TypeByTtl(cb[c].reply.msg), "QuoteAccepted", cb[c].reply.pays)
    BY <2>2, <2>3, PlacedInBook DEF CommerceStatusType
  <2> QED
    BY <2>2, <2>4, SameVocabulary DEF Book!Next, Book!AcceptQuote
<1>4. ASSUME NEW c \in Callback, CommitInit(c) PROVE Book!Next
  <2>1. order # None /\ order.pays /\ cb[c].reply.pays \in BOOLEAN
    BY <1>4 DEF CommitInit, Open, PaymentsReplaced, TypeOK, Read, Reply
  <2>2. Book!Change("Initialized", TRUE, cb[c].reply.pays)
    BY <1>4, <2>1, ChangedInBook DEF CommitInit, CommerceStatusType
  <2> QED
    BY <2>1, <2>2 DEF Book!Next, Book!Initialise
<1>5. ASSUME NEW c \in Callback, CommitReport(c) PROVE Book!Next
  <2> DEFINE r == cb[c].reply
  <2>1. /\ order # None /\ order \in Order /\ order.pays /\ r.pays \in BOOLEAN /\ r.docs \in BOOLEAN
        /\ r.act \in Reports /\ r.state \in SellerState /\ r.state \in ONDCOrderStatus
    BY <1>5 DEF CommitReport, Open, PaymentsReplaced, TypeOK, Read, Reply
  <2>2. order.billed \in BOOLEAN /\ order.type \in OrderType /\ order.status \in CommerceStatusType
    BY <2>1 DEF Order
  <2>3. /\ cb[c].snap \in Snapshot /\ cb[c].snap.type \in OrderType
        /\ cb[c].snap.id = order.id => cb[c].snap.type = order.type
    BY <1>5, <2>1 DEF CommitReport, ReadsAreSound, Reports, TypeOK, Read, Snapshot, Open
  <2>4. r.pays => cb[c].snap.id = order.id
    BY <1>5 DEF CommitReport, ForeignKey
  <2>5. PICK status \in {ReportedStatus(r, cb[c].snap.type)}
                          \cup (IF cb[c].snap.id = order.id THEN {} ELSE {order.status}) :
           order' = [order EXCEPT !.status = status, !.pays = r.pays]
    BY <1>5 DEF CommitReport
  <2>6. status \in CommerceStatusType
    BY <2>1, <2>2, <2>5, ReportedStatusType DEF ReportedStatus, GetCommerceStatus, CommerceStatusType,
       ONDCOrderStatus
  <2>7. order' = [order EXCEPT !.status = status, !.billed = order.billed, !.pays = r.pays]
    BY <2>1, <2>5 DEF Order
  <2>8. Book!Change(status, order.billed, r.pays)
    BY <1>5, <2>1, <2>2, <2>6, <2>7, ChangedInBook DEF CommitReport
  <2>9. book # None /\ book.type = order.type /\ book.status = order.status
          /\ book.billed = order.billed /\ book.pays = order.pays
    BY <2>1, EntryType DEF book
  <2>10. Book!Report(r.state, Proforma(r.act, r.docs), r.pays)
    BY <2>1, <2>2, <2>3, <2>4, <2>5, <2>8, <2>9, SameVocabulary DEF Book!Report, ReportedStatus, book
  <2>11. Proforma(r.act, r.docs) \in {"none", "absent", "present"}
    BY DEF Proforma
  <2> QED
    BY <2>1, <2>10, <2>11 DEF Book!Next, book
<1>6. ASSUME NEW c \in Callback, CommitUpdate(c) PROVE Book!Next
  <2>1. order # None /\ order \in Order /\ order.pays /\ cb[c].reply.pays \in BOOLEAN
    BY <1>6 DEF CommitUpdate, Open, PaymentsReplaced, TypeOK, Read, Reply
  <2>2. order.billed \in BOOLEAN /\ order.status \in CommerceStatusType
    BY <2>1 DEF Order
  <2>3. order' = [order EXCEPT !.status = order.status, !.billed = order.billed,
                               !.pays = cb[c].reply.pays]
    BY <1>6, <2>1 DEF CommitUpdate, Order
  <2>4. Book!Change(order.status, order.billed, cb[c].reply.pays)
    BY <1>6, <2>1, <2>2, <2>3, ChangedInBook DEF CommitUpdate
  <2>5. book # None /\ book.status = order.status /\ book.billed = order.billed
    BY <2>1, EntryType DEF book
  <2> QED
    BY <2>1, <2>4, <2>5 DEF Book!Next, Book!ReplacePayments, book
<1>7. CASE OtherOrder
  BY <1>7 DEF OtherOrder, Book!Next, Book!OtherOrder, Entry
<1> QED
  BY <1>1, <1>2, <1>3, <1>4, <1>5, <1>6, <1>7, <1>8 DEF Next, Endpoint, SellerCallback,
     StartRequest, SaveRequest, SaveFails, SendRequest, SendFails, Join, RfqAborts, Receive,
     RejectSelect, CallbackFails, Restart, vars, rows

\* A callback that missed the order is still in progress.
LEMMA MissKeepsOpen ==
    ASSUME TypeOK, NEW M \in SUBSET Storing, NEW c \in Callback, cb[c] # None
    PROVE  Miss(M)[c] # None
<1>1. cb[c] \in Read
  BY DEF TypeOK
<1>2. [cb[c] EXCEPT !.missed = TRUE] \in Read
  BY <1>1 DEF Read
<1> QED
  BY <1>2 DEF Miss

LEMMA ReportStep ==
    ASSUME Invariant, [Next]_vars, NEW c \in Callback, Lands(c), cb[c].reply.act \in Reports,
           cb[c].reply.pays
    PROVE  order'.status = ReportedStatus(cb[c].reply, order.type)
<1> USE DEF Invariant
<1>1. cb[c] # None /\ cb'[c] = None /\ order' # order
  BY DEF Lands
<1>2. ASSUME NEW h \in Handler, Endpoint(h) PROVE FALSE
  <2>1. CASE RfqCommit(h)
    <3>1. PICK M \in SUBSET Storing : cb' = Miss(M)
      BY <2>1 DEF RfqCommit
    <3> QED
      BY <1>1, <3>1, MissKeepsOpen
  <2> QED
    BY <1>1, <1>2, <2>1 DEF Endpoint, StartRequest, SaveRequest, SaveFails, SendRequest, SendFails,
       Join, RfqAborts, rows
<1>3. ASSUME NEW d \in Callback, SellerCallback(d), d # c PROVE FALSE
  <2>1. CASE CommitSelect(d)
    <3>1. PICK M \in SUBSET (Storing \ {d}) : cb' = [Miss(M) EXCEPT ![d] = None]
      BY <2>1 DEF CommitSelect
    <3>2. cb'[c] = Miss(M)[c]
      BY <1>3, <3>1 DEF Miss
    <3> QED
      BY <1>1, <3>2, MissKeepsOpen
  <2> QED
    BY <1>1, <1>3, <2>1 DEF SellerCallback, Receive, RejectSelect, MergeSelect, CommitInit,
       CommitReport, CommitUpdate, CallbackFails, CallbackDone, TypeOK, rows
<1>4. CASE SellerCallback(c)
  <2>1. CommitReport(c)
    BY <1>1, <1>4 DEF SellerCallback, Receive, RejectSelect, CommitSelect, MergeSelect, Storing,
       CommitInit, CommitUpdate, CallbackFails, Open, Reports, rows
  <2>2. order \in Order /\ cb[c].snap.id = order.id
    BY <2>1 DEF CommitReport, PaymentsReplaced, ForeignKey, TypeOK
  <2>3. cb[c].snap.type = order.type
    BY <1>1, <2>2 DEF ReadsAreSound, Reports
  <2> QED
    BY <2>1, <2>2, <2>3 DEF CommitReport, Order
<1> QED
  BY <1>1, <1>2, <1>3, <1>4 DEF Next, OtherOrder, Restart, vars, rows

\* A report that carries payments and takes effect is judged by the record
\* type of the row it changes (get_commerce_status), in every instance.
THEOREM ReportsJudgedAlways == Spec => ReportsJudgedByTheirRow
<1>1. Invariant /\ [Next]_vars =>
        [\A c \in Callback :
            Lands(c) /\ cb[c].reply.act \in Reports /\ cb[c].reply.pays
            => order'.status = ReportedStatus(cb[c].reply, order.type)]_vars
  BY ReportStep
<1> QED
  BY <1>1, InvariantHolds, PTL DEF Spec, ReportsJudgedByTheirRow

\* Every behaviour of the tables is one of the book.
THEOREM ImplementsBook == Spec => ImplementsOrderBook
<1>1. Init => Book!Init
  BY DEF Init, Book!Init
<1> QED
  BY <1>1, BookStep, InvariantHolds, PTL DEF Spec, ImplementsOrderBook, Book!Spec, book

=============================================================================
