---------------------------- MODULE SelectTxProofs ----------------------------
(* Proofs about SelectTx: numbers are unique, kept and without gaps, orders   *)
(* are not mixed, transactions do not wait for each other in a circle, and    *)
(* they implement OrderNumbers.                                               *)
EXTENDS SelectTx, TLAPS

USE BasketAssumption, NoneAssumption

\* The three things a commit can do to the order and to the series.
Stores(t, urn, fids) == row' = [row EXCEPT ![tx[t].order] = [urn |-> urn, fids |-> fids]]
Counts(t) == seriesNo' = [seriesNo EXCEPT ![tx[t].key] = @ + 1]

CommitsFirst(t) ==
    /\ row[tx[t].order] = None
    /\ tx[t].urn = [key |-> tx[t].key, no |-> seriesNo[tx[t].key] + 1]
    /\ Stores(t, tx[t].urn, tx[t].fids) /\ Counts(t)

CommitsAgain(t) ==
    /\ row[tx[t].order] # None
    /\ Stores(t, row[tx[t].order].urn, tx[t].fids) /\ UNCHANGED seriesNo

CommitsMerge(t) ==
    /\ tx[t].merge
    /\ row[tx[t].order] # None
    /\ tx[t].fids \cap row[tx[t].order].fids = {}
    /\ Stores(t, row[tx[t].order].urn, row[tx[t].order].fids \cup tx[t].fids) /\ Counts(t)

LEMMA CommitCases ==
    ASSUME Invariant, NEW t \in Tx, Commit(t)
    PROVE  /\ tx[t] \in Work /\ rowLock[tx[t].order] = t
           /\ CommitsFirst(t) \/ CommitsAgain(t) \/ CommitsMerge(t)
<1> DEFINE w == tx[t]
           o == w.order
<1>1. w \in Work /\ w.pc = "commit" /\ o \in Order /\ w.key \in Key /\ w.merge \in BOOLEAN
  BY DEF Commit, At, Invariant, TypeOK, Work
<1>2. rowLock[o] = t
  BY <1>1 DEF Invariant, WorkIsSound, Sound, Taken, Kept
<1>3. CASE w.merge
  <2>1. row[o] # None /\ seriesLock[w.key] = t /\ w.fids \cap row[o].fids = {}
    BY <1>1, <1>3 DEF Invariant, WorkIsSound, Sound, Taken, Kept
  <2>4. Stores(t, row[o].urn, row[o].fids \cup w.fids)
    BY <1>3 DEF Commit, Stores, Stored
  <2>5. Counts(t)
    BY <2>1 DEF Commit, Counts
  <2> QED
    BY <1>1, <1>2, <1>3, <2>1, <2>4, <2>5 DEF CommitsMerge
<1>4. CASE ~w.merge /\ seriesLock[w.key] = t
  <2>1. row[o] = None
    BY <1>1, <1>4 DEF Invariant, WorkIsSound, Sound, Taken, Kept
  <2>2. w.urn = [key |-> w.key, no |-> seriesNo[w.key] + 1]
    BY <1>1, <1>4 DEF Invariant, LocksAreHeldAtWork
  <2>3. Stores(t, w.urn, w.fids) /\ Counts(t)
    BY <1>4 DEF Commit, Stores, Stored, Counts
  <2> QED
    BY <1>1, <1>2, <2>1, <2>2, <2>3 DEF CommitsFirst
<1>5. CASE ~w.merge /\ seriesLock[w.key] # t
  <2>1. row[o] # None /\ row[o].urn = w.urn
    BY <1>1, <1>5 DEF Invariant, WorkIsSound, Sound, Taken, Kept
  <2>2. Stores(t, row[o].urn, w.fids) /\ UNCHANGED seriesNo
    BY <1>5, <2>1 DEF Commit, Stores, Stored
  <2> QED
    BY <1>1, <1>2, <2>1, <2>2 DEF CommitsAgain
<1> QED
  BY <1>1, <1>3, <1>4, <1>5

\* A commit on the tables and the other transactions.
LEMMA CommitEffect ==
    ASSUME Invariant, NEW t \in Tx, Commit(t)
    PROVE  /\ row' \in [Order -> Row \cup {None}]
           /\ seriesNo' \in [Key -> Nat]
           /\ \A p \in Order : p # tx[t].order => row'[p] = row[p]
           /\ row'[tx[t].order] \in Row
           /\ row[tx[t].order] # None => row'[tx[t].order].urn = row[tx[t].order].urn
           /\ \A k \in Key : seriesNo'[k] >= seriesNo[k]
<1> DEFINE w == tx[t]
           o == w.order
<1>1. w \in Work /\ o \in Order /\ w.key \in Key /\ w.fids \in Fids
  BY CommitCases DEF Work, Fids
<1>2. row \in [Order -> Row \cup {None}] /\ seriesNo \in [Key -> Nat]
  BY DEF Invariant, TypeOK
<1>3. CASE CommitsFirst(t)
  <2>1. [urn |-> w.urn, fids |-> w.fids] \in Row
    BY <1>1, <1>2, <1>3 DEF CommitsFirst, Row, Urn
  <2> QED
    BY <1>1, <1>2, <1>3, <2>1 DEF CommitsFirst, Stores, Counts
<1>4. CASE CommitsAgain(t)
  <2>1. row[o] \in Row
    BY <1>1, <1>2, <1>4 DEF CommitsAgain
  <2>2. [urn |-> row[o].urn, fids |-> w.fids] \in Row
    BY <1>1, <2>1 DEF Row
  <2> QED
    BY <1>1, <1>2, <1>4, <2>2 DEF CommitsAgain, Stores
<1>5. CASE CommitsMerge(t)
  <2>1. row[o] \in Row
    BY <1>1, <1>2, <1>5 DEF CommitsMerge
  <2>2. [urn |-> row[o].urn, fids |-> row[o].fids \cup w.fids] \in Row
    BY <1>1, <2>1 DEF Row, Fids
  <2> QED
    <3>1. row' \in [Order -> Row \cup {None}] /\ row'[o] \in Row /\ row'[o].urn = row[o].urn
          /\ \A p \in Order : p # o => row'[p] = row[p]
      BY <1>1, <1>2, <1>5, <2>2 DEF CommitsMerge, Stores
    <3>2. seriesNo' \in [Key -> Nat] /\ \A k \in Key : seriesNo'[k] >= seriesNo[k]
      BY <1>1, <1>2, <1>5 DEF CommitsMerge, Counts
    <3> QED
      BY <3>1, <3>2
<1> QED
  BY <1>3, <1>4, <1>5, CommitCases

LEMMA CommitTx ==
    ASSUME Invariant, NEW t \in Tx, Commit(t)
    PROVE  /\ tx' \in [Tx -> Work \cup {None}]
           /\ tx'[t] = None
           /\ \A u \in Tx : u # t /\ tx'[u] # tx[u] =>
                /\ tx[u] # None /\ tx[u].pc = "blocked" /\ tx'[u] = [tx[u] EXCEPT !.pc = "series"]
                /\ tx[u].order = tx[t].order
<1>1. tx \in [Tx -> Work \cup {None}]
  BY DEF Invariant, TypeOK
<1> DEFINE next(u) == IF u = t THEN None
                 ELSE IF At(u, "blocked") /\ tx[u].order = tx[t].order /\ ~tx[t].merge
                      THEN [tx[u] EXCEPT !.pc = "series"]
                      ELSE tx[u]
<1>2. tx' = [u \in Tx |-> next(u)]
  BY DEF Commit
<1>3. \A u \in Tx : next(u) \in Work \cup {None}
  BY <1>1 DEF At, Work, Pc
<1> QED
  BY <1>2, <1>3 DEF At

LEMMA CommitInv ==
    ASSUME Invariant, NEW t \in Tx, Commit(t)
    PROVE  Invariant'
<1> DEFINE w == tx[t]
           o == w.order
<1>1. w \in Work /\ o \in Order /\ w.key \in Key /\ rowLock[o] = t /\ t # None
  BY CommitCases DEF Work
<1>2. TypeOK'
  BY CommitEffect, CommitTx DEF Invariant, TypeOK, Commit, Unlock
<1>3. LocksAreHeldAtWork'
  <2>1. ASSUME NEW k \in Key, NEW u \in Tx, seriesLock'[k] = u
        PROVE  /\ tx'[u] # None /\ tx'[u].pc \in {"insert", "commit"} /\ tx'[u].key = k
               /\ tx'[u].urn = [key |-> k, no |-> seriesNo'[k] + 1]
    <3>1. seriesLock[k] = u /\ u # t
      BY <1>1, <2>1 DEF Commit, Unlock, Invariant, TypeOK
    <3>2. /\ tx[u] # None /\ tx[u].pc \in {"insert", "commit"} /\ tx[u].key = k
          /\ tx[u].urn = [key |-> k, no |-> seriesNo[k] + 1]
      BY <3>1 DEF Invariant, LocksAreHeldAtWork
    <3>3. tx'[u] = tx[u]
      BY <3>1, <3>2, CommitTx
    <3>4. seriesNo'[k] = seriesNo[k]
      BY <3>1 DEF Commit, Invariant, TypeOK
    <3> QED
      BY <3>2, <3>3, <3>4
  <2>2. ASSUME NEW p \in Order, NEW u \in Tx, rowLock'[p] = u
        PROVE  tx'[u] # None /\ tx'[u].pc \in {"insert", "commit"} /\ tx'[u].order = p
    <3>1. rowLock[p] = u /\ u # t
      BY <1>1, <2>2 DEF Commit, Unlock, Invariant, TypeOK
    <3>2. tx[u] # None /\ tx[u].pc \in {"insert", "commit"} /\ tx[u].order = p
      BY <3>1 DEF Invariant, LocksAreHeldAtWork
    <3> QED
      BY <3>1, <3>2, CommitTx
  <2> QED
    BY <2>1, <2>2 DEF LocksAreHeldAtWork
<1>4. WorkIsSound'
  <2> SUFFICES ASSUME NEW u \in Tx, tx'[u] # None
               PROVE  Sound(u)'
    BY DEF WorkIsSound
  <2>1. u # t /\ tx[u] # None /\ Sound(u)
    BY CommitTx DEF Invariant, WorkIsSound
  <2>2. tx[u] \in Work /\ tx'[u] \in Work
    BY <2>1, CommitTx DEF Invariant, TypeOK
  <2>3. seriesLock'[tx[u].key] = u <=> seriesLock[tx[u].key] = u
    BY <1>1, <2>1, <2>2 DEF Commit, Unlock, Invariant, TypeOK, Work
  <2>4. rowLock'[tx[u].order] = u <=> rowLock[tx[u].order] = u
    BY <1>1, <2>1, <2>2 DEF Commit, Unlock, Invariant, TypeOK, Work
  <2>5. CASE tx'[u] # tx[u]
    <3>1. tx[u].pc = "blocked" /\ tx'[u] = [tx[u] EXCEPT !.pc = "series"]
      BY <2>1, <2>5, CommitTx
    <3>2. ~tx[u].merge
      BY <2>1, <3>1 DEF Sound
    <3>3. tx'[u].pc = "series" /\ tx'[u].merge = tx[u].merge
      BY <2>2, <3>1 DEF Work
    <3> QED
      BY <3>2, <3>3 DEF Sound
  <2>6. CASE tx'[u] = tx[u] /\ tx[u].pc = "blocked"
    <3>1. row[tx[u].order] # None
      BY <2>1, <2>6 DEF Sound
    <3>2. row'[tx[u].order] # None
      BY <1>1, <2>2, <3>1, CommitEffect DEF Work
    <3> QED
      BY <2>1, <2>6, <3>2 DEF Sound
  <2>7. CASE tx'[u] = tx[u] /\ tx[u].pc \in {"insert", "commit"}
    <3>1. rowLock[tx[u].order] = u => row'[tx[u].order] = row[tx[u].order]
      BY <1>1, <2>1, <2>2, CommitEffect DEF Work
    <3> QED
      BY <2>1, <2>2, <2>3, <2>4, <2>7, <3>1 DEF Sound, Taken, Kept
  <2>8. CASE tx'[u] = tx[u] /\ tx[u].pc \in {"delete", "series"}
    BY <2>1, <2>8 DEF Sound
  <2> QED
    BY <2>2, <2>5, <2>6, <2>7, <2>8 DEF Work, Pc
<1>5. NumbersAreCounted'
  <2> SUFFICES ASSUME NEW p \in Order, row'[p] # None
               PROVE  row'[p].urn.no \in 1..seriesNo'[row'[p].urn.key]
    BY DEF NumbersAreCounted
  <2>1. CASE row[p] # None
    <3>1. row[p] \in Row /\ row[p].urn.key \in Key /\ row[p].urn.no \in 1..seriesNo[row[p].urn.key]
      BY <2>1 DEF Invariant, TypeOK, NumbersAreCounted, Row, Urn
    <3>2. row'[p].urn = row[p].urn
      BY <2>1, CommitEffect
    <3>3. seriesNo'[row[p].urn.key] >= seriesNo[row[p].urn.key]
      BY <3>1, CommitEffect
    <3> QED
      BY <3>1, <3>2, <3>3, CommitEffect DEF Invariant, TypeOK
  <2>2. CASE row[p] = None
    <3>1. p = o /\ CommitsFirst(t)
      BY <2>2, CommitEffect, CommitCases DEF CommitsAgain, CommitsMerge
    <3>2. row'[o].urn = [key |-> w.key, no |-> seriesNo[w.key] + 1]
      BY <1>1, <3>1 DEF CommitsFirst, Stores, Invariant, TypeOK
    <3>3. seriesNo'[w.key] = seriesNo[w.key] + 1 /\ seriesNo[w.key] \in Nat
      BY <1>1, <3>1 DEF CommitsFirst, Counts, Invariant, TypeOK
    <3> QED
      BY <3>1, <3>2, <3>3
  <2> QED
    BY <2>1, <2>2
<1>6. NumbersAreUnique'
  <2>1. CASE CommitsFirst(t)
    <3>1. row'[o].urn.key = w.key /\ row'[o].urn.no = seriesNo[w.key] + 1
      BY <1>1, <2>1 DEF CommitsFirst, Stores, Invariant, TypeOK
    <3>2. \A p \in Order : p # o /\ row[p] # None => row[p].urn # row'[o].urn
      BY <1>1, <3>1 DEF Invariant, NumbersAreCounted, TypeOK
    <3> QED
      BY <1>1, <3>2, CommitEffect DEF Invariant, NumbersAreUnique
  <2>2. CASE ~CommitsFirst(t)
    <3>1. row[o] # None
      BY <2>2, CommitCases DEF CommitsAgain, CommitsMerge
    <3> QED
      BY <1>1, <3>1, CommitEffect DEF Invariant, NumbersAreUnique
  <2> QED
    BY <2>1, <2>2
<1> QED
  BY <1>2, <1>3, <1>4, <1>5, <1>6 DEF Invariant

\* A step of one transaction that stays with its locks: the others do not
\* notice, and the tables are as they were.
LEMMA MoveInv ==
    ASSUME Invariant, NEW t \in Tx, UNCHANGED <<row, seriesNo>>, TypeOK', LocksAreHeldAtWork',
           \A u \in Tx : u # t => tx'[u] = tx[u],
           \A k \in Key : seriesLock[k] \notin {t, None} => seriesLock'[k] = seriesLock[k],
           \A o \in Order : rowLock[o] \notin {t, None} => rowLock'[o] = rowLock[o],
           \A k \in Key : seriesLock'[k] \in {seriesLock[k], t, None},
           \A o \in Order : rowLock'[o] \in {rowLock[o], t, None},
           tx'[t] # None => Sound(t)'
    PROVE  Invariant'
<1>1. WorkIsSound'
  <2> SUFFICES ASSUME NEW u \in Tx, tx'[u] # None, u # t
               PROVE  Sound(u)'
    BY DEF WorkIsSound
  <2>1. tx'[u] = tx[u] /\ tx[u] \in Work /\ Sound(u) /\ u # None
    BY DEF Invariant, TypeOK, WorkIsSound
  <2>2. tx[u].key \in Key /\ tx[u].order \in Order
    BY <2>1 DEF Work
  <2>3. /\ seriesLock'[tx[u].key] = u <=> seriesLock[tx[u].key] = u
        /\ rowLock'[tx[u].order] = u <=> rowLock[tx[u].order] = u
    BY <2>1, <2>2
  <2> QED
    BY <2>1, <2>3 DEF Sound, Taken, Kept
<1>2. NumbersAreCounted' /\ NumbersAreUnique'
  BY DEF Invariant, NumbersAreCounted, NumbersAreUnique
<1> QED
  BY <1>1, <1>2 DEF Invariant

LEMMA BeginInv ==
    ASSUME Invariant, NEW t \in Tx, NEW kind \in Kind, NEW o \in Order, NEW k \in Key,
           NEW fids \in Basket, Begin(t, kind, o, k, fids)
    PROVE  Invariant'
<1>1. TypeOK'
  BY DEF Begin, Invariant, TypeOK, Work, Pc
<1>2. LocksAreHeldAtWork'
  BY DEF Begin, Invariant, TypeOK, LocksAreHeldAtWork
<1>3. tx'[t].pc = "delete" /\ ~tx'[t].merge
  BY DEF Begin, Invariant, TypeOK
<1>4. Sound(t)'
  BY <1>3 DEF Sound
<1> QED
  BY <1>1, <1>2, <1>4, MoveInv DEF Begin, Invariant, TypeOK

LEMMA RollbackInv ==
    ASSUME Invariant, NEW t \in Tx, Rollback(t)
    PROVE  Invariant'
<1>1. TypeOK'
  BY DEF Rollback, Unlock, Invariant, TypeOK
<1>2. LocksAreHeldAtWork'
  BY DEF Rollback, Unlock, Invariant, TypeOK, LocksAreHeldAtWork
<1> QED
  BY <1>1, <1>2, MoveInv DEF Rollback, Unlock, Invariant, TypeOK

\* A move to pc keeps everything else the transaction knows.
LEMMA GotoFacts ==
    ASSUME Invariant, NEW t \in Tx, tx[t] # None, NEW pc \in Pc, Goto(t, pc)
    PROVE  /\ tx' \in [Tx -> Work \cup {None}]
           /\ tx'[t] \in Work /\ tx'[t].pc = pc
           /\ tx'[t].kind = tx[t].kind /\ tx'[t].order = tx[t].order /\ tx'[t].key = tx[t].key
           /\ tx'[t].fids = tx[t].fids /\ tx'[t].urn = tx[t].urn /\ tx'[t].merge = tx[t].merge
           /\ \A u \in Tx : u # t => tx'[u] = tx[u]
<1>1. tx \in [Tx -> Work \cup {None}] /\ tx[t] \in Work
  BY DEF Invariant, TypeOK
<1>2. [tx[t] EXCEPT !.pc = pc] \in Work
  BY <1>1 DEF Work
<1>3. tx' = [tx EXCEPT ![t] = [tx[t] EXCEPT !.pc = pc]]
  BY DEF Goto
<1>4. tx'[t] = [tx[t] EXCEPT !.pc = pc]
  BY <1>1, <1>3
<1> QED
  BY <1>1, <1>2, <1>3, <1>4 DEF Work

LEMMA GotoInv ==
    ASSUME Invariant, NEW t \in Tx, tx[t] # None, NEW pc \in {"blocked", "series"}, Goto(t, pc),
           tx[t].pc \in {"delete", "blocked"}, pc = "blocked" => row[tx[t].order] # None,
           UNCHANGED <<row, seriesNo, rowLock, seriesLock>>
    PROVE  Invariant'
<1>1. pc \in Pc
  BY DEF Pc
<1>2. TypeOK'
  BY <1>1, GotoFacts DEF Invariant, TypeOK
<1>3. LocksAreHeldAtWork'
  BY <1>1, GotoFacts DEF Invariant, LocksAreHeldAtWork
<1>4. ~tx[t].merge
  BY DEF Invariant, WorkIsSound, Sound
<1>5. Sound(t)'
  BY <1>1, <1>4, GotoFacts DEF Sound
<1> QED
  BY <1>1, <1>2, <1>3, <1>5, GotoFacts, MoveInv

LEMMA DeleteRowInv ==
    ASSUME Invariant, NEW t \in Tx, tx[t] # None, tx[t].pc \in {"delete", "blocked"}, DeleteRow(t)
    PROVE  Invariant'
<1> DEFINE w == tx[t]
           o == w.order
<1>1. w \in Work /\ o \in Order /\ tx \in [Tx -> Work \cup {None}] /\ t # None
  BY DEF Invariant, TypeOK, Work
<1>2. row[o] \in Row /\ row[o].urn \in Urn
  BY <1>1 DEF DeleteRow, Invariant, TypeOK, Row
<1>3. tx' = [tx EXCEPT ![t] = [w EXCEPT !.urn = row[o].urn, !.pc = "insert"]]
  BY DEF DeleteRow
<1>4. [w EXCEPT !.urn = row[o].urn, !.pc = "insert"] \in Work
  BY <1>1, <1>2 DEF Work, Pc
<1>5. tx'[t] \in Work /\ tx'[t].pc = "insert" /\ tx'[t].urn = row[o].urn /\ tx'[t].order = o
      /\ tx'[t].key = w.key /\ tx'[t].merge = w.merge
  BY <1>1, <1>3, <1>4 DEF Work
<1>6. TypeOK'
  BY <1>1, <1>3, <1>4 DEF DeleteRow, Invariant, TypeOK
<1>7. \A k \in Key : seriesLock[k] # t
  BY DEF Invariant, LocksAreHeldAtWork
<1>8. \A p \in Order : rowLock[p] # t
  BY DEF Invariant, LocksAreHeldAtWork
<1>9. rowLock' = [rowLock EXCEPT ![o] = t] /\ UNCHANGED <<row, seriesNo, seriesLock>>
  BY DEF DeleteRow
<1>10. LocksAreHeldAtWork'
  BY <1>1, <1>3, <1>5, <1>7, <1>8, <1>9 DEF Invariant, TypeOK, LocksAreHeldAtWork
<1>11. ~w.merge
  BY DEF Invariant, WorkIsSound, Sound
<1>12. Sound(t)'
  BY <1>1, <1>2, <1>5, <1>7, <1>9, <1>11 DEF DeleteRow, Sound, Taken, Kept, Invariant, TypeOK, Work
<1> QED
  BY <1>1, <1>3, <1>6, <1>9, <1>10, <1>12, MoveInv DEF Invariant, TypeOK, DeleteRow

LEMMA DeleteOrderInv ==
    ASSUME Invariant, NEW t \in Tx, DeleteOrder(t)
    PROVE  Invariant'
BY GotoInv, DeleteRowInv DEF DeleteOrder, At

LEMMA GetSeriesNoInv ==
    ASSUME Invariant, NEW t \in Tx, GetSeriesNo(t)
    PROVE  Invariant'
<1> DEFINE w == tx[t]
           k == w.key
           urn == [key |-> k, no |-> seriesNo[k] + 1]
<1>1. w \in Work /\ k \in Key /\ tx \in [Tx -> Work \cup {None}] /\ t # None /\ seriesNo[k] \in Nat
  BY DEF GetSeriesNo, At, Invariant, TypeOK, Work
<1>2. urn \in Urn
  BY <1>1 DEF Urn
<1>3. tx' = [tx EXCEPT ![t] = [w EXCEPT !.urn = urn, !.pc = "insert"]]
  BY DEF GetSeriesNo
<1>4. [w EXCEPT !.urn = urn, !.pc = "insert"] \in Work
  BY <1>1, <1>2 DEF Work, Pc
<1>5. tx'[t] \in Work /\ tx'[t].pc = "insert" /\ tx'[t].urn = urn /\ tx'[t].order = w.order
      /\ tx'[t].key = k /\ tx'[t].merge = w.merge
  BY <1>1, <1>3, <1>4 DEF Work
<1>6. TypeOK'
  BY <1>1, <1>3, <1>4 DEF GetSeriesNo, Invariant, TypeOK
<1>7. \A j \in Key : seriesLock[j] # t
  BY DEF GetSeriesNo, At, Invariant, LocksAreHeldAtWork
<1>8. \A p \in Order : rowLock[p] # t
  BY DEF GetSeriesNo, At, Invariant, LocksAreHeldAtWork
<1>9. seriesLock' = [seriesLock EXCEPT ![k] = t] /\ UNCHANGED <<row, seriesNo, rowLock>>
  BY DEF GetSeriesNo
<1>10. LocksAreHeldAtWork'
  BY <1>1, <1>3, <1>5, <1>7, <1>8, <1>9 DEF Invariant, TypeOK, LocksAreHeldAtWork
<1>11. ~w.merge
  BY DEF GetSeriesNo, At, Invariant, WorkIsSound, Sound
<1>12. Sound(t)'
  BY <1>1, <1>5, <1>8, <1>9, <1>11 DEF Sound, Taken, Invariant, TypeOK, Work
<1> QED
  BY <1>1, <1>3, <1>6, <1>9, <1>10, <1>12, MoveInv DEF Invariant, TypeOK, GetSeriesNo

LEMMA InsertOrderInv ==
    ASSUME Invariant, NEW t \in Tx, InsertOrder(t)
    PROVE  Invariant'
<1> DEFINE w == tx[t]
           o == w.order
<1>1. w \in Work /\ o \in Order /\ w.key \in Key /\ w # None /\ w.pc = "insert" /\ t # None
  BY DEF InsertOrder, At, Invariant, TypeOK, Work
<1>2. Goto(t, "commit") /\ "commit" \in Pc /\ rowLock' = [rowLock EXCEPT ![o] = t]
      /\ UNCHANGED <<row, seriesNo, seriesLock>>
  BY DEF InsertOrder, Pc
<1>3. ~w.merge /\ (Taken(t) \/ Kept(t))
  BY <1>1 DEF Invariant, WorkIsSound, Sound
<1>4. Taken(t) => row[o] = None
  BY <1>1 DEF Invariant, WorkIsSound, Sound, InsertOrder
<1>5. TypeOK'
  BY <1>1, <1>2, GotoFacts DEF Invariant, TypeOK
<1>6. LocksAreHeldAtWork'
  BY <1>1, <1>2, GotoFacts DEF Invariant, TypeOK, LocksAreHeldAtWork
<1>7. Sound(t)'
  BY <1>1, <1>2, <1>3, <1>4, GotoFacts DEF Invariant, TypeOK, Sound, Taken, Kept
<1> QED
  BY <1>1, <1>2, <1>5, <1>6, <1>7, GotoFacts, MoveInv DEF Invariant, TypeOK, InsertOrder

LEMMA InsertMergesInv ==
    ASSUME Invariant, NEW t \in Tx, InsertMerges(t)
    PROVE  Invariant'
<1> DEFINE w == tx[t]
           o == w.order
<1>1. w \in Work /\ o \in Order /\ w.key \in Key /\ w # None /\ w.pc = "insert" /\ t # None
  BY DEF InsertMerges, Conflict, At, Invariant, TypeOK, Work
<1>2. rowLock' = [rowLock EXCEPT ![o] = t] /\ UNCHANGED <<row, seriesNo, seriesLock>>
      /\ rowLock[o] = None /\ row[o] # None /\ w.fids \cap row[o].fids = {}
  BY DEF InsertMerges, Conflict
<1>3. tx' = [tx EXCEPT ![t] = [w EXCEPT !.merge = TRUE, !.pc = "commit"]]
  BY DEF InsertMerges
<1>4. [w EXCEPT !.merge = TRUE, !.pc = "commit"] \in Work
  BY <1>1 DEF Work, Pc
<1>5. /\ tx'[t] \in Work /\ tx'[t].pc = "commit" /\ tx'[t].merge /\ tx'[t].order = o
      /\ tx'[t].key = w.key /\ tx'[t].urn = w.urn /\ tx'[t].fids = w.fids
      /\ tx' \in [Tx -> Work \cup {None}] /\ \A u \in Tx : u # t => tx'[u] = tx[u]
  BY <1>1, <1>3, <1>4 DEF Work, Invariant, TypeOK
<1>6. Taken(t)
  BY <1>1, <1>2 DEF Invariant, WorkIsSound, Sound, Kept
<1>7. TypeOK'
  BY <1>1, <1>2, <1>5 DEF Invariant, TypeOK
<1>8. LocksAreHeldAtWork'
  BY <1>1, <1>2, <1>5 DEF Invariant, TypeOK, LocksAreHeldAtWork
<1>9. Sound(t)'
  BY <1>1, <1>2, <1>5, <1>6 DEF Sound, Taken, Invariant, TypeOK
<1> QED
  BY <1>1, <1>2, <1>5, <1>7, <1>8, <1>9, MoveInv DEF Invariant, TypeOK

LEMMA InvariantInit == Init => Invariant
BY DEF Init, Invariant, TypeOK, LocksAreHeldAtWork, WorkIsSound, NumbersAreCounted,
   NumbersAreUnique

LEMMA InvariantStep == Invariant /\ [Next]_vars => Invariant'
<1> SUFFICES ASSUME Invariant, [Next]_vars PROVE Invariant'
  OBVIOUS
<1>1. ASSUME NEW t \in Tx, Step(t) PROVE Invariant'
  BY <1>1, DeleteOrderInv, DeleteRowInv, GetSeriesNoInv, InsertOrderInv, InsertMergesInv,
     RollbackInv, CommitInv DEF Step, ResumeDelete, At, InsertFails
<1>2. ASSUME NEW t \in Tx, Fail(t) PROVE Invariant'
  BY <1>2, RollbackInv DEF Fail
<1>3. CASE UNCHANGED vars
  BY <1>3 DEF vars, Invariant, TypeOK, LocksAreHeldAtWork, WorkIsSound, Sound, Taken, Kept,
     NumbersAreCounted, NumbersAreUnique
<1> QED
  BY <1>1, <1>2, <1>3, BeginInv DEF Next

\* Locks, work in progress and numbers fit together in every reachable state.
THEOREM InvariantHolds == Spec => []Invariant
BY InvariantInit, InvariantStep, PTL DEF Spec

\* Every reachable state of SelectTx is well typed.
THEOREM TypeCorrect == Spec => []TypeOK
<1>1. Invariant => TypeOK
  BY DEF Invariant
<1> QED
  BY <1>1, InvariantHolds, PTL

\* No number is given to two orders, by however many processes.
THEOREM NumbersAreUniqueAlways == Spec => []NumbersAreUnique
<1>1. Invariant => NumbersAreUnique
  BY DEF Invariant
<1> QED
  BY <1>1, InvariantHolds, PTL

\* Only a commit touches the tables.
LEMMA TablesChange ==
    ASSUME Invariant, [Next]_vars
    PROVE  UNCHANGED <<row, seriesNo>> \/ \E t \in Tx : Commit(t)
BY DEF Next, Begin, Step, DeleteOrder, ResumeDelete, DeleteRow, GetSeriesNo, InsertOrder,
   InsertMerges, InsertFails, Fail, Rollback, vars

\* An order keeps its number for good.
THEOREM NumberIsKeptAlways == Spec => NumberIsKept
<1>1. ASSUME Invariant, [Next]_vars, NEW o \in Order, row[o] # None
      PROVE  row'[o] # None /\ row'[o].urn = row[o].urn
  <2>1. CASE UNCHANGED row
    BY <1>1, <2>1
  <2>2. ASSUME NEW t \in Tx, Commit(t)
        PROVE  row'[o] # None /\ row'[o].urn = row[o].urn
    BY <1>1, <2>2, CommitEffect
  <2> QED
    BY <1>1, <2>1, <2>2, TablesChange
<1>2. Invariant /\ [Next]_vars =>
        [\A o \in Order : row[o] # None => row'[o] # None /\ row'[o].urn = row[o].urn]_vars
  BY <1>1
<1> QED
  BY <1>2, InvariantHolds, PTL DEF Spec, NumberIsKept

\* A fulfillment that is new to an order may be added to its parts.
Parts(parts, fids) ==
    /\ parts \in SUBSET Basket
    /\ fids = UNION parts
    /\ \A b, c \in parts : b # c => b \cap c = {}

LEMMA PartsGrow ==
    ASSUME NEW parts, NEW fids, Parts(parts, fids), NEW b \in Basket, b \cap fids = {}
    PROVE  Parts(parts \cup {b}, fids \cup b)
BY DEF Parts

LEMMA OnePart == ASSUME NEW b \in Basket PROVE Parts({b}, b)
BY DEF Parts

LEMMA OneBasketStep ==
    ASSUME Invariant, OneBasket, [Next]_vars
    PROVE  OneBasket'
<1>1. CASE UNCHANGED row
  BY <1>1 DEF OneBasket
<1>2. ASSUME NEW t \in Tx, Commit(t) PROVE OneBasket'
  <2> DEFINE w == tx[t]
             o == w.order
  <2>1. w \in Work /\ o \in Order /\ w.fids \in Basket
    BY <1>2, CommitCases DEF Work
  <2>2. row \in [Order -> Row \cup {None}]
    BY DEF Invariant, TypeOK
  <2>3. \E parts : Parts(parts, row'[o].fids)
    <3>1. CASE CommitsFirst(t) \/ CommitsAgain(t)
      <4>1. row'[o].fids = w.fids
        BY <2>1, <2>2, <3>1 DEF CommitsFirst, CommitsAgain, Stores
      <4> QED
        BY <2>1, <4>1, OnePart
    <3>2. CASE CommitsMerge(t)
      <4>1. row[o] # None /\ w.fids \cap row[o].fids = {}
            /\ row'[o].fids = row[o].fids \cup w.fids
        BY <2>1, <2>2, <3>2 DEF CommitsMerge, Stores
      <4>2. PICK parts : Parts(parts, row[o].fids)
        BY <2>1, <4>1 DEF OneBasket, Parts
      <4>3. Parts(parts \cup {w.fids}, row[o].fids \cup w.fids)
        BY <2>1, <4>1, <4>2, PartsGrow
      <4> QED
        BY <4>1, <4>3
    <3> QED
      BY <1>2, <3>1, <3>2, CommitCases
  <2>4. \A p \in Order : p # o => row'[p] = row[p]
    BY <1>2, CommitEffect
  <2> SUFFICES ASSUME NEW p \in Order, row'[p] # None
               PROVE  \E parts : Parts(parts, row'[p].fids)
    BY DEF OneBasket, Parts
  <2>5. CASE p = o
    BY <2>3, <2>5
  <2>6. CASE p # o
    BY <2>4, <2>6 DEF OneBasket, Parts
  <2> QED
    BY <2>5, <2>6
<1> QED
  BY <1>1, <1>2, TablesChange

\* An order is never a mixture of two selects that share a fulfillment, although
\* the answers to both may be stored at once.
THEOREM OrdersAreNotMixed == Spec => []OneBasket
<1>1. Init => OneBasket
  BY DEF Init, OneBasket
<1>2. Invariant /\ OneBasket /\ [Next]_vars => OneBasket'
  BY OneBasketStep
<1> QED
  BY <1>1, <1>2, InvariantHolds, PTL DEF Spec

\* Who holds a row never waits, and who holds a series waits for a row at most.
LEMMA NoCircle == Invariant => NoDeadlock
<1> SUFFICES ASSUME Invariant, NEW S \in SUBSET Tx, S # {}
             PROVE  \E t \in S : \A u \in S : ~WaitsFor(t, u)
  BY DEF NoDeadlock
<1>1. \A t \in Tx : tx[t] # None => tx[t] \in Work /\ tx[t].order \in Order /\ tx[t].key \in Key
  BY DEF Invariant, TypeOK, Work
<1>2. ASSUME NEW t \in Tx, NEW o \in Order, rowLock[o] = t, NEW u \in Tx
      PROVE  ~WaitsFor(t, u)
  <2>1. tx[t] # None /\ tx[t].pc \in {"insert", "commit"} /\ tx[t].order = o
    BY <1>2 DEF Invariant, LocksAreHeldAtWork
  <2> QED
    BY <1>2, <2>1 DEF WaitsFor
<1>3. ASSUME NEW t \in Tx, NEW u \in Tx, WaitsFor(t, u), tx[t].pc \in {"blocked", "insert"},
             NEW v \in Tx
      PROVE  ~WaitsFor(u, v)
  <2>1. rowLock[tx[t].order] = u /\ tx[t].order \in Order
    BY <1>1, <1>3 DEF WaitsFor
  <2> QED
    BY <1>2, <2>1
<1>4. ASSUME NEW t \in Tx, NEW u \in Tx, WaitsFor(t, u), tx[t].pc = "series",
             NEW v \in Tx, WaitsFor(u, v)
      PROVE  tx[u].pc = "insert"
  <2>1. seriesLock[tx[t].key] = u /\ tx[t].key \in Key
    BY <1>1, <1>4 DEF WaitsFor
  <2> DEFINE Held(k, x) ==
               /\ tx[x] # None /\ tx[x].pc \in {"insert", "commit"} /\ tx[x].key = k
               /\ tx[x].urn = [key |-> k, no |-> seriesNo[k] + 1]
  <2>3. \A k \in Key : \A x \in Tx : seriesLock[k] = x => Held(k, x)
    BY DEF Invariant, LocksAreHeldAtWork
  <2>4. Held(tx[t].key, u)
    <3> HIDE DEF Held
    <3> QED
      BY <2>1, <2>3
  <2>2. tx[u].pc \in {"insert", "commit"}
    BY <2>4
  <2> QED
    BY <1>4, <2>2 DEF WaitsFor
<1> SUFFICES ASSUME \A t \in S : \E u \in S : WaitsFor(t, u)
             PROVE  FALSE
  OBVIOUS
<1>5. PICK t \in S : TRUE
  OBVIOUS
<1>6. PICK u \in S : WaitsFor(t, u)
  BY <1>5
<1>7. PICK v \in S : WaitsFor(u, v)
  BY <1>6
<1>8. PICK x \in S : WaitsFor(v, x)
  BY <1>7
<1>9. tx[t].pc = "series" /\ tx[u].pc = "insert"
  BY <1>3, <1>4, <1>5, <1>6, <1>7 DEF WaitsFor
<1> QED
  BY <1>3, <1>7, <1>8, <1>9

\* No transactions wait for each other in a circle.
THEOREM NoDeadlockAlways == Spec => []NoDeadlock
BY NoCircle, InvariantHolds, PTL

\* The selects an order may be about have a line in common, two by two.
Overlapping == \A b, c \in Basket : b \cap c # {}

\* An order is what one select was about.
OneSelect == \A o \in Order : row[o] # None => row[o].fids \in Basket

\* Every number of a series belongs to an order.
NoGaps ==
    \A k \in Key : \A n \in 1..seriesNo[k] :
        \E o \in Order : row[o] # None /\ row[o].urn = [key |-> k, no |-> n]

NoMerge == \A t \in Tx : tx[t] # None => ~tx[t].merge

Unmixed == Invariant /\ NoMerge /\ OneSelect /\ NoGaps

LEMMA NoMergeStep ==
    ASSUME Overlapping, Unmixed, [Next]_vars
    PROVE  NoMerge'
<1>1. CASE UNCHANGED tx
  BY <1>1 DEF Unmixed, NoMerge
<1>2. ASSUME NEW t \in Tx, NEW kind \in Kind, NEW o \in Order, NEW k \in Key, NEW fids \in Basket,
             Begin(t, kind, o, k, fids)
      PROVE  NoMerge'
  BY <1>2 DEF Begin, NoMerge, Unmixed, Invariant, TypeOK
<1>3. ASSUME NEW t \in Tx, Rollback(t) PROVE NoMerge'
  BY <1>3 DEF Rollback, NoMerge, Unmixed, Invariant, TypeOK
<1>4. ASSUME NEW t \in Tx, tx[t] # None, NEW pc \in Pc, Goto(t, pc) PROVE NoMerge'
  BY <1>4, GotoFacts DEF NoMerge, Unmixed
<1>5. ASSUME NEW t \in Tx, tx[t] # None, DeleteRow(t) PROVE NoMerge'
  BY <1>5 DEF DeleteRow, NoMerge, Unmixed, Invariant, TypeOK, Work
<1>6. ASSUME NEW t \in Tx, GetSeriesNo(t) PROVE NoMerge'
  BY <1>6 DEF GetSeriesNo, At, NoMerge, Unmixed, Invariant, TypeOK, Work
<1>7. ASSUME NEW t \in Tx, InsertMerges(t) PROVE FALSE
  <2>1. tx[t] \in Work /\ tx[t].order \in Order /\ tx[t].fids \in Basket
    BY <1>7 DEF InsertMerges, Conflict, At, Unmixed, Invariant, TypeOK, Work
  <2>2. row[tx[t].order].fids \in Basket
    BY <1>7, <2>1 DEF InsertMerges, Conflict, Unmixed, OneSelect
  <2> QED
    BY <1>7, <2>1, <2>2 DEF Overlapping, InsertMerges
<1>8. ASSUME NEW t \in Tx, Commit(t) PROVE NoMerge'
  <2> SUFFICES ASSUME NEW u \in Tx, tx'[u] # None PROVE ~tx'[u].merge
    BY DEF NoMerge
  <2>1. u # t /\ tx[u] # None /\ tx[u] \in Work /\ ~tx[u].merge
    BY <1>8, CommitTx DEF Unmixed, NoMerge, Invariant, TypeOK
  <2>2. tx'[u].merge = tx[u].merge
    BY <1>8, <2>1, CommitTx DEF Unmixed, Work
  <2> QED
    BY <2>1, <2>2
<1> QED
  BY <1>1, <1>2, <1>3, <1>4, <1>5, <1>6, <1>7, <1>8 DEF Next, Step, DeleteOrder, ResumeDelete,
     InsertOrder, InsertFails, Fail, At, Pc, vars

LEMMA UnmixedStep ==
    ASSUME Overlapping, Unmixed, [Next]_vars
    PROVE  Unmixed'
<1>1. Invariant' /\ NoMerge'
  BY InvariantStep, NoMergeStep DEF Unmixed
<1>2. CASE UNCHANGED <<row, seriesNo>>
  BY <1>1, <1>2 DEF Unmixed, OneSelect, NoGaps
<1>3. ASSUME NEW t \in Tx, Commit(t) PROVE OneSelect' /\ NoGaps'
  <2> DEFINE w == tx[t]
             o == w.order
  <2>1. w \in Work /\ o \in Order /\ w.key \in Key /\ w.fids \in Basket
    BY <1>3, CommitCases DEF Unmixed, Work
  <2>2. row \in [Order -> Row \cup {None}] /\ seriesNo \in [Key -> Nat]
    BY DEF Unmixed, Invariant, TypeOK
  <2>3. ~w.merge
    BY <1>3 DEF Unmixed, NoMerge, Commit, At
  <2>4. CASE CommitsFirst(t)
    <3>1. /\ row' = [row EXCEPT ![o] = [urn |-> w.urn, fids |-> w.fids]]
          /\ row[o] = None /\ w.urn = [key |-> w.key, no |-> seriesNo[w.key] + 1]
          /\ seriesNo' = [seriesNo EXCEPT ![w.key] = seriesNo[w.key] + 1]
      BY <2>4 DEF CommitsFirst, Stores, Counts
    <3>2. OneSelect'
      BY <2>1, <2>2, <3>1 DEF Unmixed, OneSelect
    <3>3. ASSUME NEW k \in Key, NEW n \in 1..seriesNo'[k]
          PROVE  \E p \in Order : row'[p] # None /\ row'[p].urn = [key |-> k, no |-> n]
      <4>1. CASE k = w.key /\ n = seriesNo[k] + 1
        <5>1. row'[o] = [urn |-> w.urn, fids |-> w.fids] /\ row'[o] \in Row
          BY <1>3, <2>1, <2>2, <3>1, CommitEffect DEF Unmixed
        <5> QED
          BY <2>1, <3>1, <4>1, <5>1
      <4>2. CASE ~(k = w.key /\ n = seriesNo[k] + 1)
        <5>1. n \in 1..seriesNo[k]
          BY <2>1, <2>2, <3>1, <3>3, <4>2
        <5>2. PICK p \in Order : row[p] # None /\ row[p].urn = [key |-> k, no |-> n]
          BY <5>1 DEF Unmixed, NoGaps
        <5>3. p # o
          BY <3>1, <5>2
        <5> QED
          BY <1>3, <5>2, <5>3, CommitEffect DEF Unmixed
      <4> QED
        BY <4>1, <4>2
    <3> QED
      BY <3>2, <3>3 DEF NoGaps
  <2>5. CASE CommitsAgain(t)
    <3>1. /\ row' = [row EXCEPT ![o] = [urn |-> row[o].urn, fids |-> w.fids]]
          /\ row[o] # None /\ seriesNo' = seriesNo
      BY <2>5 DEF CommitsAgain, Stores
    <3>2. OneSelect'
      BY <2>1, <2>2, <3>1 DEF Unmixed, OneSelect
    <3>3. \A p \in Order : row[p] # None => row'[p] # None /\ row'[p].urn = row[p].urn
      BY <1>3, CommitEffect DEF Unmixed
    <3> QED
      BY <3>1, <3>2, <3>3 DEF Unmixed, NoGaps
  <2> QED
    BY <1>3, <2>3, <2>4, <2>5, CommitCases DEF Unmixed, CommitsMerge
<1> QED
  BY <1>1, <1>2, <1>3, TablesChange DEF Unmixed

LEMMA UnmixedInit == Init => Unmixed
BY InvariantInit DEF Init, Unmixed, NoMerge, OneSelect, NoGaps

\* When the selects of an order have a line in common, an order is what one
\* select was about, and no number of a series is lost: what a transaction that
\* fails took is given back.
THEOREM NoNumberIsLost == Overlapping => (Spec => [](OneSelect /\ NoGaps))
<1> SUFFICES ASSUME Overlapping PROVE Spec => [](OneSelect /\ NoGaps)
  OBVIOUS
<1>1. Unmixed /\ [Next]_vars => Unmixed'
  BY UnmixedStep
<1>2. Unmixed => OneSelect /\ NoGaps
  BY DEF Unmixed
<1> QED
  BY <1>1, <1>2, UnmixedInit, PTL DEF Spec

LEMMA LinesChanged ==
    ASSUME NEW r \in Row, NEW fids
    PROVE  [r EXCEPT !.fids = fids] = [urn |-> r.urn, fids |-> fids]
BY DEF Row

LEMMA NumbersStep ==
    ASSUME Invariant, [Next]_vars
    PROVE  [Numbers!Next]_<<row, seriesNo>>
<1>1. CASE UNCHANGED <<row, seriesNo>>
  BY <1>1
<1>2. ASSUME NEW t \in Tx, Commit(t) PROVE Numbers!Next
  <2> DEFINE w == tx[t]
             o == w.order
  <2>1. w \in Work /\ o \in Order /\ w.key \in Key /\ w.fids \in Basket
    BY <1>2, CommitCases DEF Work
  <2>2. row \in [Order -> Row \cup {None}]
    BY DEF Invariant, TypeOK
  <2>3. CASE CommitsFirst(t)
    <3>1. Numbers!First(o, w.key, w.fids)
      BY <2>3 DEF CommitsFirst, Stores, Counts, Numbers!First, Numbers!Take
    <3> QED
      BY <2>1, <3>1 DEF Numbers!Next
  <2>4. CASE CommitsAgain(t)
    <3>1. row' = [row EXCEPT ![o] = [urn |-> row[o].urn, fids |-> w.fids]]
      BY <2>4 DEF CommitsAgain, Stores
    <3>2. row[o] \in Row
      BY <2>1, <2>2, <2>4 DEF CommitsAgain
    <3>3. [row[o] EXCEPT !.fids = w.fids] = [urn |-> row[o].urn, fids |-> w.fids]
      BY <3>2, LinesChanged
    <3>4. Numbers!Again(o, w.fids)
      BY <2>4, <3>1, <3>3 DEF CommitsAgain, Numbers!Again
    <3> QED
      BY <2>1, <3>4 DEF Numbers!Next
  <2>5. CASE CommitsMerge(t)
    <3>1. row' = [row EXCEPT ![o] = [urn |-> row[o].urn, fids |-> row[o].fids \cup w.fids]]
      BY <2>5 DEF CommitsMerge, Stores
    <3>2. row[o] \in Row
      BY <2>1, <2>2, <2>5 DEF CommitsMerge
    <3>3. [row[o] EXCEPT !.fids = row[o].fids \cup w.fids]
             = [urn |-> row[o].urn, fids |-> row[o].fids \cup w.fids]
      BY <3>2, LinesChanged
    <3>4. Numbers!Merge(o, w.key, w.fids)
      BY <2>5, <3>1, <3>3 DEF CommitsMerge, Counts, Numbers!Merge, Numbers!Take
    <3> QED
      BY <2>1, <3>4 DEF Numbers!Next
  <2> QED
    BY <1>2, <2>3, <2>4, <2>5, CommitCases
<1> QED
  BY <1>1, <1>2, TablesChange

\* Statement by statement, the transactions place orders one at a time.
THEOREM ImplementsNumbers == Spec => ImplementsOrderNumbers
<1>1. Init => Numbers!Init
  BY DEF Init, Numbers!Init
<1>2. Invariant /\ [Next]_vars => [Numbers!Next]_<<row, seriesNo>>
  BY NumbersStep
<1> QED
  BY <1>1, <1>2, InvariantHolds, PTL DEF Spec, ImplementsOrderNumbers, Numbers!Spec, Numbers!vars
=============================================================================
