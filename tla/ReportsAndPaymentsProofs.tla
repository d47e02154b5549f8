----------------------- MODULE ReportsAndPaymentsProofs -----------------------
(***************************************************************************)
(* Safety of the two components that replace what the seller reports on,   *)
(* for any reports, selections, payments and callbacks.                    *)
(*                                                                         *)
(* OrderReports: a callback that read an order still there has the         *)
(* addresses of that order; a report reaches the fulfillments and lines    *)
(* only of the order it was merged with, and replaces its payments only if *)
(* that order is there.                                                    *)
(*                                                                         *)
(* PaymentFlow, the instance Pay: whatever names a payment order names one *)
(* of the service, and without a race a row was seen with one of them.     *)
(***************************************************************************)
EXTENDS OrderReports, PaymentTable, FiniteSetTheorems, TLAPS

IsFunctionOn(f, S) == f = [x \in S |-> f[x]]

IsRow(r) ==
    r = [id |-> r.id, type |-> r.type, status |-> r.status, docs |-> r.docs,
         paid |-> r.paid, refund |-> r.refund, fulfillments |-> r.fulfillments,
         lines |-> r.lines, selection |-> r.selection, by |-> r.by,
         cancelledBy |-> r.cancelledBy]

(* A fulfillment f of an order that was selected with s.                   *)
GoesAsSelected(f, x, s) ==
    /\ x = [status |-> x.status, pickup |-> x.pickup, drop |-> x.drop, refunds |-> x.refunds]
    /\ x.pickup.gps \in Place /\ x.pickup.area \in Place
    /\ StartIsKept(f, x, s) /\ EndIsKept(f, x, s)

AllGoAsSelected(fs, s) ==
    /\ IsFunctionOn(fs, Fulfillment)
    /\ \A f \in Fulfillment : GoesAsSelected(f, fs[f], s)

(* ReportsAreWhole of a row r.                                             *)
HasReport(r) ==
    r.by # Null /\ r.by.report.pays =>
        LET reported == r.by.report.fulfillments
        IN \A k \in DOMAIN reported :
              reported[k].id \in Fulfillment /\ Located(reported[k], "start") # {} =>
                  \E l \in DOMAIN reported :
                      /\ reported[l].id = reported[k].id /\ Located(reported[l], "start") # {}
                      /\ r.fulfillments[reported[k].id].status = reported[l].status

(* What a cancel has stored, of an entry of its quote.                     *)
HasRefund(r, report, b) ==
    LET items == {report.items[n] : n \in DOMAIN report.items} \cap Item
        fulfillments == {report.fulfillments[n].id : n \in DOMAIN report.fulfillments} \cap Fulfillment
    IN /\ b.id \in items /\ b.title = ItemName[b.id] => r.lines[b.id].total = b.value
       /\ b.id \in items /\ b.title = "Tax" => r.lines[b.id].tax = b.value
       /\ b.id \in items /\ b.title = "Discount" => r.lines[b.id].discount = b.value
       /\ b.id \in fulfillments /\ b.title \in Charges =>
             r.fulfillments[b.id].refunds[b.title] = b.value

(* RefundsAreWhole of a row r.                                             *)
HasRefunds(r) ==
    r.cancelledBy # Null /\ r.cancelledBy.report.pays =>
        /\ r.refund = r.cancelledBy.report.total
        /\ \A k \in DOMAIN r.cancelledBy.report.breakup :
              IsLast(r.cancelledBy.report.breakup, k) =>
                  HasRefund(r, r.cancelledBy.report, r.cancelledBy.report.breakup[k])

SoundRow(r) ==
    /\ IsRow(r)
    /\ r.type \in OrderType /\ r.status \in CommerceStatusType /\ r.paid \in BOOLEAN
    /\ r.selection \in Selection
    /\ AllGoAsSelected(r.fulfillments, r.selection)
    /\ IsFunctionOn(r.lines, Item)
    /\ r.docs # Null => r.docs \in Seq(Document)
    /\ HasReport(r) /\ HasRefunds(r)

(* What a callback has read, when the row is r: if the order it read is    *)
(* still there, it has that order's type and addresses.                    *)
SoundRead(x, r) ==
    /\ x = [report |-> x.report, id |-> x.id, type |-> x.type, docs |-> x.docs,
            fulfillments |-> x.fulfillments, items |-> x.items]
    /\ x.report \in Report /\ x.type \in OrderType /\ x.id \in 0 .. r.id
    /\ x.docs # Null => x.docs \in Seq(Document)
    /\ x.id = r.id =>
          /\ x.type = r.type
          /\ x.fulfillments # Null =>
                AllGoAsSelected(x.fulfillments, r.selection) /\ x.items = Item

Inv ==
    /\ nextId \in 1 .. MaxRows /\ row.id \in 0 .. (nextId - 1)
    /\ SoundRow(row)
    /\ IsFunctionOn(cb, Callback)
    /\ \A c \in Callback : cb[c] # Null => SoundRead(cb[c], row)

-----------------------------------------------------------------------------
(* Positions.                                                              *)

LEMMA Lists ==
  ASSUME NEW s, IsList(s)
  PROVE  Len(s) \in Nat /\ DOMAIN s = 1 .. Len(s)
  BY DEF IsList

(* A set of positions that is not empty has a first one and a last one.    *)
LEMMA LeastIsThere ==
  ASSUME NEW ks \in SUBSET Nat, ks # {}
  PROVE  \E k \in ks : \A j \in ks : k <= j
  <1> DEFINE R == OpToRel(<, Nat)
  <1>1. IsWellFoundedOn(R, Nat)
    BY NatLessThanWellFounded
  <1>2. \A j, k \in Nat : j < k => <<j, k>> \in R
    BY DEF OpToRel
  <1> HIDE DEF R
  <1>3. PICK k \in ks : \A j \in ks : ~(<<j, k>> \in R)
    BY <1>1, WFMin
  <1>4. ASSUME NEW j \in ks PROVE k <= j
    <2>1. j \in Nat /\ k \in Nat /\ ~(<<j, k>> \in R)
      BY <1>3
    <2>2. ~(j < k)
      BY <1>2, <2>1
    <2> QED BY <2>1, <2>2
  <1> QED
    BY <1>4

LEMMA FirstIsThere ==
  ASSUME NEW n \in Nat, NEW ks \in SUBSET (1 .. n), ks # {}
  PROVE  First(ks) \in ks
  <1>1. ks \in SUBSET Nat
    OBVIOUS
  <1> QED
    BY <1>1, LeastIsThere DEF First

LEMMA LastIsThere ==
  ASSUME NEW n \in Nat, NEW ks \in SUBSET (1 .. n), ks # {}
  PROVE  Last(ks) \in ks
  <1> DEFINE back == {n - k : k \in ks}
  <1>1. back \in SUBSET Nat /\ back # {}
    <2>1. \A k \in ks : n - k \in Nat
      OBVIOUS
    <2> QED BY <2>1
  <1>2. PICK m \in back : \A l \in back : m <= l
    <2> HIDE DEF back
    <2> QED BY <1>1, LeastIsThere
  <1>3. PICK k \in ks : m = n - k
    OBVIOUS
  <1>4. \A l \in ks : l <= k
    <2> SUFFICES ASSUME NEW l \in ks PROVE l <= k
      OBVIOUS
    <2>1. n - k <= n - l
      BY <1>2, <1>3
    <2> QED BY <2>1
  <1> QED
    BY <1>4 DEF Last

(* The position of an element in a set of positions, and every position.   *)
LEMMA NthOfRank ==
  ASSUME NEW n \in Nat, NEW ks \in SUBSET (1 .. n), NEW k \in ks
  PROVE  /\ Cardinality({l \in ks : l <= k}) \in 1 .. Cardinality(ks)
         /\ Nth(ks, Cardinality({l \in ks : l <= k})) = k
  <1> DEFINE Below(j) == {l \in ks : l <= j}
  <1>0. IsFiniteSet(ks) /\ Cardinality(ks) \in Nat
    <2>1. IsFiniteSet(1 .. n)
      BY FS_Interval
    <2> QED BY <2>1, FS_Subset, FS_CardinalityType
  <1>1. ASSUME NEW j \in ks
        PROVE  /\ IsFiniteSet(Below(j)) /\ Cardinality(Below(j)) \in 1 .. Cardinality(ks)
               /\ j \in Below(j)
    <2>1. Below(j) \in SUBSET ks /\ j \in Below(j)
      OBVIOUS
    <2> HIDE DEF Below
    <2>2. IsFiniteSet(Below(j)) /\ Cardinality(Below(j)) <= Cardinality(ks)
      BY <1>0, <2>1, FS_Subset
    <2>3. Cardinality(Below(j)) \in Nat /\ Cardinality(Below(j)) # 0
      BY <2>1, <2>2, FS_CardinalityType, FS_EmptySet
    <2> QED BY <1>0, <2>1, <2>2, <2>3
  <1>2. ASSUME NEW i \in ks, NEW j \in ks, i < j
        PROVE  Cardinality(Below(i)) # Cardinality(Below(j))
    <2>1. Below(i) \in SUBSET Below(j) /\ j \notin Below(i)
      <3>1. i \in Nat /\ j \in Nat /\ \A l \in ks : l \in Nat
        OBVIOUS
      <3>2. \A l \in ks : l <= i => l <= j
        BY <1>2, <3>1
      <3>3. ~(j <= i)
        BY <1>2, <3>1
      <3> QED BY <3>2, <3>3
    <2>2. j \in Below(j) /\ IsFiniteSet(Below(j))
      BY <1>1
    <2> HIDE DEF Below
    <2> QED BY <2>1, <2>2, FS_Subset
  <1>3. \A j \in ks : Cardinality(Below(j)) = Cardinality(Below(k)) => j = k
    <2>1. \A j \in ks : j < k \/ k < j \/ j = k
      OBVIOUS
    <2> HIDE DEF Below
    <2> QED BY <1>2, <2>1
  <1>4. Nth(ks, Cardinality(Below(k))) = CHOOSE j \in ks : Cardinality(Below(j)) = Cardinality(Below(k))
    BY DEF Nth
  <1>5. Nth(ks, Cardinality(Below(k))) = k
    <2> HIDE DEF Below
    <2> QED BY <1>3, <1>4
  <1> QED
    BY <1>1, <1>5

LEMMA NthIsThere ==
  ASSUME NEW n \in Nat, NEW ks \in SUBSET (1 .. n), NEW m \in 1 .. Cardinality(ks)
  PROVE  Nth(ks, m) \in ks
  <1> DEFINE rank == [k \in ks |-> Cardinality({l \in ks : l <= k})]
             ranks == {rank[k] : k \in ks}
  <1>0. IsFiniteSet(ks) /\ Cardinality(ks) \in Nat
    <2>1. IsFiniteSet(1 .. n)
      BY FS_Interval
    <2> QED BY <2>1, FS_Subset, FS_CardinalityType
  <1>1. \A k \in ks : rank[k] \in 1 .. Cardinality(ks) /\ Nth(ks, rank[k]) = k
    <2>1. \A k \in ks : rank[k] = Cardinality({l \in ks : l <= k})
      OBVIOUS
    <2> QED BY <2>1, NthOfRank
  <1>2. rank \in Bijection(ks, ranks)
    <2>1. rank \in [ks -> ranks] /\ \A r \in ranks : \E k \in ks : rank[k] = r
      OBVIOUS
    <2>2. \A j, k \in ks : rank[j] = rank[k] => j = k
      <3> HIDE DEF rank
      <3> QED BY <1>1
    <2> HIDE DEF rank, ranks
    <2> QED BY <2>1, <2>2 DEF Bijection, Injection, IsInjective, Surjection
  <1>3. Cardinality(ranks) = Cardinality(ks)
    <2> HIDE DEF rank, ranks
    <2> QED BY <1>0, <1>2, FS_Bijection DEF ExistsBijection
  <1>4. ranks = 1 .. Cardinality(ks)
    <2>1. IsFiniteSet(1 .. Cardinality(ks)) /\ Cardinality(1 .. Cardinality(ks)) = Cardinality(ks)
      BY <1>0, FS_Interval
    <2>2. ranks \in SUBSET (1 .. Cardinality(ks))
      BY <1>1
    <2> HIDE DEF ranks
    <2> QED BY <1>3, <2>1, <2>2, FS_Subset
  <1>5. PICK k \in ks : rank[k] = m
    BY <1>4
  <1> HIDE DEF rank
  <1> QED
    BY <1>1, <1>5

-----------------------------------------------------------------------------
(* Documents, refunds and fulfillments.                                    *)

LEMMA MergedIsList ==
  ASSUME NEW old \in Seq(Document), old # Null, NEW new \in Seq(Document)
  PROVE  Merged(old, new) \in Seq(Document)
  <1> DEFINE ofType(t) == {l \in DOMAIN old : old[l].type = t}
             others == {l \in DOMAIN old : old[l].type \notin TypesOf(new)}
             m == Len(new) + Cardinality(others)
  <1>1. /\ Len(old) \in Nat /\ DOMAIN old = 1 .. Len(old) /\ \A l \in DOMAIN old : old[l] \in Document
        /\ Len(new) \in Nat /\ DOMAIN new = 1 .. Len(new) /\ \A l \in DOMAIN new : new[l] \in Document
    OBVIOUS
  <1>2. others \in SUBSET (1 .. Len(old)) /\ \A t : ofType(t) \in SUBSET (1 .. Len(old))
    BY <1>1
  <1>3. Cardinality(others) \in Nat /\ m \in Nat
    <2>1. IsFiniteSet(1 .. Len(old))
      BY <1>1, FS_Interval
    <2>2. IsFiniteSet(others)
      BY <1>2, <2>1, FS_Subset
    <2> HIDE DEF others
    <2> QED BY <1>1, <2>2, FS_CardinalityType
  <1>4. Merged(old, new) =
           [k \in 1 .. m |->
              IF k > Len(new) THEN old[Nth(others, k - Len(new))]
              ELSE IF ofType(new[k].type) = {} THEN new[k]
              ELSE old[Last(ofType(new[k].type))]]
    BY DEF Merged
  <1>5. ASSUME NEW k \in 1 .. m, k > Len(new)
        PROVE  old[Nth(others, k - Len(new))] \in Document
    <2>1. k - Len(new) \in 1 .. Cardinality(others)
      BY <1>1, <1>3, <1>5
    <2>2. Nth(others, k - Len(new)) \in others
      <3> HIDE DEF others, m
      <3> QED BY <1>1, <1>2, <2>1, NthIsThere
    <2> QED BY <1>1, <2>2
  <1>6. ASSUME NEW k \in 1 .. m, ~(k > Len(new))
        PROVE  new[k] \in Document
    BY <1>1, <1>3, <1>6
  <1>7. ASSUME NEW t, ofType(t) # {}
        PROVE  old[Last(ofType(t))] \in Document
    <2>1. Last(ofType(t)) \in ofType(t)
      <3> HIDE DEF ofType
      <3> QED BY <1>1, <1>2, <1>7, LastIsThere
    <2> QED BY <1>1, <2>1
  <1> HIDE DEF ofType, others, m
  <1> QED
    BY <1>3, <1>4, <1>5, <1>6, <1>7

(* The last document of its type that was there is there still.            *)
LEMMA MergedKeeps ==
  ASSUME NEW old \in Seq(Document), old # Null, NEW new \in Seq(Document),
         NEW k \in DOMAIN old, \A l \in DOMAIN old : old[l].type = old[k].type => l <= k
  PROVE  \E l \in DOMAIN Merged(old, new) : Merged(old, new)[l] = old[k]
  <1> DEFINE ofType(t) == {l \in DOMAIN old : old[l].type = t}
             others == {l \in DOMAIN old : old[l].type \notin TypesOf(new)}
             m == Len(new) + Cardinality(others)
  <1>1. /\ Len(old) \in Nat /\ DOMAIN old = 1 .. Len(old)
        /\ Len(new) \in Nat /\ DOMAIN new = 1 .. Len(new)
    OBVIOUS
  <1>2. others \in SUBSET (1 .. Len(old))
    BY <1>1
  <1>3. Cardinality(others) \in Nat
    <2>1. IsFiniteSet(1 .. Len(old))
      BY <1>1, FS_Interval
    <2>2. IsFiniteSet(others)
      BY <1>2, <2>1, FS_Subset
    <2> HIDE DEF others
    <2> QED BY <2>2, FS_CardinalityType
  <1>4. Merged(old, new) =
           [n \in 1 .. m |->
              IF n > Len(new) THEN old[Nth(others, n - Len(new))]
              ELSE IF ofType(new[n].type) = {} THEN new[n]
              ELSE old[Last(ofType(new[n].type))]]
    BY DEF Merged
  <1>5. CASE old[k].type \in TypesOf(new)
    <2>1. PICK n \in DOMAIN new : new[n].type = old[k].type
      BY <1>5 DEF TypesOf
    <2>2. n \in 1 .. m /\ ~(n > Len(new))
      BY <1>1, <1>3
    <2>3. k \in ofType(new[n].type) /\ Last(ofType(new[n].type)) = k
      <3>1. k \in ofType(new[n].type) /\ \A l \in ofType(new[n].type) : l <= k /\ l \in Nat
        BY <1>1, <2>1
      <3> HIDE DEF ofType
      <3> QED BY <3>1 DEF Last
    <2> HIDE DEF ofType, others, m
    <2> QED BY <1>4, <2>2, <2>3
  <1>6. CASE old[k].type \notin TypesOf(new)
    <2> DEFINE r == Cardinality({l \in others : l <= k})
    <2>1. k \in others
      BY <1>6
    <2>2. r \in 1 .. Cardinality(others) /\ Nth(others, r) = k
      <3> HIDE DEF others
      <3> QED BY <1>1, <1>2, <2>1, NthOfRank
    <2> HIDE DEF r
    <2>3. r + Len(new) \in 1 .. m /\ r + Len(new) > Len(new) /\ (r + Len(new)) - Len(new) = r
      BY <1>1, <1>3, <2>2
    <2> HIDE DEF ofType, others, m
    <2> QED BY <1>4, <2>2, <2>3
  <1> QED
    BY <1>5, <1>6

(* The last refund of a title and id is the one that is stored.            *)
LEMMA LastIsRefunded ==
  ASSUME NEW report, IsList(report.breakup), NEW k \in DOMAIN report.breakup,
         IsLast(report.breakup, k)
  PROVE  RefundOf(report, report.breakup[k].title, report.breakup[k].id) = report.breakup[k].value
  <1> DEFINE breakup == report.breakup
             ks == {l \in DOMAIN breakup : /\ breakup[l].title = breakup[k].title
                                           /\ breakup[l].id = breakup[k].id}
  <1>1. k \in ks /\ \A l \in ks : l <= k /\ l \in Nat
    BY Lists DEF IsLast
  <1>2. RefundOf(report, breakup[k].title, breakup[k].id) =
           IF ks = {} THEN 0 ELSE breakup[Last(ks)].value
    BY DEF RefundOf
  <1> HIDE DEF ks, breakup
  <1>3. Last(ks) = k
    BY <1>1 DEF Last
  <1> QED
    BY <1>1, <1>2, <1>3 DEF breakup

(* Where a stop that is there is.                                          *)
LEMMA PlaceOfStop ==
  ASSUME NEW report \in Report, NEW k \in DOMAIN report.fulfillments, NEW kind,
         Located(report.fulfillments[k], kind) # {}
  PROVE  /\ StopAt(report.fulfillments[k], kind).gps \in Place
         /\ StopAt(report.fulfillments[k], kind).area \in Place \cup {Null}
  <1> DEFINE f == report.fulfillments[k]
  <1>1. /\ IsList(f.stops)
        /\ \A n \in DOMAIN f.stops : f.stops[n].gps \in Place /\ f.stops[n].area \in Place \cup {Null}
    BY ReportAssumption
  <1> HIDE DEF f
  <1>2. Len(f.stops) \in Nat /\ DOMAIN f.stops = 1 .. Len(f.stops)
    BY <1>1, Lists
  <1>3. Located(f, kind) \in SUBSET (1 .. Len(f.stops)) /\ Located(f, kind) # {}
    BY <1>2 DEF Located, f
  <1>4. First(Located(f, kind)) \in DOMAIN f.stops
    BY <1>2, <1>3, FirstIsThere
  <1>5. StopAt(f, kind).gps \in Place /\ StopAt(f, kind).area \in Place \cup {Null}
    BY <1>1, <1>4 DEF StopAt
  <1> QED
    BY <1>5 DEF f

LEMMA IsReported ==
  ASSUME NEW report \in Report, NEW k \in DOMAIN report.fulfillments, NEW kinds, report.kind \in kinds,
         NEW stop, Located(report.fulfillments[k], stop) # {}
  PROVE  report.fulfillments[k] \in ReportedOf(report.fulfillments[k].id, kinds, stop)
  BY DEF ReportedOf

(* What a report makes of a fulfillment.                                   *)
Reported(kind, new, read, old) ==
    [old EXCEPT !.status = new.status, !.pickup = PickUp(new, read),
                !.drop = NewDrop(kind, new, read, old.drop)]

Carries(x, kind, new, read, old) ==
    x.status = new.status /\ x.refunds = old.refunds /\ x.drop = NewDrop(kind, new, read, old.drop)

(* A drop off that is there has the address of the selection.              *)
LEMMA AddressOfEnd ==
  ASSUME NEW f, NEW x, NEW s, EndIsKept(f, x, s), x.drop # Null
  PROVE  x.drop.address = s.drop
  <1>1. CASE x.drop = At(s.drop)
    BY <1>1 DEF At
  <1>2. CASE \E new \in ReportedOf(f, {"status"}, "end") :
               x.drop = [address |-> s.drop, gps |-> StopAt(new, "end").gps, area |-> StopAt(new, "end").area]
    BY <1>2
  <1> QED
    BY <1>1, <1>2 DEF EndIsKept

(* The start a report leaves.                                              *)
LEMMA ReportedStart ==
  ASSUME NEW f, NEW s \in Selection, NEW read, GoesAsSelected(f, read, s),
         NEW new \in ReportedOf(f, {"confirm", "status"}, "start"),
         StopAt(new, "start").gps \in Place, StopAt(new, "start").area \in Place \cup {Null},
         NEW x, x.status = new.status, x.pickup = PickUp(new, read)
  PROVE  StartIsKept(f, x, s) /\ x.pickup.gps \in Place /\ x.pickup.area \in Place
  <1> DEFINE stop == StopAt(new, "start")
             areas == {StopAt(n, "start").area : n \in ReportedOf(f, {"confirm", "status"}, "start")}
  <1>1. /\ read.pickup.address = s.pickup /\ read.pickup.area \in {s.pickup} \cup areas
        /\ read.pickup.area \in Place
    BY DEF GoesAsSelected, StartIsKept
  <1>2. /\ x.pickup.address = read.pickup.address /\ x.pickup.gps = stop.gps
        /\ x.pickup.area = IF stop.area = Null THEN read.pickup.area ELSE stop.area
    BY DEF PickUp
  <1>3. stop.area \in areas
    OBVIOUS
  <1>4. stop.area \in {Null, x.pickup.area} /\ x.pickup.area \in {s.pickup} \cup areas
    BY <1>1, <1>2, <1>3
  <1>5. x.pickup.gps \in Place /\ x.pickup.area \in Place
    BY <1>1, <1>2
  <1> QED
    BY <1>1, <1>2, <1>4, <1>5 DEF StartIsKept

(* The end a report leaves.                                                *)
LEMMA ReportedEnd ==
  ASSUME NEW f, NEW s, NEW old, EndIsKept(f, old, s), NEW read, EndIsKept(f, read, s),
         NEW kind, NEW new,
         kind = "status" /\ Located(new, "end") # {} => new \in ReportedOf(f, {"status"}, "end"),
         NEW x, x.drop = NewDrop(kind, new, read, old.drop)
  PROVE  EndIsKept(f, x, s)
  <1>1. CASE kind # "status"
    BY <1>1 DEF NewDrop, EndIsKept
  <1>2. CASE kind = "status" /\ (read.drop = Null \/ Located(new, "end") = {})
    BY <1>2 DEF NewDrop, EndIsKept
  <1>3. CASE kind = "status" /\ read.drop # Null /\ Located(new, "end") # {}
    <2>1. read.drop.address = s.drop
      BY <1>3, AddressOfEnd
    <2>2. x.drop = [address |-> s.drop, gps |-> StopAt(new, "end").gps, area |-> StopAt(new, "end").area]
      BY <1>3, <2>1 DEF NewDrop
    <2> QED BY <1>3, <2>2 DEF EndIsKept
  <1> QED
    BY <1>1, <1>2, <1>3

LEMMA ReportedGoesAsSelected ==
  ASSUME NEW f, NEW s \in Selection, NEW old, GoesAsSelected(f, old, s),
         NEW read, GoesAsSelected(f, read, s),
         NEW report \in Report, report.kind \in {"confirm", "status"},
         NEW k \in DOMAIN report.fulfillments, NEW kind, kind = report.kind,
         NEW new, new = report.fulfillments[k], new.id = f, Located(new, "start") # {},
         NEW x, x = Reported(kind, new, read, old)
  PROVE  /\ GoesAsSelected(f, x, s)
         /\ Carries(x, kind, new, read, old)
  <1>1. x = [status |-> new.status, pickup |-> PickUp(new, read),
             drop |-> NewDrop(kind, new, read, old.drop), refunds |-> old.refunds]
    <2> DEFINE a == new.status
               b == PickUp(new, read)
               d == NewDrop(kind, new, read, old.drop)
    <2>1. old = [status |-> old.status, pickup |-> old.pickup, drop |-> old.drop,
                 refunds |-> old.refunds]
      BY DEF GoesAsSelected
    <2>2. x = [old EXCEPT !.status = a, !.pickup = b, !.drop = d]
      BY DEF Reported
    <2> HIDE DEF a, b, d
    <2>3. x = [status |-> a, pickup |-> b, drop |-> d, refunds |-> old.refunds]
      BY <2>1, <2>2
    <2> QED BY <2>3 DEF a, b, d
  <1>2. /\ x.status = new.status /\ x.pickup = PickUp(new, read)
        /\ x.drop = NewDrop(kind, new, read, old.drop) /\ x.refunds = old.refunds
    BY <1>1
  <1>3. /\ new \in ReportedOf(f, {"confirm", "status"}, "start")
        /\ StopAt(new, "start").gps \in Place /\ StopAt(new, "start").area \in Place \cup {Null}
    BY IsReported, PlaceOfStop
  <1>4. StartIsKept(f, x, s) /\ x.pickup.gps \in Place /\ x.pickup.area \in Place
    BY <1>2, <1>3, ReportedStart
  <1>5. kind = "status" /\ Located(new, "end") # {} => new \in ReportedOf(f, {"status"}, "end")
    BY IsReported
  <1>6. EndIsKept(f, old, s) /\ EndIsKept(f, read, s)
    BY DEF GoesAsSelected
  <1>7. EndIsKept(f, x, s)
    BY <1>2, <1>5, <1>6, ReportedEnd
  <1> QED
    BY <1>1, <1>2, <1>4, <1>7 DEF GoesAsSelected, Carries

-----------------------------------------------------------------------------
(* The invariant.                                                          *)

LEMMA SelectedRow ==
  ASSUME NEW n, NEW s \in Selection, NEW r, r = Selected(n, s)
  PROVE  SoundRow(r) /\ r.id = n
  <1> DEFINE x == [status |-> Null, pickup |-> At(s.pickup),
                   drop |-> IF s.drop = Null THEN Null ELSE At(s.drop), refunds |-> Null]
             fs == [f \in Fulfillment |-> x]
             ls == [i \in Item |-> Null]
  <1>1. r = [id |-> n, type |-> s.type, status |-> "QuoteAccepted", docs |-> Null, paid |-> TRUE,
             refund |-> Null, fulfillments |-> fs, lines |-> ls,
             selection |-> s, by |-> Null, cancelledBy |-> Null]
    BY DEF Selected
  <1>2. ASSUME NEW f PROVE GoesAsSelected(f, x, s)
    <2>1. /\ x = [status |-> x.status, pickup |-> x.pickup, drop |-> x.drop, refunds |-> x.refunds]
          /\ x.status = Null /\ x.pickup = At(s.pickup)
          /\ x.drop = IF s.drop = Null THEN Null ELSE At(s.drop)
      OBVIOUS
    <2> HIDE DEF x
    <2>2. /\ x.pickup.address = s.pickup /\ x.pickup.gps = s.pickup /\ x.pickup.area = s.pickup
          /\ s.pickup \in Place
      BY <2>1, SelectionAssumption DEF At
    <2>3. StartIsKept(f, x, s) /\ EndIsKept(f, x, s)
      BY <2>1, <2>2 DEF StartIsKept, EndIsKept
    <2> QED BY <2>1, <2>2, <2>3 DEF GoesAsSelected
  <1>3. AllGoAsSelected(fs, s)
    <2> HIDE DEF x
    <2>1. IsFunctionOn(fs, Fulfillment) /\ \A f \in Fulfillment : fs[f] = x
      BY DEF IsFunctionOn
    <2> QED BY <1>2, <2>1 DEF AllGoAsSelected
  <1>4. IsFunctionOn(ls, Item)
    BY DEF IsFunctionOn
  <1> HIDE DEF fs, ls
  <1>5. IsRow(r) /\ r.id = n /\ r.type = s.type /\ r.status = "QuoteAccepted" /\ r.docs = Null
        /\ r.paid = TRUE /\ r.fulfillments = fs /\ r.lines = ls /\ r.selection = s
        /\ r.by = Null /\ r.cancelledBy = Null
    BY <1>1 DEF IsRow
  <1> QED
    BY <1>3, <1>4, <1>5, SelectionAssumption
       DEF SoundRow, HasReport, HasRefunds, CommerceStatusType

LEMMA InitInv == Init => Inv
  <1> SUFFICES ASSUME Init PROVE Inv
    OBVIOUS
  <1>1. PICK s \in Selection : row = Selected(0, s)
    BY DEF Init
  <1>2. SoundRow(row) /\ row.id = 0
    BY <1>1, SelectedRow
  <1>3. nextId = 1 /\ IsFunctionOn(cb, Callback) /\ \A c \in Callback : cb[c] = Null
    BY DEF Init, IsFunctionOn
  <1> QED
    BY <1>2, <1>3, MaxRowsAssumption DEF Inv

(* The rows are replaced: whatever is read is of an order that is gone.    *)
LEMMA ReselectInv ==
  ASSUME Inv, Reselect
  PROVE  Inv' /\ row'.id # row.id
  <1>1. PICK s \in Selection : row' = Selected(nextId, s)
    BY DEF Reselect
  <1>2. SoundRow(row') /\ row'.id = nextId
    BY <1>1, SelectedRow
  <1>3. nextId' = nextId + 1 /\ nextId < MaxRows /\ cb' = cb /\ nextId \in 1 .. MaxRows
        /\ row.id \in 0 .. (nextId - 1) /\ MaxRows \in Nat
    BY MaxRowsAssumption DEF Reselect, Inv
  <1>4. ASSUME NEW c \in Callback, cb'[c] # Null PROVE SoundRead(cb'[c], row')
    <2>1. SoundRead(cb'[c], row)
      BY <1>3, <1>4 DEF Inv
    <2>2. row.id < row'.id /\ row.id \in Nat /\ row'.id \in Nat
      BY <1>2, <1>3
    <2> QED BY <2>1, <2>2 DEF SoundRead
  <1> QED
    BY <1>2, <1>3, <1>4 DEF Inv

(* Reading, and giving up.                                                 *)
LEMMA ReadsInv ==
  ASSUME Inv, NEW c \in Callback, UNCHANGED <<row, nextId>>, NEW w, cb' = [cb EXCEPT ![c] = w],
         w # Null => SoundRead(w, row)
  PROVE  Inv'
  <1>1. /\ IsFunctionOn(cb', Callback) /\ cb'[c] = w
        /\ \A d \in Callback \ {c} : cb'[d] = cb[d]
    BY DEF Inv, IsFunctionOn
  <1> QED
    BY <1>1 DEF Inv

LEMMA ReadOrderInv ==
  ASSUME Inv, NEW c \in Callback, NEW report \in Report, ReadOrder(c, report)
  PROVE  Inv'
  <1> DEFINE w == [report |-> report, id |-> row.id, type |-> row.type, docs |-> row.docs,
                   fulfillments |-> Null, items |-> Null]
  <1>1. UNCHANGED <<row, nextId>> /\ cb' = [cb EXCEPT ![c] = w]
    BY DEF ReadOrder
  <1>2. /\ w = [report |-> w.report, id |-> w.id, type |-> w.type, docs |-> w.docs,
                fulfillments |-> w.fulfillments, items |-> w.items]
        /\ w.report = report /\ w.id = row.id /\ w.type = row.type
        /\ w.docs = row.docs /\ w.fulfillments = Null
    OBVIOUS
  <1> HIDE DEF w
  <1>3. row.id \in 0 .. row.id /\ row.type \in OrderType
        /\ (row.docs # Null => row.docs \in Seq(Document))
    BY DEF Inv, SoundRow
  <1>4. SoundRead(w, row)
    BY <1>2, <1>3 DEF SoundRead
  <1> QED
    BY <1>1, <1>4, ReadsInv

(* What is read of the parts.                                              *)
LEMMA WithParts ==
  ASSUME NEW x, NEW r, SoundRead(x, r), NEW fs, NEW items,
         x.id = r.id => AllGoAsSelected(fs, r.selection) /\ items = Item,
         NEW w, w = [x EXCEPT !.fulfillments = fs, !.items = items]
  PROVE  SoundRead(w, r)
  <1>1. x = [report |-> x.report, id |-> x.id, type |-> x.type, docs |-> x.docs,
             fulfillments |-> x.fulfillments, items |-> x.items]
    BY DEF SoundRead
  <1>2. w = [report |-> x.report, id |-> x.id, type |-> x.type, docs |-> x.docs,
             fulfillments |-> fs, items |-> items]
    BY <1>1
  <1>3. /\ w.report = x.report /\ w.id = x.id /\ w.type = x.type /\ w.docs = x.docs
        /\ w.fulfillments = fs /\ w.items = items
    BY <1>2
  <1> QED
    BY <1>2, <1>3 DEF SoundRead

LEMMA ReadPartsInv ==
  ASSUME Inv, NEW c \in Callback, ReadParts(c)
  PROVE  Inv'
  <1> DEFINE fs == IF row.id = cb[c].id THEN row.fulfillments ELSE Empty
             items == IF row.id = cb[c].id THEN DOMAIN row.lines ELSE {}
             w == [cb[c] EXCEPT !.fulfillments = fs, !.items = items]
  <1>1. UNCHANGED <<row, nextId>> /\ cb[c] # Null /\ SoundRead(cb[c], row)
    BY DEF ReadParts, Inv
  <1>2. cb' = [cb EXCEPT ![c].fulfillments = fs, ![c].items = items]
    BY DEF ReadParts
  <1>3. cb[c].id = row.id => AllGoAsSelected(fs, row.selection) /\ items = Item
    BY DEF Inv, SoundRow, IsFunctionOn
  <1> HIDE DEF fs, items
  <1>4. cb' = [cb EXCEPT ![c] = w]
    BY <1>2 DEF Inv, IsFunctionOn
  <1>5. SoundRead(w, row)
    BY <1>1, <1>3, WithParts
  <1> HIDE DEF w
  <1> QED
    BY <1>1, <1>4, <1>5, ReadsInv

-----------------------------------------------------------------------------
(* Storing.                                                                *)

(* The callback that stores, what it has read, and which row it reaches.   *)
Storing(c) ==
    /\ cb[c] # Null /\ cb[c].fulfillments # Null /\ SoundRead(cb[c], row)
    /\ row.id = cb[c].id => AllGoAsSelected(cb[c].fulfillments, row.selection) /\ cb[c].items = Item
    /\ cb[c].report.pays => row.id = cb[c].id

LEMMA StoreFacts ==
  ASSUME Inv, NEW c \in Callback, Store(c)
  PROVE  Storing(c)
  <1>1. cb[c] # Null /\ cb[c].fulfillments # Null /\ SoundRead(cb[c], row)
    BY DEF Store, Read, Inv
  <1>2. cb[c].report.pays => row.id = cb[c].id
    BY DEF Store, PaymentsReplaced
  <1> QED
    BY <1>1, <1>2 DEF Storing, SoundRead

LEMMA StatusType ==
  ASSUME NEW c \in Callback, Storing(c)
  PROVE  StatusOf(c) \in CommerceStatusType
  <1>1. cb[c].report.state \in ONDCOrderStatus
    BY ReportAssumption DEF Storing, SoundRead
  <1> QED
    BY <1>1 DEF StatusOf, GetCommerceStatus, CommerceStatusType, ONDCOrderStatus

(* The fulfillments a confirm or a status leaves.                          *)
LEMMA ReportedOnes ==
  ASSUME Inv, NEW c \in Callback, Storing(c), NEW pick \in Picks(c),
         cb[c].report.kind \in {"confirm", "status"},
         NEW fs, fs = ReportedFulfillments(c, pick)
  PROVE  /\ AllGoAsSelected(fs, row.selection)
         /\ \A f \in Fulfillment : fs[f].refunds = row.fulfillments[f].refunds
         /\ \A f \in Fulfillment : pick[f] = 0 => fs[f] = row.fulfillments[f]
         /\ \A f \in Fulfillment : pick[f] # 0 =>
               /\ pick[f] \in Stored(c) /\ row.id = cb[c].id
               /\ cb[c].report.fulfillments[pick[f]].id = f
               /\ fs[f].status = cb[c].report.fulfillments[pick[f]].status
               /\ fs[f].drop = NewDrop(cb[c].report.kind, cb[c].report.fulfillments[pick[f]],
                                       cb[c].fulfillments[f], row.fulfillments[f].drop)
         /\ row.id # cb[c].id => fs = row.fulfillments
  <1> DEFINE report == cb[c].report
  <1>0. /\ IsFunctionOn(fs, Fulfillment) /\ IsFunctionOn(row.fulfillments, Fulfillment)
        /\ \A f \in Fulfillment : GoesAsSelected(f, row.fulfillments[f], row.selection)
        /\ row.selection \in Selection /\ report \in Report
    BY DEF ReportedFulfillments, IsFunctionOn, Inv, SoundRow, AllGoAsSelected, Storing, SoundRead
  <1>1. ASSUME NEW f \in Fulfillment, pick[f] = 0
        PROVE  fs[f] = row.fulfillments[f]
    BY <1>1 DEF ReportedFulfillments
  <1>2. ASSUME NEW f \in Fulfillment, pick[f] # 0
        PROVE  /\ pick[f] \in Stored(c) /\ row.id = cb[c].id
               /\ report.fulfillments[pick[f]].id = f
    <2>1. pick[f] \in RowsFor(c, f)
      BY <1>2 DEF Picks
    <2> QED BY <2>1 DEF RowsFor, Matches
  <1>3. ASSUME NEW f \in Fulfillment, pick[f] # 0
        PROVE  /\ GoesAsSelected(f, fs[f], row.selection)
               /\ fs[f].refunds = row.fulfillments[f].refunds
               /\ fs[f].status = report.fulfillments[pick[f]].status
               /\ fs[f].drop = NewDrop(report.kind, report.fulfillments[pick[f]],
                                       cb[c].fulfillments[f], row.fulfillments[f].drop)
    <2> DEFINE new == report.fulfillments[pick[f]]
               old == row.fulfillments[f]
               read == cb[c].fulfillments[f]
    <2>1. fs[f] = Reported(report.kind, new, read, old)
      BY <1>3 DEF ReportedFulfillments, Reported
    <2>2. GoesAsSelected(f, read, row.selection)
      BY <1>2, <1>3 DEF Storing, AllGoAsSelected
    <2>3. GoesAsSelected(f, old, row.selection)
      BY <1>0
    <2>4. pick[f] \in DOMAIN report.fulfillments /\ Located(new, "start") # {}
      BY <1>2, <1>3 DEF Stored
    <2>5. row.selection \in Selection /\ report \in Report
      BY <1>0
    <2>6. /\ GoesAsSelected(f, fs[f], row.selection)
          /\ fs[f].status = new.status /\ fs[f].refunds = old.refunds
          /\ fs[f].drop = NewDrop(report.kind, new, read, old.drop)
      <3> DEFINE k == pick[f]
                 kind == report.kind
                 s == row.selection
                 x == fs[f]
      <3>1. /\ new = report.fulfillments[k] /\ k \in DOMAIN report.fulfillments
            /\ kind = report.kind /\ kind \in {"confirm", "status"} /\ new.id = f
        BY <1>2, <1>3, <2>4
      <3>2. /\ x = Reported(kind, new, read, old) /\ GoesAsSelected(f, read, s)
            /\ GoesAsSelected(f, old, s) /\ Located(new, "start") # {} /\ s \in Selection
            /\ report \in Report
        BY <2>1, <2>2, <2>3, <2>4, <2>5
      <3> HIDE DEF old, read, report, new, k, kind, s, x
      <3>3. GoesAsSelected(f, x, s)
        BY <3>1, <3>2, ReportedGoesAsSelected
      <3>4. Carries(x, kind, new, read, old)
        BY <3>1, <3>2, ReportedGoesAsSelected
      <3> QED BY <3>3, <3>4 DEF kind, s, x, Carries
    <2> QED BY <2>6
  <1>4. AllGoAsSelected(fs, row.selection)
    BY <1>0, <1>1, <1>3 DEF AllGoAsSelected
  <1>5. row.id # cb[c].id => fs = row.fulfillments
    <2>1. row.id # cb[c].id => \A f \in Fulfillment : fs[f] = row.fulfillments[f]
      BY <1>1, <1>2
    <2> QED BY <1>0, <2>1 DEF IsFunctionOn
  <1> QED
    BY <1>1, <1>2, <1>3, <1>4, <1>5

(* A row after an update of some of its columns.                           *)
Updated(r, x) ==
    /\ IsRow(x) /\ x.id = r.id /\ x.type = r.type /\ x.selection = r.selection

LEMMA RowFields ==
  ASSUME NEW r, NEW status, NEW docs, NEW paid, NEW refund, NEW fs, NEW ls, NEW by, NEW cancelledBy,
         NEW x, x = [id |-> r.id, type |-> r.type, status |-> status, docs |-> docs, paid |-> paid,
                     refund |-> refund, fulfillments |-> fs, lines |-> ls,
                     selection |-> r.selection, by |-> by, cancelledBy |-> cancelledBy]
  PROVE  /\ Updated(r, x) /\ x.status = status /\ x.docs = docs /\ x.paid = paid
         /\ x.refund = refund /\ x.fulfillments = fs /\ x.lines = ls
         /\ x.by = by /\ x.cancelledBy = cancelledBy
  <1>1. /\ x.id = r.id /\ x.type = r.type /\ x.selection = r.selection
        /\ x.status = status /\ x.docs = docs /\ x.paid = paid
        /\ x.refund = refund /\ x.fulfillments = fs /\ x.lines = ls
        /\ x.by = by /\ x.cancelledBy = cancelledBy
    OBVIOUS
  <1> QED
    BY <1>1 DEF Updated, IsRow

AfterConfirm(r, status, by, paid, fs) ==
    [r EXCEPT !.status = status, !.by = by, !.paid = paid, !.fulfillments = fs]

AfterStatus(r, status, by, docs, paid, fs) ==
    [r EXCEPT !.status = status, !.by = by, !.docs = docs, !.paid = paid, !.fulfillments = fs]

AfterCancel(r, status, refund, by, paid, fs, ls) ==
    [r EXCEPT !.status = status, !.refund = refund, !.cancelledBy = by, !.paid = paid,
              !.fulfillments = fs, !.lines = ls]

LEMMA RowOnConfirm ==
  ASSUME NEW r, IsRow(r), NEW status, NEW by, NEW paid, NEW fs, NEW x
  PROVE  x = AfterConfirm(r, status, by, paid, fs) =>
            /\ Updated(r, x) /\ x.status = status /\ x.docs = r.docs /\ x.paid = paid
            /\ x.refund = r.refund /\ x.fulfillments = fs /\ x.lines = r.lines
            /\ x.by = by /\ x.cancelledBy = r.cancelledBy
  <1> DEFINE y == [id |-> r.id, type |-> r.type, status |-> status, docs |-> r.docs, paid |-> paid,
                   refund |-> r.refund, fulfillments |-> fs, lines |-> r.lines,
                   selection |-> r.selection, by |-> by, cancelledBy |-> r.cancelledBy]
  <1>1. ASSUME x = AfterConfirm(r, status, by, paid, fs)
        PROVE  x = y
    BY <1>1 DEF IsRow, AfterConfirm
  <1> QED
    BY <1>1, RowFields

LEMMA RowOnStatus ==
  ASSUME NEW r, IsRow(r), NEW status, NEW by, NEW docs, NEW paid, NEW fs, NEW x
  PROVE  x = AfterStatus(r, status, by, docs, paid, fs) =>
            /\ Updated(r, x) /\ x.status = status /\ x.docs = docs /\ x.paid = paid
            /\ x.refund = r.refund /\ x.fulfillments = fs /\ x.lines = r.lines
            /\ x.by = by /\ x.cancelledBy = r.cancelledBy
  <1> DEFINE y == [id |-> r.id, type |-> r.type, status |-> status, docs |-> docs, paid |-> paid,
                   refund |-> r.refund, fulfillments |-> fs, lines |-> r.lines,
                   selection |-> r.selection, by |-> by, cancelledBy |-> r.cancelledBy]
  <1>1. ASSUME x = AfterStatus(r, status, by, docs, paid, fs)
        PROVE  x = y
    BY <1>1 DEF IsRow, AfterStatus
  <1> QED
    BY <1>1, RowFields

LEMMA RowOnCancel ==
  ASSUME NEW r, IsRow(r), NEW status, NEW refund, NEW by, NEW paid, NEW fs, NEW ls, NEW x
  PROVE  x = AfterCancel(r, status, refund, by, paid, fs, ls) =>
            /\ Updated(r, x) /\ x.status = status /\ x.docs = r.docs /\ x.paid = paid
            /\ x.refund = refund /\ x.fulfillments = fs /\ x.lines = ls
            /\ x.by = r.by /\ x.cancelledBy = by
  <1> DEFINE y == [id |-> r.id, type |-> r.type, status |-> status, docs |-> r.docs, paid |-> paid,
                   refund |-> refund, fulfillments |-> fs, lines |-> ls,
                   selection |-> r.selection, by |-> r.by, cancelledBy |-> by]
  <1>1. ASSUME x = AfterCancel(r, status, refund, by, paid, fs, ls)
        PROVE  x = y
    BY <1>1 DEF IsRow, AfterCancel
  <1> QED
    BY <1>1, RowFields

LEMMA RowOnUpdate ==
  ASSUME NEW r, IsRow(r), NEW paid, NEW x
  PROVE  x = [r EXCEPT !.paid = paid] =>
            /\ Updated(r, x) /\ x.status = r.status /\ x.docs = r.docs /\ x.paid = paid
            /\ x.refund = r.refund /\ x.fulfillments = r.fulfillments /\ x.lines = r.lines
            /\ x.by = r.by /\ x.cancelledBy = r.cancelledBy
  <1> DEFINE y == [id |-> r.id, type |-> r.type, status |-> r.status, docs |-> r.docs,
                   paid |-> paid, refund |-> r.refund, fulfillments |-> r.fulfillments,
                   lines |-> r.lines, selection |-> r.selection, by |-> r.by,
                   cancelledBy |-> r.cancelledBy]
  <1>1. ASSUME x = [r EXCEPT !.paid = paid]
        PROVE  x = y
    BY <1>1 DEF IsRow
  <1> QED
    BY <1>1, RowFields

(* The documents of a report are documents.                                *)
LEMMA ReportedDocuments ==
  ASSUME NEW c \in Callback, Storing(c), cb[c].report.docs # Null
  PROVE  cb[c].report.docs \in Seq(Document)
  <1> DEFINE new == cb[c].report.docs
  <1>1. cb[c].report \in Report /\ IsList(new)
    BY ReportAssumption DEF Storing, SoundRead
  <1>2. \A k \in DOMAIN new : new[k] \in Document
    BY <1>1 DEF Document
  <1> HIDE DEF new
  <1>3. new \in Seq(Document)
    BY <1>1, <1>2 DEF IsList
  <1> QED
    BY <1>3 DEF new

(* Merged with whatever was read, they are documents again.                *)
LEMMA MergedType ==
  ASSUME NEW c \in Callback, Storing(c), cb[c].report.docs # Null
  PROVE  Merged(cb[c].docs, cb[c].report.docs) \in Seq(Document)
  <1>1. cb[c].report.docs \in Seq(Document)
    BY ReportedDocuments
  <1>2. CASE cb[c].docs = Null
    BY <1>1, <1>2 DEF Merged
  <1>3. CASE cb[c].docs # Null
    BY <1>1, <1>3, MergedIsList DEF Storing, SoundRead
  <1> QED
    BY <1>2, <1>3

LEMMA PaysHits ==
  ASSUME NEW c \in Callback, Storing(c), NEW hit \in Hits(c)
  PROVE  /\ hit \in BOOLEAN
         /\ cb[c].report.pays => hit = TRUE /\ row.id = cb[c].id
         /\ ~hit => row.id # cb[c].id
  BY DEF Storing, Hits, Matches

(* A fulfillment that is reported with a start is among those that are     *)
(* stored when the order that was read is there.                           *)
LEMMA StoredIfRead ==
  ASSUME NEW c \in Callback, Storing(c), row.id = cb[c].id, NEW pick \in Picks(c),
         NEW k \in DOMAIN cb[c].report.fulfillments,
         cb[c].report.fulfillments[k].id \in Fulfillment,
         Located(cb[c].report.fulfillments[k], "start") # {}
  PROVE  pick[cb[c].report.fulfillments[k].id] # 0
  <1> DEFINE f == cb[c].report.fulfillments[k].id
  <1>1. DOMAIN cb[c].fulfillments = Fulfillment
    BY DEF Storing, AllGoAsSelected, IsFunctionOn
  <1>2. k \in RowsFor(c, f)
    BY <1>1 DEF Stored, RowsFor, Matches
  <1>3. pick[f] \in RowsFor(c, f)
    BY <1>2 DEF Picks
  <1>4. 0 \notin DOMAIN cb[c].report.fulfillments
    BY ReportAssumption, Lists DEF Storing, SoundRead
  <1> QED
    BY <1>3, <1>4 DEF RowsFor, Stored

LEMMA HasReportIf ==
  ASSUME NEW x, NEW report, x.by.report = report,
         report.pays =>
            \A k \in DOMAIN report.fulfillments :
               report.fulfillments[k].id \in Fulfillment /\ Located(report.fulfillments[k], "start") # {} =>
                  \E l \in DOMAIN report.fulfillments :
                     /\ report.fulfillments[l].id = report.fulfillments[k].id
                     /\ Located(report.fulfillments[l], "start") # {}
                     /\ x.fulfillments[report.fulfillments[k].id].status = report.fulfillments[l].status
  PROVE  HasReport(x)
  BY DEF HasReport

LEMMA ReportStays ==
  ASSUME NEW r, NEW x, HasReport(r), x.by = r.by,
         \A f \in Fulfillment : x.fulfillments[f].status = r.fulfillments[f].status
  PROVE  HasReport(x)
  BY DEF HasReport

LEMMA RefundsStay ==
  ASSUME NEW r, NEW x, HasRefunds(r), x.cancelledBy = r.cancelledBy, x.refund = r.refund,
         x.fulfillments = r.fulfillments, x.lines = r.lines
  PROVE  HasRefunds(x)
  <1>1. ASSUME NEW report, NEW b, HasRefund(r, report, b)
        PROVE  HasRefund(x, report, b)
    BY <1>1 DEF HasRefund
  <1> QED
    BY <1>1 DEF HasRefunds

LEMMA ReportInv ==
  ASSUME Inv, NEW c \in Callback, Storing(c), NEW hit \in Hits(c), NEW pick \in Picks(c),
         cb[c].report.kind \in {"confirm", "status"},
         NEW x, Updated(row, x),
         x.status = (IF hit THEN StatusOf(c) ELSE row.status),
         x.by = (IF hit THEN Source(c) ELSE row.by),
         x.docs # Null => x.docs \in Seq(Document), x.paid = cb[c].report.pays,
         x.refund = row.refund, x.fulfillments = ReportedFulfillments(c, pick),
         x.lines = row.lines, x.cancelledBy = row.cancelledBy
  PROVE  SoundRow(x)
  <1> DEFINE fs == x.fulfillments
             report == cb[c].report
  <1>1. /\ AllGoAsSelected(fs, row.selection)
        /\ \A f \in Fulfillment : fs[f].refunds = row.fulfillments[f].refunds
        /\ \A f \in Fulfillment : pick[f] # 0 =>
              /\ pick[f] \in Stored(c)
              /\ report.fulfillments[pick[f]].id = f
              /\ fs[f].status = report.fulfillments[pick[f]].status
        /\ row.id # cb[c].id => fs = row.fulfillments
    BY ReportedOnes
  <1>2. /\ hit \in BOOLEAN /\ (report.pays => hit = TRUE /\ row.id = cb[c].id)
        /\ (~hit => row.id # cb[c].id)
    BY PaysHits
  <1>3. x.status \in CommerceStatusType /\ x.paid \in BOOLEAN
    BY <1>2, StatusType, ReportAssumption DEF Inv, SoundRow, Storing, SoundRead
  <1>4. HasReport(x)
    <2>1. CASE hit
      <3>1. ASSUME report.pays,
                   NEW k \in DOMAIN report.fulfillments,
                   report.fulfillments[k].id \in Fulfillment,
                   Located(report.fulfillments[k], "start") # {}
            PROVE  \E l \in DOMAIN report.fulfillments :
                      /\ report.fulfillments[l].id = report.fulfillments[k].id
                      /\ Located(report.fulfillments[l], "start") # {}
                      /\ fs[report.fulfillments[k].id].status = report.fulfillments[l].status
        <4>1. row.id = cb[c].id
          BY <1>2, <3>1
        <4>2. pick[report.fulfillments[k].id] # 0
          BY <3>1, <4>1, StoredIfRead
        <4>3. pick[report.fulfillments[k].id] \in Stored(c)
          BY <1>1, <3>1, <4>2
        <4>4. /\ pick[report.fulfillments[k].id] \in DOMAIN report.fulfillments
              /\ Located(report.fulfillments[pick[report.fulfillments[k].id]], "start") # {}
          BY <4>3 DEF Stored
        <4> HIDE DEF report
        <4> QED BY <1>1, <3>1, <4>2, <4>4
      <3>2. x.by.report = report
        BY <2>1 DEF Source
      <3> HIDE DEF report
      <3>3. report.pays =>
               \A k \in DOMAIN report.fulfillments :
                  report.fulfillments[k].id \in Fulfillment /\ Located(report.fulfillments[k], "start") # {} =>
                     \E l \in DOMAIN report.fulfillments :
                        /\ report.fulfillments[l].id = report.fulfillments[k].id
                        /\ Located(report.fulfillments[l], "start") # {}
                        /\ fs[report.fulfillments[k].id].status = report.fulfillments[l].status
        BY <3>1
      <3> QED BY ONLY <3>2, <3>3, HasReportIf
    <2>2. CASE ~hit
      <3>1. x.by = row.by /\ fs = row.fulfillments /\ HasReport(row)
        BY <1>1, <1>2, <2>2 DEF Inv, SoundRow
      <3> QED BY <3>1, ReportStays
    <2> QED BY <2>1, <2>2
  <1>5. HasRefunds(x)
    <2>1. HasRefunds(row)
      BY DEF Inv, SoundRow
    <2>2. ASSUME NEW report1, NEW b, HasRefund(row, report1, b)
          PROVE  HasRefund(x, report1, b)
      BY <1>1, <2>2 DEF HasRefund
    <2> QED BY <2>1, <2>2 DEF HasRefunds
  <1> QED
    BY <1>1, <1>3, <1>4, <1>5 DEF Updated, Inv, SoundRow

(* What a cancel stores of an entry of its quote.                          *)
LEMMA RefundIsStored ==
  ASSUME NEW c \in Callback, Storing(c), row.id = cb[c].id,
         NEW x, x.fulfillments = RefundedFulfillments(c), x.lines = RefundedLines(c), Inv,
         NEW k \in DOMAIN cb[c].report.breakup, IsLast(cb[c].report.breakup, k)
  PROVE  HasRefund(x, cb[c].report, cb[c].report.breakup[k])
  <1> DEFINE report == cb[c].report
             b == report.breakup[k]
             items == {report.items[n] : n \in DOMAIN report.items} \cap Item
             fulfillments == {report.fulfillments[n].id : n \in DOMAIN report.fulfillments} \cap Fulfillment
  <1>1. RefundOf(report, b.title, b.id) = b.value
    BY LastIsRefunded, ReportAssumption DEF Storing, SoundRead
  <1>2. Matches(c) /\ cb[c].items = Item
    BY DEF Matches, Storing
  <1>3. ASSUME b.id \in items
        PROVE  x.lines[b.id] = [total |-> RefundOf(report, ItemName[b.id], b.id),
                                tax |-> RefundOf(report, "Tax", b.id),
                                discount |-> RefundOf(report, "Discount", b.id)]
    <2>1. b.id \in Item /\ \E n \in DOMAIN report.items : report.items[n] = b.id
      BY <1>3
    <2>2. RefundTitle(c, b.id) = ItemName[b.id]
      BY <1>2, <2>1 DEF RefundTitle
    <2> HIDE DEF b
    <2> QED BY <1>2, <2>1, <2>2 DEF RefundedLines
  <1>4. ASSUME b.id \in fulfillments, b.title \in Charges
        PROVE  x.fulfillments[b.id].refunds[b.title] = RefundOf(report, b.title, b.id)
    <2>1. b.id \in Fulfillment /\ \E n \in DOMAIN report.fulfillments : report.fulfillments[n].id = b.id
      BY <1>4
    <2> DEFINE rs == [t \in Charges |-> RefundOf(report, t, b.id)]
               old == row.fulfillments[b.id]
    <2>2. GoesAsSelected(b.id, old, row.selection)
      BY <2>1 DEF Inv, SoundRow, AllGoAsSelected
    <2>3. x.fulfillments[b.id] = [old EXCEPT !.refunds = rs]
      <3> HIDE DEF b
      <3> QED BY <1>2, <2>1 DEF RefundedFulfillments
    <2>4. old = [status |-> old.status, pickup |-> old.pickup, drop |-> old.drop, refunds |-> old.refunds]
      BY <2>2 DEF GoesAsSelected
    <2> HIDE DEF old
    <2>5. rs[b.title] = RefundOf(report, b.title, b.id)
      BY <1>4
    <2> HIDE DEF rs
    <2>6. x.fulfillments[b.id].refunds = rs
      BY <2>3, <2>4
    <2> QED BY <2>5, <2>6
  <1> HIDE DEF b, items, fulfillments
  <1>5. HasRefund(x, report, b)
    <2> HIDE DEF report
    <2> QED BY <1>1, <1>3, <1>4 DEF HasRefund, items, fulfillments
  <1> QED
    BY <1>5 DEF b

LEMMA RefundsLeaveDrops ==
  ASSUME Inv, NEW c \in Callback, NEW f \in Fulfillment
  PROVE  RefundedFulfillments(c)[f].drop = row.fulfillments[f].drop
  <1> DEFINE old == row.fulfillments[f]
             rs == [t \in Charges |-> RefundOf(cb[c].report, t, f)]
             y == RefundedFulfillments(c)[f]
  <1>1. y = old \/ y = [old EXCEPT !.refunds = rs]
    BY DEF RefundedFulfillments
  <1>2. old = [status |-> old.status, pickup |-> old.pickup, drop |-> old.drop, refunds |-> old.refunds]
    BY DEF Inv, SoundRow, AllGoAsSelected, GoesAsSelected
  <1> HIDE DEF old, rs, y
  <1>3. y.drop = old.drop
    BY <1>1, <1>2
  <1> QED
    BY <1>3 DEF old, y

LEMMA CancelInv ==
  ASSUME Inv, NEW c \in Callback, Storing(c), NEW hit \in Hits(c),
         NEW x, Updated(row, x),
         x.status = (IF hit THEN StatusOf(c) ELSE row.status),
         x.refund = (IF hit THEN cb[c].report.total ELSE row.refund),
         x.cancelledBy = (IF hit THEN Source(c) ELSE row.cancelledBy),
         x.docs = row.docs, x.paid = cb[c].report.pays, x.by = row.by,
         x.fulfillments = RefundedFulfillments(c), x.lines = RefundedLines(c)
  PROVE  SoundRow(x)
  <1> DEFINE report == cb[c].report
             fs == x.fulfillments
  <1>0. /\ IsFunctionOn(row.fulfillments, Fulfillment) /\ IsFunctionOn(row.lines, Item)
        /\ \A f \in Fulfillment : GoesAsSelected(f, row.fulfillments[f], row.selection)
        /\ IsFunctionOn(fs, Fulfillment) /\ IsFunctionOn(x.lines, Item)
    BY DEF Inv, SoundRow, AllGoAsSelected, IsFunctionOn, RefundedFulfillments, RefundedLines
  <1>1. ASSUME NEW f \in Fulfillment
        PROVE  /\ GoesAsSelected(f, fs[f], row.selection)
               /\ fs[f].status = row.fulfillments[f].status
    <2> DEFINE old == row.fulfillments[f]
               rs == [t \in Charges |-> RefundOf(report, t, f)]
               y == fs[f]
    <2>1. y = old \/ y = [old EXCEPT !.refunds = rs]
      BY DEF RefundedFulfillments
    <2>2. GoesAsSelected(f, old, row.selection)
      BY <1>0
    <2> HIDE DEF old, rs, y
    <2>3. y = old \/ y = [status |-> old.status, pickup |-> old.pickup, drop |-> old.drop, refunds |-> rs]
      BY <2>1, <2>2 DEF GoesAsSelected
    <2>4. /\ y = [status |-> y.status, pickup |-> y.pickup, drop |-> y.drop, refunds |-> y.refunds]
          /\ y.status = old.status /\ y.pickup = old.pickup /\ y.drop = old.drop
      BY <2>2, <2>3 DEF GoesAsSelected
    <2>5. GoesAsSelected(f, y, row.selection)
      BY <2>2, <2>4 DEF GoesAsSelected, StartIsKept, EndIsKept
    <2> QED BY <2>4, <2>5 DEF old, y
  <1>2. /\ hit \in BOOLEAN /\ (report.pays => hit = TRUE /\ row.id = cb[c].id)
        /\ (~hit => row.id # cb[c].id)
    BY PaysHits
  <1>3. x.status \in CommerceStatusType /\ x.paid \in BOOLEAN
    BY <1>2, StatusType, ReportAssumption DEF Inv, SoundRow, Storing, SoundRead
  <1>4. HasReport(x)
    <2>1. HasReport(row)
      BY DEF Inv, SoundRow
    <2> QED BY <1>1, <2>1, ReportStays
  <1>5. HasRefunds(x)
    <2>1. CASE hit /\ report.pays
      <3>1. x.cancelledBy.report = report /\ x.refund = report.total
        BY <2>1 DEF Source
      <3>2. ASSUME NEW k \in DOMAIN report.breakup, IsLast(report.breakup, k)
            PROVE  HasRefund(x, report, report.breakup[k])
        BY <1>2, <2>1, <3>2, RefundIsStored
      <3> HIDE DEF report
      <3> QED BY <3>1, <3>2 DEF HasRefunds
    <2>2. CASE hit /\ ~report.pays
      <3>1. x.cancelledBy.report = report
        BY <2>2 DEF Source
      <3> HIDE DEF report
      <3> QED BY <2>2, <3>1 DEF HasRefunds
    <2>3. CASE ~hit
      <3>1. ~Matches(c)
        BY <1>2, <2>3 DEF Matches
      <3>2. fs = row.fulfillments
        <4>1. \A f \in Fulfillment : fs[f] = row.fulfillments[f]
          BY <3>1 DEF RefundedFulfillments
        <4> QED BY <1>0, <4>1 DEF IsFunctionOn
      <3>3. x.lines = row.lines
        <4>1. \A i \in Item : x.lines[i] = row.lines[i]
          BY <3>1 DEF RefundedLines
        <4> QED BY <1>0, <4>1 DEF IsFunctionOn
      <3>4. HasRefunds(row) /\ x.cancelledBy = row.cancelledBy /\ x.refund = row.refund
        BY <2>3 DEF Inv, SoundRow
      <3> QED BY <3>2, <3>3, <3>4, RefundsStay
    <2> QED BY <2>1, <2>2, <2>3
  <1>6. AllGoAsSelected(fs, row.selection)
    BY <1>0, <1>1 DEF AllGoAsSelected
  <1> QED
    BY <1>0, <1>1, <1>3, <1>4, <1>5, <1>6 DEF Updated, Inv, SoundRow

(* The rows a report leaves, and whose they are.                           *)
LEMMA StoredRow ==
  ASSUME Inv, NEW c \in Callback, Store(c)
  PROVE  /\ SoundRow(row') /\ row'.id = row.id /\ row'.type = row.type
         /\ row'.selection = row.selection
  <1>1. Storing(c) /\ IsRow(row)
    BY StoreFacts DEF Inv, SoundRow
  <1>2. CASE OnConfirm(c)
    <2>1. PICK hit \in Hits(c), pick \in Picks(c) :
             row' = [row EXCEPT !.status = IF hit THEN StatusOf(c) ELSE @,
                                !.by = IF hit THEN Source(c) ELSE @,
                                !.paid = cb[c].report.pays,
                                !.fulfillments = ReportedFulfillments(c, pick)]
      BY <1>2 DEF OnConfirm
    <2> DEFINE a == IF hit THEN StatusOf(c) ELSE row.status
               b == IF hit THEN Source(c) ELSE row.by
               p == cb[c].report.pays
               fs == ReportedFulfillments(c, pick)
    <2>2. row' = AfterConfirm(row, a, b, p, fs)
      BY <2>1 DEF AfterConfirm
    <2> HIDE DEF a, b, p, fs
    <2>3. /\ Updated(row, row') /\ row'.status = a /\ row'.docs = row.docs /\ row'.paid = p
          /\ row'.refund = row.refund /\ row'.fulfillments = fs /\ row'.lines = row.lines
          /\ row'.by = b /\ row'.cancelledBy = row.cancelledBy
      BY <1>1, <2>2, RowOnConfirm
    <2>4. row.docs # Null => row.docs \in Seq(Document)
      BY DEF Inv, SoundRow
    <2>5. SoundRow(row')
      <3>1. \A x : /\ Updated(row, x) /\ x.status = (IF hit THEN StatusOf(c) ELSE row.status)
                   /\ x.by = (IF hit THEN Source(c) ELSE row.by)
                   /\ x.docs # Null => x.docs \in Seq(Document)
                   /\ x.paid = cb[c].report.pays /\ x.refund = row.refund
                   /\ x.fulfillments = ReportedFulfillments(c, pick)
                   /\ x.lines = row.lines /\ x.cancelledBy = row.cancelledBy
                   => SoundRow(x)
        <4>1. cb[c].report.kind \in {"confirm", "status"}
          BY <1>2 DEF OnConfirm
        <4> QED BY <1>1, <4>1, ReportInv
      <3> QED BY <2>3, <2>4, <3>1 DEF a, b, p, fs
    <2> QED BY <2>3, <2>5 DEF Updated
  <1>3. CASE OnStatus(c)
    <2>1. PICK hit \in Hits(c), pick \in Picks(c) :
             row' = [row EXCEPT !.status = IF hit THEN StatusOf(c) ELSE @,
                                !.by = IF hit THEN Source(c) ELSE @,
                                !.docs = IF ~hit THEN @
                                         ELSE IF cb[c].report.docs = Null THEN Null
                                         ELSE Merged(cb[c].docs, cb[c].report.docs),
                                !.paid = cb[c].report.pays,
                                !.fulfillments = ReportedFulfillments(c, pick)]
      BY <1>3 DEF OnStatus
    <2> DEFINE a == IF hit THEN StatusOf(c) ELSE row.status
               b == IF hit THEN Source(c) ELSE row.by
               d == IF ~hit THEN row.docs ELSE IF cb[c].report.docs = Null THEN Null
                    ELSE Merged(cb[c].docs, cb[c].report.docs)
               p == cb[c].report.pays
               fs == ReportedFulfillments(c, pick)
    <2>2. row' = AfterStatus(row, a, b, d, p, fs)
      BY <2>1 DEF AfterStatus
    <2> HIDE DEF a, b, p, fs
    <2>4. d # Null => d \in Seq(Document)
      BY <1>1, MergedType DEF Inv, SoundRow
    <2> HIDE DEF d
    <2>3. /\ Updated(row, row') /\ row'.status = a /\ row'.docs = d /\ row'.paid = p
          /\ row'.refund = row.refund /\ row'.fulfillments = fs /\ row'.lines = row.lines
          /\ row'.by = b /\ row'.cancelledBy = row.cancelledBy
      BY <1>1, <2>2, RowOnStatus
    <2>5. SoundRow(row')
      <3>1. \A x : /\ Updated(row, x) /\ x.status = (IF hit THEN StatusOf(c) ELSE row.status)
                   /\ x.by = (IF hit THEN Source(c) ELSE row.by)
                   /\ x.docs # Null => x.docs \in Seq(Document)
                   /\ x.paid = cb[c].report.pays /\ x.refund = row.refund
                   /\ x.fulfillments = ReportedFulfillments(c, pick)
                   /\ x.lines = row.lines /\ x.cancelledBy = row.cancelledBy
                   => SoundRow(x)
        <4>1. cb[c].report.kind \in {"confirm", "status"}
          BY <1>3 DEF OnStatus
        <4> QED BY <1>1, <4>1, ReportInv
      <3> QED BY <2>3, <2>4, <3>1 DEF a, b, p, fs
    <2> QED BY <2>3, <2>5 DEF Updated
  <1>4. CASE OnCancel(c)
    <2>1. PICK hit \in Hits(c) :
             row' = [row EXCEPT !.status = IF hit THEN StatusOf(c) ELSE @,
                                !.refund = IF hit THEN cb[c].report.total ELSE @,
                                !.cancelledBy = IF hit THEN Source(c) ELSE @,
                                !.paid = cb[c].report.pays,
                                !.fulfillments = RefundedFulfillments(c),
                                !.lines = RefundedLines(c)]
      BY <1>4 DEF OnCancel
    <2> DEFINE a == IF hit THEN StatusOf(c) ELSE row.status
               b == IF hit THEN Source(c) ELSE row.cancelledBy
               d == IF hit THEN cb[c].report.total ELSE row.refund
               p == cb[c].report.pays
               fs == RefundedFulfillments(c)
               ls == RefundedLines(c)
    <2>2. row' = AfterCancel(row, a, d, b, p, fs, ls)
      BY <2>1 DEF AfterCancel
    <2> HIDE DEF a, b, d, p, fs, ls
    <2>3. /\ Updated(row, row') /\ row'.status = a /\ row'.docs = row.docs /\ row'.paid = p
          /\ row'.refund = d /\ row'.fulfillments = fs /\ row'.lines = ls
          /\ row'.by = row.by /\ row'.cancelledBy = b
      BY <1>1, <2>2, RowOnCancel
    <2>5. SoundRow(row')
      <3>1. \A x : /\ Updated(row, x) /\ x.status = (IF hit THEN StatusOf(c) ELSE row.status)
                   /\ x.refund = (IF hit THEN cb[c].report.total ELSE row.refund)
                   /\ x.cancelledBy = (IF hit THEN Source(c) ELSE row.cancelledBy)
                   /\ x.docs = row.docs /\ x.paid = cb[c].report.pays /\ x.by = row.by
                   /\ x.fulfillments = RefundedFulfillments(c) /\ x.lines = RefundedLines(c)
                   => SoundRow(x)
        BY <1>1, CancelInv
      <3> QED BY <2>3, <3>1 DEF a, b, d, p, fs, ls
    <2> QED BY <2>3, <2>5 DEF Updated
  <1>5. CASE OnUpdate(c)
    <2> DEFINE p == cb[c].report.pays
    <2>1. row' = [row EXCEPT !.paid = p]
      BY <1>5 DEF OnUpdate
    <2>2. p \in BOOLEAN
      BY <1>1, ReportAssumption DEF Storing, SoundRead
    <2> HIDE DEF p
    <2>3. /\ Updated(row, row') /\ row'.status = row.status /\ row'.docs = row.docs /\ row'.paid = p
          /\ row'.refund = row.refund /\ row'.fulfillments = row.fulfillments
          /\ row'.lines = row.lines /\ row'.by = row.by /\ row'.cancelledBy = row.cancelledBy
      BY <1>1, <2>1, RowOnUpdate
    <2>4. \A x : /\ Updated(row, x) /\ x.status = row.status /\ x.docs = row.docs /\ x.paid = p
                 /\ x.refund = row.refund /\ x.fulfillments = row.fulfillments
                 /\ x.lines = row.lines /\ x.by = row.by /\ x.cancelledBy = row.cancelledBy
                 => SoundRow(x)
      BY <2>2, ReportStays, RefundsStay DEF Inv, SoundRow, Updated
    <2> QED BY <2>3, <2>4 DEF Updated
  <1> QED
    BY <1>2, <1>3, <1>4, <1>5 DEF Store

LEMMA StoreInv ==
  ASSUME Inv, NEW c \in Callback, Store(c)
  PROVE  Inv'
  <1>1. /\ SoundRow(row') /\ row'.id = row.id /\ row'.type = row.type
        /\ row'.selection = row.selection
    BY StoredRow
  <1>2. nextId' = nextId /\ cb' = [cb EXCEPT ![c] = Null]
    BY DEF Store
  <1>3. IsFunctionOn(cb', Callback) /\ cb'[c] = Null /\ \A d \in Callback \ {c} : cb'[d] = cb[d]
    BY <1>2 DEF Inv, IsFunctionOn
  <1>4. \A x : SoundRead(x, row) => SoundRead(x, row')
    BY <1>1 DEF SoundRead
  <1> QED
    BY <1>1, <1>2, <1>3, <1>4 DEF Inv

LEMMA NextInv == Inv /\ [Next]_vars => Inv'
  <1> SUFFICES ASSUME Inv, [Next]_vars PROVE Inv'
    OBVIOUS
  <1>1. CASE Reselect
    BY <1>1, ReselectInv
  <1>2. ASSUME NEW c \in Callback, NEW report \in Report, ReadOrder(c, report) PROVE Inv'
    BY <1>2, ReadOrderInv
  <1>3. ASSUME NEW c \in Callback, ReadParts(c) PROVE Inv'
    BY <1>3, ReadPartsInv
  <1>4. ASSUME NEW c \in Callback, Store(c) PROVE Inv'
    BY <1>4, StoreInv
  <1>5. ASSUME NEW c \in Callback, Fail(c) PROVE Inv'
    BY <1>5, ReadsInv DEF Fail
  <1>6. CASE UNCHANGED vars
    BY <1>6 DEF vars, Inv
  <1> QED
    BY <1>1, <1>2, <1>3, <1>4, <1>5, <1>6 DEF Next

(* The invariant of OrderReports: the row has the addresses of its         *)
(* selection, the states and refunds of the reports it names, and every    *)
(* callback that read an order still there has that order's addresses.     *)
THEOREM InvariantHolds == Spec => []Inv
  <1> QED
    BY InitInv, NextInv, PTL DEF Spec

-----------------------------------------------------------------------------
(* What the invariant says.                                                *)

LEMMA Addresses ==
  ASSUME NEW f, NEW s \in Selection, NEW x, GoesAsSelected(f, x, s)
  PROVE  /\ x.pickup.address \in Place /\ x.pickup.gps \in Place /\ x.pickup.area \in Place
         /\ x.drop # Null => x.drop.address \in Place \cup {Null}
  <1>1. s.pickup \in Place /\ s.drop \in Place \cup {Null}
    BY SelectionAssumption
  <1>2. /\ x.pickup.address = s.pickup /\ x.pickup.gps \in Place /\ x.pickup.area \in Place
        /\ EndIsKept(f, x, s)
    BY DEF GoesAsSelected, StartIsKept
  <1> QED
    BY <1>1, <1>2, AddressOfEnd

(* Every reachable state is well typed: whatever is reported, an order has *)
(* its fulfillments and lines, with a place to collect them at.            *)
THEOREM TypeCorrect == Spec => []TypeOK
  <1>1. Inv => TypeOK
    <2> SUFFICES ASSUME Inv PROVE TypeOK
      OBVIOUS
    <2>1. /\ DOMAIN row.fulfillments = Fulfillment /\ DOMAIN row.lines = Item
          /\ row.type \in OrderType /\ row.status \in CommerceStatusType /\ row.paid \in BOOLEAN
      BY DEF Inv, SoundRow, AllGoAsSelected, IsFunctionOn
    <2>2. ASSUME NEW f \in Fulfillment
          PROVE  /\ row.fulfillments[f].pickup.address \in Place
                 /\ row.fulfillments[f].pickup.gps \in Place
                 /\ row.fulfillments[f].pickup.area \in Place
      <3>1. row.selection \in Selection /\ GoesAsSelected(f, row.fulfillments[f], row.selection)
        BY DEF Inv, SoundRow, AllGoAsSelected
      <3> QED BY <3>1, Addresses
    <2>3. ASSUME NEW c \in Callback, cb[c] # Null
          PROVE  /\ cb[c].report \in Report /\ cb[c].id \in 0 .. row.id
                 /\ cb[c].id = row.id => cb[c].type = row.type
      BY <2>3 DEF Inv, SoundRead
    <2> QED
      BY <2>1, <2>2, <2>3 DEF Inv, TypeOK
  <1> QED
    BY <1>1, InvariantHolds, PTL

(* However late a report is stored and whatever order it was merged with, *)
(* the addresses stay those of the selection, and gps and area code are    *)
(* what was selected or what was reported of the same fulfillment, those   *)
(* of the start with the status they came with.                            *)
THEOREM AddressesKept == Spec => []AddressesAreKept
  <1>1. Inv => AddressesAreKept
    BY DEF Inv, SoundRow, AllGoAsSelected, GoesAsSelected, AddressesAreKept
  <1> QED
    BY <1>1, InvariantHolds, PTL

(* A status from a report with payments comes with that report's           *)
(* fulfillment states.                                                     *)
THEOREM ReportsWhole == Spec => []ReportsAreWhole
  <1>1. Inv => ReportsAreWhole
    BY DEF Inv, SoundRow, HasReport, ReportsAreWhole
  <1> QED
    BY <1>1, InvariantHolds, PTL

(* A cancelled order with payments has the refund total of its on_cancel,  *)
(* and the last refund of each line, tax, discount and charge.             *)
THEOREM RefundsWhole == Spec => []RefundsAreWhole
  <1>1. Inv => RefundsAreWhole
    BY DEF Inv, SoundRow, HasRefunds, HasRefund, RefundsAreWhole
  <1> QED
    BY <1>1, InvariantHolds, PTL

-----------------------------------------------------------------------------
(* What a step may lose.                                                   *)

(* The documents and drop offs a report leaves, by its kind.               *)
LEMMA KindsOfStore ==
  ASSUME Inv, NEW c \in Callback, Store(c)
  PROVE  /\ Storing(c) /\ cb'[c] = Null
         /\ cb[c].report.kind # "status" =>
               /\ row'.docs = row.docs
               /\ \A f \in Fulfillment : row'.fulfillments[f].drop = row.fulfillments[f].drop
         /\ cb[c].report.kind = "status" =>
               /\ row'.docs = row.docs \/ cb[c].report.docs = Null
                  \/ row'.docs = Merged(cb[c].docs, cb[c].report.docs)
               /\ \E pick \in Picks(c) : row'.fulfillments = ReportedFulfillments(c, pick)
  <1>0. Storing(c) /\ IsRow(row) /\ cb'[c] = Null
    BY StoreFacts DEF Inv, SoundRow, Store, IsFunctionOn
  <1> DEFINE p == cb[c].report.pays
  <1>1. CASE OnConfirm(c)
    <2>1. PICK hit \in Hits(c), pick \in Picks(c) :
             row' = [row EXCEPT !.status = IF hit THEN StatusOf(c) ELSE @,
                                !.by = IF hit THEN Source(c) ELSE @,
                                !.paid = cb[c].report.pays,
                                !.fulfillments = ReportedFulfillments(c, pick)]
      BY <1>1 DEF OnConfirm
    <2> DEFINE a == IF hit THEN StatusOf(c) ELSE row.status
               b == IF hit THEN Source(c) ELSE row.by
               fs == ReportedFulfillments(c, pick)
    <2>2. row' = AfterConfirm(row, a, b, p, fs)
      BY <2>1 DEF AfterConfirm
    <2> HIDE DEF a, b, p, fs
    <2>3. row'.docs = row.docs /\ row'.fulfillments = fs
      BY <1>0, <2>2, RowOnConfirm
    <2>4. cb[c].report.kind = "confirm"
      BY <1>1 DEF OnConfirm
    <2>5. ASSUME NEW f \in Fulfillment
          PROVE  fs[f].drop = row.fulfillments[f].drop
      <3>1. fs = ReportedFulfillments(c, pick)
        BY DEF fs
      <3>2. /\ pick[f] = 0 => fs[f] = row.fulfillments[f]
            /\ pick[f] # 0 =>
                  fs[f].drop = NewDrop(cb[c].report.kind, cb[c].report.fulfillments[pick[f]],
                                       cb[c].fulfillments[f], row.fulfillments[f].drop)
        BY <1>0, <2>4, <3>1, ReportedOnes
      <3> QED BY <2>4, <3>2 DEF NewDrop
    <2> QED BY <1>0, <2>3, <2>4, <2>5
  <1>2. CASE OnStatus(c)
    <2>1. PICK hit \in Hits(c), pick \in Picks(c) :
             row' = [row EXCEPT !.status = IF hit THEN StatusOf(c) ELSE @,
                                !.by = IF hit THEN Source(c) ELSE @,
                                !.docs = IF ~hit THEN @
                                         ELSE IF cb[c].report.docs = Null THEN Null
                                         ELSE Merged(cb[c].docs, cb[c].report.docs),
                                !.paid = cb[c].report.pays,
                                !.fulfillments = ReportedFulfillments(c, pick)]
      BY <1>2 DEF OnStatus
    <2> DEFINE a == IF hit THEN StatusOf(c) ELSE row.status
               b == IF hit THEN Source(c) ELSE row.by
               d == IF ~hit THEN row.docs ELSE IF cb[c].report.docs = Null THEN Null
                    ELSE Merged(cb[c].docs, cb[c].report.docs)
               fs == ReportedFulfillments(c, pick)
    <2>2. row' = AfterStatus(row, a, b, d, p, fs)
      BY <2>1 DEF AfterStatus
    <2> HIDE DEF a, b, d, p, fs
    <2>3. row'.docs = d /\ row'.fulfillments = fs
      BY <1>0, <2>2, RowOnStatus
    <2>4. cb[c].report.kind = "status"
      BY <1>2 DEF OnStatus
    <2> QED BY <1>0, <2>3, <2>4 DEF d, fs
  <1>3. CASE OnCancel(c)
    <2>1. PICK hit \in Hits(c) :
             row' = [row EXCEPT !.status = IF hit THEN StatusOf(c) ELSE @,
                                !.refund = IF hit THEN cb[c].report.total ELSE @,
                                !.cancelledBy = IF hit THEN Source(c) ELSE @,
                                !.paid = cb[c].report.pays,
                                !.fulfillments = RefundedFulfillments(c),
                                !.lines = RefundedLines(c)]
      BY <1>3 DEF OnCancel
    <2> DEFINE a == IF hit THEN StatusOf(c) ELSE row.status
               b == IF hit THEN Source(c) ELSE row.cancelledBy
               d == IF hit THEN cb[c].report.total ELSE row.refund
               fs == RefundedFulfillments(c)
               ls == RefundedLines(c)
    <2>2. row' = AfterCancel(row, a, d, b, p, fs, ls)
      BY <2>1 DEF AfterCancel
    <2> HIDE DEF a, b, d, p, fs, ls
    <2>3. row'.docs = row.docs /\ row'.fulfillments = fs
      BY <1>0, <2>2, RowOnCancel
    <2>4. cb[c].report.kind = "cancel"
      BY <1>3 DEF OnCancel
    <2>5. \A f \in Fulfillment : fs[f].drop = row.fulfillments[f].drop
      BY RefundsLeaveDrops DEF fs
    <2> QED BY <1>0, <2>3, <2>4, <2>5
  <1>4. CASE OnUpdate(c)
    <2>1. row' = [row EXCEPT !.paid = p]
      BY <1>4 DEF OnUpdate
    <2> HIDE DEF p
    <2>2. row'.docs = row.docs /\ row'.fulfillments = row.fulfillments
      BY <1>0, <2>1, RowOnUpdate
    <2>3. cb[c].report.kind = "update"
      BY <1>4 DEF OnUpdate
    <2> QED BY <1>0, <2>2, <2>3
  <1> QED
    BY <1>1, <1>2, <1>3, <1>4 DEF Store

(* A document of an order, the last of its type, is lost only through a    *)
(* status report that has none, or that was merged with others.            *)
THEOREM DocumentsKept == Spec => DocumentsAreKept
  <1> DEFINE Step ==
        row.docs # Null /\ row'.id = row.id =>
            \A k \in DOMAIN row.docs :
                \/ \E l \in DOMAIN row.docs : l > k /\ row.docs[l].type = row.docs[k].type
                \/ row'.docs # Null /\ \E l \in DOMAIN row'.docs : row'.docs[l] = row.docs[k]
                \/ \E c \in Callback : Finishes(c, "status") /\ (cb[c].report.docs = Null \/ cb[c].docs # row.docs)
  <1>1. Inv /\ [Next]_vars => [Step]_vars
    <2> SUFFICES ASSUME Inv, [Next]_vars, row.docs # Null, row'.id = row.id,
                        NEW k \in DOMAIN row.docs,
                        ~ \E l \in DOMAIN row.docs : l > k /\ row.docs[l].type = row.docs[k].type,
                        ~ \E c \in Callback : /\ Finishes(c, "status")
                                              /\ cb[c].report.docs = Null \/ cb[c].docs # row.docs
                 PROVE  row'.docs # Null /\ \E l \in DOMAIN row'.docs : row'.docs[l] = row.docs[k]
      OBVIOUS
    <2>1. CASE row'.docs = row.docs
      BY <2>1
    <2>2. ASSUME NEW c \in Callback, Store(c), row'.docs # row.docs
          PROVE  row'.docs # Null /\ \E l \in DOMAIN row'.docs : row'.docs[l] = row.docs[k]
      <3>1. /\ Storing(c) /\ cb'[c] = Null /\ cb[c].report.kind = "status"
            /\ cb[c].report.docs = Null \/ row'.docs = Merged(cb[c].docs, cb[c].report.docs)
        BY <2>2, KindsOfStore
      <3>2. Finishes(c, "status")
        BY <3>1 DEF Finishes, Storing
      <3>3. cb[c].report.docs # Null /\ cb[c].docs = row.docs
        BY <3>2
      <3> DEFINE new == cb[c].report.docs
                 old == row.docs
      <3>4. old \in Seq(Document) /\ new \in Seq(Document)
        BY <3>1, <3>3, ReportedDocuments DEF Inv, SoundRow
      <3>5. \A l \in DOMAIN old : old[l].type = old[k].type => l <= k
        <4>1. \A l \in DOMAIN old : l \in Nat
          <5> HIDE DEF old
          <5> QED BY <3>4
        <4> QED BY <4>1
      <3>6. row'.docs = Merged(old, new)
        BY <3>1, <3>3
      <3>7. k \in DOMAIN old /\ old # Null
        OBVIOUS
      <3> HIDE DEF new, old
      <3>8. \E l \in DOMAIN Merged(old, new) : Merged(old, new)[l] = old[k]
        BY <3>4, <3>5, <3>7, MergedKeeps
      <3>9. Merged(old, new) # Null
        BY <3>4, <3>7, MergedIsList, NullAssumption
      <3> QED BY <3>6, <3>8, <3>9 DEF old
    <2>3. CASE Reselect
      BY <2>3, ReselectInv
    <2>4. CASE UNCHANGED row
      BY <2>4, <2>1
    <2> QED
      BY <2>1, <2>2, <2>3, <2>4 DEF Next, vars, ReadOrder, ReadParts, Fail
  <1> QED
    BY <1>1, InvariantHolds, PTL DEF Spec, DocumentsAreKept

(* A drop off is lost only through a status report that has no end for it, *)
(* or whose handler read a fulfillment without one.                        *)
THEOREM DropOffsKept == Spec => DropOffsAreKept
  <1> DEFINE Step ==
        row'.id = row.id =>
            \A f \in Fulfillment : row.fulfillments[f].drop # Null /\ row'.fulfillments[f].drop = Null =>
                \E c \in Callback :
                    /\ Finishes(c, "status")
                    /\ \/ cb[c].fulfillments[f].drop = Null
                       \/ \E k \in Stored(c) : /\ cb[c].report.fulfillments[k].id = f
                                               /\ Located(cb[c].report.fulfillments[k], "end") = {}
  <1>1. Inv /\ [Next]_vars => [Step]_vars
    <2> SUFFICES ASSUME Inv, [Next]_vars, row'.id = row.id, NEW f \in Fulfillment,
                        row.fulfillments[f].drop # Null, row'.fulfillments[f].drop = Null
                 PROVE  \E c \in Callback :
                           /\ Finishes(c, "status")
                           /\ \/ cb[c].fulfillments[f].drop = Null
                              \/ \E k \in Stored(c) : /\ cb[c].report.fulfillments[k].id = f
                                                      /\ Located(cb[c].report.fulfillments[k], "end") = {}
      OBVIOUS
    <2>1. ASSUME NEW c \in Callback, Store(c)
          PROVE  /\ Finishes(c, "status")
                 /\ \/ cb[c].fulfillments[f].drop = Null
                    \/ \E k \in Stored(c) : /\ cb[c].report.fulfillments[k].id = f
                                            /\ Located(cb[c].report.fulfillments[k], "end") = {}
      <3>1. /\ Storing(c) /\ cb'[c] = Null /\ cb[c].report.kind = "status"
            /\ \E pick \in Picks(c) : row'.fulfillments = ReportedFulfillments(c, pick)
        BY <2>1, KindsOfStore
      <3>2. Finishes(c, "status")
        BY <3>1 DEF Finishes, Storing
      <3>3. PICK pick \in Picks(c) : row'.fulfillments = ReportedFulfillments(c, pick)
        BY <3>1
      <3> DEFINE fs == row'.fulfillments
      <3>4. /\ pick[f] = 0 => fs[f] = row.fulfillments[f]
            /\ pick[f] # 0 =>
                  /\ pick[f] \in Stored(c) /\ cb[c].report.fulfillments[pick[f]].id = f
                  /\ fs[f].drop = NewDrop(cb[c].report.kind, cb[c].report.fulfillments[pick[f]],
                                          cb[c].fulfillments[f], row.fulfillments[f].drop)
        <4> HIDE DEF fs
        <4>1. fs = ReportedFulfillments(c, pick)
          BY <3>3 DEF fs
        <4> QED BY <3>1, <4>1, ReportedOnes
      <3>5. pick[f] # 0
        BY <3>4
      <3> DEFINE new == cb[c].report.fulfillments[pick[f]]
                 read == cb[c].fulfillments[f]
      <3>6. NewDrop("status", new, read, row.fulfillments[f].drop) = Null
        BY <3>1, <3>4, <3>5
      <3>7. read.drop = Null \/ Located(new, "end") = {}
        <4>1. SUFFICES ASSUME read.drop # Null, Located(new, "end") # {} PROVE FALSE
          OBVIOUS
        <4>2. /\ pick[f] \in DOMAIN cb[c].report.fulfillments /\ cb[c].report \in Report
              /\ row.id = cb[c].id
          BY <3>1, <3>3, <3>4, <3>5, ReportedOnes DEF Stored, Storing, SoundRead
        <4>3. StopAt(new, "end").gps \in Place /\ StopAt(new, "end").area \in Place \cup {Null}
          BY <4>1, <4>2, PlaceOfStop
        <4>4. read.drop.address \in Place \cup {Null}
          <5>1. row.selection \in Selection /\ GoesAsSelected(f, read, row.selection)
            BY <3>1, <4>2 DEF Storing, AllGoAsSelected, Inv, SoundRow
          <5> HIDE DEF read
          <5> QED BY <4>1, <5>1, Addresses
        <4>5. [address |-> read.drop.address, gps |-> StopAt(new, "end").gps,
               area |-> StopAt(new, "end").area] = Null
          BY <3>6, <4>1 DEF NewDrop
        <4> QED BY <4>3, <4>4, <4>5, NullAssumption
      <3> QED BY <3>2, <3>4, <3>5, <3>7
    <2>2. CASE Reselect
      BY <2>2, ReselectInv
    <2>3. CASE UNCHANGED row
      BY <2>3
    <2> QED
      BY <2>1, <2>2, <2>3 DEF Next, vars, ReadOrder, ReadParts, Fail
  <1> QED
    BY <1>1, InvariantHolds, PTL DEF Spec, DropOffsAreKept

-----------------------------------------------------------------------------
(* Payments: the steps of PaymentFlow on the variables of PaymentTable.     *)

CONSTANTS Creator, Notifier, MaxCreated, MaxPayments

VARIABLES orderId, payable, nextPayment, creator, notifier, reports

Pay == INSTANCE PaymentFlow WITH MaxRows <- MaxPayments, nextId <- nextPayment, cb <- reports

(* Whatever names a payment order names one of the service.                *)
Real == 1 .. created

RealInv ==
    /\ payment.po \in Real \cup {None}
    /\ \A a \in answered : a.po \in Real
    /\ \A notice \in notices : notice.po \in Real
    /\ \A c \in Creator :
          /\ creator[c].pc = "ask" => creator[c].row.po \in Real
          /\ creator[c].pc \in {"create", "store"} => creator[c].row.po = None
          /\ creator[c].pc = "store" => creator[c].po \in Real
    /\ \A c \in Callback : reports[c] # Pay!Off => reports[c].po \in Real \cup {None}

(* A notification writes what the service said.                            *)
NoticeInv == \A n \in Notifier : notifier[n] # Pay!Off => notifier[n].notice \in notices

(* Row ids are fresh.                                                      *)
IdInv ==
    /\ payment.id < nextPayment
    /\ \A a \in answered : a.row < nextPayment
    /\ \A c \in Creator :
          creator[c].pc \in {"ask", "create", "store"} => creator[c].row.id < nextPayment

(* The payment orders a row was seen with: told to the buyer or about to   *)
(* be.  Without a race there is one for each row, and none for the row     *)
(* that has none.                                                          *)
Seen(id, po) ==
    \/ [po |-> po, row |-> id] \in answered
    \/ \E c \in Creator :
          creator[c].pc = "ask" /\ creator[c].row.id = id /\ creator[c].row.po = po

OneInv ==
    ~raced =>
        /\ \A id \in Nat, p, q \in Nat : Seen(id, p) /\ Seen(id, q) => p = q
        /\ \A p \in Nat : Seen(payment.id, p) => payment.po = p

PaymentInv == Pay!TypeOK /\ RealInv /\ NoticeInv /\ IdInv /\ OneInv /\ StatusHasCause

LEMMA PaymentInit == Pay!Init => PaymentInv
  <1> SUFFICES ASSUME Pay!Init PROVE PaymentInv
    OBVIOUS
  <1>1. Pay!TypeOK
    BY DEF Pay!Init, Pay!TypeOK, Pay!Payment, Pay!PaymentStatus, Pay!CollectedBy, Pay!PaymentOrder
  <1>2. RealInv /\ NoticeInv /\ IdInv /\ StatusHasCause
    BY DEF Pay!Init, RealInv, NoticeInv, IdInv, StatusHasCause, Pay!Off
  <1>3. \A id, p : ~Seen(id, p)
    BY DEF Pay!Init, Seen, Pay!Off
  <1> QED BY <1>1, <1>2, <1>3 DEF PaymentInv, OneInv

(* A step that only moves creations on, none of which comes to ask for the *)
(* payment order of its row, changes no payment order a row was seen with. *)
LEMMA CreatorsMove ==
  ASSUME PaymentInv, NEW c \in Creator, NEW w,
         creator' = [creator EXCEPT ![c] = w], w.pc # "ask",
         UNCHANGED <<payment, answered, raced>>
  PROVE  OneInv'
  <1>1. creator \in [Creator -> Pay!Creating \cup {Pay!Off}]
    BY DEF PaymentInv, Pay!TypeOK
  <1>2. \A d \in Creator : creator'[d].pc = "ask" => creator'[d] = creator[d]
    BY <1>1
  <1>3. \A id, p : Seen(id, p)' => Seen(id, p)
    BY <1>2 DEF Seen
  <1> QED BY <1>3 DEF PaymentInv, OneInv

LEMMA PaymentNext ==
  ASSUME PaymentInv, [Pay!Next]_Pay!vars
  PROVE  PaymentInv'
  <1> USE NoneAssumption
  <1>1. ASSUME NEW c \in Creator, Pay!StartCreation(c) PROVE PaymentInv'
    <2> USE <1>1 DEF Pay!StartCreation, Pay!tables, Pay!service
    <2>1. Pay!TypeOK'
      BY DEF PaymentInv, Pay!TypeOK, Pay!Creating
    <2>2. RealInv'
      BY DEF PaymentInv, Pay!TypeOK, RealInv, Real
    <2>3. NoticeInv' /\ StatusHasCause'
      BY DEF PaymentInv, NoticeInv, StatusHasCause
    <2>4. IdInv'
      BY DEF PaymentInv, Pay!TypeOK, IdInv
    <2>5. OneInv'
      <3>1. PICK w : w.pc # "ask" /\ creator' = [creator EXCEPT ![c] = w]
        OBVIOUS
      <3> QED BY <3>1, CreatorsMove
    <2> QED BY <2>1, <2>2, <2>3, <2>4, <2>5 DEF PaymentInv
  <1>2. ASSUME NEW c \in Creator, Pay!ReadPayment(c) PROVE PaymentInv'
    <2> USE <1>2 DEF Pay!ReadPayment, Pay!tables, Pay!service
    <2>0. PICK pc \in {"ask", "create"} :
            /\ creator' = [creator EXCEPT ![c] = [pc |-> pc, row |-> payment]]
            /\ pc = "ask" <=> payment.po # None
      OBVIOUS
    <2>1. Pay!TypeOK'
      BY <2>0 DEF PaymentInv, Pay!TypeOK, Pay!Creating
    <2>2. RealInv'
      BY <2>0 DEF PaymentInv, Pay!TypeOK, RealInv, Real
    <2>3. NoticeInv' /\ StatusHasCause'
      BY DEF PaymentInv, NoticeInv, StatusHasCause
    <2>4. IdInv'
      BY <2>0 DEF PaymentInv, Pay!TypeOK, IdInv
    <2>5. OneInv'
      <3>1. CASE pc = "create"
        BY <2>0, <3>1, CreatorsMove
      <3>2. CASE pc = "ask"
        <4>1. \A id, p : Seen(id, p)' =>
                 Seen(id, p) \/ (id = payment.id /\ p = payment.po)
          BY <2>0, <3>2 DEF PaymentInv, Pay!TypeOK, Seen
        <4>2. payment.id \in Nat /\ payment.po \in Nat
          BY <2>0, <3>2 DEF PaymentInv, Pay!TypeOK, Pay!Payment, Pay!PaymentOrder
        <4> QED BY <4>1, <4>2 DEF PaymentInv, OneInv
      <3> QED BY <2>0, <3>1, <3>2
    <2> QED BY <2>1, <2>2, <2>3, <2>4, <2>5 DEF PaymentInv
  <1>3. ASSUME NEW c \in Creator, Pay!AnswerStored(c) PROVE PaymentInv'
    <2> USE <1>3 DEF Pay!AnswerStored, Pay!tables
    <2>0. /\ creator[c].row.po \in Real /\ creator[c].row.po \in Nat
          /\ creator[c].row \in Pay!Payment /\ creator[c].row.id \in Nat
          /\ creator[c].row.id < nextPayment
      BY DEF PaymentInv, Pay!TypeOK, Pay!Creating, Pay!Off, RealInv, Real, IdInv, Pay!Payment
    <2>1. Pay!TypeOK'
      BY <2>0 DEF PaymentInv, Pay!TypeOK, Pay!PaymentOrder
    <2>2. RealInv'
      BY <2>0 DEF PaymentInv, Pay!TypeOK, RealInv, Real, Pay!Off
    <2>3. NoticeInv' /\ StatusHasCause'
      BY DEF PaymentInv, NoticeInv, StatusHasCause
    <2>4. IdInv'
      BY <2>0 DEF PaymentInv, Pay!TypeOK, IdInv, Pay!Off
    <2>5. OneInv'
      <3>1. \A id, p : Seen(id, p)' => Seen(id, p)
        BY <2>0 DEF PaymentInv, Pay!TypeOK, Seen, Pay!Off
      <3> QED BY <3>1 DEF PaymentInv, OneInv
    <2> QED BY <2>1, <2>2, <2>3, <2>4, <2>5 DEF PaymentInv
  <1>4. ASSUME NEW c \in Creator, Pay!CreatePaymentOrder(c) PROVE PaymentInv'
    <2> USE <1>4 DEF Pay!CreatePaymentOrder, Pay!tables
    <2>0. /\ creator[c].row \in Pay!Payment /\ creator[c].row.po = None
          /\ creator[c].row.id < nextPayment
          /\ created \in Nat /\ created + 1 \in Real' /\ Real \subseteq Real'
          /\ created + 1 \in Nat
      BY DEF PaymentInv, Pay!TypeOK, Pay!Creating, Pay!Off, RealInv, Real, IdInv
    <2>00. PICK w : /\ creator' = [creator EXCEPT ![c] = w]
                    /\ \/ w = [pc |-> "store", row |-> creator[c].row, po |-> created + 1]
                       \/ w = Pay!Off
      OBVIOUS
    <2>1. Pay!TypeOK'
      BY <2>0, <2>00 DEF PaymentInv, Pay!TypeOK, Pay!PaymentOrder, Pay!Creating, Pay!Off
    <2>2. RealInv'
      BY <2>0, <2>00 DEF PaymentInv, Pay!TypeOK, RealInv, Pay!Off
    <2>3. NoticeInv' /\ StatusHasCause'
      BY DEF PaymentInv, NoticeInv, StatusHasCause
    <2>4. IdInv'
      BY <2>0, <2>00 DEF PaymentInv, Pay!TypeOK, IdInv, Pay!Off
    <2>5. OneInv'
      BY <2>00, CreatorsMove DEF Pay!Off
    <2> QED BY <2>1, <2>2, <2>3, <2>4, <2>5 DEF PaymentInv
  <1>5. ASSUME NEW c \in Creator, Pay!StorePaymentOrder(c) PROVE PaymentInv'
    <2> DEFINE w == creator[c]
    <2> USE <1>5 DEF Pay!StorePaymentOrder
    <2>0. /\ w.pc = "store" /\ w.row \in Pay!Payment /\ w.row.po = None
          /\ w.row.id \in Nat /\ w.row.id < nextPayment
          /\ w.po \in Real /\ w.po \in Nat
      BY DEF PaymentInv, Pay!TypeOK, Pay!Creating, Pay!Off, RealInv, Real, IdInv, Pay!Payment, Pay!PaymentOrder
    <2>00. /\ payment'.id = payment.id /\ payment'.status = payment.status
           /\ payment' \in Pay!Payment
           /\ payment'.po \in {payment.po, w.po}
           /\ payment.id = w.row.id => payment'.po = w.po
      BY <2>0 DEF PaymentInv, Pay!TypeOK, Pay!Payment, Pay!PaymentOrder
    <2>1. Pay!TypeOK'
      BY <2>0, <2>00 DEF PaymentInv, Pay!TypeOK, Pay!PaymentOrder
    <2>2. RealInv'
      BY <2>0, <2>00 DEF PaymentInv, Pay!TypeOK, RealInv, Real, Pay!Off
    <2>3. NoticeInv'
      BY DEF PaymentInv, NoticeInv
    <2>4. IdInv'
      BY <2>0, <2>00 DEF PaymentInv, Pay!TypeOK, IdInv, Pay!Off
    <2>5. ASSUME ~raced'
          PROVE  ~raced /\ payment.id = w.row.id /\ payment.po = None
      BY <2>0, <2>5
    <2>6. OneInv'
      <3> SUFFICES ASSUME ~raced'
                   PROVE  /\ \A id \in Nat, p, q \in Nat :
                                Seen(id, p)' /\ Seen(id, q)' => p = q
                          /\ \A p \in Nat : Seen(payment.id, p)' => payment'.po = p
        BY DEF OneInv
      <3>1. \A id, p : Seen(id, p)' => Seen(id, p) \/ (id = payment.id /\ p = w.po)
        BY <2>0, <2>5 DEF PaymentInv, Pay!TypeOK, Seen, Pay!Off
      <3>2. \A p \in Nat : ~Seen(payment.id, p)
        BY <2>5 DEF PaymentInv, OneInv
      <3>3. payment'.po = w.po /\ payment'.id = payment.id
        BY <2>5, <2>00
      <3> QED BY <2>5, <3>1, <3>2, <3>3 DEF PaymentInv, OneInv
    <2>7. StatusHasCause'
      <3>1. ~raced' => payment.status # "Pending"
        BY <2>5 DEF PaymentInv, StatusHasCause, RealInv, Real
      <3>2. ~raced' /\ payment.status = "Paid" => sellerPaid
        BY <2>5 DEF PaymentInv, StatusHasCause, RealInv, Real
      <3> QED BY <2>00, <3>1, <3>2 DEF StatusHasCause
    <2> QED BY <2>1, <2>2, <2>3, <2>4, <2>6, <2>7 DEF PaymentInv
  <1>6. ASSUME NEW c \in Creator, Pay!CreationFails(c) PROVE PaymentInv'
    <2> USE <1>6 DEF Pay!CreationFails, Pay!tables, Pay!service
    <2>1. Pay!TypeOK'
      BY DEF PaymentInv, Pay!TypeOK
    <2>2. RealInv'
      BY DEF PaymentInv, Pay!TypeOK, RealInv, Real, Pay!Off
    <2>3. NoticeInv' /\ StatusHasCause'
      BY DEF PaymentInv, NoticeInv, StatusHasCause
    <2>4. IdInv'
      BY DEF PaymentInv, Pay!TypeOK, IdInv, Pay!Off
    <2>5. OneInv'
      <3>1. PICK w : w.pc # "ask" /\ creator' = [creator EXCEPT ![c] = w]
        BY DEF Pay!Off
      <3> QED BY <3>1, CreatorsMove
    <2> QED BY <2>1, <2>2, <2>3, <2>4, <2>5 DEF PaymentInv
  <1>7. ASSUME Pay!Attempt PROVE PaymentInv'
    <2> USE <1>7 DEF Pay!Attempt, Pay!tables
    <2>0. PICK a \in answered, status \in Pay!PaymentStatus :
            notices' = notices \cup {[po |-> a.po, status |-> status]}
      OBVIOUS
    <2>1. Pay!TypeOK'
      BY <2>0 DEF PaymentInv, Pay!TypeOK, Pay!Notice, Pay!PaymentOrder
    <2>2. RealInv'
      BY <2>0 DEF PaymentInv, RealInv, Real
    <2>3. NoticeInv' /\ IdInv' /\ StatusHasCause'
      BY <2>0 DEF PaymentInv, NoticeInv, IdInv, StatusHasCause
    <2>4. OneInv'
      BY DEF PaymentInv, OneInv, Seen
    <2> QED BY <2>1, <2>2, <2>3, <2>4 DEF PaymentInv
  <1>8. ASSUME NEW n \in Notifier, NEW notice \in notices, Pay!ReadForNotice(n, notice)
        PROVE PaymentInv'
    <2> USE <1>8 DEF Pay!ReadForNotice, Pay!tables, Pay!service
    <2>1. Pay!TypeOK'
      BY DEF PaymentInv, Pay!TypeOK
    <2>2. NoticeInv'
      BY DEF PaymentInv, Pay!TypeOK, NoticeInv
    <2>3. RealInv' /\ IdInv' /\ StatusHasCause'
      BY DEF PaymentInv, RealInv, Real, IdInv, StatusHasCause
    <2>4. OneInv'
      BY DEF PaymentInv, OneInv, Seen
    <2> QED BY <2>1, <2>2, <2>3, <2>4 DEF PaymentInv
  <1>9. ASSUME NEW n \in Notifier, Pay!StoreNotice(n) PROVE PaymentInv'
    <2> DEFINE w == notifier[n]
    <2> USE <1>9 DEF Pay!StoreNotice, Pay!service
    <2>0. /\ w.notice \in notices /\ w.notice \in Pay!Notice
          /\ payment'.id = payment.id /\ payment'.po = payment.po /\ payment' \in Pay!Payment
          /\ \/ payment' = payment
             \/ payment.po = w.notice.po /\ payment'.status = w.notice.status
      BY DEF PaymentInv, Pay!TypeOK, NoticeInv, Pay!Notice, Pay!Payment, Pay!Off
    <2>1. Pay!TypeOK'
      BY <2>0 DEF PaymentInv, Pay!TypeOK
    <2>2. NoticeInv'
      BY DEF PaymentInv, Pay!TypeOK, NoticeInv
    <2>3. RealInv' /\ IdInv'
      BY <2>0 DEF PaymentInv, RealInv, Real, IdInv
    <2>4. StatusHasCause'
      <3>1. w.notice = [po |-> w.notice.po, status |-> w.notice.status]
        BY <2>0 DEF Pay!Notice
      <3> QED BY <2>0, <3>1 DEF PaymentInv, StatusHasCause
    <2>5. OneInv'
      BY <2>0 DEF PaymentInv, OneInv, Seen
    <2> QED BY <2>1, <2>2, <2>3, <2>4, <2>5 DEF PaymentInv
  <1>10. ASSUME NEW n \in Notifier, Pay!NoticeFails(n) PROVE PaymentInv'
    <2> USE <1>10 DEF Pay!NoticeFails, Pay!tables, Pay!service
    <2>1. Pay!TypeOK' /\ NoticeInv'
      BY DEF PaymentInv, Pay!TypeOK, NoticeInv
    <2>2. RealInv' /\ IdInv' /\ StatusHasCause'
      BY DEF PaymentInv, RealInv, Real, IdInv, StatusHasCause
    <2>3. OneInv'
      BY DEF PaymentInv, OneInv, Seen
    <2> QED BY <2>1, <2>2, <2>3 DEF PaymentInv
  (* A callback or a select: a fresh row.                                  *)
  <1>11. ASSUME NEW po \in Real \cup {None}, NEW status \in {"NotPaid", "Paid"},
                NEW by \in Pay!CollectedBy, Pay!ReplacePayment(po, status, by),
                status = "Paid" => sellerPaid', sellerPaid => sellerPaid',
                orderId' \in Nat, payable' \in BOOLEAN, sellerPaid' \in BOOLEAN,
                reports' \in [Callback -> [pc: {"commit"}, orderId: Nat,
                                      po: Pay!PaymentOrder \cup {None}] \cup {Pay!Off}],
                \A c \in Callback : reports'[c] = reports[c] \/ reports'[c] = Pay!Off,
                UNCHANGED <<Pay!service, creator, notifier, raced>>
         PROVE  PaymentInv'
    <2> USE <1>11 DEF Pay!ReplacePayment, Pay!service
    <2>0. /\ nextPayment \in Nat /\ payment' \in Pay!Payment /\ payment'.id = nextPayment
          /\ payment'.po = po /\ payment'.status = status
          /\ nextPayment' = nextPayment + 1
      BY DEF PaymentInv, Pay!TypeOK, Pay!Payment, Pay!PaymentStatus, Pay!PaymentOrder, Real
    <2>1. Pay!TypeOK'
      BY <2>0 DEF PaymentInv, Pay!TypeOK
    <2>2. RealInv'
      BY <2>0 DEF PaymentInv, RealInv, Real
    <2>3. NoticeInv' /\ StatusHasCause'
      BY <2>0 DEF PaymentInv, NoticeInv, StatusHasCause
    <2>4. IdInv'
      BY <2>0 DEF PaymentInv, Pay!TypeOK, IdInv, Pay!Creating, Pay!Off, Pay!Payment
    <2>5. OneInv'
      <3>1. \A p : ~Seen(nextPayment, p)
        BY <2>0 DEF PaymentInv, IdInv, Seen
      <3>2. \A id, p : Seen(id, p)' <=> Seen(id, p)
        BY DEF Seen
      <3> QED BY <2>0, <3>1, <3>2 DEF PaymentInv, OneInv
    <2> QED BY <2>1, <2>2, <2>3, <2>4, <2>5 DEF PaymentInv
  <1>12. ASSUME Pay!OnInit PROVE PaymentInv'
    <2>1. PICK by \in {"bap", "bpp"} : Pay!ReplacePayment(None, "NotPaid", by)
      BY <1>12 DEF Pay!OnInit
    <2> QED BY <1>12, <2>1, <1>11 DEF Pay!OnInit, PaymentInv, Pay!TypeOK, Pay!CollectedBy
  <1>13. ASSUME NEW c \in Callback, Pay!ReadOrder(c) PROVE PaymentInv'
    <2> USE <1>13 DEF Pay!ReadOrder, Pay!tables, Pay!service
    <2>1. Pay!TypeOK'
      BY DEF PaymentInv, Pay!TypeOK, Pay!Payment
    <2>2. RealInv'
      BY DEF PaymentInv, Pay!TypeOK, RealInv, Real
    <2>3. NoticeInv' /\ IdInv' /\ StatusHasCause'
      BY DEF PaymentInv, NoticeInv, IdInv, StatusHasCause
    <2>4. OneInv'
      BY DEF PaymentInv, OneInv, Seen
    <2> QED BY <2>1, <2>2, <2>3, <2>4 DEF PaymentInv
  <1>14. ASSUME NEW c \in Callback, Pay!ReplaceFromReport(c) PROVE PaymentInv'
    <2>1. PICK status \in {"NotPaid", "Paid"}, by \in {"bap", "bpp"} :
            /\ Pay!ReplacePayment(reports[c].po, status, by)
            /\ sellerPaid' = (sellerPaid \/ status = "Paid")
      BY <1>14 DEF Pay!ReplaceFromReport
    <2>2. reports[c].po \in Real \cup {None}
      BY <1>14 DEF Pay!ReplaceFromReport, PaymentInv, RealInv, Pay!Off
    <2>3. sellerPaid' \in BOOLEAN
      BY <2>1 DEF PaymentInv, Pay!TypeOK
    <2>4. status = "Paid" => sellerPaid'
      BY <2>1
    <2>5. sellerPaid => sellerPaid'
      BY <2>1
    <2>6. /\ reports' \in [Callback -> [pc: {"commit"}, orderId: Nat,
                                   po: Pay!PaymentOrder \cup {None}] \cup {Pay!Off}]
          /\ \A d \in Callback : reports'[d] = reports[d] \/ reports'[d] = Pay!Off
      BY <1>14 DEF Pay!ReplaceFromReport, PaymentInv, Pay!TypeOK
    <2>7. orderId' \in Nat /\ payable' \in BOOLEAN
      BY <1>14 DEF Pay!ReplaceFromReport, PaymentInv, Pay!TypeOK
    <2>8. by \in Pay!CollectedBy
      BY DEF Pay!CollectedBy
    <2>9. UNCHANGED <<Pay!service, creator, notifier, raced>>
      BY <1>14 DEF Pay!ReplaceFromReport
    <2> QED BY <2>1, <2>2, <2>3, <2>4, <2>5, <2>6, <2>7, <2>8, <2>9, <1>11
  <1>15. ASSUME NEW c \in Callback, Pay!ReportFails(c) PROVE PaymentInv'
    <2> USE <1>15 DEF Pay!ReportFails, Pay!tables, Pay!service
    <2>1. Pay!TypeOK' /\ RealInv'
      BY DEF PaymentInv, Pay!TypeOK, RealInv, Real
    <2>2. NoticeInv' /\ IdInv' /\ StatusHasCause'
      BY DEF PaymentInv, NoticeInv, IdInv, StatusHasCause
    <2>3. OneInv'
      BY DEF PaymentInv, OneInv, Seen
    <2> QED BY <2>1, <2>2, <2>3 DEF PaymentInv
  <1>16. ASSUME Pay!Reselect PROVE PaymentInv'
    <2>1. PICK by \in Pay!CollectedBy : Pay!ReplacePayment(None, "NotPaid", by)
      BY <1>16 DEF Pay!Reselect
    <2>2. orderId' \in Nat
      BY <1>16 DEF Pay!Reselect, PaymentInv, Pay!TypeOK
    <2>5. payable' \in BOOLEAN /\ sellerPaid' \in BOOLEAN
      <3>1. payable' = FALSE /\ sellerPaid' = sellerPaid /\ sellerPaid \in BOOLEAN
        BY <1>16 DEF Pay!Reselect, PaymentInv, Pay!TypeOK
      <3> QED BY <3>1
    <2>3. reports' \in [Callback -> [pc: {"commit"}, orderId: Nat,
                               po: Pay!PaymentOrder \cup {None}] \cup {Pay!Off}]
      BY <1>16 DEF Pay!Reselect, PaymentInv, Pay!TypeOK
    <2>4. /\ sellerPaid' = sellerPaid /\ reports' = reports
          /\ UNCHANGED <<Pay!service, creator, notifier, raced>>
      BY <1>16 DEF Pay!Reselect
    <2> QED BY <2>1, <2>2, <2>3, <2>4, <2>5, <1>11
  <1>17. CASE UNCHANGED Pay!vars
    BY <1>17 DEF Pay!vars, Pay!tables, Pay!service, PaymentInv, Pay!TypeOK, RealInv, Real, NoticeInv, IdInv,
                 OneInv, Seen, StatusHasCause
  <1> QED
    BY <1>1, <1>2, <1>3, <1>4, <1>5, <1>6, <1>7, <1>8, <1>9, <1>10, <1>12, <1>13, <1>14,
       <1>15, <1>16, <1>17
       DEF Pay!Next, Pay!Creation, Pay!Notification

LEMMA PaymentSpec == Pay!Spec => []PaymentInv
  <1>1. PaymentInv /\ [Pay!Next]_Pay!vars => PaymentInv'
    BY PaymentNext
  <1> QED BY PaymentInit, <1>1, PTL DEF Pay!Spec

(* Tables and tasks hold what they may.                                    *)
THEOREM PaymentTypeCorrect == Pay!Spec => []Pay!TypeOK
  <1>1. PaymentInv => Pay!TypeOK
    BY DEF PaymentInv
  <1> QED BY PaymentSpec, <1>1, PTL

(* A payment is pending or paid because the service said so of its payment *)
(* order, or the seller did.                                               *)
THEOREM StatusesHaveCauses == Pay!Spec => []StatusHasCause
  <1>1. PaymentInv => StatusHasCause
    BY DEF PaymentInv
  <1> QED BY PaymentSpec, <1>1, PTL

(* A lost or failed creation leaves no payment order behind that the       *)
(* service does not know.                                                  *)
THEOREM RealPaymentOrders == Pay!Spec => []PaymentOrdersAreReal
  <1>1. PaymentInv => PaymentOrdersAreReal
    BY DEF PaymentInv, RealInv, Real, PaymentOrdersAreReal
  <1> QED BY PaymentSpec, <1>1, PTL

(* Without a race between creations the buyer is told one payment order    *)
(* for a payment row.                                                      *)
THEOREM OneForEachRow == Pay!Spec => []OnePaymentOrderPerRow
  <1>1. PaymentInv => OnePaymentOrderPerRow
    <2> SUFFICES ASSUME PaymentInv, ~raced, NEW a \in answered, NEW b \in answered, a.row = b.row
                 PROVE  a.po = b.po
      BY DEF OnePaymentOrderPerRow
    <2>1. /\ a = [po |-> a.po, row |-> a.row] /\ b = [po |-> b.po, row |-> b.row]
          /\ a.po \in Nat /\ b.po \in Nat /\ a.row \in Nat
      BY DEF PaymentInv, Pay!TypeOK, Pay!PaymentOrder
    <2>2. Seen(a.row, a.po) /\ Seen(a.row, b.po)
      BY <2>1 DEF Seen
    <2> QED BY <2>1, <2>2 DEF PaymentInv, OneInv
  <1> QED BY PaymentSpec, <1>1, PTL

=============================================================================
