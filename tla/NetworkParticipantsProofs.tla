---------------------- MODULE NetworkParticipantsProofs ----------------------
(***************************************************************************)
(* The safety properties of NetworkParticipants, for any number of         *)
(* requests, sellers, domains and attempts.  The argument: a request has   *)
(* looked nothing up before it has read the table, so whatever was looked  *)
(* up stays; a row is never written twice, so what was read from it stays  *)
(* true of it; and the callback that stored a row went to the registry     *)
(* for it.                                                                 *)
(***************************************************************************)
EXTENDS NetworkParticipants, TLAPS

(* What a request has by the phase it is in.                               *)
PhaseInv ==
    \A t \in Tasks :
        /\ about[t] = NoEntry <=> phase[t] = "waiting"
        /\ phase[t] \in {"waiting", "reading", "asking"} =>
              looked[t] = NoEntry
        /\ phase[t] \in {"saving", "verifying", "accepted", "sending", "sent"} =>
              looked[t] # NoEntry
        /\ phase[t] \in {"waiting", "reading"} => t \notin asked
        /\ phase[t] \in {"asking", "saving"} => t \in asked
        /\ phase[t] \in {"asking", "saving", "verifying", "accepted", "refused"} =>
              t \in Callbacks
        /\ phase[t] \in {"sending", "sent"} => t \in Selects
        /\ phase[t] = "accepted" => about[t].signed = looked[t].version

(* What was read from the table is still there, in the request's domain.   *)
ReadInv ==
    \A t \in Tasks :
        looked[t] # NoEntry /\ t \notin asked =>
            /\ row[about[t].subscriber] = looked[t]
            /\ about[t].domain = looked[t].domain

(* A row is what the registry answered to a callback of that seller.       *)
RowInv ==
    \A s \in Subscribers :
        row[s] # NoEntry =>
            \E u \in asked : about[u].subscriber = s /\ looked[u] = row[s]

(* A select in progress has been received at most once for each attempt.   *)
CallInv ==
    \A t \in Selects :
        /\ phase[t] \in {"waiting", "reading", "sending"} =>
              received[t] <= attempt[t]
        /\ phase[t] = "sent" => received[t] >= 1

Inv == TypeOK /\ PhaseInv /\ ReadInv /\ RowInv /\ CallInv

LEMMA InitInv == Init => Inv
  BY RegisteredAssumption, MaxRetriesAssumption, MaxVersionAssumption
     DEF Init, Inv, TypeOK, PhaseInv, ReadInv, RowInv, CallInv, Versions, Phases,
         Tasks

LEMMA NextInv == Inv /\ [Next]_vars => Inv'
  <1> SUFFICES ASSUME Inv, [Next]_vars PROVE Inv'
    OBVIOUS
  <1> USE NoEntryAssumption, MaxRetriesAssumption, MaxVersionAssumption,
          TasksAssumption
  <1>1. ASSUME NEW s \in Subscribers, Rotate(s) PROVE Inv'
    BY <1>1 DEF Rotate, Inv, TypeOK, PhaseInv, ReadInv, RowInv, CallInv, Versions
  <1>2. ASSUME NEW t \in Tasks, NEW s \in Subscribers, NEW d \in Domains,
               NEW v \in Versions, Arrive(t, s, d, v)
        PROVE Inv'
    <2> USE <1>2 DEF Arrive, Inv
    <2>1. TypeOK'
      BY DEF TypeOK, Request, Phases
    <2>2. PhaseInv'
      BY DEF TypeOK, PhaseInv, Request
    <2>3. ReadInv'
      BY DEF TypeOK, PhaseInv, ReadInv
    <2>4. RowInv'
      BY DEF TypeOK, PhaseInv, RowInv, Tasks
    <2>5. CallInv'
      BY DEF TypeOK, CallInv, Tasks
    <2> QED BY <2>1, <2>2, <2>3, <2>4, <2>5
  <1>3. ASSUME NEW t \in Tasks, ReadRow(t) PROVE Inv'
    <2> USE <1>3 DEF ReadRow, Found, Inv
    <2>0. about[t] \in Request /\ about[t] # NoEntry
      BY DEF TypeOK, PhaseInv
    <2>1. TypeOK'
      BY <2>0 DEF TypeOK, Phases, Request
    <2>2. PhaseInv'
      BY <2>0 DEF TypeOK, PhaseInv, Tasks
    <2>3. ReadInv'
      BY <2>0 DEF TypeOK, PhaseInv, ReadInv
    <2>4. RowInv'
      BY DEF TypeOK, PhaseInv, RowInv, Tasks
    <2>5. CallInv'
      BY DEF TypeOK, CallInv, Tasks
    <2> QED BY <2>1, <2>2, <2>3, <2>4, <2>5
  <1>4. ASSUME NEW t \in Tasks, MissRow(t) PROVE Inv'
    <2> USE <1>4 DEF MissRow, Inv
    <2>1. TypeOK'
      BY DEF TypeOK, Phases
    <2>2. PhaseInv'
      BY DEF TypeOK, PhaseInv, Tasks
    <2>3. ReadInv'
      BY DEF TypeOK, PhaseInv, ReadInv
    <2>4. RowInv'
      BY DEF TypeOK, RowInv
    <2>5. CallInv'
      BY DEF TypeOK, CallInv, Tasks
    <2> QED BY <2>1, <2>2, <2>3, <2>4, <2>5
  <1>5. ASSUME NEW t \in Tasks, AnswerLost(t) PROVE Inv'
    <2> USE <1>5 DEF AnswerLost, Return, Calling, Reaches, Refused, Inv
    <2>0. /\ attempt[t] \in Nat /\ attempt[t] + 1 <= MaxRetries
          /\ t \in Selects => received[t] \in Nat /\ received[t] <= attempt[t]
          /\ phase'[t] \in {phase[t], "refused", "failed"}
      BY DEF TypeOK, PhaseInv, CallInv
    <2>1. TypeOK'
      BY <2>0 DEF TypeOK, Phases
    <2>2. PhaseInv'
      BY DEF TypeOK, PhaseInv, Tasks
    <2>3. ReadInv'
      BY DEF TypeOK, ReadInv
    <2>4. RowInv'
      BY DEF TypeOK, RowInv
    <2>5. CallInv'
      BY <2>0 DEF TypeOK, CallInv, Tasks
    <2> QED BY <2>1, <2>2, <2>3, <2>4, <2>5
  <1>6. ASSUME NEW t \in Tasks, AnswerRefused(t) PROVE Inv'
    <2> USE <1>6 DEF AnswerRefused, Return, Calling, Reaches, Refused, Inv
    <2>0. /\ attempt[t] \in Nat /\ attempt[t] + 1 <= MaxRetries
          /\ t \in Selects => received[t] \in Nat /\ received[t] <= attempt[t]
      BY DEF TypeOK, PhaseInv, CallInv
    <2>1. TypeOK'
      BY <2>0 DEF TypeOK, Phases
    <2>2. PhaseInv'
      BY DEF TypeOK, PhaseInv, Tasks
    <2>3. ReadInv'
      BY DEF TypeOK, ReadInv
    <2>4. RowInv'
      BY DEF TypeOK, RowInv
    <2>5. CallInv'
      BY <2>0 DEF TypeOK, CallInv, Tasks
    <2> QED BY <2>1, <2>2, <2>3, <2>4, <2>5
  <1>7. ASSUME NEW t \in Tasks, RegistryAnswers(t) PROVE Inv'
    <2> USE <1>7 DEF RegistryAnswers, Return, Calling, Inv
    <2>0. /\ about[t] \in Request
          /\ [version |-> version[about[t].subscriber],
              domain |-> about[t].domain] \in Entry
      BY DEF TypeOK, PhaseInv, Entry, Request
    <2>1. TypeOK'
      BY <2>0 DEF TypeOK, Phases
    <2>2. PhaseInv'
      BY <2>0 DEF TypeOK, PhaseInv, Tasks
    <2>3. ReadInv'
      BY DEF TypeOK, PhaseInv, ReadInv
    <2>4. RowInv'
      BY DEF TypeOK, PhaseInv, RowInv, Tasks
    <2>5. CallInv'
      BY DEF TypeOK, PhaseInv, CallInv, Tasks
    <2> QED BY <2>1, <2>2, <2>3, <2>4, <2>5
  <1>8. ASSUME NEW t \in Tasks, SellerAnswers(t) PROVE Inv'
    <2> USE <1>8 DEF SellerAnswers, Return, Calling, Reaches, Inv
    <2>0. /\ t \in Selects
          /\ attempt[t] \in Nat /\ attempt[t] + 1 <= MaxRetries
          /\ received[t] \in Nat /\ received[t] <= attempt[t]
      BY DEF TypeOK, PhaseInv, CallInv
    <2>1. TypeOK'
      BY <2>0 DEF TypeOK, Phases
    <2>2. PhaseInv'
      BY DEF TypeOK, PhaseInv, Tasks
    <2>3. ReadInv'
      BY DEF TypeOK, ReadInv
    <2>4. RowInv'
      BY DEF TypeOK, RowInv
    <2>5. CallInv'
      BY <2>0 DEF TypeOK, CallInv, Tasks
    <2> QED BY <2>1, <2>2, <2>3, <2>4, <2>5
  <1>9. ASSUME NEW t \in Tasks, Save(t) PROVE Inv'
    <2> USE <1>9 DEF Save, Inv
    <2>0. /\ about[t] \in Request /\ t \in asked
          /\ looked[t] \in Entry
      BY DEF TypeOK, PhaseInv
    <2>1. TypeOK'
      BY <2>0 DEF TypeOK, Phases, Request
    <2>2. PhaseInv'
      BY DEF TypeOK, PhaseInv, Tasks
    <2>3. ReadInv'
      BY <2>0 DEF TypeOK, PhaseInv, ReadInv, Request
    <2>4. RowInv'
      BY <2>0 DEF TypeOK, RowInv, Request
    <2>5. CallInv'
      BY DEF TypeOK, PhaseInv, CallInv, Tasks
    <2> QED BY <2>1, <2>2, <2>3, <2>4, <2>5
  <1>10. ASSUME NEW t \in Tasks, Verify(t) PROVE Inv'
    <2> USE <1>10 DEF Verify, Inv
    <2>1. TypeOK'
      BY DEF TypeOK, Phases
    <2>2. PhaseInv'
      BY DEF TypeOK, PhaseInv, Tasks
    <2>3. ReadInv'
      BY DEF TypeOK, ReadInv
    <2>4. RowInv'
      BY DEF TypeOK, RowInv
    <2>5. CallInv'
      BY DEF TypeOK, PhaseInv, CallInv, Tasks
    <2> QED BY <2>1, <2>2, <2>3, <2>4, <2>5
  <1>11. ASSUME NEW t \in Tasks, Fail(t) PROVE Inv'
    <2> USE <1>11 DEF Fail, Return, Refused, Inv
    <2>1. TypeOK'
      BY DEF TypeOK, Phases
    <2>2. PhaseInv'
      BY DEF TypeOK, PhaseInv, Tasks
    <2>3. ReadInv'
      BY DEF TypeOK, ReadInv
    <2>4. RowInv'
      BY DEF TypeOK, RowInv
    <2>5. CallInv'
      BY DEF TypeOK, PhaseInv, CallInv, Tasks
    <2> QED BY <2>1, <2>2, <2>3, <2>4, <2>5
  <1>12. CASE UNCHANGED vars
    BY <1>12 DEF vars, Inv, TypeOK, PhaseInv, ReadInv, RowInv, CallInv
  <1> QED
    BY <1>1, <1>2, <1>3, <1>4, <1>5, <1>6, <1>7, <1>8, <1>9, <1>10, <1>11, <1>12
       DEF Next, Step

LEMMA SpecInv == Spec => []Inv
  BY InitInv, NextInv, PTL DEF Spec

(* Every variable keeps its type, whatever requests are under way.         *)
THEOREM TypeCorrect == Spec => []TypeOK
  <1>1. Inv => TypeOK
    BY DEF Inv
  <1> QED BY SpecInv, <1>1, PTL

(* A callback that did not go to the registry is verified with the key its *)
(* seller was stored with, in the domain it was stored in.                 *)
THEOREM RowsDecide == Spec => []RowDecides
  <1>1. Inv => RowDecides
    <2> SUFFICES ASSUME Inv, NEW t \in Callbacks,
                        phase[t] = "accepted", t \notin asked
                 PROVE  /\ row[about[t].subscriber] =
                              [version |-> about[t].signed,
                               domain |-> about[t].domain]
                        /\ \E u \in asked :
                              /\ about[u].subscriber = about[t].subscriber
                              /\ looked[u] = looked[t]
      BY DEF RowDecides
    <2>1. /\ about[t] \in Request /\ looked[t] \in Entry
          /\ about[t].signed = looked[t].version
          /\ row[about[t].subscriber] = looked[t]
          /\ about[t].domain = looked[t].domain
      BY DEF Inv, TypeOK, PhaseInv, ReadInv, Tasks
    <2>2. looked[t] = [version |-> about[t].signed, domain |-> about[t].domain]
      BY <2>1 DEF Entry
    <2>3. row[about[t].subscriber] # NoEntry /\ about[t].subscriber \in Subscribers
      BY <2>1, NoEntryAssumption DEF Request
    <2> QED BY <2>1, <2>2, <2>3 DEF Inv, RowInv
  <1> QED BY SpecInv, <1>1, PTL

(* A select goes to a seller only in the domain the seller is stored in.   *)
THEOREM SelectsFollow == Spec => []SelectsFollowTheFirstDomain
  <1>1. Inv => SelectsFollowTheFirstDomain
    BY TasksAssumption
       DEF Inv, TypeOK, PhaseInv, ReadInv, SelectsFollowTheFirstDomain, Tasks
  <1> QED BY SpecInv, <1>1, PTL

(* All selects that reach one seller go to one address.                    *)
THEOREM OneAddress == Spec => []OneAddressForAll
  <1>1. Inv => OneAddressForAll
    BY TasksAssumption DEF Inv, TypeOK, ReadInv, OneAddressForAll, Tasks
  <1> QED BY SpecInv, <1>1, PTL

(* A successful select was received, and at most once for each attempt.    *)
THEOREM SentReceived == Spec => []SentWasReceived
  <1>1. Inv => SentWasReceived
    BY DEF Inv, TypeOK, CallInv, SentWasReceived
  <1> QED BY SpecInv, <1>1, PTL

=============================================================================
