------------------------- MODULE NetworkParticipants -------------------------
(***************************************************************************)
(* The table of network participants and the calls that fill and use it.   *)
(*                                                                         *)
(* A callback of a seller passes SellerHeaderVerification: the seller's    *)
(* entry is read from network_participant by (subscriber, type, domain)    *)
(* or, when there is none, asked of the registry and stored, unless the    *)
(* subscriber has a row already, whatever its domain: the table is unique  *)
(* by (subscriber, type) and a row is never written again.  order_select   *)
(* reads the same table, never the registry, and sends the request to the  *)
(* address it finds.  Both calls go through async_post_call_with_retry,    *)
(* which repeats an attempt whose answer is lost, at most MaxRetries       *)
(* times in all.                                                           *)
(*                                                                         *)
(* The registry belongs to others: it gives a subscriber a new key and     *)
(* address (a new version of its entry) when it likes.  Only the type BPP  *)
(* is ever looked up, so the type is left out.  A signature is the version *)
(* whose key made it.                                                      *)
(***************************************************************************)
EXTENDS Naturals

CONSTANTS
    Callbacks,       \* callback requests of sellers
    Selects,         \* calls of order_select
    Subscribers,     \* sellers on the network
    Domains,         \* domains of the network
    Registered,      \* the domains the registry knows each subscriber in
    MaxRetries,      \* attempts of one call
    MaxVersion,      \* bound: versions of a registry entry
    NoEntry          \* no row, nothing looked up

ASSUME RegisteredAssumption == Registered \in [Subscribers -> SUBSET Domains]
ASSUME MaxRetriesAssumption == MaxRetries \in Nat \ {0}
ASSUME MaxVersionAssumption == MaxVersion \in Nat \ {0}
ASSUME TasksAssumption == Callbacks \cap Selects = {}

VARIABLES
    version,         \* the registry: the current version of each entry
    row,             \* network_participant: the row of each subscriber
    phase,           \* where each request is
    about,           \* the subscriber, domain and signature of each request
    looked,          \* the entry each request goes by
    asked,           \* the requests that went to the registry
    attempt,         \* the attempts each call has left behind
    received         \* how often the seller received each select

vars == <<version, row, phase, about, looked, asked, attempt, received>>

-----------------------------------------------------------------------------

Tasks == Callbacks \cup Selects

Versions == 1 .. MaxVersion

(* LookupData: the key and the address are one version of the entry.       *)
Entry == [version : Versions, domain : Domains]

Request == [subscriber : Subscribers, domain : Domains, signed : Versions]

ASSUME NoEntryAssumption == NoEntry \notin (Entry \cup Request)

Phases == {"waiting", "reading", "asking", "saving", "verifying",
           "accepted", "refused", "sending", "sent", "failed"}

Init ==
    /\ version = [s \in Subscribers |-> 1]
    /\ row = [s \in Subscribers |-> NoEntry]
    /\ phase = [t \in Tasks |-> "waiting"]
    /\ about = [t \in Tasks |-> NoEntry]
    /\ looked = [t \in Tasks |-> NoEntry]
    /\ asked = {}
    /\ attempt = [t \in Tasks |-> 0]
    /\ received = [t \in Selects |-> 0]

Refused(t) == IF t \in Callbacks THEN "refused" ELSE "failed"

(* The registry takes a new key and address of s.                          *)
Rotate(s) ==
    /\ version[s] < MaxVersion
    /\ version' = [version EXCEPT ![s] = @ + 1]
    /\ UNCHANGED <<row, phase, about, looked, asked, attempt, received>>

(* A request arrives.  A callback was signed by a key its sender has or    *)
(* had; a select carries the buyer's own signature, which plays no part.   *)
Arrive(t, s, d, v) ==
    /\ phase[t] = "waiting"
    /\ v <= version[s]
    /\ t \in Callbacks => d \in Registered[s]
    /\ t \in Selects => v = 1
    /\ phase' = [phase EXCEPT ![t] = "reading"]
    /\ about' = [about EXCEPT ![t] =
                    [subscriber |-> s, domain |-> d, signed |-> v]]
    /\ UNCHANGED <<version, row, looked, asked, attempt, received>>

(* MUTANT of Found: the row counts whatever domain the request is in.      *)
FoundAnywhere(t) == row[about[t].subscriber] # NoEntry

(* get_lookup_data_from_db: the row counts only in the request's domain.   *)
Found(t) ==
    /\ row[about[t].subscriber] # NoEntry
    /\ row[about[t].subscriber].domain = about[t].domain

(* The row answers: the callback is verified against it, the select goes   *)
(* to its address.                                                         *)
ReadRow(t) ==
    /\ phase[t] = "reading"
    /\ Found(t)
    /\ looked' = [looked EXCEPT ![t] = row[about[t].subscriber]]
    /\ phase' = [phase EXCEPT ![t] =
                    IF t \in Callbacks THEN "verifying" ELSE "sending"]
    /\ UNCHANGED <<version, row, about, asked, attempt, received>>

(* There is no row: a callback asks the registry, a select is refused      *)
(* ("is not a Valid BPP Id").                                              *)
MissRow(t) ==
    /\ phase[t] = "reading"
    /\ ~Found(t)
    /\ IF t \in Callbacks
       THEN /\ phase' = [phase EXCEPT ![t] = "asking"]
            /\ asked' = asked \cup {t}
       ELSE /\ phase' = [phase EXCEPT ![t] = "failed"]
            /\ UNCHANGED asked
    /\ UNCHANGED <<version, row, about, looked, attempt, received>>

-----------------------------------------------------------------------------
(* async_post_call_with_retry.  Any answer ends the call; only an attempt  *)
(* without an answer is repeated.                                          *)

Calling(t) == phase[t] \in {"asking", "sending"} /\ attempt[t] < MaxRetries

(* The seller receives a select; a callback's question changes nothing at  *)
(* the registry.                                                           *)
Reaches(t) ==
    received' = IF t \in Selects THEN [received EXCEPT ![t] = @ + 1]
                                 ELSE received

(* The call ends, and with it the count of its attempts.                   *)
Return(t, p) ==
    /\ phase' = [phase EXCEPT ![t] = p]
    /\ attempt' = [attempt EXCEPT ![t] = 0]

(* MUTANT of AnswerLost: the attempts are counted and not limited.         *)
AnswerLostForever(t) ==
    /\ Calling(t)
    /\ UNCHANGED received
    /\ attempt' = [attempt EXCEPT ![t] = (@ + 1) % MaxRetries]
    /\ UNCHANGED <<version, row, phase, about, looked, asked>>

(* The attempt times out or the connection breaks, before or after the     *)
(* other side had the request; after the last one the call fails.          *)
AnswerLost(t) ==
    /\ Calling(t)
    /\ Reaches(t) \/ UNCHANGED received
    /\ IF attempt[t] + 1 = MaxRetries THEN Return(t, Refused(t))
       ELSE /\ attempt' = [attempt EXCEPT ![t] = @ + 1]
            /\ UNCHANGED phase
    /\ UNCHANGED <<version, row, about, looked, asked>>

(* A status above 500, a body that is not JSON, an answer of another shape *)
(* or with an error in it: the call fails at once.                         *)
AnswerRefused(t) ==
    /\ Calling(t)
    /\ Reaches(t)
    /\ Return(t, Refused(t))
    /\ UNCHANGED <<version, row, about, looked, asked>>

(* call_lookup_api: the first entry of the array the registry answers.     *)
RegistryAnswers(t) ==
    /\ Calling(t) /\ phase[t] = "asking"
    /\ looked' = [looked EXCEPT ![t] =
                    [version |-> version[about[t].subscriber],
                     domain |-> about[t].domain]]
    /\ Return(t, "saving")
    /\ UNCHANGED <<version, row, about, asked, received>>

(* send_ondc_payload: an answer without an error.                          *)
SellerAnswers(t) ==
    /\ Calling(t) /\ phase[t] = "sending"
    /\ Reaches(t)
    /\ Return(t, "sent")
    /\ UNCHANGED <<version, row, about, looked, asked>>

-----------------------------------------------------------------------------

(* MUTANT of Save: ON CONFLICT DO UPDATE.                                  *)
SaveAgain(t) ==
    /\ phase[t] = "saving"
    /\ row' = [row EXCEPT ![about[t].subscriber] = looked[t]]
    /\ phase' = [phase EXCEPT ![t] = "verifying"]
    /\ UNCHANGED <<version, about, looked, asked, attempt, received>>

(* save_lookup_data_to_db: ON CONFLICT (subscriber_id, type) DO NOTHING.   *)
Save(t) ==
    /\ phase[t] = "saving"
    /\ row' = IF row[about[t].subscriber] = NoEntry
              THEN [row EXCEPT ![about[t].subscriber] = looked[t]] ELSE row
    /\ phase' = [phase EXCEPT ![t] = "verifying"]
    /\ UNCHANGED <<version, about, looked, asked, attempt, received>>

(* verify_response, with the key of the entry the callback goes by.        *)
Verify(t) ==
    /\ phase[t] = "verifying"
    /\ phase' = [phase EXCEPT ![t] =
                    IF about[t].signed = looked[t].version
                    THEN "accepted" ELSE "refused"]
    /\ UNCHANGED <<version, row, about, looked, asked, attempt, received>>

(* A statement fails: reading, storing the entry, or, for a select, saving *)
(* the request next to the send, whose future is then dropped.             *)
Fail(t) ==
    /\ phase[t] \in {"reading", "saving", "sending"}
    /\ Return(t, Refused(t))
    /\ UNCHANGED <<version, row, about, looked, asked, received>>

Step(t) ==
    \/ ReadRow(t) \/ MissRow(t)
    \/ AnswerLost(t) \/ AnswerRefused(t)
    \/ RegistryAnswers(t) \/ SellerAnswers(t)
    \/ Save(t) \/ Verify(t) \/ Fail(t)

Next ==
    \/ \E s \in Subscribers : Rotate(s)
    \/ \E t \in Tasks, s \in Subscribers, d \in Domains, v \in Versions :
          Arrive(t, s, d, v)
    \/ \E t \in Tasks : Step(t)

Spec == Init /\ [][Next]_vars

(* The runtime polls every request that can go on; every attempt ends, at  *)
(* the latest by its timeout of five seconds.                              *)
FairSpec == Spec /\ \A t \in Tasks : WF_vars(Step(t))

-----------------------------------------------------------------------------

TypeOK ==
    /\ version \in [Subscribers -> Versions]
    /\ row \in [Subscribers -> Entry \cup {NoEntry}]
    /\ phase \in [Tasks -> Phases]
    /\ about \in [Tasks -> Request \cup {NoEntry}]
    /\ looked \in [Tasks -> Entry \cup {NoEntry}]
    /\ asked \subseteq Callbacks
    /\ attempt \in [Tasks -> 0 .. MaxRetries]
    /\ received \in [Selects -> 0 .. MaxRetries]

(* A callback that did not go to the registry is verified with the one key *)
(* the seller was stored with, in the one domain it was stored in: once a  *)
(* seller has changed its key, its callbacks in that domain are refused,   *)
(* and its callbacks in another domain ask the registry every time         *)
(* (fetch_lookup_data, save_lookup_data_to_db).                            *)
RowDecides ==
    \A t \in Callbacks :
        phase[t] = "accepted" /\ t \notin asked =>
            /\ row[about[t].subscriber] =
                  [version |-> about[t].signed, domain |-> about[t].domain]
            /\ \E u \in asked :
                  /\ about[u].subscriber = about[t].subscriber
                  /\ looked[u] = looked[t]

(* A select goes to a seller only in the domain of the first callback that *)
(* was stored of it: in any other domain the seller is registered in, it   *)
(* can search and be found but never be ordered from (order_select).       *)
SelectsFollowTheFirstDomain ==
    \A t \in Selects :
        phase[t] \in {"sending", "sent"} =>
            row[about[t].subscriber].domain = about[t].domain

(* All selects that reach one seller go to one address, though the entry   *)
(* changes at the registry between them.                                   *)
OneAddressForAll ==
    \A t, u \in Selects :
        /\ about[t] # NoEntry /\ looked[t] # NoEntry
        /\ about[u] # NoEntry /\ looked[u] # NoEntry
        /\ about[t].subscriber = about[u].subscriber
        => looked[t] = looked[u]

(* order_select succeeds only when the seller had the request, and the     *)
(* seller has it at most once for each attempt (async_post_call_with_retry *)
(* stops at the first answer).                                             *)
SentWasReceived ==
    \A t \in Selects :
        /\ phase[t] = "sent" => received[t] >= 1
        /\ phase[t] = "sending" => received[t] <= attempt[t]

(* Every request ends, whatever is lost and however often an entry         *)
(* changes.                                                                *)
EveryRequestEnds ==
    \A t \in Tasks :
        phase[t] # "waiting" ~>
            phase[t] \in {"accepted", "refused", "sent", "failed"}

=============================================================================
