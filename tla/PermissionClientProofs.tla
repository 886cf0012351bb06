----------------------- MODULE PermissionClientProofs -----------------------
(***************************************************************************)
(* Proofs about PermissionClient, for any finite or infinite sets of       *)
(* users, tenants, permissions, calls and processes, and any setting of    *)
(* the switches.                                                           *)
(***************************************************************************)
EXTENDS PermissionClient, TLAPS

USE DEF callVars, vars
-----------------------------------------------------------------------------
(* Type correctness.                                                       *)

(* The types of the values that the actions assign.                        *)
LEMMA EntryTypes ==
    /\ Absent \in Entry
    /\ Foreign \in Entry
    /\ \A v \in PermList : Stored(v) \in Entry
BY DEF Entry, Absent, Foreign, Stored, PermList

LEMMA OutcomeTypes ==
    /\ \A kind \in {"none", "unreachable", "cancelled", "invalid_state", "malformed"} :
          Raised(kind) \in Outcome
    /\ \A v \in PermList : Returned(v) \in Outcome /\ Explanation(v) \in Outcome
BY DEF Outcome, Raised, Returned, Explanation, PermList

LEMMA FutureTypes ==
    /\ NoFuture \in Future /\ Pending \in Future
    /\ Error \in Future /\ CancelledFuture \in Future
    /\ \A v \in PermList : Result(v) \in Future
BY DEF Future, NoFuture, Pending, Error, CancelledFuture, Result, PermList

LEMMA AwaitedType == ASSUME NEW f \in Future PROVE Awaited(f) \in Outcome
BY OutcomeTypes DEF Awaited, Future

LEMMA ResolutionType ==
    ASSUME NEW r \in Resolution \cup Failure
    PROVE  ResolutionToPerms(r) \in PermList
BY DEF Resolution, Failure, ResolutionToPerms, PermList

(* TypeOK is not inductive: the future a joiner awaits must be some call's. *)
Typed == TypeOK /\ \A c \in Calls : pc[c] = "join" => waits[c] \in Calls

LEMMA InitTyped == Init => Typed
<1> SUFFICES ASSUME Init PROVE Typed
  OBVIOUS
<1>1. (CHOOSE k \in Keys : TRUE) \in Keys /\ (CHOOSE i \in Instances : TRUE) \in Instances
  BY NonEmptyAssumption
<1>2. \A k \in Keys : {Current(k)} \in SUBSET PermList
  BY ResolutionType DEF Init, Current
<1>3. [status |-> "none", perms |-> {}] \in Failure
  BY DEF Failure
<1> QED
  BY <1>1, <1>2, <1>3, EntryTypes, FutureTypes, OutcomeTypes DEF Init, Typed, TypeOK, Points

LEMMA NextTyped == Typed /\ [Next]_vars => Typed'
<1> SUFFICES ASSUME Typed, [Next]_vars PROVE Typed'
  OBVIOUS
<1> USE DEF Typed, TypeOK
<1>1. ASSUME NEW c \in Calls, NEW k \in Keys, NEW i \in Instances,
             Start(c, k, i) \/ Explain(c, k, i)
      PROVE Typed'
  BY <1>1 DEF Start, Explain, Points
<1>2. ASSUME NEW c \in Calls, RedisGet(c) \/ RedisGetFails(c) PROVE Typed'
  <2>1. Get(redis, key[c]) \in Entry
    BY EntryTypes DEF Get
  <2> QED
    BY <1>2, <2>1, EntryTypes DEF RedisGet, RedisGetFails, Points
<1>3. ASSUME NEW c \in Calls, Hit(c) PROVE Typed'
  <2>1. reply[c].perms \in PermList
    BY DEF Entry
  <2> QED
    BY <1>3, <2>1, OutcomeTypes DEF Hit, Return, Points
<1>4. ASSUME NEW c \in Calls, Join(c) \/ Lead(c) PROVE Typed'
  <2>1. Slot(c) \in Slots
    BY DEF Slot, Slots
  <2> QED
    BY <1>4, <2>1, FutureTypes DEF Join, Lead, Points
<1>5. ASSUME NEW c \in Calls, HeliosAnswers(c) \/ HeliosFails(c) PROVE Typed'
  <2>1. \A st \in {"unreachable", "malformed"} : [status |-> st, perms |-> {}] \in Failure
    BY DEF Failure
  <2>2. CASE HeliosAnswers(c)
    BY <2>2 DEF HeliosAnswers, Answered, Points
  <2>3. CASE HeliosFails(c)
    <3>1. PICK r \in Failure : answer' = [answer EXCEPT ![c] = r]
      BY <2>1, <2>3 DEF HeliosFails
    <3> QED
      BY <2>3, <3>1 DEF HeliosFails, Answered, Points
  <2> QED
    BY <1>5, <2>2, <2>3
<1>6. ASSUME NEW c \in Calls, NEW f \in Future, Settle(c, f),
             UNCHANGED <<redis, truth, ever, key, home, reply, answer, waits, doomed>>
      PROVE Typed'
  <2>1. Awaited(f) \in Outcome /\ Raised("invalid_state") \in Outcome
    BY AwaitedType, OutcomeTypes
  <2>2. Slot(c) \in Slots
    BY DEF Slot, Slots
  <2> QED
    BY <1>6, <2>1, <2>2 DEF Settle, Release, Return, Points
<1>7. ASSUME NEW c \in Calls, FetchFailed(c) PROVE Typed'
  <2>1. (IF StaleOnError THEN Result({}) ELSE Error) \in Future
    BY FutureTypes DEF PermList
  <2> QED
    BY <1>6, <1>7, <2>1 DEF FetchFailed
<1>8. ASSUME NEW c \in Calls, FetchRaised(c) PROVE Typed'
  BY <1>8, OutcomeTypes DEF FetchRaised, Release, Return, Points
<1>9. ASSUME NEW c \in Calls, Populate(c) PROVE Typed'
  BY <1>9 DEF Populate, Points
<1>10. ASSUME NEW c \in Calls, RedisSet(c) \/ RedisSetFails(c) PROVE Typed'
  <2>1. Stored(ResolutionToPerms(answer[c])) \in Entry
    BY ResolutionType, EntryTypes
  <2> QED
    BY <1>10, <2>1 DEF RedisSet, RedisSetFails, SetNX, Points
<1>11. ASSUME NEW c \in Calls, Populated(c) PROVE Typed'
  <2>1. Result(ResolutionToPerms(answer[c])) \in Future
    BY ResolutionType, FutureTypes
  <2> QED
    BY <1>6, <1>11, <2>1 DEF Populated
<1>12. ASSUME NEW c \in Calls, Wake(c) PROVE Typed'
  <2>1. Awaited(fut[waits[c]]) \in Outcome
    BY <1>12, AwaitedType DEF Wake
  <2> QED
    BY <1>12, <2>1, OutcomeTypes DEF Wake, Return, Points
<1>13. ASSUME NEW c \in Calls, Cancel(c) PROVE Typed'
  BY <1>13, FutureTypes DEF Cancel
<1>14. ASSUME NEW c \in Calls, Cancelled(c) PROVE Typed'
  BY <1>14, OutcomeTypes DEF Cancelled, Release, Return, Points
<1>15. ASSUME NEW k \in Keys, NEW r \in Resolution, RoleChange(k, r) PROVE Typed'
  BY <1>15, ResolutionType DEF RoleChange
<1>16. ASSUME NEW k \in Keys, NEW v \in PermList, Overwrite(k, v) PROVE Typed'
  BY <1>16, EntryTypes DEF Overwrite, WriteThrough
<1>17. ASSUME NEW k \in Keys, ForeignWrite(k) PROVE Typed'
  BY <1>17, EntryTypes DEF ForeignWrite
<1>18. ASSUME NEW K \in SUBSET Keys, Drop(K) PROVE Typed'
  BY <1>18, EntryTypes DEF Drop, Delete
<1>19. CASE UNCHANGED vars
  BY <1>19
<1>20. ASSUME NEW c \in Calls, Explained(c) PROVE Typed'
  <2>1. ResolutionToPerms(answer[c]) \in PermList
    BY ResolutionType
  <2> QED
    BY <1>20, <2>1, OutcomeTypes DEF Explained, Return, Points
<1> QED
  BY <1>1, <1>2, <1>3, <1>4, <1>5, <1>7, <1>8, <1>9, <1>10, <1>11, <1>12, <1>13,
     <1>14, <1>15, <1>16, <1>17, <1>18, <1>19, <1>20
     DEF Next, Run, Serve, Environment

(* Each variable holds a value of its type, whatever fails, is cancelled   *)
(* or is done to Redis and to the memberships by others.                   *)
THEOREM TypeCorrect == Spec => []TypeOK
<1>1. Typed => TypeOK
  BY DEF Typed
<1> QED
  BY <1>1, InitTyped, NextTyped, PTL DEF Spec
-----------------------------------------------------------------------------
(* The inductive invariant, in three parts.                                *)

(* A call creates its future when it starts to fetch, and leaves it        *)
(* pending only where _resolve_perms abandons it.                          *)
FutureInv ==
    \A c \in Calls :
        /\ pc[c] \in {"idle", "get", "got", "join", "ask", "asked"} => fut[c].st = "none"
        /\ Leads(c) => fut[c].st \in {"pending", "cancelled"}
        /\ fut[c].st = "pending" =>
              Leads(c) \/ outcome[c].kind \in {"cancelled", "malformed"}

(* A joiner awaits a future created for its own key in its own process,    *)
(* and never creates one.                                                  *)
JoinInv ==
    \A c \in Calls :
        /\ pc[c] = "join" => waits[c] # NoCall
        /\ waits[c] # NoCall =>
              /\ waits[c] \in Calls /\ pc[c] \in {"join", "done"}
              /\ fut[c].st = "none" /\ fut[waits[c]].st # "none"
              /\ Slot(waits[c]) = Slot(c)

(* The entries of _in_flight are the calls that fetch.                     *)
FlightInv ==
    /\ NoLeakedEntry
    /\ \A c \in Calls : Leads(c) => in_flight[Slot(c)] = c
    /\ FutureInv
    /\ JoinInv

(* A list that Helios held for the key of c, or the denial of its fetch.   *)
RealFor(c, v) ==
    \/ v \in ever[key[c]]
    \/ v = {} /\ StaleOnError /\ answer[c].status = "unreachable"

(* Every list on its way from Helios to a caller is real for its key.      *)
ListInv ==
    /\ OnlyHeliosLists
    /\ \A k \in Keys : Current(k) \in ever[k]
    /\ \A c \in Calls :
          /\ pc[c] \in {"idle", "get", "join", "ask", "asked"} \/ Leads(c) =>
                reply[c].kind # "list"
          /\ pc[c] \in {"idle", "get", "got", "join", "fetch", "ask"} =>
                answer[c].status = "none"
          /\ pc[c] = "asked" => answer[c].status # "none"
          /\ reply[c].kind = "list" => reply[c].perms \in ever[key[c]]
          /\ answer[c] \in Resolution => ResolutionToPerms(answer[c]) \in ever[key[c]]
          /\ pc[c] \in {"set", "stored"} => answer[c] \in Resolution
          /\ fut[c].st = "result" => pc[c] = "done" /\ RealFor(c, fut[c].perms)
          /\ outcome[c].kind # "none" => pc[c] = "done"
    /\ AnswersAreReal

(* A future is cancelled, and a call ends in an error that a cancellation  *)
(* causes, only by a joiner of the same future that was cancelled.         *)
CancelInv ==
    /\ \A c \in Calls : fut[c].st = "cancelled" =>
          \E d \in Calls : doomed[d] /\ waits[d] = c
    /\ CancelledBySharer

ClientInv == Typed /\ FlightInv /\ ListInv /\ CancelInv
-----------------------------------------------------------------------------
(* FlightInv.                                                              *)

LEMMA InitFlight == Init => FlightInv
BY NoCallAssumption
   DEF Init, FlightInv, NoLeakedEntry, FutureInv, JoinInv, Leads, NoFuture, Slot

(* A call moves from one point to the next, and nothing else of the flight *)
(* changes.                                                                *)
LEMMA MoveFlight ==
    ASSUME Typed, FlightInv, NEW c \in Calls, NEW p \in Points,
           pc' = [pc EXCEPT ![c] = p],
           \/ pc[c] = "get" /\ p = "got"
           \/ pc[c] = "ask" /\ p = "asked"
           \/ Leads(c) /\ p \in {"fetched", "set", "stored"},
           UNCHANGED <<key, home, in_flight, fut, waits, outcome>>
    PROVE  FlightInv'
BY DEF FlightInv, NoLeakedEntry, FutureInv, JoinInv, Leads, Slot, Typed, TypeOK, Points

(* A call that fetches leaves: its entry is popped, its future is settled  *)
(* or it ends in one of the two outcomes that abandon it.                  *)
LEMMA LeaveFlight ==
    ASSUME Typed, FlightInv, NEW c \in Calls, NEW o \in Outcome,
           Leads(c), Release(c), Return(c, o),
           \/ fut' = fut /\ (fut[c].st = "pending" => o.kind \in {"cancelled", "malformed"})
           \/ \E f \in Future : f.st \notin {"none", "pending"} /\ fut' = [fut EXCEPT ![c] = f],
           UNCHANGED <<key, home, waits>>
    PROVE  FlightInv'
<1> USE DEF Typed, TypeOK, Return, Release, Leads, Slot, FlightInv
<1>1. NoLeakedEntry'
  BY NoCallAssumption DEF NoLeakedEntry, Slots
<1>2. \A d \in Calls : Leads(d)' => in_flight'[Slot(d)'] = d
  BY NoCallAssumption DEF NoLeakedEntry, Slots
<1>3. FutureInv'
  BY DEF FutureInv, Outcome
<1>4. JoinInv'
  BY DEF JoinInv, FutureInv
<1> QED
  BY <1>1, <1>2, <1>3, <1>4

LEMMA NextFlight == Typed /\ FlightInv /\ [Next]_vars => FlightInv'
<1> SUFFICES ASSUME Typed, FlightInv, [Next]_vars PROVE FlightInv'
  OBVIOUS
<1>1. ASSUME UNCHANGED <<pc, key, home, in_flight, fut, waits, outcome>> PROVE FlightInv'
  BY <1>1 DEF FlightInv, NoLeakedEntry, FutureInv, JoinInv, Leads, Slot
<1>2. ASSUME NEW c \in Calls, NEW k \in Keys, NEW i \in Instances,
             Start(c, k, i) \/ Explain(c, k, i)
      PROVE FlightInv'
  <2> USE <1>2 DEF Start, Explain, FlightInv, Typed, TypeOK, Leads, Slot
  <2>1. fut[c].st = "none" /\ waits[c] = NoCall
    BY DEF FutureInv, JoinInv
  <2>2. NoLeakedEntry'
    BY DEF NoLeakedEntry
  <2>3. \A d \in Calls : Leads(d)' => in_flight'[Slot(d)'] = d
    OBVIOUS
  <2>4. FutureInv'
    BY <2>1 DEF FutureInv
  <2>5. JoinInv'
    BY <2>1 DEF JoinInv
  <2> QED
    BY <2>2, <2>3, <2>4, <2>5
<1>3. ASSUME NEW c \in Calls, RedisGet(c) \/ RedisGetFails(c) PROVE FlightInv'
  BY <1>3, MoveFlight DEF RedisGet, RedisGetFails, Points
<1>4. ASSUME NEW c \in Calls, HeliosAnswers(c) \/ HeliosFails(c) \/ Populate(c)
                              \/ RedisSet(c) \/ RedisSetFails(c)
      PROVE FlightInv'
  BY <1>4, MoveFlight
     DEF HeliosAnswers, HeliosFails, Asks, Answered, Populate, RedisSet, RedisSetFails, Points,
         Leads
<1>5. ASSUME NEW c \in Calls, NEW o \in Outcome, Return(c, o),
             pc[c] \in {"get", "got", "join", "ask", "asked"},
             UNCHANGED <<key, home, in_flight, fut, waits>>
      PROVE FlightInv'
  <2> USE <1>5 DEF Return, FlightInv, Typed, TypeOK, Leads, Slot
  <2>1. NoLeakedEntry' /\ \A d \in Calls : Leads(d)' => in_flight'[Slot(d)'] = d
    BY DEF NoLeakedEntry
  <2>2. FutureInv'
    BY DEF FutureInv
  <2>3. JoinInv'
    BY DEF JoinInv
  <2> QED
    BY <2>1, <2>2, <2>3
<1>6. ASSUME NEW c \in Calls, Hit(c) \/ Wake(c) \/ Explained(c) PROVE FlightInv'
  <2>1. outcome'[c] \in Outcome
    BY <1>6, NextTyped DEF Hit, Wake, Explained, Typed, TypeOK
  <2> QED
    BY <1>5, <1>6, <2>1 DEF Hit, Wake, Explained, Return, Typed, TypeOK
<1>7. ASSUME NEW c \in Calls, Join(c) PROVE FlightInv'
  <2> USE <1>7 DEF Join, FlightInv, Typed, TypeOK, Leads
  <2>1. Slot(c) \in Slots
    BY DEF Slot, Slots
  <2>2. NoLeakedEntry' /\ \A d \in Calls : Leads(d)' => in_flight'[Slot(d)'] = d
    BY DEF NoLeakedEntry, Slot
  <2>3. FutureInv'
    BY DEF FutureInv
  <2>4. JoinInv'
    BY <2>1 DEF JoinInv, FutureInv, NoLeakedEntry, Slot
  <2> QED
    BY <2>2, <2>3, <2>4
<1>8. ASSUME NEW c \in Calls, Lead(c) PROVE FlightInv'
  <2> USE <1>8 DEF Lead, FlightInv, Typed, TypeOK, Leads
  <2>1. Slot(c) \in Slots
    BY DEF Slot, Slots
  <2>2. NoLeakedEntry'
    BY <2>1 DEF NoLeakedEntry, Slot
  <2>3. \A d \in Calls : Leads(d)' => in_flight'[Slot(d)'] = d
    BY <2>1, NoCallAssumption DEF Slot
  <2>4. FutureInv'
    BY DEF FutureInv, Pending, Future
  <2>5. JoinInv'
    BY DEF JoinInv, FutureInv, Pending, Future, Slot
  <2> QED
    BY <2>2, <2>3, <2>4, <2>5
<1>9. ASSUME NEW c \in Calls, NEW f \in Future, f.st \notin {"none", "pending"},
             Leads(c), Settle(c, f), UNCHANGED <<key, home, waits>>
      PROVE FlightInv'
  <2>1. Awaited(f) \in Outcome /\ Raised("invalid_state") \in Outcome
    BY AwaitedType, OutcomeTypes
  <2> QED
    BY <1>9, <2>1, LeaveFlight DEF Settle
<1>10. ASSUME NEW c \in Calls, FetchFailed(c) PROVE FlightInv'
  <2>1. (IF StaleOnError THEN Result({}) ELSE Error) \in Future
    BY FutureTypes DEF PermList
  <2>2. (IF StaleOnError THEN Result({}) ELSE Error).st \notin {"none", "pending"}
    BY DEF Result, Error
  <2> QED
    BY <1>9, <1>10, <2>1, <2>2 DEF FetchFailed, Leads
<1>11. ASSUME NEW c \in Calls, Populated(c) PROVE FlightInv'
  <2>1. Result(ResolutionToPerms(answer[c])) \in Future
    BY ResolutionType, FutureTypes DEF Typed, TypeOK
  <2>2. Result(ResolutionToPerms(answer[c])).st \notin {"none", "pending"}
    BY DEF Result
  <2> QED
    BY <1>9, <1>11, <2>1, <2>2 DEF Populated, Leads
<1>12. ASSUME NEW c \in Calls, FetchRaised(c) PROVE FlightInv'
  BY <1>12, LeaveFlight, OutcomeTypes DEF FetchRaised, Leads, Raised
<1>13. ASSUME NEW c \in Calls, Cancelled(c) PROVE FlightInv'
  <2>1. Raised("cancelled") \in Outcome /\ Raised("cancelled").kind = "cancelled"
    BY OutcomeTypes DEF Raised
  <2>2. CASE Leads(c)
    BY <1>13, <2>1, <2>2, LeaveFlight DEF Cancelled, Leads
  <2>3. CASE ~Leads(c)
    BY <1>5, <1>13, <2>1, <2>3 DEF Cancelled
  <2> QED
    BY <2>2, <2>3
<1>14. ASSUME NEW c \in Calls, Cancel(c) PROVE FlightInv'
  <2> USE <1>14 DEF Cancel, FlightInv, Typed, TypeOK, Leads, Slot
  <2>1. NoLeakedEntry' /\ \A d \in Calls : Leads(d)' => in_flight'[Slot(d)'] = d
    BY DEF NoLeakedEntry
  <2>2. FutureInv'
    BY DEF FutureInv, JoinInv, CancelledFuture
  <2>3. JoinInv'
    BY DEF JoinInv, FutureInv, CancelledFuture
  <2> QED
    BY <2>1, <2>2, <2>3
<1>15. ASSUME Environment PROVE FlightInv'
  BY <1>1, <1>15 DEF Environment, RoleChange, Overwrite, Drop, ForeignWrite
<1> QED
  BY <1>1, <1>2, <1>3, <1>4, <1>6, <1>7, <1>8, <1>10, <1>11, <1>12, <1>13, <1>14, <1>15
     DEF Next, Run, Serve
-----------------------------------------------------------------------------
(* ListInv.                                                                *)

LEMMA InitList == Init => ListInv
<1> SUFFICES ASSUME Init PROVE ListInv
  OBVIOUS
<1>1. \A k \in Keys : Current(k) \in ever[k]
  BY DEF Init
<1>2. \A r : r.status = "none" => r \notin Resolution
  BY DEF Resolution
<1> QED
  BY <1>1, <1>2
     DEF Init, Leads, ListInv, OnlyHeliosLists, AnswersAreReal, Absent, NoFuture, Raised

(* A step that leaves the calls alone and only adds to the histories.      *)
LEMMA EnvironmentList ==
    ASSUME Typed, ListInv, UNCHANGED callVars,
           \A k \in Keys : ever[k] \subseteq ever'[k],
           OnlyHeliosLists', \A k \in Keys : Current(k)' \in ever'[k]
    PROVE  ListInv'
BY DEF Leads, ListInv, AnswersAreReal, RealFor, Fetcher, Typed, TypeOK

(* A call starts to join or fetch, or goes on with a resolution.           *)
LEMMA MoveList ==
    ASSUME Typed, FlightInv, ListInv, NEW c \in Calls, NEW p \in Points,
           pc' = [pc EXCEPT ![c] = p],
           \/ pc[c] = "got" /\ p \in {"join", "fetch"} /\ reply[c].kind # "list"
           \/ Leads(c) /\ p \in {"set", "stored"} /\ answer[c] \in Resolution,
           UNCHANGED <<redis, truth, ever, key, reply, answer, outcome>>,
           UNCHANGED waits \/ (waits[c] = NoCall /\ \E d \in Calls : waits' = [waits EXCEPT ![c] = d]),
           UNCHANGED fut \/ fut' = [fut EXCEPT ![c] = Pending]
    PROVE  ListInv'
<1> USE DEF Typed, TypeOK, ListInv, Leads
<1>1. OnlyHeliosLists' /\ \A k \in Keys : Current(k)' \in ever'[k]
  BY DEF OnlyHeliosLists, Current
<1>2. AnswersAreReal'
  BY DEF AnswersAreReal, Fetcher
<1> QED
  BY <1>1, <1>2 DEF RealFor, Pending, Points

(* A call returns or raises.                                               *)
LEMMA ReturnList ==
    ASSUME Typed, FlightInv, ListInv, NEW c \in Calls, NEW o \in Outcome,
           pc[c] \notin {"idle", "done"}, Return(c, o),
           o.kind \in {"perms", "explained"} =>
              IF waits[c] = NoCall
                THEN \/ RealFor(c, o.perms)
                     \/ o.perms = {} /\ o.kind = "explained" /\ answer[c].status = "unreachable"
                ELSE fut[waits[c]].st = "result" /\ o.perms = fut[waits[c]].perms,
           UNCHANGED <<redis, truth, ever, key, reply, answer, waits>>,
           \/ UNCHANGED fut
           \/ \E f \in Future : /\ fut' = [fut EXCEPT ![c] = f]
                                /\ f.st = "result" => RealFor(c, f.perms)
    PROVE  ListInv'
<1> USE DEF Typed, TypeOK, ListInv, Leads, Return
<1>1. OnlyHeliosLists' /\ \A k \in Keys : Current(k)' \in ever'[k]
  BY DEF OnlyHeliosLists, Current
<1>2. AnswersAreReal'
  <2> SUFFICES ASSUME NEW d \in Calls, outcome'[d].kind \in {"perms", "explained"}
               PROVE  \/ outcome'[d].perms \in ever[key[d]]
                      \/ /\ outcome'[d].perms = {} /\ (StaleOnError \/ outcome'[d].kind = "explained")
                         /\ answer[Fetcher(d)].status = "unreachable"
    BY DEF AnswersAreReal, Fetcher
  <2>1. CASE d = c
    BY <2>1 DEF RealFor, Fetcher, FlightInv, JoinInv, Slot
  <2>2. CASE d # c
    BY <2>2 DEF AnswersAreReal
  <2> QED
    BY <2>1, <2>2
<1> QED
  BY <1>1, <1>2 DEF RealFor, Points

LEMMA NextList == Typed /\ FlightInv /\ ListInv /\ [Next]_vars => ListInv'
<1> SUFFICES ASSUME Typed, FlightInv, ListInv, [Next]_vars PROVE ListInv'
  OBVIOUS
<1>1. CASE UNCHANGED vars
  BY <1>1 DEF Leads, ListInv, OnlyHeliosLists, AnswersAreReal, RealFor, Fetcher, Current
<1>2. ASSUME NEW c \in Calls, NEW k \in Keys, NEW i \in Instances,
             Start(c, k, i) \/ Explain(c, k, i)
      PROVE ListInv'
  <2> USE <1>2 DEF Start, Explain, ListInv, Leads, Typed, TypeOK
  <2>1. /\ fut[c].st = "none" /\ reply[c].kind # "list" /\ answer[c] \notin Resolution
        /\ outcome[c].kind = "none"
    BY DEF FlightInv, FutureInv, Resolution
  <2>2. OnlyHeliosLists' /\ \A j \in Keys : Current(j)' \in ever'[j]
    BY DEF OnlyHeliosLists, Current
  <2>3. AnswersAreReal'
    BY <2>1 DEF AnswersAreReal, Fetcher
  <2> QED
    BY <2>1, <2>2, <2>3 DEF RealFor
<1>3. ASSUME NEW c \in Calls, RedisGet(c) \/ RedisGetFails(c) PROVE ListInv'
  <2> USE <1>3 DEF RedisGet, RedisGetFails, ListInv, Leads, Typed, TypeOK
  <2>1. OnlyHeliosLists' /\ \A j \in Keys : Current(j)' \in ever'[j]
    BY DEF OnlyHeliosLists, Current
  <2>2. reply'[c].kind = "list" => reply'[c].perms \in ever[key[c]]
    BY DEF Get, Absent, OnlyHeliosLists
  <2>3. AnswersAreReal'
    BY DEF AnswersAreReal, Fetcher
  <2> QED
    BY <2>1, <2>2, <2>3 DEF RealFor
<1>4. ASSUME NEW c \in Calls, HeliosAnswers(c) \/ HeliosFails(c) PROVE ListInv'
  <2> USE DEF Leads, ListInv, Leads, Typed, TypeOK
  <2>1. /\ answer[c].status = "none"
        /\ \/ pc[c] = "fetch" /\ pc' = [pc EXCEPT ![c] = "fetched"]
           \/ pc[c] = "ask" /\ pc' = [pc EXCEPT ![c] = "asked"]
        /\ UNCHANGED <<redis, truth, ever, key, reply, fut, waits, outcome>>
    BY <1>4 DEF HeliosAnswers, HeliosFails, Asks, Answered
  <2>2. PICK r : /\ answer' = [answer EXCEPT ![c] = r] /\ r.status # "none"
                 /\ r \in Resolution => ResolutionToPerms(r) \in ever[key[c]]
    <3>1. CASE HeliosAnswers(c)
      BY <3>1 DEF HeliosAnswers, Current, Resolution
    <3>2. CASE HeliosFails(c)
      <4>1. PICK st \in {"unreachable", "malformed"} :
                answer' = [answer EXCEPT ![c] = [status |-> st, perms |-> {}]]
        BY <3>2 DEF HeliosFails
      <4>2. [status |-> st, perms |-> {}] \notin Resolution
        BY DEF Resolution
      <4> QED
        BY <4>1, <4>2
    <3> QED
      BY <1>4, <3>1, <3>2
  <2>3. OnlyHeliosLists' /\ \A j \in Keys : Current(j)' \in ever'[j]
    BY <2>1 DEF OnlyHeliosLists, Current
  <2>4. AnswersAreReal'
    BY <2>1, <2>2 DEF AnswersAreReal, Fetcher
  <2> QED
    BY <2>1, <2>2, <2>3, <2>4 DEF RealFor
<1>5. ASSUME NEW c \in Calls, Join(c) \/ Lead(c) PROVE ListInv'
  <2>1. waits[c] = NoCall
    BY <1>5 DEF Join, Lead, FlightInv, JoinInv
  <2>2. Slot(c) \in Slots
    BY DEF Slot, Slots, Typed, TypeOK
  <2>3. CASE Join(c)
    BY <2>1, <2>2, <2>3, MoveList DEF Join, Points, Typed, TypeOK
  <2>4. CASE Lead(c)
    BY <2>4, MoveList DEF Lead, Points
  <2> QED
    BY <1>5, <2>3, <2>4
<1>6. ASSUME NEW c \in Calls, Populate(c) \/ RedisSetFails(c) PROVE ListInv'
  <2>1. answer[c] \in Resolution
    BY <1>6 DEF Populate, RedisSetFails, ListInv
  <2> QED
    BY <1>6, <2>1, MoveList DEF Populate, RedisSetFails, Points, Leads
<1>7. ASSUME NEW c \in Calls, RedisSet(c) PROVE ListInv'
  <2> USE <1>7 DEF RedisSet, ListInv, Leads, Typed, TypeOK
  <2>1. OnlyHeliosLists'
    BY DEF SetNX, Stored, OnlyHeliosLists
  <2>2. \A j \in Keys : Current(j)' \in ever'[j]
    BY DEF Current
  <2>3. AnswersAreReal'
    BY DEF AnswersAreReal, Fetcher
  <2> QED
    BY <2>1, <2>2, <2>3 DEF RealFor
<1>8. ASSUME NEW c \in Calls, Hit(c) PROVE ListInv'
  <2>1. waits[c] = NoCall /\ reply[c].perms \in PermList
    BY <1>8 DEF Hit, FlightInv, JoinInv, Typed, TypeOK, Entry
  <2> QED
    BY <1>8, <2>1, ReturnList, OutcomeTypes DEF Hit, Returned, RealFor, ListInv
<1>9. ASSUME NEW c \in Calls, NEW f \in Future, Leads(c), Settle(c, f),
             f.st = "result" => RealFor(c, f.perms),
             UNCHANGED <<redis, truth, ever, key, reply, answer, waits>>
      PROVE ListInv'
  <2>1. waits[c] = NoCall
    BY <1>9 DEF Leads, FlightInv, JoinInv
  <2>2. Awaited(f) \in Outcome /\ Raised("invalid_state") \in Outcome
    BY AwaitedType, OutcomeTypes
  <2>3. Awaited(f).kind \in {"perms", "explained"} =>
            f.st = "result" /\ Awaited(f).perms = f.perms
    BY DEF Awaited, Returned, Raised, Future
  <2>4. Raised("invalid_state").kind \notin {"perms", "explained"}
    BY DEF Raised
  <2> QED
    BY <1>9, <2>1, <2>2, <2>3, <2>4, ReturnList DEF Settle, Leads
<1>10. ASSUME NEW c \in Calls, FetchFailed(c) PROVE ListInv'
  <2>1. (IF StaleOnError THEN Result({}) ELSE Error) \in Future
    BY FutureTypes DEF PermList
  <2>2. (IF StaleOnError THEN Result({}) ELSE Error).st = "result" =>
            RealFor(c, (IF StaleOnError THEN Result({}) ELSE Error).perms)
    BY <1>10 DEF FetchFailed, RealFor, Result, Error
  <2> QED
    BY <1>9, <1>10, <2>1, <2>2 DEF FetchFailed, Leads
<1>11. ASSUME NEW c \in Calls, Populated(c) PROVE ListInv'
  <2>1. Result(ResolutionToPerms(answer[c])) \in Future
    BY ResolutionType, FutureTypes DEF Typed, TypeOK
  <2>2. RealFor(c, Result(ResolutionToPerms(answer[c])).perms)
    BY <1>11 DEF Populated, RealFor, Result, ListInv
  <2> QED
    BY <1>9, <1>11, <2>1, <2>2 DEF Populated, Leads
<1>12. ASSUME NEW c \in Calls, FetchRaised(c) \/ Cancelled(c) PROVE ListInv'
  <2>1. /\ Raised("malformed") \in Outcome
        /\ Raised("malformed").kind \notin {"perms", "explained"}
        /\ Raised("cancelled") \in Outcome
        /\ Raised("cancelled").kind \notin {"perms", "explained"}
    BY OutcomeTypes DEF Raised
  <2> QED
    BY <1>12, <2>1, ReturnList DEF FetchRaised, Cancelled, Leads
<1>13. ASSUME NEW c \in Calls, Wake(c) PROVE ListInv'
  <2>1. waits[c] \in Calls /\ waits[c] # NoCall
    BY <1>13, NoCallAssumption DEF Wake, Typed
  <2>2. Awaited(fut[waits[c]]) \in Outcome /\ Raised("cancelled") \in Outcome
    BY <2>1, AwaitedType, OutcomeTypes DEF Typed, TypeOK
  <2>3. Awaited(fut[waits[c]]).kind \in {"perms", "explained"} =>
            /\ fut[waits[c]].st = "result"
            /\ Awaited(fut[waits[c]]).perms = fut[waits[c]].perms
    BY DEF Awaited, Returned, Raised
  <2>4. Raised("cancelled").kind \notin {"perms", "explained"}
    BY DEF Raised
  <2> QED
    BY <1>13, <2>1, <2>2, <2>3, <2>4, ReturnList DEF Wake
<1>14. ASSUME NEW c \in Calls, Cancel(c) PROVE ListInv'
  <2> USE <1>14 DEF Cancel, ListInv, Leads, Typed, TypeOK
  <2>1. OnlyHeliosLists' /\ \A j \in Keys : Current(j)' \in ever'[j]
    BY DEF OnlyHeliosLists, Current
  <2>2. AnswersAreReal'
    BY DEF AnswersAreReal, Fetcher
  <2>3. \A d \in Calls : fut'[d].st = "result" => fut'[d] = fut[d]
    BY DEF CancelledFuture
  <2> QED
    BY <2>1, <2>2, <2>3 DEF RealFor
<1>19. ASSUME NEW c \in Calls, Explained(c) PROVE ListInv'
  <2> DEFINE v == ResolutionToPerms(answer[c])
             o == IF answer[c].status = "malformed" THEN Raised("malformed") ELSE Explanation(v)
  <2>1. waits[c] = NoCall /\ answer[c].status # "none"
    BY <1>19 DEF Explained, FlightInv, JoinInv, ListInv
  <2>2. o \in Outcome
    BY ResolutionType, OutcomeTypes DEF Typed, TypeOK
  <2>3. answer[c] \in Resolution => v \in ever[key[c]]
    BY DEF ListInv
  <2>4. answer[c] \notin Resolution =>
            answer[c].status \in {"unreachable", "malformed"} /\ v = {}
    BY <2>1 DEF Typed, TypeOK, Failure, ResolutionToPerms
  <2>5. /\ o.kind # "perms"
        /\ answer[c].status = "malformed" => o.kind \notin {"perms", "explained"}
        /\ answer[c].status # "malformed" => o.perms = v
    BY DEF Raised, Explanation
  <2>6. /\ pc[c] \notin {"idle", "done"} /\ Return(c, o)
        /\ UNCHANGED <<redis, truth, ever, key, reply, answer, waits, fut>>
    BY <1>19 DEF Explained
  <2> HIDE DEF o, v
  <2>7. o.kind \in {"perms", "explained"} =>
            \/ RealFor(c, o.perms)
            \/ o.perms = {} /\ o.kind = "explained" /\ answer[c].status = "unreachable"
    BY <2>1, <2>3, <2>4, <2>5 DEF RealFor
  <2> QED
    BY <2>1, <2>2, <2>6, <2>7, ReturnList
<1>15. ASSUME NEW k \in Keys, NEW r \in Resolution, RoleChange(k, r) PROVE ListInv'
  <2> USE <1>15 DEF RoleChange, ListInv, Leads, Typed, TypeOK
  <2>1. OnlyHeliosLists' /\ \A j \in Keys : Current(j)' \in ever'[j]
    BY DEF OnlyHeliosLists, Current
  <2> QED
    BY <2>1, EnvironmentList
<1>16. ASSUME NEW k \in Keys, NEW v \in PermList, Overwrite(k, v) PROVE ListInv'
  <2> USE <1>16 DEF Overwrite, ListInv, Leads, Typed, TypeOK
  <2>1. OnlyHeliosLists' /\ \A j \in Keys : Current(j)' \in ever'[j]
    BY DEF OnlyHeliosLists, Current, WriteThrough, Stored
  <2> QED
    BY <2>1, EnvironmentList
<1>17. ASSUME NEW k \in Keys, ForeignWrite(k) PROVE ListInv'
  <2> USE <1>17 DEF ForeignWrite, ListInv, Leads, Typed, TypeOK
  <2>1. OnlyHeliosLists' /\ \A j \in Keys : Current(j)' \in ever'[j]
    BY DEF OnlyHeliosLists, Current, Foreign
  <2> QED
    BY <2>1, EnvironmentList
<1>18. ASSUME NEW K \in SUBSET Keys, Drop(K) PROVE ListInv'
  <2> USE <1>18 DEF Drop, ListInv, Leads, Typed, TypeOK
  <2>1. OnlyHeliosLists' /\ \A j \in Keys : Current(j)' \in ever'[j]
    BY DEF OnlyHeliosLists, Current, Delete, Absent
  <2> QED
    BY <2>1, EnvironmentList
<1> QED
  BY <1>1, <1>2, <1>3, <1>4, <1>5, <1>6, <1>7, <1>8, <1>10, <1>11, <1>12, <1>13,
     <1>14, <1>15, <1>16, <1>17, <1>18, <1>19
     DEF Next, Run, Serve, Environment
-----------------------------------------------------------------------------
(* CancelInv.                                                              *)

LEMMA InitCancel == Init => CancelInv
BY DEF Init, CancelInv, CancelledBySharer, NoFuture, Raised

(* A step that cancels no future and ends no call in such an error.        *)
LEMMA QuietCancel ==
    ASSUME Typed, FlightInv, CancelInv,
           \A d \in Calls : doomed[d] => doomed'[d],
           \A d \in Calls : waits[d] # NoCall => waits'[d] = waits[d],
           \A d \in Calls : waits'[d] # waits[d] => outcome[d].kind = "none",
           \A d \in Calls : fut'[d].st = "cancelled" => fut[d].st = "cancelled",
           \A d \in Calls : outcome'[d].kind \in {"cancelled", "invalid_state"} =>
                              outcome'[d] = outcome[d]
    PROVE  CancelInv'
<1>1. \A c \in Calls : fut'[c].st = "cancelled" =>
          \E d \in Calls : doomed'[d] /\ waits'[d] = c
  BY NoCallAssumption DEF CancelInv
<1>2. CancelledBySharer'
  BY NoCallAssumption DEF CancelInv, CancelledBySharer, Fetcher, Typed, TypeOK
<1> QED
  BY <1>1, <1>2 DEF CancelInv

(* A call ends in such an error.                                           *)
LEMMA ErrorCancel ==
    ASSUME Typed, CancelInv, NEW c \in Calls, NEW o, Return(c, o),
           \/ doomed[c]
           \/ \E d \in Calls : doomed[d] /\ waits[d] = Fetcher(c),
           UNCHANGED <<doomed, waits, fut>>
    PROVE  CancelInv'
BY DEF CancelInv, CancelledBySharer, Fetcher, Return, Typed, TypeOK

LEMMA NextCancel ==
    Typed /\ FlightInv /\ ListInv /\ CancelInv /\ [Next]_vars => CancelInv'
<1> SUFFICES ASSUME Typed, FlightInv, ListInv, CancelInv, [Next]_vars PROVE CancelInv'
  OBVIOUS
<1> USE DEF Typed, TypeOK
<1>1. ASSUME UNCHANGED <<fut, waits, doomed, outcome>> PROVE CancelInv'
  BY <1>1, QuietCancel
<1>2. ASSUME NEW c \in Calls, Join(c) PROVE CancelInv'
  <2>1. waits[c] = NoCall /\ outcome[c].kind = "none"
    BY <1>2 DEF Join, FlightInv, JoinInv, ListInv
  <2> QED
    BY <1>2, <2>1, QuietCancel DEF Join
<1>3. ASSUME NEW c \in Calls, Lead(c) PROVE CancelInv'
  BY <1>3, QuietCancel DEF Lead, Pending
<1>4. ASSUME NEW c \in Calls, NEW o \in Outcome, Return(c, o),
             o.kind \notin {"cancelled", "invalid_state"}, UNCHANGED <<waits, doomed>>,
             UNCHANGED fut \/ \E f : f.st # "cancelled" /\ fut' = [fut EXCEPT ![c] = f]
      PROVE CancelInv'
  BY <1>4, QuietCancel DEF Return
<1>5. ASSUME NEW c \in Calls, Hit(c) PROVE CancelInv'
  <2>1. Returned(reply[c].perms) \in Outcome /\ Returned(reply[c].perms).kind = "perms"
    BY OutcomeTypes DEF Returned, Entry
  <2> QED
    BY <1>4, <1>5, <2>1 DEF Hit
<1>13. ASSUME NEW c \in Calls, Explained(c) PROVE CancelInv'
  <2>1. /\ Raised("malformed") \in Outcome /\ Raised("malformed").kind = "malformed"
        /\ Explanation(ResolutionToPerms(answer[c])) \in Outcome
        /\ Explanation(ResolutionToPerms(answer[c])).kind = "explained"
    BY ResolutionType, OutcomeTypes DEF Raised, Explanation
  <2> QED
    BY <1>4, <1>13, <2>1 DEF Explained
<1>6. ASSUME NEW c \in Calls, NEW f \in Future, Leads(c), Settle(c, f),
             f.st \in {"result", "error"}, UNCHANGED <<waits, doomed>>
      PROVE CancelInv'
  <2>1. Awaited(f) \in Outcome /\ Awaited(f).kind \in {"perms", "unreachable"}
    BY <1>6, AwaitedType DEF Awaited, Returned, Raised
  <2>2. CASE fut[c].st = "pending"
    BY <1>4, <1>6, <2>1, <2>2 DEF Settle
  <2>3. CASE fut[c].st # "pending"
    <3>1. fut[c].st = "cancelled" /\ Fetcher(c) = c
      BY <1>6, <2>3 DEF FlightInv, FutureInv, JoinInv, Leads, Fetcher
    <3>2. \E d \in Calls : doomed[d] /\ waits[d] = Fetcher(c)
      BY <3>1 DEF CancelInv
    <3> QED
      BY <1>6, <2>3, <3>2, ErrorCancel DEF Settle
  <2> QED
    BY <2>2, <2>3
<1>7. ASSUME NEW c \in Calls, FetchFailed(c) PROVE CancelInv'
  <2>1. /\ (IF StaleOnError THEN Result({}) ELSE Error) \in Future
        /\ (IF StaleOnError THEN Result({}) ELSE Error).st \in {"result", "error"}
    BY FutureTypes DEF PermList, Result, Error
  <2> QED
    BY <1>6, <1>7, <2>1 DEF FetchFailed, Leads
<1>8. ASSUME NEW c \in Calls, Populated(c) PROVE CancelInv'
  <2>1. /\ Result(ResolutionToPerms(answer[c])) \in Future
        /\ Result(ResolutionToPerms(answer[c])).st = "result"
    BY ResolutionType, FutureTypes DEF Result
  <2> QED
    BY <1>6, <1>8, <2>1 DEF Populated, Leads
<1>9. ASSUME NEW c \in Calls, FetchRaised(c) PROVE CancelInv'
  <2>1. Raised("malformed") \in Outcome /\ Raised("malformed").kind = "malformed"
    BY OutcomeTypes DEF Raised
  <2> QED
    BY <1>4, <1>9, <2>1 DEF FetchRaised
<1>10. ASSUME NEW c \in Calls, Cancelled(c) PROVE CancelInv'
  BY <1>10, ErrorCancel DEF Cancelled
<1>11. ASSUME NEW c \in Calls, Wake(c) PROVE CancelInv'
  <2>1. /\ waits[c] \in Calls /\ Fetcher(c) = waits[c]
        /\ fut[waits[c]].st \in {"result", "error", "cancelled"}
    BY <1>11, NoCallAssumption DEF Wake, FlightInv, JoinInv, Fetcher, Future
  <2>2. CASE doomed[c]
    BY <1>11, <2>2, ErrorCancel DEF Wake
  <2>3. CASE ~doomed[c] /\ fut[waits[c]].st = "cancelled"
    <3>1. \E d \in Calls : doomed[d] /\ waits[d] = Fetcher(c)
      BY <2>1, <2>3 DEF CancelInv
    <3> QED
      BY <1>11, <3>1, ErrorCancel DEF Wake
  <2>4. CASE ~doomed[c] /\ fut[waits[c]].st # "cancelled"
    <3>1. /\ Awaited(fut[waits[c]]) \in Outcome
          /\ Awaited(fut[waits[c]]).kind \in {"perms", "unreachable"}
      BY <2>1, <2>4, AwaitedType DEF Awaited, Returned, Raised
    <3> QED
      BY <1>4, <1>11, <2>4, <3>1 DEF Wake
  <2> QED
    BY <2>2, <2>3, <2>4
<1>12. ASSUME NEW c \in Calls, Cancel(c) PROVE CancelInv'
  <2>1. \A d \in Calls : doomed[d] => doomed'[d]
    BY <1>12 DEF Cancel
  <2>2. \A e \in Calls : fut'[e].st = "cancelled" =>
            \E d \in Calls : doomed'[d] /\ waits'[d] = e
    <3>1. CASE fut' = fut
      BY <1>12, <2>1, <3>1 DEF Cancel, CancelInv
    <3>2. CASE fut' # fut
      BY <1>12, <2>1, <3>2 DEF Cancel, CancelInv
    <3> QED
      BY <3>1, <3>2
  <2>3. CancelledBySharer'
    BY <1>12, <2>1 DEF Cancel, CancelInv, CancelledBySharer, Fetcher
  <2> QED
    BY <2>2, <2>3 DEF CancelInv
<1> QED
  BY <1>1, <1>2, <1>3, <1>5, <1>7, <1>8, <1>9, <1>10, <1>11, <1>12, <1>13
     DEF Next, Run, Serve, Environment, Start, Explain, RedisGet, RedisGetFails, HeliosAnswers,
         HeliosFails, Populate, RedisSet, RedisSetFails, RoleChange, Overwrite, Drop,
         ForeignWrite
-----------------------------------------------------------------------------
(* The invariant, and the properties that follow from it.                  *)

LEMMA InitClient == Init => ClientInv
BY InitTyped, InitFlight, InitList, InitCancel DEF ClientInv

LEMMA NextClient == ClientInv /\ [Next]_vars => ClientInv'
BY NextTyped, NextFlight, NextList, NextCancel DEF ClientInv

(* ClientInv holds in every reachable state, for every setting.            *)
THEOREM ClientInvariant == Spec => []ClientInv
BY InitClient, NextClient, PTL DEF Spec

(* Requests for a key are coalesced: whatever fails or is cancelled, no    *)
(* two calls of a process fetch the same key at the same time.             *)
THEOREM CoalescingCorrect == Spec => []AtMostOneFetch
<1>1. ClientInv => AtMostOneFetch
  BY DEF ClientInv, FlightInv, AtMostOneFetch
<1> QED
  BY <1>1, ClientInvariant, PTL

(* No path through the fetch leaves its entry in _in_flight.               *)
THEOREM EntriesReleased == Spec => []NoLeakedEntry
<1>1. ClientInv => NoLeakedEntry
  BY DEF ClientInv, FlightInv
<1> QED
  BY <1>1, ClientInvariant, PTL

(* A joiner waits for a fetch of its own key that is under way, or was     *)
(* abandoned by a cancellation or by an unreadable answer.                 *)
THEOREM WaitersServed == Spec => []WaiterHasFetcher
<1>1. ClientInv => WaiterHasFetcher
  BY DEF ClientInv, FlightInv, JoinInv, FutureInv, WaiterHasFetcher
<1> QED
  BY <1>1, ClientInvariant, PTL

(* Only lists that Helios held for a key are ever cached under it.         *)
THEOREM CacheHoldsHeliosLists == Spec => []OnlyHeliosLists
<1>1. ClientInv => OnlyHeliosLists
  BY DEF ClientInv, ListInv
<1> QED
  BY <1>1, ClientInvariant, PTL

(* A caller gets a list that Helios held for its own user and tenant, or   *)
(* the denial of a fetch that failed.                                      *)
THEOREM CallersGetRealAnswers == Spec => []AnswersAreReal
<1>1. ClientInv => AnswersAreReal
  BY DEF ClientInv, ListInv
<1> QED
  BY <1>1, ClientInvariant, PTL

(* The errors of a cancellation reach only the sharers of the future.      *)
THEOREM CancellationContained == Spec => []CancelledBySharer
<1>1. ClientInv => CancelledBySharer
  BY DEF ClientInv, CancelInv
<1> QED
  BY <1>1, ClientInvariant, PTL
-----------------------------------------------------------------------------
(* The documented results, without cancellation and unreadable answers.    *)

(* Nothing is cancelled and no answer is unreadable; an error in a future  *)
(* or an outcome is that of an unreachable Helios.                         *)
QuietInv ==
    /\ DocumentedOutcome
    /\ \A c \in Calls :
          /\ ~doomed[c]
          /\ answer[c].status # "malformed"
          /\ fut[c].st # "cancelled"
          /\ fut[c].st = "error" => ~StaleOnError

LEMMA InitQuiet == Init => QuietInv
BY DEF Init, QuietInv, DocumentedOutcome, Raised, NoFuture

(* A call moves on without an outcome.                                     *)
LEMMA MoveQuiet ==
    ASSUME TypeOK, QuietInv, NEW c \in Calls,
           UNCHANGED waits \/ \E d \in Calls : waits' = [waits EXCEPT ![c] = d],
           UNCHANGED <<answer, fut, doomed, outcome>>
    PROVE  QuietInv'
BY NoCallAssumption DEF TypeOK, QuietInv, DocumentedOutcome, Fetches

(* A call ends in a documented outcome.                                    *)
LEMMA EndQuiet ==
    ASSUME TypeOK, QuietInv, NEW c \in Calls, NEW o \in Outcome, Return(c, o),
           \/ o.kind \in {"perms", "explained"}
           \/ o.kind = "unreachable" /\ ~StaleOnError /\ Fetches(c),
           UNCHANGED <<answer, doomed, waits>>,
           \A d \in Calls : \/ fut'[d].st \in {fut[d].st, "result"}
                            \/ fut'[d].st = "error" /\ ~StaleOnError
    PROVE  QuietInv'
BY DEF TypeOK, QuietInv, DocumentedOutcome, Return, Fetches

LEMMA NextQuiet ==
    ASSUME ~MayCancel, ~MalformedReply
    PROVE  Typed /\ FlightInv /\ QuietInv /\ [Next]_vars => QuietInv'
<1> SUFFICES ASSUME Typed, FlightInv, QuietInv, [Next]_vars PROVE QuietInv'
  OBVIOUS
<1> USE DEF Typed
<1>1. CASE UNCHANGED callVars
  BY <1>1 DEF QuietInv, DocumentedOutcome, Fetches
<1>2. ASSUME NEW c \in Calls, NEW k \in Keys, NEW i \in Instances, Start(c, k, i) \/ Explain(c, k, i)
      PROVE  QuietInv'
  BY <1>2 DEF Start, Explain, TypeOK, QuietInv, DocumentedOutcome, Fetches
<1>3. ASSUME NEW c \in Calls,
             \/ RedisGet(c) \/ RedisGetFails(c) \/ RedisSet(c) \/ RedisSetFails(c)
             \/ Join(c) \/ Populate(c)
      PROVE  QuietInv'
  <2>1. /\ UNCHANGED <<answer, fut, doomed, outcome>>
        /\ UNCHANGED waits \/ (Join(c) /\ waits' = [waits EXCEPT ![c] = in_flight[Slot(c)]])
    BY <1>3 DEF RedisGet, RedisGetFails, RedisSet, RedisSetFails, Join, Populate
  <2>2. Join(c) => in_flight[Slot(c)] \in Calls
    BY DEF Join, TypeOK, Slot, Slots
  <2> QED
    BY <2>1, <2>2, MoveQuiet
<1>4. ASSUME NEW c \in Calls, Lead(c) PROVE QuietInv'
  BY <1>4 DEF Lead, Pending, TypeOK, QuietInv, DocumentedOutcome, Fetches
<1>5. ASSUME NEW c \in Calls, HeliosAnswers(c) \/ HeliosFails(c) PROVE QuietInv'
  <2>1. PICK r : answer' = [answer EXCEPT ![c] = r] /\ r.status # "malformed"
    <3>1. CASE HeliosAnswers(c)
      <4>1. truth[key[c]].status # "malformed"
        BY DEF TypeOK, Resolution
      <4> QED
        BY <3>1, <4>1 DEF HeliosAnswers
    <3>2. CASE HeliosFails(c)
      <4>1. answer' = [answer EXCEPT ![c] = [status |-> "unreachable", perms |-> {}]]
        BY <3>2 DEF HeliosFails
      <4>2. [status |-> "unreachable", perms |-> {}].status # "malformed"
        OBVIOUS
      <4> QED
        BY <4>1, <4>2
    <3> QED
      BY <1>5, <3>1, <3>2
  <2> QED
    BY <1>5, <2>1
       DEF HeliosAnswers, HeliosFails, Asks, Answered, TypeOK, QuietInv, DocumentedOutcome, Fetches
<1>6. ASSUME NEW c \in Calls, NEW f \in Future, Leads(c), Settle(c, f),
             f.st = "result" \/ (f.st = "error" /\ ~StaleOnError),
             UNCHANGED <<answer, doomed, waits>>
      PROVE  QuietInv'
  <2>1. fut[c].st = "pending" /\ Fetches(c)
    BY <1>6 DEF FlightInv, FutureInv, QuietInv, Fetches
  <2>2. Awaited(f) \in Outcome /\ Return(c, Awaited(f)) /\ fut' = [fut EXCEPT ![c] = f]
    BY <1>6, <2>1, AwaitedType DEF Settle
  <2>3. Awaited(f).kind = "perms" \/ (Awaited(f).kind = "unreachable" /\ ~StaleOnError)
    BY <1>6 DEF Awaited, Returned, Raised
  <2>4. \A d \in Calls : fut'[d].st = fut[d].st \/ fut'[d].st = f.st
    BY <2>2 DEF TypeOK
  <2> QED
    BY <1>6, <2>1, <2>2, <2>3, <2>4, EndQuiet
<1>7. ASSUME NEW c \in Calls, FetchFailed(c) \/ Populated(c) PROVE QuietInv'
  <2>1. /\ (IF StaleOnError THEN Result({}) ELSE Error) \in Future
        /\ \/ (IF StaleOnError THEN Result({}) ELSE Error).st = "result"
           \/ (IF StaleOnError THEN Result({}) ELSE Error).st = "error" /\ ~StaleOnError
    BY FutureTypes DEF PermList, Result, Error
  <2>2. /\ Result(ResolutionToPerms(answer[c])) \in Future
        /\ Result(ResolutionToPerms(answer[c])).st = "result"
    BY ResolutionType, FutureTypes DEF TypeOK, Result
  <2> QED
    BY <1>6, <1>7, <2>1, <2>2 DEF FetchFailed, Populated, Leads
<1>8. ASSUME NEW c \in Calls, Hit(c) PROVE QuietInv'
  <2>1. Returned(reply[c].perms) \in Outcome /\ Returned(reply[c].perms).kind = "perms"
    BY OutcomeTypes DEF TypeOK, Entry, Returned
  <2> QED
    BY <1>8, <2>1, EndQuiet DEF Hit
<1>9. ASSUME NEW c \in Calls, Wake(c) PROVE QuietInv'
  <2> DEFINE f == fut[waits[c]]
  <2>1. waits[c] \in Calls /\ f \in Future
    BY <1>9 DEF Wake, TypeOK
  <2>2. Fetches(c) /\ ~doomed[c]
    BY <1>9 DEF Wake, QuietInv, FlightInv, JoinInv, Fetches
  <2>3. f.st = "result" \/ (f.st = "error" /\ ~StaleOnError)
    <3>1. f.st \notin {"none", "pending", "cancelled"}
      BY <1>9, <2>1 DEF Wake, FlightInv, JoinInv, QuietInv
    <3> QED
      BY <2>1, <3>1 DEF Future, QuietInv
  <2>4. /\ Awaited(f) \in Outcome
        /\ Awaited(f).kind = "perms" \/ (Awaited(f).kind = "unreachable" /\ ~StaleOnError)
    BY <2>1, <2>3, AwaitedType DEF Awaited, Returned, Raised
  <2>5. Return(c, Awaited(f)) /\ UNCHANGED <<answer, doomed, fut, waits>>
    BY <1>9, <2>2 DEF Wake
  <2> QED
    BY <2>2, <2>4, <2>5, EndQuiet
<1>10. ASSUME NEW c \in Calls, Explained(c) PROVE QuietInv'
  <2> DEFINE o == Explanation(ResolutionToPerms(answer[c]))
  <2>1. o \in Outcome /\ o.kind = "explained"
    BY ResolutionType, OutcomeTypes DEF TypeOK, Explanation
  <2>2. answer[c].status # "malformed"
    BY DEF QuietInv
  <2>3. Return(c, o) /\ UNCHANGED <<answer, doomed, fut, waits>>
    BY <1>10, <2>2 DEF Explained
  <2> QED
    BY <2>1, <2>3, EndQuiet
<1>11. ASSUME NEW c \in Calls PROVE ~FetchRaised(c) /\ ~Cancel(c) /\ ~Cancelled(c)
  BY DEF FetchRaised, Cancel, Cancelled, QuietInv
<1>12. CASE Environment
  BY <1>1, <1>12 DEF Environment, RoleChange, Overwrite, Drop, ForeignWrite
<1> QED
  BY <1>1, <1>2, <1>3, <1>4, <1>5, <1>7, <1>8, <1>9, <1>10, <1>11, <1>12 DEF Next, Run, Serve

LEMMA QuietAlways ==
    ASSUME ~MayCancel, ~MalformedReply
    PROVE  Spec => []QuietInv
<1>1. Init => QuietInv
  BY InitQuiet
<1>2. Typed /\ FlightInv /\ QuietInv /\ [Next]_vars => QuietInv'
  BY NextQuiet
<1>3. ClientInv => Typed /\ FlightInv
  BY DEF ClientInv
<1> QED
  BY <1>1, <1>2, <1>3, ClientInvariant, PTL DEF Spec

(* Without cancellation and unreadable answers, the permission checks      *)
(* return a list, or raise HeliosUnreachableError when told to, and        *)
(* explain returns.                                                        *)
THEOREM OutcomesDocumented ==
    ASSUME ~MayCancel, ~MalformedReply
    PROVE  Spec => []DocumentedOutcome
<1>1. QuietInv => DocumentedOutcome
  BY DEF QuietInv
<1> QED
  BY <1>1, QuietAlways, PTL

(* Without cancellation and unreadable answers, a joiner whose future is   *)
(* unsettled waits for a call that is still fetching: the safety half of   *)
(* CallsReturn.                                                            *)
NoWaiterAbandoned ==
    \A c \in Calls : pc[c] = "join" /\ fut[waits[c]].st = "pending" => Leads(waits[c])

THEOREM WaitersNeverAbandoned ==
    ASSUME ~MayCancel, ~MalformedReply
    PROVE  Spec => []NoWaiterAbandoned
<1>1. WaiterHasFetcher /\ QuietInv => NoWaiterAbandoned
  <2> SUFFICES ASSUME WaiterHasFetcher, QuietInv, NEW c \in Calls, pc[c] = "join",
                      fut[waits[c]].st = "pending"
               PROVE  Leads(waits[c])
    BY DEF NoWaiterAbandoned
  <2>1. waits[c] \in Calls
    BY DEF WaiterHasFetcher
  <2>2. outcome[waits[c]].kind \notin {"cancelled", "malformed"}
    BY <2>1 DEF QuietInv, DocumentedOutcome
  <2> QED
    BY <2>2 DEF WaiterHasFetcher
<1> QED
  BY <1>1, WaitersServed, QuietAlways, PTL
=============================================================================
