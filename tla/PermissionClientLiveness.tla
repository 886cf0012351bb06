---------------------- MODULE PermissionClientLiveness ----------------------
(***************************************************************************)
(* Proofs that calls return, for any number of calls, processes and keys.  *)
(*                                                                         *)
(* The prover knows nothing of ENABLED.  What a fair scheduler does is     *)
(* therefore said with explicit guards (Prompt) where it is used, and the  *)
(* theorems about FairSpec take []NoCallStuck as an antecedent: that these *)
(* guards are enough for the actions to be enabled.  The guards of Run and *)
(* Serve show it by cases; TLC, which evaluates ENABLED, checks that calls *)
(* return without it.                                                      *)
(***************************************************************************)
EXTENDS PermissionClientProofs

USE DEF callVars, vars

(* c is not starved: unless time and again it cannot be resumed, it runs   *)
(* time and again, and so for the servers and its requests.                *)
Prompt(c) ==
    /\ []<>~Resumable(c) \/ []<><<Run(c)>>_vars
    /\ []<>~Requested(c) \/ []<><<Serve(c)>>_vars
-----------------------------------------------------------------------------
(* The order of the points of a call.                                      *)

(* Where a call may be after p, unless it ends.                            *)
Onward(p) ==
    CASE p = "get" -> {"got"}
      [] p = "got" -> {"join", "fetch"}
      [] p = "fetch" -> {"fetched"}
      [] p = "fetched" -> {"set"}
      [] p = "set" -> {"stored"}
      [] p = "ask" -> {"asked"}
      [] OTHER -> {}

After(p) == Onward(p) \cup {"done"}

(* A step of its own takes a call to a later point, and moves no other.    *)
LEMMA RunMoves ==
    ASSUME TypeOK, NEW c \in Calls, Run(c)
    PROVE  pc[c] # "done" /\ \E p \in After(pc[c]) : pc' = [pc EXCEPT ![c] = p]
<1>1. CASE Join(c) \/ Lead(c) \/ Populate(c)
  BY <1>1 DEF Join, Lead, Populate, After, Onward
<1>2. CASE Hit(c) \/ Wake(c) \/ FetchRaised(c) \/ Explained(c) \/ Cancelled(c)
  BY <1>2 DEF Hit, Wake, FetchRaised, Explained, Cancelled, Return, Leads, After
<1>3. CASE FetchFailed(c) \/ Populated(c)
  BY <1>3 DEF FetchFailed, Populated, Settle, Return, After
<1> QED
  BY <1>1, <1>2, <1>3 DEF Run

LEMMA ServeMoves ==
    ASSUME TypeOK, NEW c \in Calls, Serve(c)
    PROVE  pc[c] # "done" /\ \E p \in After(pc[c]) : pc' = [pc EXCEPT ![c] = p]
BY DEF Serve, RedisGet, RedisGetFails, HeliosAnswers, HeliosFails, Asks, Answered, RedisSet,
       RedisSetFails, After, Onward

(* A call that has begun moves only to later points; a call that returned  *)
(* stays there.                                                            *)
LEMMA StaysOrMoves ==
    ASSUME TypeOK, [Next]_vars, NEW c \in Calls, pc[c] # "idle"
    PROVE  pc'[c] = pc[c] \/ (pc[c] # "done" /\ pc'[c] \in After(pc[c]))
<1>1. ASSUME NEW d \in Calls, Run(d) \/ Serve(d)
      PROVE  pc'[c] = pc[c] \/ (pc[c] # "done" /\ pc'[c] \in After(pc[c]))
  BY <1>1, RunMoves, ServeMoves DEF TypeOK
<1>2. ASSUME NEW d \in Calls, NEW k \in Keys, NEW i \in Instances, Start(d, k, i) \/ Explain(d, k, i)
      PROVE  pc'[c] = pc[c]
  BY <1>2 DEF Start, Explain, TypeOK
<1>3. ASSUME NEW d \in Calls, Cancel(d) PROVE pc'[c] = pc[c]
  BY <1>3 DEF Cancel
<1>4. CASE Environment \/ UNCHANGED vars
  BY <1>4 DEF Environment, RoleChange, Overwrite, Drop, ForeignWrite
<1> QED
  BY <1>1, <1>2, <1>3, <1>4 DEF Next

(* Each of these steps changes the state.                                  *)
LEMMA NoIdleStep ==
    ASSUME TypeOK, NEW c \in Calls, Run(c) \/ Serve(c)
    PROVE  vars' # vars
<1>1. PICK p \in After(pc[c]) : pc[c] # "done" /\ pc' = [pc EXCEPT ![c] = p]
  BY RunMoves, ServeMoves
<1>2. pc[c] \in Points /\ p # pc[c]
  BY <1>1 DEF TypeOK, Points, After, Onward
<1> QED
  BY <1>1, <1>2 DEF TypeOK
-----------------------------------------------------------------------------
(* A call that is not starved gets on.                                     *)

(* It leaves every point but the await of another call's future.           *)
Leaves(c, p) == pc[c] = p ~> pc[c] \in After(p)

LEMMA LeavesPoint ==
    ASSUME NEW c \in Calls, NEW p \in Points \ {"idle", "join", "done"}
    PROVE  Spec /\ Prompt(c) => Leaves(c, p)
<1> DEFINE Here == pc[c] = p
           There == pc[c] \in After(p)
<1>1. TypeOK /\ Here /\ [Next]_vars => Here' \/ There'
  BY StaysOrMoves
<1>2. CASE p \in {"get", "fetch", "set", "ask"}
  <2>1. Here => Requested(c)
    BY <1>2 DEF Requested
  <2>2. TypeOK /\ Here /\ <<Serve(c)>>_vars => There'
    BY ServeMoves DEF TypeOK
  <2> HIDE DEF Here, There
  <2>3. Spec /\ Prompt(c) => (Here ~> There)
    BY <1>1, <2>1, <2>2, TypeCorrect, PTL DEF Spec, Prompt
  <2> QED
    BY <2>3 DEF Here, There, Leaves
<1>3. CASE p \in {"got", "fetched", "stored", "asked"}
  <2>1. Here => Resumable(c)
    BY <1>3 DEF Resumable
  <2>2. TypeOK /\ Here /\ <<Run(c)>>_vars => There'
    BY RunMoves DEF TypeOK
  <2> HIDE DEF Here, There
  <2>3. Spec /\ Prompt(c) => (Here ~> There)
    BY <1>1, <2>1, <2>2, TypeCorrect, PTL DEF Spec, Prompt
  <2> QED
    BY <2>3 DEF Here, There, Leaves
<1> QED
  BY <1>2, <1>3 DEF Points

(* It returns, or it awaits the future of another call.                    *)
ReturnsOrJoins(c) == pc[c] # "idle" ~> pc[c] \in {"join", "done"}

LEMMA PromptCallsProceed ==
    ASSUME NEW c \in Calls
    PROVE  Spec /\ Prompt(c) => ReturnsOrJoins(c)
<1> DEFINE Ends == pc[c] \in {"join", "done"}
<1>1. Spec /\ Prompt(c) =>
          /\ Leaves(c, "get") /\ Leaves(c, "got") /\ Leaves(c, "fetch") /\ Leaves(c, "fetched")
          /\ Leaves(c, "set") /\ Leaves(c, "stored") /\ Leaves(c, "ask") /\ Leaves(c, "asked")
  BY LeavesPoint DEF Points
<1>2. /\ pc[c] \in After("get") => pc[c] = "got" \/ Ends
      /\ pc[c] \in After("got") => pc[c] = "fetch" \/ Ends
      /\ pc[c] \in After("fetch") => pc[c] = "fetched" \/ Ends
      /\ pc[c] \in After("fetched") => pc[c] = "set" \/ Ends
      /\ pc[c] \in After("set") => pc[c] = "stored" \/ Ends
      /\ pc[c] \in After("stored") => Ends
      /\ pc[c] \in After("ask") => pc[c] = "asked" \/ Ends
      /\ pc[c] \in After("asked") => Ends
  BY DEF After, Onward
<1>3. TypeOK /\ pc[c] # "idle" =>
          \/ pc[c] = "get" \/ pc[c] = "got" \/ pc[c] = "fetch" \/ pc[c] = "fetched"
          \/ pc[c] = "set" \/ pc[c] = "stored" \/ pc[c] = "ask" \/ pc[c] = "asked"
          \/ Ends
  BY DEF TypeOK, Points
<1> HIDE DEF Ends
<1>4. Spec /\ Prompt(c) => (pc[c] # "idle" ~> Ends)
  BY <1>1, <1>2, <1>3, TypeCorrect, PTL DEF Leaves
<1> QED
  BY <1>4 DEF Ends, ReturnsOrJoins

-----------------------------------------------------------------------------
(* A joiner returns once its fetcher has.                                  *)

(* Nothing but Lead makes a future pending, and Lead makes a new one.      *)
LEMMA SettledStays ==
    ASSUME Typed, FlightInv, [Next]_vars, NEW d \in Calls, fut[d].st \notin {"none", "pending"}
    PROVE  fut'[d].st \notin {"none", "pending"}
<1> USE DEF Typed, TypeOK
<1>1. ASSUME NEW e \in Calls, Lead(e) PROVE fut'[d].st \notin {"none", "pending"}
  <2>1. e # d
    BY <1>1 DEF Lead, FlightInv, FutureInv
  <2> QED
    BY <1>1, <2>1 DEF Lead
<1>2. ASSUME NEW e \in Calls, NEW f, f.st \notin {"none", "pending"}, Settle(e, f)
      PROVE  fut'[d].st \notin {"none", "pending"}
  BY <1>2 DEF Settle
<1>3. ASSUME NEW e \in Calls, FetchFailed(e) \/ Populated(e)
      PROVE  fut'[d].st \notin {"none", "pending"}
  <2>1. /\ (IF StaleOnError THEN Result({}) ELSE Error).st \notin {"none", "pending"}
        /\ Result(ResolutionToPerms(answer[e])).st \notin {"none", "pending"}
    BY DEF Result, Error
  <2> QED
    BY <1>2, <1>3, <2>1 DEF FetchFailed, Populated
<1>4. ASSUME NEW e \in Calls, Cancel(e) PROVE fut'[d].st \notin {"none", "pending"}
  BY <1>4 DEF Cancel, CancelledFuture
<1>5. CASE fut' = fut
  BY <1>5
<1> QED
  BY <1>1, <1>3, <1>4, <1>5
     DEF Next, Run, Serve, Environment, Start, Explain, RedisGet, RedisGetFails, HeliosAnswers,
         HeliosFails, RedisSet, RedisSetFails, Hit, Join, FetchRaised, Populate, Wake,
         Explained, Cancelled, RoleChange, Overwrite, Drop, ForeignWrite

JoinedTo(c, d) == pc[c] = "join" /\ waits[c] = d

LEMMA StaysJoined ==
    ASSUME TypeOK, [Next]_vars, NEW c \in Calls, NEW d, JoinedTo(c, d)
    PROVE  JoinedTo(c, d)' \/ pc'[c] = "done"
<1>1. pc'[c] \in {"join", "done"}
  BY StaysOrMoves DEF JoinedTo, After, Onward
<1>2. waits'[c] = waits[c]
  <2>1. ASSUME NEW e \in Calls, Join(e) PROVE waits'[c] = waits[c]
    BY <2>1 DEF Join, JoinedTo, TypeOK
  <2>2. CASE waits' = waits
    BY <2>2
  <2> QED
    BY <2>1, <2>2
       DEF Next, Run, Serve, Environment, Start, Explain, RedisGet, RedisGetFails, HeliosAnswers,
           HeliosFails, RedisSet, RedisSetFails, Hit, Lead, FetchFailed, FetchRaised, Populate,
           Populated, Wake, Explained, Cancel, Cancelled, RoleChange, Overwrite, Drop, ForeignWrite
<1> QED
  BY <1>1, <1>2 DEF JoinedTo

(* c awaits a future that its creator has left unsettled.                  *)
Abandoned(c) == pc[c] = "join" /\ fut[waits[c]].st = "pending" /\ ~Leads(waits[c])

(* What a joiner of d has to come.                                         *)
WokenBy(c, d) == JoinedTo(c, d) => <>(pc[c] = "done" \/ Abandoned(c))

LEMMA JoinerWoken ==
    ASSUME NEW c \in Calls, NEW d \in Calls
    PROVE  Spec /\ Prompt(c) /\ Prompt(d) => []WokenBy(c, d)
<1> DEFINE Joined == JoinedTo(c, d)
           Open == fut[d].st = "pending"
           Done == pc[c] = "done"
           Gone == pc[d] \in {"join", "done"}
           Begun == pc[d] # "idle"
           Left == Abandoned(c)
           Inv == Typed /\ FlightInv
<1>1. Inv /\ Joined /\ [Next]_vars => Joined' \/ Done'
  BY StaysJoined DEF Typed
<1>2. Inv /\ Joined /\ Open => Left \/ (Begun /\ ~Gone)
  BY DEF JoinedTo, Abandoned, Leads
<1>3. Inv /\ Joined /\ ~Open /\ [Next]_vars => ~Open'
  <2>1. Inv /\ Joined => fut[d].st # "none"
    BY NoCallAssumption DEF FlightInv, JoinInv, JoinedTo
  <2> QED
    BY <2>1, SettledStays
<1>4. Joined /\ ~Open => Resumable(c)
  BY DEF JoinedTo, Resumable
<1>5. Inv /\ Joined /\ <<Run(c)>>_vars => Done'
  BY RunMoves DEF Typed, TypeOK, JoinedTo, After, Onward
<1>6. Spec => []Inv
  <2>1. ClientInv => Typed /\ FlightInv
    BY DEF ClientInv
  <2> QED
    BY <2>1, ClientInvariant, PTL
<1>7. Spec /\ Prompt(d) => ReturnsOrJoins(d)
  BY PromptCallsProceed
<1> HIDE DEF Joined, Open, Done, Left, Inv
<1>8. Spec /\ Prompt(c) /\ Prompt(d) => [](Joined => <>(Done \/ Left))
  BY <1>1, <1>2, <1>3, <1>4, <1>5, <1>6, <1>7, PTL DEF Spec, Prompt, ReturnsOrJoins
<1> QED
  BY <1>8 DEF WokenBy, Joined, Done, Left

ReturnsOrAbandoned(c) == pc[c] # "idle" ~> pc[c] = "done" \/ Abandoned(c)

(* Calls that are not starved return, or are abandoned by their fetcher.   *)
LEMMA PromptCallsReturn ==
    Spec /\ (\A c \in Calls : Prompt(c)) => \A c \in Calls : ReturnsOrAbandoned(c)
<1> DEFINE AllPrompt == \A c \in Calls : Prompt(c)
<1> SUFFICES ASSUME NEW c \in Calls PROVE Spec /\ AllPrompt => ReturnsOrAbandoned(c)
  OBVIOUS
<1> DEFINE Joins == \E d \in Calls : JoinedTo(c, d)
           AllWoken == \A d \in Calls : WokenBy(c, d)
<1>1. Spec /\ AllPrompt => \A d \in Calls : []WokenBy(c, d)
  BY JoinerWoken
<1>2. (\A d \in Calls : []WokenBy(c, d)) => []AllWoken
  OBVIOUS
<1>3. AllWoken => (Joins => <>(pc[c] = "done" \/ Abandoned(c)))
  BY DEF WokenBy
<1>4. Typed /\ pc[c] \in {"join", "done"} => Joins \/ pc[c] = "done"
  BY DEF Typed, JoinedTo
<1>5. Spec /\ AllPrompt => ReturnsOrJoins(c)
  BY PromptCallsProceed
<1>6. Spec => []Typed
  BY InitTyped, NextTyped, PTL DEF Spec
<1> HIDE DEF AllPrompt, Joins, AllWoken
<1> QED
  BY <1>1, <1>2, <1>3, <1>4, <1>5, <1>6, PTL DEF ReturnsOrJoins, ReturnsOrAbandoned

(* Where no joiner is abandoned, they return.                              *)
LEMMA QuietCallsReturn ==
    ASSUME ~MayCancel, ~MalformedReply
    PROVE  Spec /\ (\A c \in Calls : Prompt(c)) => CallsReturn
<1> DEFINE AllPrompt == \A c \in Calls : Prompt(c)
<1>1. ASSUME NEW c \in Calls PROVE Spec /\ AllPrompt => (pc[c] # "idle" ~> pc[c] = "done")
  <2>1. Spec /\ AllPrompt => ReturnsOrAbandoned(c)
    BY PromptCallsReturn
  <2>2. NoWaiterAbandoned => ~Abandoned(c)
    BY DEF NoWaiterAbandoned, Abandoned
  <2> HIDE DEF AllPrompt
  <2> QED
    BY <2>1, <2>2, WaitersNeverAbandoned, PTL DEF ReturnsOrAbandoned
<1> QED
  BY <1>1 DEF CallsReturn
-----------------------------------------------------------------------------
(* Liveness, under the fairness that the specification states.             *)

(* There is a way on from every await: a task that can be resumed can take *)
(* a step, and a server can answer each request.                           *)
NoCallStuck ==
    \A c \in Calls :
        /\ Resumable(c) => ENABLED <<Run(c)>>_vars
        /\ Requested(c) => ENABLED <<Serve(c)>>_vars

LEMMA FairIsPrompt ==
    ASSUME NEW c \in Calls
    PROVE  FairTo(c) /\ []NoCallStuck => Prompt(c)
<1>1. NoCallStuck =>
          /\ Resumable(c) => ENABLED <<Run(c)>>_vars
          /\ Requested(c) => ENABLED <<Serve(c)>>_vars
  BY DEF NoCallStuck
<1> QED
  BY <1>1, PTL DEF FairTo, Prompt

LEMMA FairToAll == Fairness /\ []NoCallStuck => \A c \in Calls : Prompt(c)
<1> SUFFICES ASSUME NEW c \in Calls PROVE Fairness /\ []NoCallStuck => Prompt(c)
  OBVIOUS
<1>1. Fairness => FairTo(c)
  BY DEF Fairness
<1> QED
  BY <1>1, FairIsPrompt, PTL

(* Whatever fails, is cancelled or cannot be read, and unless a task is    *)
(* stuck (NoCallStuck), each call returns or is abandoned by its fetcher:  *)
(* nothing else in the client can hang.                                    *)
THEOREM OnlyAbandonedHang ==
    FairSpec /\ []NoCallStuck => \A c \in Calls : ReturnsOrAbandoned(c)
BY FairToAll, PromptCallsReturn, PTL DEF FairSpec

(* Without cancellation and unreadable answers, and unless a task is stuck *)
(* (NoCallStuck), every call returns: its fetcher, if it joined one,       *)
(* settles the future on every path.                                       *)
THEOREM EveryCallReturns ==
    ASSUME ~MayCancel, ~MalformedReply
    PROVE  FairSpec /\ []NoCallStuck => CallsReturn
BY FairToAll, QuietCallsReturn, PTL DEF FairSpec

(* An abandoned call stays so for ever, if nothing is cancelled: no later  *)
(* fetch, write-through or invalidation of its key wakes it.               *)
THEOREM AbandonedForGood ==
    ASSUME ~MayCancel
    PROVE  Spec => \A c \in Calls : [](Abandoned(c) => []Abandoned(c))
<1> SUFFICES ASSUME NEW c \in Calls PROVE Spec => [](Abandoned(c) => []Abandoned(c))
  OBVIOUS
<1>1. Typed /\ FlightInv /\ Abandoned(c) /\ [Next]_vars => Abandoned(c)'
  <2> SUFFICES ASSUME Typed, FlightInv, Abandoned(c), [Next]_vars PROVE Abandoned(c)'
    OBVIOUS
  <2> DEFINE d == waits[c]
  <2> USE DEF Typed, TypeOK, Abandoned
  <2>1. d \in Calls /\ fut[d].st = "pending" /\ pc[d] = "done"
    BY DEF FlightInv, FutureInv, Leads, Points
  <2>2. ASSUME NEW e \in Calls, Run(e) \/ Serve(e) PROVE e \notin {c, d}
    <3>1. pc[e] # "done"
      BY <2>2, RunMoves, ServeMoves
    <3>2. e # c
      BY <2>2 DEF Run, Serve, RedisGet, RedisGetFails, HeliosAnswers, HeliosFails, Asks, RedisSet,
                  RedisSetFails, Hit, Join, Lead, FetchFailed, FetchRaised, Populate, Populated,
                  Wake, Explained, Cancelled, Leads
    <3> QED
      BY <2>1, <3>1, <3>2
  <2>3. ASSUME NEW e \in Calls \ {c, d}, Run(e) \/ Serve(e) PROVE Abandoned(c)'
    <3>1. pc'[c] = pc[c] /\ pc'[d] = pc[d]
      BY <2>1, <2>3, RunMoves, ServeMoves
    <3>2. waits'[c] = waits[c] /\ fut'[d] = fut[d]
      BY <2>1, <2>3
         DEF Run, Serve, RedisGet, RedisGetFails, HeliosAnswers, HeliosFails, RedisSet,
             RedisSetFails, Hit, Join, Lead, FetchFailed, FetchRaised, Populate, Populated,
             Wake, Explained, Cancelled, Settle
    <3> QED
      BY <2>1, <3>1, <3>2 DEF Leads
  <2>4. ASSUME NEW e \in Calls, NEW k \in Keys, NEW i \in Instances, Start(e, k, i) \/ Explain(e, k, i)
        PROVE  Abandoned(c)'
    BY <2>1, <2>4 DEF Start, Explain, Leads
  <2>5. CASE Environment \/ UNCHANGED vars
    BY <2>5 DEF Environment, RoleChange, Overwrite, Drop, ForeignWrite, Leads
  <2> QED
    BY <2>2, <2>3, <2>4, <2>5 DEF Next, Cancel
<1>2. ClientInv => Typed /\ FlightInv
  BY DEF ClientInv
<1> QED
  BY <1>1, <1>2, ClientInvariant, PTL DEF Spec
=============================================================================
