----------------------- MODULE PermissionSystemProofs -----------------------
(***************************************************************************)
(* Proofs about PermissionSystem: Helios and the event consumers are an    *)
(* environment that PermissionClient allows, stray SETs included.  If no   *)
(* event overtakes a fetch or a stray SET, the cache is fresh once the     *)
(* write_throughs of a key have been made, if none of them fails, and once *)
(* its events have been consumed, whatever fails; no answer is older than  *)
(* its fetch; and with no failing GET besides, the system implements       *)
(* PermissionService, and what is revoked is denied.                       *)
(***************************************************************************)
EXTENDS PermissionSystem, PermissionClientProofs

USE DEF callVars, vars, systemVars, CallOrHelios
-----------------------------------------------------------------------------
(* The system is a PermissionClient in one of its environments.            *)

(* What is written through, and what a stray SET may yet store, is a list  *)
(* that Helios held for the key.                                           *)
StrayInv ==
    /\ pending \in [Keys -> PendingWrite]
    /\ \A k \in Keys : pending[k].on => pending[k].perms \in ever[k]
    /\ \A m \in stray : m \in Command /\ m.perms \in ever[m.key]

(* A stray SET is a write_through to the client's store, or nothing.       *)
LEMMA StrayStep ==
    ASSUME Typed, StrayInv, NEW m \in stray, StraySet(m)
    PROVE  [Next]_vars
<1>1. m.key \in Keys /\ m.perms \in PermList /\ m.perms \in ever[m.key]
  BY DEF StrayInv, Command
<1>2. UNCHANGED vars \/ Overwrite(m.key, m.perms)
  BY <1>1 DEF StraySet, SetNX, Overwrite, WriteThrough
<1>3. Overwrite(m.key, m.perms) => Environment
  BY <1>1 DEF Environment
<1> QED
  BY <1>2, <1>3 DEF Next

LEMMA SystemStep == Typed /\ StrayInv /\ [SysNext]_systemVars => [Next]_vars
<1> SUFFICES ASSUME Typed, StrayInv, SysNext PROVE [Next]_vars
  OBVIOUS
<1>1. ASSUME NEW c \in Calls, NEW k \in Keys, NEW i \in Instances,
             Ask(c, k, i) \/ AskExplain(c, k, i)
      PROVE Next
  BY <1>1 DEF Ask, AskExplain, Next
<1>2. ASSUME NEW c \in Calls, SdkStep(c) PROVE Next
  BY <1>2 DEF SdkStep, Next
<1>3. ASSUME NEW k \in Keys, NEW r \in Resolution, Commit(k, r) PROVE Next
  BY <1>3 DEF Commit, Next, Environment
<1>4. ASSUME NEW k \in Keys, WriteThroughDone(k) PROVE Next
  <2>1. pending[k].perms \in PermList
    BY DEF StrayInv, PendingWrite
  <2> QED
    BY <1>4, <2>1 DEF WriteThroughDone, Next, Environment
<1>5. ASSUME NEW k \in Keys, WriteThroughFails(k) PROVE UNCHANGED vars
  BY <1>5 DEF WriteThroughFails
<1>6. ASSUME NEW K \in SUBSET Keys, Deliver(K) PROVE Next
  BY <1>6 DEF Deliver, Next, Environment
<1>7. ASSUME NEW m \in stray, StraySet(m) PROVE [Next]_vars
  BY <1>7, StrayStep
<1> QED
  BY <1>1, <1>2, <1>3, <1>4, <1>5, <1>6, <1>7 DEF SysNext

(* Where a stray SET comes from: a fetch that gave up its SET, or a failed *)
(* write_through.                                                          *)
LEMMA StraySource ==
    ASSUME [SysNext]_systemVars, NEW m \in stray' \ stray
    PROVE  \/ \E c \in Calls : /\ pc[c] = "set" /\ m = SetOf(c)
                              /\ UNCHANGED <<redis, truth, pending, events>>
           \/ \E k \in Keys : WriteThroughFails(k) /\ m = WriteOf(k)
<1>1. ASSUME NEW c \in Calls, SdkStep(c)
      PROVE  pc[c] = "set" /\ m = SetOf(c) /\ UNCHANGED <<redis, truth, pending, events>>
  BY <1>1 DEF SdkStep, GivesUpSet, RedisSetFails, Cancelled
<1>2. ASSUME NEW k \in Keys, WriteThroughFails(k) PROVE m = WriteOf(k)
  BY <1>2 DEF WriteThroughFails
<1> QED
  BY <1>1, <1>2
     DEF SysNext, Ask, AskExplain, Commit, WriteThroughDone, Deliver, StraySet

LEMMA NextStray == Typed /\ ListInv /\ StrayInv /\ [SysNext]_systemVars => StrayInv'
<1> SUFFICES ASSUME Typed, ListInv, StrayInv, [SysNext]_systemVars PROVE StrayInv'
  OBVIOUS
<1> USE DEF Typed, TypeOK
<1>1. \A k \in Keys : ever[k] \subseteq ever'[k]
  <2>1. ASSUME NEW k \in Keys, NEW r \in Resolution, RoleChange(k, r)
        PROVE  \A j \in Keys : ever[j] \subseteq ever'[j]
    BY <2>1 DEF RoleChange
  <2> QED
    BY <2>1, SystemStep
       DEF Next, Run, Serve, Environment, Start, Explain, Hit, Join, Lead, FetchFailed, FetchRaised,
           Populate, Populated, Wake, Explained, Cancelled, Cancel, RedisGet, RedisGetFails,
           HeliosAnswers, HeliosFails, RedisSet, RedisSetFails, Overwrite, Drop, ForeignWrite
<1>2. NoWrite \in PendingWrite /\ ~NoWrite.on
  BY DEF NoWrite, PendingWrite, PermList
<1>3. \A k \in Keys : Current(k) \in PermList
  BY ResolutionType DEF Current
<1>4. /\ pending' \in [Keys -> PendingWrite]
      /\ \A k \in Keys : pending'[k].on => pending'[k].perms \in ever'[k]
  <2>1. ASSUME NEW k \in Keys, NEW r \in Resolution, Commit(k, r)
        PROVE  /\ pending' \in [Keys -> PendingWrite]
               /\ \A j \in Keys : pending'[j].on => pending'[j].perms \in ever'[j]
    <3> DEFINE w == [on |-> TRUE, perms |-> ResolutionToPerms(r), old |-> Current(k)]
    <3>1. w \in PendingWrite /\ w.perms = ResolutionToPerms(r)
      BY <1>3, ResolutionType DEF PendingWrite
    <3>2. pending' = [pending EXCEPT ![k] = w] /\ ResolutionToPerms(r) \in ever'[k]
      BY <2>1 DEF Commit, RoleChange
    <3> HIDE DEF w
    <3> QED
      BY <1>1, <3>1, <3>2 DEF StrayInv
  <2>2. ASSUME NEW k \in Keys, pending' = pending \/ pending' = [pending EXCEPT ![k] = NoWrite]
        PROVE  /\ pending' \in [Keys -> PendingWrite]
               /\ \A j \in Keys : pending'[j].on => pending'[j].perms \in ever'[j]
    BY <1>1, <1>2, <2>2 DEF StrayInv
  <2>3. ASSUME NEW k \in Keys, WriteThroughDone(k) \/ WriteThroughFails(k)
        PROVE  pending' = [pending EXCEPT ![k] = NoWrite]
    BY <2>3 DEF WriteThroughDone, WriteThroughFails
  <2>4. Keys # {}
    BY NonEmptyAssumption
  <2> QED
    BY <2>1, <2>2, <2>3, <2>4 DEF SysNext, Ask, AskExplain, SdkStep, StraySet, Deliver
<1>5. ASSUME NEW m \in stray' PROVE m \in Command /\ m.perms \in ever'[m.key]
  <2>1. CASE m \in stray
    BY <1>1, <2>1 DEF StrayInv, Command
  <2>2. ASSUME NEW c \in Calls, pc[c] = "set", m = SetOf(c)
        PROVE  m \in Command /\ m.perms \in ever'[m.key]
    <3>1. ResolutionToPerms(answer[c]) \in PermList
      BY ResolutionType
    <3>2. ResolutionToPerms(answer[c]) \in ever[key[c]]
      BY <2>2 DEF ListInv
    <3> QED
      BY <1>1, <2>2, <3>1, <3>2 DEF SetOf, Command
  <2>3. ASSUME NEW k \in Keys, WriteThroughFails(k), m = WriteOf(k)
        PROVE  m \in Command /\ m.perms \in ever'[m.key]
    BY <1>1, <2>3 DEF WriteThroughFails, WriteOf, Command, StrayInv, PendingWrite
  <2> QED
    BY <2>1, <2>2, <2>3, StraySource
<1> QED
  BY <1>4, <1>5 DEF StrayInv

LEMMA SystemInvariant == SysSpec => [](ClientInv /\ StrayInv)
<1>1. SysInit => ClientInv /\ StrayInv
  <2>1. NoWrite \in PendingWrite /\ ~NoWrite.on
    BY DEF NoWrite, PendingWrite, PermList
  <2> QED
    BY <2>1, InitClient DEF SysInit, StrayInv
<1>2. ClientInv /\ StrayInv /\ [SysNext]_systemVars => ClientInv' /\ StrayInv'
  <2>1. ClientInv => Typed /\ ListInv
    BY DEF ClientInv
  <2> QED
    BY <2>1, SystemStep, NextClient, NextStray
<1> QED
  BY <1>1, <1>2, PTL DEF SysSpec

(* So every behaviour of the system is one of PermissionClient.            *)
LEMMA SystemIsClient == SysSpec => Spec
<1>1. ClientInv => Typed
  BY DEF ClientInv
<1>2. SysInit => Init
  BY DEF SysInit
<1> QED
  BY <1>1, <1>2, SystemStep, SystemInvariant, PTL DEF SysSpec, Spec
-----------------------------------------------------------------------------
(* Type correctness.                                                       *)

(* Each variable of the system holds a value of its type.                  *)
THEOREM SystemTypeCorrect == SysSpec => []SysTypeOK
<1> DEFINE Others == events \subseteq Keys /\ window \in [Calls -> SUBSET PermList]
<1>1. SysInit => Others
  BY DEF SysInit
<1>2. ClientInv /\ StrayInv /\ Others /\ [SysNext]_systemVars => Others'
  <2> SUFFICES ASSUME Typed, StrayInv, Others, [SysNext]_systemVars PROVE Others'
    BY DEF ClientInv
  <2> USE DEF Typed, TypeOK
  <2>1. \A r \in Resolution : ResolutionToPerms(r) \in PermList
    BY ResolutionType
  <2>2. events' \subseteq Keys
    BY DEF SysNext, Ask, AskExplain, SdkStep, StraySet, Commit, WriteThroughDone, WriteThroughFails,
           Deliver
  <2>3. window' \in [Calls -> SUBSET PermList]
    <3>1. ASSUME NEW k \in Keys, NEW r \in Resolution, Commit(k, r)
          PROVE  window' \in [Calls -> SUBSET PermList]
      BY <2>1, <3>1 DEF Commit
    <3>2. ASSUME NEW c \in Calls, NEW k \in Keys, NEW i \in Instances,
                 Ask(c, k, i) \/ AskExplain(c, k, i)
          PROVE  window' \in [Calls -> SUBSET PermList]
      <4>1. {Current(k)} \cup Replaced(k) \in SUBSET PermList
        BY <2>1 DEF Current, Replaced, StrayInv, PendingWrite
      <4> QED
        BY <3>2, <4>1 DEF Ask, AskExplain
    <3> QED
      BY <3>1, <3>2 DEF SysNext, SdkStep, StraySet, WriteThroughDone, WriteThroughFails, Deliver
  <2> QED
    BY <2>2, <2>3
<1>3. ClientInv /\ StrayInv /\ Others => SysTypeOK
  BY DEF ClientInv, Typed, StrayInv, SysTypeOK
<1> QED
  BY <1>1, <1>2, <1>3, SystemInvariant, PTL DEF SysSpec
-----------------------------------------------------------------------------
(* Events that overtake no fetch: below, a fetch lasts until its SET can   *)
(* no longer be executed, also when its call has given the SET up.         *)

LEMMA InOrderStep == [InOrderNext]_systemVars => [SysNext]_systemVars
BY DEF InOrderNext, SysNext

LEMMA InOrderIsSystem == InOrderSpec => SysSpec
BY InOrderStep, PTL DEF InOrderSpec, SysSpec

(* With write_through alone, and no event that invalidates, there is       *)
(* nothing that could overtake a fetch.                                    *)
LEMMA WithoutEventsInOrder == ASSUME ~EventsOn PROVE SysSpec => InOrderSpec
<1>1. [SysNext]_systemVars => [InOrderNext]_systemVars
  BY DEF SysNext, InOrderNext, Deliver
<1> QED
  BY <1>1, PTL DEF SysSpec, InOrderSpec

LEMMA InOrderAlways == InOrderSpec => [](SysTypeOK /\ FlightInv /\ ListInv /\ StrayInv)
<1>1. ClientInv => FlightInv /\ ListInv
  BY DEF ClientInv
<1> QED
  BY <1>1, InOrderIsSystem, SystemTypeCorrect, SystemInvariant, PTL
-----------------------------------------------------------------------------
(* What a step does to the lists on their way into the cache.              *)

(* Helios has answered the fetch that d leads, with the list Found(d).     *)
Fetched(d) == Leads(d) /\ answer[d] \in Resolution
Found(d) == ResolutionToPerms(answer[d])

(* A fetch that has its answer keeps it; a new answer is what Helios holds *)
(* now.                                                                    *)
LEMMA FetchStep ==
    ASSUME SysTypeOK, ListInv, [SysNext]_systemVars, NEW d \in Calls, Fetched(d)'
    PROVE  /\ key'[d] = key[d]
           /\ \/ Fetched(d) /\ Found(d)' = Found(d)
              \/ /\ Found(d)' = Current(key[d]) /\ window' = window
                 /\ UNCHANGED <<redis, truth, pending, events>>
<1> USE DEF SysTypeOK, TypeOK, Fetched, Found, Leads
<1>1. CASE UNCHANGED <<pc, key, answer>>
  BY <1>1
<1>2. ASSUME NEW c \in Calls, NEW k \in Keys, NEW i \in Instances,
             Ask(c, k, i) \/ AskExplain(c, k, i)
      PROVE  key'[d] = key[d] /\ Fetched(d) /\ Found(d)' = Found(d)
  BY <1>2 DEF Ask, AskExplain, Start, Explain
<1>3. ASSUME NEW c \in Calls, SdkStep(c), HeliosAnswers(c)
      PROVE  \/ key'[d] = key[d] /\ Fetched(d) /\ Found(d)' = Found(d)
             \/ /\ key'[d] = key[d] /\ Found(d)' = Current(key[d]) /\ window' = window
                /\ UNCHANGED <<redis, truth, pending, events>>
  BY <1>3 DEF SdkStep, HeliosAnswers, Asks, Answered, Current
<1>4. ASSUME NEW c \in Calls, SdkStep(c), HeliosFails(c)
      PROVE  key'[d] = key[d] /\ Fetched(d) /\ Found(d)' = Found(d)
  <2>1. \A st \in {"unreachable", "malformed"} :
            [status |-> st, perms |-> {}] \notin Resolution
    BY DEF Resolution
  <2>2. PICK r : r \notin Resolution /\ answer' = [answer EXCEPT ![c] = r]
    BY <1>4, <2>1 DEF HeliosFails
  <2> QED
    BY <1>4, <2>2 DEF SdkStep, HeliosFails, Asks, Answered
<1>5. ASSUME NEW c \in Calls, SdkStep(c), ~HeliosAnswers(c), ~HeliosFails(c)
      PROVE  key'[d] = key[d] /\ Fetched(d) /\ Found(d)' = Found(d)
  <2>1. UNCHANGED <<key, answer>>
    BY <1>5 DEF SdkStep, Run, Serve, Hit, Join, Lead, FetchFailed, FetchRaised, Populate, Populated,
                Wake, Explained, Cancelled, Cancel, RedisGet, RedisGetFails, RedisSet, RedisSetFails
  <2>2. Leads(d)' => Leads(d) \/ pc[d] = "got"
    BY <1>5 DEF SdkStep, Run, Serve, Hit, Join, Lead, FetchFailed, FetchRaised, Populate, Populated,
                Wake, Explained, Cancelled, Cancel, RedisGet, RedisGetFails, RedisSet, RedisSetFails,
                Settle, Return
  <2>3. pc[d] = "got" => answer[d] \notin Resolution
    BY DEF ListInv, Resolution
  <2> QED
    BY <2>1, <2>2, <2>3
<1>6. ASSUME \/ \E k \in Keys : \/ \E r \in Resolution : Commit(k, r)
                                \/ WriteThroughDone(k) \/ WriteThroughFails(k)
             \/ \E K \in SUBSET Keys : Deliver(K)
             \/ \E m \in stray : StraySet(m)
      PROVE  UNCHANGED <<pc, key, answer>>
  BY <1>6 DEF Commit, RoleChange, WriteThroughDone, Overwrite, WriteThroughFails, Deliver, Drop,
              StraySet
<1> QED
  BY <1>1, <1>2, <1>3, <1>4, <1>5, <1>6 DEF SysNext

(* What can happen to the cache and to what it is compared with.           *)
LEMMA StoreStep ==
    ASSUME SysTypeOK, ListInv, [InOrderNext]_systemVars
    PROVE  \/ UNCHANGED <<redis, truth, pending, events>>
           \/ \E c \in Calls :
                 /\ Fetched(c) /\ redis' = SetNX(redis, key[c], Found(c))
                 /\ UNCHANGED <<truth, key, answer, pending, events>>
           \/ \E k \in Keys : \/ \E r \in Resolution : Commit(k, r)
                              \/ WriteThroughDone(k) \/ WriteThroughFails(k)
           \/ \E K \in SUBSET Keys : Deliver(K) /\ ~Overtakes(K)
           \/ \E m \in stray : StraySet(m)
<1>1. ASSUME NEW c \in Calls, SdkStep(c), RedisSet(c)
      PROVE  /\ Fetched(c) /\ redis' = SetNX(redis, key[c], Found(c))
             /\ UNCHANGED <<truth, key, answer, pending, events>>
  BY <1>1 DEF SdkStep, RedisSet, ListInv, Fetched, Found, Leads
<1>2. ASSUME NEW c \in Calls, SdkStep(c), ~RedisSet(c)
      PROVE  UNCHANGED <<redis, truth, pending, events>>
  BY <1>2 DEF SdkStep, Run, Serve, Hit, Join, Lead, FetchFailed, FetchRaised, Populate, Populated,
              Wake, Explained, Cancelled, Cancel, RedisGet, RedisGetFails, HeliosAnswers,
              HeliosFails, RedisSetFails
<1>3. ASSUME NEW c \in Calls, NEW k \in Keys, NEW i \in Instances,
             Ask(c, k, i) \/ AskExplain(c, k, i)
      PROVE  UNCHANGED <<redis, truth, pending, events>>
  BY <1>3 DEF Ask, AskExplain, Start, Explain
<1> QED
  BY <1>1, <1>2, <1>3 DEF InOrderNext

(* Which lists are readable changes with a commit and with the end of its  *)
(* write_through.                                                          *)
LEMMA ReadableStep ==
    ASSUME SysTypeOK, NEW k \in Keys
    PROVE  /\ UNCHANGED <<truth, pending>> =>
                 \A j \in Keys : Current(j)' = Current(j) /\ Readable(j)' = Readable(j)
           /\ \A r \in Resolution : Commit(k, r) =>
                 /\ Readable(k) = {Current(k)}
                 /\ Current(k)' = ResolutionToPerms(r)
                 /\ Readable(k)' = {ResolutionToPerms(r), Current(k)}
                 /\ \A j \in Keys \ {k} : Current(j)' = Current(j) /\ Readable(j)' = Readable(j)
           /\ WriteThroughDone(k) \/ WriteThroughFails(k) =>
                 /\ Readable(k)' = {Current(k)}
                 /\ \A j \in Keys : Current(j)' = Current(j)
                 /\ \A j \in Keys \ {k} : Readable(j)' = Readable(j)
<1> USE DEF SysTypeOK, TypeOK, Readable, Current, Replaced
<1>1. UNCHANGED <<truth, pending>> =>
          \A j \in Keys : Current(j)' = Current(j) /\ Readable(j)' = Readable(j)
  OBVIOUS
<1>2. ASSUME NEW r \in Resolution, Commit(k, r)
      PROVE  /\ Readable(k) = {Current(k)}
             /\ Current(k)' = ResolutionToPerms(r)
             /\ Readable(k)' = {ResolutionToPerms(r), Current(k)}
             /\ \A j \in Keys \ {k} : Current(j)' = Current(j) /\ Readable(j)' = Readable(j)
  BY <1>2 DEF Commit, RoleChange
<1>3. ASSUME WriteThroughDone(k) \/ WriteThroughFails(k)
      PROVE  /\ Readable(k)' = {Current(k)}
             /\ \A j \in Keys : Current(j)' = Current(j)
             /\ \A j \in Keys \ {k} : Readable(j)' = Readable(j)
  BY <1>3 DEF WriteThroughDone, WriteThroughFails, Overwrite, NoWrite
<1> QED
  BY <1>1, <1>2, <1>3
-----------------------------------------------------------------------------
(* Freshness while every write_through succeeds.                           *)

(* A cached list is what Helios holds, or held until the change whose      *)
(* write_through is pending and will overwrite it.  So is one that a       *)
(* fetcher is about to offer to the cache, or has offered it in a SET that *)
(* is still on its way, unless the key exists already: then NX refuses it. *)
FreshInv ==
    /\ \A k \in Keys :
          /\ redis[k].kind # "foreign"
          /\ pending[k].on => pending[k].perms = Current(k)
          /\ redis[k].kind = "list" => redis[k].perms \in Readable(k)
    /\ \A d \in Calls :
          Fetched(d) => Found(d) \in Readable(key[d]) \/ redis[key[d]].kind = "list"
    /\ \A m \in stray :
          m.nx /\ (m.perms \in Readable(m.key) \/ redis[m.key].kind = "list")

LEMMA InitFresh == SysInit => FreshInv
BY DEF SysInit, Init, FreshInv, Absent, NoWrite, Fetched, Leads

LEMMA NextFresh ==
    ASSUME ~WriteMayFail
    PROVE  SysTypeOK /\ ListInv /\ FreshInv /\ [InOrderNext]_systemVars => FreshInv'
<1> SUFFICES ASSUME SysTypeOK, ListInv, FreshInv, [InOrderNext]_systemVars PROVE FreshInv'
  OBVIOUS
<1>0. [SysNext]_systemVars
  BY InOrderStep
<1> USE DEF FreshInv, SysTypeOK, TypeOK
<1>2. \A d \in Calls : Fetched(d)' => key'[d] = key[d]
  BY <1>0, FetchStep
<1>9. \A m \in stray : m.key \in Keys
  BY DEF Command
<1>8. \A k \in Keys : ~WriteThroughFails(k)
  BY DEF WriteThroughFails
\* A list that was safe to store stays so if the store keeps its lists and
\* no list becomes unreadable for a key without one.
<1>1. ASSUME \A k \in Keys : redis[k].kind = "list" => redis'[k].kind = "list",
             \A k \in Keys : Readable(k) \subseteq Readable(k)' \/ redis'[k].kind = "list"
      PROVE  /\ \A d \in Calls : Fetched(d)' =>
                    Found(d)' \in Readable(key[d])' \/ redis'[key[d]].kind = "list"
             /\ \A m \in stray' :
                    m.nx /\ (m.perms \in Readable(m.key)' \/ redis'[m.key].kind = "list")
  <2>1. ASSUME NEW d \in Calls, Fetched(d)'
        PROVE  Found(d)' \in Readable(key[d])' \/ redis'[key[d]].kind = "list"
    <3>1. CASE Fetched(d) /\ Found(d)' = Found(d)
      BY <1>1, <1>2, <2>1, <3>1
    <3>2. CASE ~(Fetched(d) /\ Found(d)' = Found(d))
      BY <1>0, <1>1, <2>1, <3>2, FetchStep DEF Readable
    <3> QED
      BY <3>1, <3>2
  <2>2. ASSUME NEW m \in stray' \ stray
        PROVE  m.nx /\ (m.perms \in Readable(m.key)' \/ redis'[m.key].kind = "list")
    <3>1. PICK c \in Calls : pc[c] = "set" /\ m = SetOf(c)
      BY <1>0, <1>8, StraySource
    <3>2. Fetched(c) /\ m.nx /\ m.key = key[c] /\ m.perms = Found(c)
      BY <3>1 DEF Fetched, Found, Leads, ListInv, SetOf
    <3> QED
      BY <1>1, <3>2
  <2> QED
    BY <1>1, <1>9, <2>1, <2>2
<1>3. CASE UNCHANGED <<redis, truth, pending, events>>
  <2>1. \A k \in Keys : Current(k)' = Current(k) /\ Readable(k)' = Readable(k)
    BY <1>3, ReadableStep
  <2> QED
    BY <1>1, <1>2, <1>3, <2>1
<1>4. ASSUME NEW c \in Calls, Fetched(c), redis' = SetNX(redis, key[c], Found(c)),
             UNCHANGED <<truth, key, answer, pending, events>>
      PROVE  FreshInv'
  <2>1. \A k \in Keys : Current(k)' = Current(k) /\ Readable(k)' = Readable(k)
    BY <1>4, ReadableStep
  <2>2. \A k \in Keys : \/ redis'[k] = redis[k]
                        \/ redis'[k] = Stored(Found(c)) /\ k = key[c] /\ redis[k].kind # "list"
    BY <1>4 DEF SetNX
  <2> QED
    BY <1>1, <1>2, <1>4, <2>1, <2>2 DEF Stored
<1>5. ASSUME NEW k \in Keys, NEW r \in Resolution, Commit(k, r) PROVE FreshInv'
  <2>1. /\ redis' = redis /\ pending'[k].perms = ResolutionToPerms(r)
        /\ \A j \in Keys \ {k} : pending'[j] = pending[j]
    BY <1>5 DEF Commit, RoleChange
  <2>2. /\ Readable(k) = {Current(k)} /\ Current(k)' = ResolutionToPerms(r)
        /\ Readable(k)' = {ResolutionToPerms(r), Current(k)}
        /\ \A j \in Keys \ {k} : Current(j)' = Current(j) /\ Readable(j)' = Readable(j)
    BY <1>5, ReadableStep
  <2>3. \A j \in Keys :
            /\ redis'[j].kind # "foreign"
            /\ pending'[j].on => pending'[j].perms = Current(j)'
            /\ redis'[j].kind = "list" => redis'[j].perms \in Readable(j)'
    BY <2>1, <2>2
  <2>4. \A j \in Keys : Readable(j) \subseteq Readable(j)'
    BY <2>2
  <2> QED
    BY <1>1, <1>2, <2>1, <2>3, <2>4
<1>6. ASSUME NEW k \in Keys, WriteThroughDone(k) PROVE FreshInv'
  <2>1. /\ redis' = [redis EXCEPT ![k] = Stored(Current(k))]
        /\ pending' = [pending EXCEPT ![k] = NoWrite]
    BY <1>6 DEF WriteThroughDone, Overwrite, WriteThrough
  <2>2. /\ Readable(k)' = {Current(k)}
        /\ \A j \in Keys : Current(j)' = Current(j)
        /\ \A j \in Keys \ {k} : Readable(j)' = Readable(j)
    BY <1>6, ReadableStep
  <2> QED
    BY <1>1, <1>2, <2>1, <2>2 DEF Stored, NoWrite
<1>7. ASSUME NEW K \in SUBSET Keys, Deliver(K), ~Overtakes(K) PROVE FreshInv'
  <2>1. /\ UNCHANGED <<truth, pc, key, answer, pending>>
        /\ redis' = Delete(redis, K)
    BY <1>7 DEF Deliver, Drop
  <2>6. stray' = stray /\ \A m \in stray : m.key \in K => m.perms \in Readable(m.key)
    BY <1>7, <1>9 DEF Deliver, Overtakes, Readable
  <2>2. \A j \in Keys : Current(j)' = Current(j) /\ Readable(j)' = Readable(j)
    BY <2>1, ReadableStep
  <2>3. \A d \in Calls : /\ Fetched(d)' = Fetched(d)
                         /\ Found(d)' = Found(d)
                         /\ Fetched(d) /\ key[d] \in K => Found(d) \in Readable(key[d])
    BY <1>7, <2>1 DEF Overtakes, Fetched, Found, Leads, Readable
  <2>4. \A j \in Keys : IF j \in K THEN redis'[j] = Absent ELSE redis'[j] = redis[j]
    BY <2>1 DEF Delete
  <2> QED
    BY <1>9, <2>1, <2>2, <2>3, <2>4, <2>6 DEF Absent
<1>10. ASSUME NEW m \in stray, StraySet(m) PROVE FreshInv'
  <2>1. redis' = SetNX(redis, m.key, m.perms) /\ UNCHANGED <<truth, pending, events>>
    BY <1>10 DEF StraySet
  <2>2. \A k \in Keys : Current(k)' = Current(k) /\ Readable(k)' = Readable(k)
    BY <2>1, ReadableStep
  <2>3. \A k \in Keys : \/ redis'[k] = redis[k]
                        \/ redis'[k] = Stored(m.perms) /\ k = m.key /\ redis[k].kind # "list"
    BY <1>9, <2>1 DEF SetNX
  <2>4. \A k \in Keys :
            /\ redis'[k].kind # "foreign"
            /\ pending'[k].on => pending'[k].perms = Current(k)'
            /\ redis'[k].kind = "list" => redis'[k].perms \in Readable(k)'
            /\ redis[k].kind = "list" => redis'[k].kind = "list"
    BY <2>1, <2>2, <2>3 DEF Stored
  <2> QED
    BY <1>1, <1>2, <2>2, <2>4
<1> QED
  BY <1>3, <1>4, <1>5, <1>6, <1>7, <1>8, <1>10, StoreStep

(* As long as every write_through succeeds, and no event overtakes a       *)
(* fetch, the cache holds Helios's list or none for every key whose last   *)
(* change has been written through, however late its event is and however  *)
(* often it comes: NX keeps slow reads out.                                *)
THEOREM WrittenIsFresh ==
    ASSUME ~WriteMayFail
    PROVE  InOrderSpec => []FreshWhenWritten
<1>1. SysInit => FreshInv
  BY InitFresh
<1>2. SysTypeOK /\ ListInv /\ FreshInv /\ [InOrderNext]_systemVars => FreshInv'
  BY NextFresh
<1>3. FreshInv => FreshWhenWritten
  BY DEF FreshInv, FreshWhenWritten, Readable, Replaced
<1> QED
  BY <1>1, <1>2, <1>3, InOrderAlways, PTL DEF InOrderSpec
-----------------------------------------------------------------------------
(* Freshness with events as the backup, whatever fails.                    *)

(* Where Helios holds another list than the cache, than a fetcher that has *)
(* been answered, or than a SET on its way, an event is outstanding.       *)
RepairInv ==
    /\ \A k \in Keys :
          /\ pending[k].on => pending[k].perms = Current(k)
          /\ redis[k].kind = "list" => redis[k].perms = Current(k) \/ k \in events
    /\ \A d \in Calls : Fetched(d) => Found(d) = Current(key[d]) \/ key[d] \in events
    /\ \A m \in stray : m.perms = Current(m.key) \/ m.key \in events

LEMMA InitRepair == SysInit => RepairInv
BY DEF SysInit, Init, RepairInv, Absent, NoWrite, Fetched, Leads

LEMMA NextRepair ==
    ASSUME EventsOn
    PROVE  SysTypeOK /\ ListInv /\ RepairInv /\ [InOrderNext]_systemVars => RepairInv'
<1> SUFFICES ASSUME SysTypeOK, ListInv, RepairInv, [InOrderNext]_systemVars PROVE RepairInv'
  OBVIOUS
<1>0. [SysNext]_systemVars
  BY InOrderStep
<1> USE DEF RepairInv, SysTypeOK, TypeOK
<1>7. \A m \in stray : m.key \in Keys
  BY DEF Command
\* A fetch that has been answered, and a SET on its way, are as fresh as
\* before if each list of Helios that changes leaves an event.
<1>1. ASSUME \A k \in Keys : Current(k)' = Current(k) \/ k \in events', events \subseteq events'
      PROVE  /\ \A d \in Calls : Fetched(d)' =>
                    Found(d)' = Current(key[d])' \/ key'[d] \in events'
             /\ \A m \in stray' : m.perms = Current(m.key)' \/ m.key \in events'
  <2>1. ASSUME NEW d \in Calls, Fetched(d)'
        PROVE  Found(d)' = Current(key[d])' \/ key'[d] \in events'
    <3>1. key'[d] = key[d]
      BY <1>0, <2>1, FetchStep
    <3>2. CASE Fetched(d) /\ Found(d)' = Found(d)
      BY <1>1, <3>1, <3>2
    <3>3. CASE ~(Fetched(d) /\ Found(d)' = Found(d))
      BY <1>0, <1>1, <2>1, <3>1, <3>3, FetchStep
    <3> QED
      BY <3>2, <3>3
  <2>2. ASSUME NEW m \in stray' \ stray
        PROVE  m.perms = Current(m.key)' \/ m.key \in events'
    <3>1. ASSUME NEW c \in Calls, pc[c] = "set", m = SetOf(c)
          PROVE  m.perms = Current(m.key)' \/ m.key \in events'
      <4>1. Fetched(c) /\ m.key = key[c] /\ m.perms = Found(c)
        BY <3>1 DEF Fetched, Found, Leads, ListInv, SetOf
      <4> QED
        BY <1>1, <4>1
    <3>2. ASSUME NEW k \in Keys, WriteThroughFails(k), m = WriteOf(k)
          PROVE  m.perms = Current(m.key)' \/ m.key \in events'
      BY <1>1, <3>2 DEF WriteThroughFails, WriteOf
    <3> QED
      BY <1>0, <3>1, <3>2, StraySource
  <2> QED
    BY <1>1, <1>7, <2>1, <2>2
<1>2. CASE UNCHANGED <<redis, truth, pending, events>>
  <2>1. \A k \in Keys : Current(k)' = Current(k)
    BY <1>2, ReadableStep
  <2> QED
    BY <1>1, <1>2, <2>1
<1>3. ASSUME NEW c \in Calls, Fetched(c), redis' = SetNX(redis, key[c], Found(c)),
             UNCHANGED <<truth, key, answer, pending, events>>
      PROVE  RepairInv'
  <2>1. \A k \in Keys : Current(k)' = Current(k)
    BY <1>3, ReadableStep
  <2>2. \A k \in Keys : redis'[k] = redis[k] \/ (redis'[k] = Stored(Found(c)) /\ k = key[c])
    BY <1>3 DEF SetNX
  <2> QED
    BY <1>1, <1>3, <2>1, <2>2 DEF Stored
<1>4. ASSUME NEW k \in Keys, NEW r \in Resolution, Commit(k, r) PROVE RepairInv'
  <2>1. /\ redis' = redis /\ events' = events \cup {k}
        /\ pending'[k].perms = ResolutionToPerms(r)
        /\ \A j \in Keys \ {k} : pending'[j] = pending[j]
    BY <1>4 DEF Commit, RoleChange
  <2>2. /\ Current(k)' = ResolutionToPerms(r)
        /\ \A j \in Keys \ {k} : Current(j)' = Current(j)
    BY <1>4, ReadableStep
  <2> QED
    BY <1>1, <2>1, <2>2
<1>5. ASSUME NEW k \in Keys, WriteThroughDone(k) \/ WriteThroughFails(k) PROVE RepairInv'
  <2>1. /\ redis' = redis \/ redis' = [redis EXCEPT ![k] = Stored(Current(k))]
        /\ pending' = [pending EXCEPT ![k] = NoWrite] /\ events' = events
    BY <1>5 DEF WriteThroughDone, WriteThroughFails, Overwrite, WriteThrough
  <2>2. \A j \in Keys : Current(j)' = Current(j)
    BY <1>5, ReadableStep
  <2> QED
    BY <1>1, <2>1, <2>2 DEF Stored, NoWrite
<1>6. ASSUME NEW K \in SUBSET Keys, Deliver(K), ~Overtakes(K) PROVE RepairInv'
  <2>1. /\ UNCHANGED <<truth, pc, key, answer, pending>>
        /\ redis' = Delete(redis, K) /\ \E C \in SUBSET K : events' = events \ C
    BY <1>6 DEF Deliver, Drop
  <2>6. stray' = stray /\ \A m \in stray : m.key \in K => m.perms = Current(m.key)
    BY <1>6 DEF Deliver, Overtakes
  <2>2. \A j \in Keys : Current(j)' = Current(j)
    BY <2>1, ReadableStep
  <2>3. \A d \in Calls : /\ Fetched(d)' = Fetched(d)
                         /\ Found(d)' = Found(d)
                         /\ Fetched(d) /\ key[d] \in K => Found(d) = Current(key[d])
    BY <1>6, <2>1 DEF Overtakes, Fetched, Found, Leads
  <2>4. \A j \in Keys : IF j \in K THEN redis'[j] = Absent ELSE redis'[j] = redis[j]
    BY <2>1 DEF Delete
  <2>5. \A j \in Keys \ K : j \in events => j \in events'
    BY <2>1
  <2> QED
    BY <1>7, <2>1, <2>2, <2>3, <2>4, <2>5, <2>6 DEF Absent
<1>8. ASSUME NEW m \in stray, StraySet(m) PROVE RepairInv'
  <2>1. UNCHANGED <<truth, pending, events>>
    BY <1>8 DEF StraySet
  <2>2. \A k \in Keys : Current(k)' = Current(k)
    BY <2>1, ReadableStep
  <2>3. \A k \in Keys : redis'[k] = redis[k] \/ (redis'[k] = Stored(m.perms) /\ k = m.key)
    BY <1>7, <1>8 DEF StraySet, SetNX, WriteThrough
  <2> QED
    BY <1>1, <2>1, <2>2, <2>3 DEF Stored
<1> QED
  BY <1>2, <1>3, <1>4, <1>5, <1>6, <1>8, StoreStep

(* Once the events of a key have been consumed its cache entry is Helios's *)
(* list or none, although write_throughs, GETs, SETs and Helios itself may *)
(* have failed and calls been cancelled, if no event overtakes a fetch: a  *)
(* DEL that overtakes one is all that can leave a stale entry behind.      *)
THEOREM EventsRepairAll ==
    ASSUME EventsOn
    PROVE  InOrderSpec => []FreshWhenSettled
<1>1. SysInit => RepairInv
  BY InitRepair
<1>2. SysTypeOK /\ ListInv /\ RepairInv /\ [InOrderNext]_systemVars => RepairInv'
  BY NextRepair
<1>3. RepairInv => FreshWhenSettled
  BY DEF RepairInv, FreshWhenSettled, Settled
<1> QED
  BY <1>1, <1>2, <1>3, InOrderAlways, PTL DEF InOrderSpec

(* With write_through as the only maintenance of the cache, and every      *)
(* write of it succeeding, the cache holds Helios's list or none whenever  *)
(* no write_through is pending.                                            *)
THEOREM WriteThroughIsFresh ==
    ASSUME ~EventsOn, ~WriteMayFail
    PROVE  SysSpec => []FreshWhenSettled
<1>1. FreshWhenWritten => FreshWhenSettled
  BY DEF FreshWhenWritten, FreshWhenSettled, Settled
<1> QED
  BY <1>1, WithoutEventsInOrder, WrittenIsFresh, PTL
-----------------------------------------------------------------------------
(* explain.                                                                *)

(* The list Helios holds is in the window of each running call of explain, *)
(* and so is the one it has answered with.                                 *)
ExplainInv ==
    /\ ExplainIsFresh
    /\ \A c \in Calls : pc[c] \in {"ask", "asked"} =>
          /\ Current(key[c]) \in window[c]
          /\ answer[c] \in Resolution => ResolutionToPerms(answer[c]) \in window[c]

LEMMA NextExplain ==
    SysTypeOK /\ Typed /\ ListInv /\ ExplainInv /\ [SysNext]_systemVars => ExplainInv'
<1> SUFFICES ASSUME SysTypeOK, Typed, ListInv, ExplainInv, [SysNext]_systemVars
             PROVE  ExplainInv'
  OBVIOUS
<1> USE DEF ExplainInv, SysTypeOK, TypeOK
<1>1. ASSUME UNCHANGED <<truth, pc, key, answer, outcome, window>> PROVE ExplainInv'
  BY <1>1 DEF ExplainIsFresh, Current
<1>2. ASSUME NEW c \in Calls, NEW p \in Points \ {"ask", "asked"}, pc' = [pc EXCEPT ![c] = p],
             UNCHANGED <<truth, key, answer, outcome, window>>
      PROVE ExplainInv'
  BY <1>2 DEF ExplainIsFresh, Current
<1>3. ASSUME NEW c \in Calls, NEW o \in Outcome, Return(c, o),
             o.kind = "explained" =>
                o.perms \in window[c] \/ (o.perms = {} /\ answer[c].status = "unreachable"),
             UNCHANGED <<truth, key, answer, window>>
      PROVE ExplainInv'
  BY <1>3 DEF Return, ExplainIsFresh, Current
<1>4. ASSUME NEW c \in Calls, NEW k \in Keys, NEW i \in Instances,
             Ask(c, k, i) \/ AskExplain(c, k, i)
      PROVE ExplainInv'
  <2>1. outcome[c].kind = "none" /\ answer[c] \notin Resolution
    BY <1>4 DEF Ask, AskExplain, Start, Explain, ListInv, Resolution
  <2>2. ExplainIsFresh'
    BY <1>4, <2>1 DEF Ask, AskExplain, Start, Explain, ExplainIsFresh
  <2> QED
    BY <1>4, <2>1, <2>2 DEF Ask, AskExplain, Start, Explain, Current
<1>5. ASSUME NEW c \in Calls, SdkStep(c), HeliosAnswers(c) \/ HeliosFails(c) PROVE ExplainInv'
  <2>1. outcome[c].kind = "none"
    BY <1>5 DEF HeliosAnswers, HeliosFails, Asks, ListInv
  <2>2. /\ UNCHANGED <<truth, key, outcome, window>>
        /\ \/ pc[c] = "fetch" /\ pc' = [pc EXCEPT ![c] = "fetched"]
           \/ pc[c] = "ask" /\ pc' = [pc EXCEPT ![c] = "asked"]
    BY <1>5 DEF SdkStep, HeliosAnswers, HeliosFails, Asks, Answered
  <2>3. PICK r : answer' = [answer EXCEPT ![c] = r] /\ (r \in Resolution => r = truth[key[c]])
    <3>1. CASE HeliosAnswers(c)
      BY <3>1 DEF HeliosAnswers
    <3>2. CASE HeliosFails(c)
      <4>1. \A st \in {"unreachable", "malformed"} :
                [status |-> st, perms |-> {}] \notin Resolution
        BY DEF Resolution
      <4> QED
        BY <3>2, <4>1 DEF HeliosFails
    <3> QED
      BY <1>5, <3>1, <3>2
  <2>4. ExplainIsFresh'
    BY <2>1, <2>2, <2>3 DEF ExplainIsFresh
  <2> QED
    BY <2>2, <2>3, <2>4 DEF Current
<1>6. ASSUME NEW c \in Calls, SdkStep(c),
             \/ RedisGet(c) \/ RedisGetFails(c) \/ Populate(c) \/ RedisSet(c)
             \/ RedisSetFails(c) \/ Join(c) \/ Lead(c)
      PROVE ExplainInv'
  <2>1. PICK p \in {"got", "join", "fetch", "set", "stored"} :
            pc' = [pc EXCEPT ![c] = p] /\ UNCHANGED <<truth, key, answer, outcome, window>>
    BY <1>6 DEF SdkStep, RedisGet, RedisGetFails, Populate, RedisSet, RedisSetFails, Join, Lead
  <2> QED
    BY <1>2, <2>1 DEF Points
<1>7. ASSUME NEW c \in Calls, SdkStep(c), Explained(c) PROVE ExplainInv'
  <2> DEFINE v == ResolutionToPerms(answer[c])
             o == IF answer[c].status = "malformed" THEN Raised("malformed") ELSE Explanation(v)
  <2>1. o \in Outcome
    BY ResolutionType, OutcomeTypes
  <2>2. o.kind = "explained" => o.perms = v /\ answer[c].status # "malformed"
    BY DEF Raised, Explanation
  <2>3. pc[c] = "asked" /\ Return(c, o) /\ UNCHANGED <<truth, key, answer, window>>
    BY <1>7 DEF SdkStep, Explained
  <2>4. answer[c].status # "none"
    BY <2>3 DEF ListInv
  <2>5. answer[c] \in Resolution => v \in window[c]
    BY <2>3
  <2>6. answer[c] \notin Resolution =>
            answer[c].status \in {"unreachable", "malformed"} /\ v = {}
    BY <2>4 DEF Failure, ResolutionToPerms
  <2> HIDE DEF o, v
  <2> QED
    BY <1>3, <2>1, <2>2, <2>3, <2>5, <2>6
<1>8. ASSUME NEW c \in Calls, NEW f \in Future, SdkStep(c), Settle(c, f),
             UNCHANGED <<truth, key, answer, window>>
      PROVE ExplainInv'
  <2>1. /\ Awaited(f) \in Outcome /\ Awaited(f).kind # "explained"
        /\ Raised("invalid_state") \in Outcome /\ Raised("invalid_state").kind # "explained"
    BY AwaitedType, OutcomeTypes DEF Awaited, Returned, Raised
  <2> QED
    BY <1>3, <1>8, <2>1 DEF Settle
<1>9. ASSUME NEW c \in Calls, SdkStep(c), FetchFailed(c) \/ Populated(c) PROVE ExplainInv'
  <2>1. /\ (IF StaleOnError THEN Result({}) ELSE Error) \in Future
        /\ Result(ResolutionToPerms(answer[c])) \in Future
    BY ResolutionType, FutureTypes DEF PermList
  <2> QED
    BY <1>8, <1>9, <2>1 DEF SdkStep, FetchFailed, Populated
<1>10. ASSUME NEW c \in Calls, SdkStep(c), Hit(c) \/ Wake(c) \/ FetchRaised(c) \/ Cancelled(c)
       PROVE ExplainInv'
  <2>1. /\ Returned(reply[c].perms) \in Outcome /\ Returned(reply[c].perms).kind # "explained"
        /\ \A kind \in {"malformed", "cancelled"} :
              Raised(kind) \in Outcome /\ Raised(kind).kind # "explained"
    BY OutcomeTypes DEF Entry, Returned, Raised
  <2>2. CASE Wake(c)
    <3>1. Awaited(fut[waits[c]]) \in Outcome /\ Awaited(fut[waits[c]]).kind # "explained"
      BY <1>10, <2>2, AwaitedType DEF Wake, Typed, Awaited, Returned, Raised
    <3> QED
      BY <1>3, <1>10, <2>1, <2>2, <3>1 DEF SdkStep, Wake
  <2>3. CASE Hit(c)
    BY <1>3, <1>10, <2>1, <2>3 DEF SdkStep, Hit
  <2>4. CASE FetchRaised(c) \/ Cancelled(c)
    BY <1>3, <1>10, <2>1, <2>4 DEF SdkStep, FetchRaised, Cancelled
  <2> QED
    BY <1>10, <2>2, <2>3, <2>4
<1>11. ASSUME NEW c \in Calls, SdkStep(c), Cancel(c) PROVE ExplainInv'
  BY <1>1, <1>11 DEF SdkStep, Cancel
<1>12. ASSUME NEW k \in Keys, NEW r \in Resolution, Commit(k, r) PROVE ExplainInv'
  <2>1. UNCHANGED <<pc, key, answer, outcome>> /\ \A c \in Calls : window[c] \subseteq window'[c]
    BY <1>12 DEF Commit, RoleChange
  <2>2. ExplainIsFresh'
    BY <2>1 DEF ExplainIsFresh
  <2>3. ASSUME NEW c \in Calls, pc[c] \in {"ask", "asked"} PROVE Current(key[c])' \in window'[c]
    <3>1. CASE key[c] = k
      BY <1>12, <2>3, <3>1 DEF Commit, RoleChange, Current, Running
    <3>2. CASE key[c] # k
      BY <1>12, <2>1, <2>3, <3>2 DEF Commit, RoleChange, Current
    <3> QED
      BY <3>1, <3>2
  <2> QED
    BY <2>1, <2>2, <2>3
<1>13. ASSUME \/ \E k \in Keys : WriteThroughDone(k) \/ WriteThroughFails(k)
              \/ \E K \in SUBSET Keys : Deliver(K)
              \/ \E m \in stray : StraySet(m)
       PROVE ExplainInv'
  BY <1>1, <1>13 DEF WriteThroughDone, Overwrite, WriteThroughFails, Deliver, Drop,
              StraySet
<1>14. CASE UNCHANGED systemVars
  BY <1>1, <1>14
<1> QED
  BY <1>4, <1>5, <1>6, <1>7, <1>9, <1>10, <1>11, <1>12, <1>13, <1>14
     DEF SysNext, SdkStep, Run, Serve

LEMMA ExplainAlways == SysSpec => []ExplainInv
<1>1. SysInit => ExplainInv
  BY DEF SysInit, Init, ExplainInv, ExplainIsFresh, Raised
<1>2. SysTypeOK /\ Typed /\ ListInv /\ ExplainInv /\ [SysNext]_systemVars => ExplainInv'
  BY NextExplain
<1>3. ClientInv => Typed /\ ListInv
  BY DEF ClientInv
<1> QED
  BY <1>1, <1>2, <1>3, SystemTypeCorrect, SystemInvariant, PTL DEF SysSpec

(* Whatever fails, explain reports what Helios held while it ran, or a     *)
(* denial because Helios was unreachable.                                  *)
THEOREM ExplainIsTrue == SysSpec => []ExplainIsFresh
<1>1. ExplainInv => ExplainIsFresh
  BY DEF ExplainInv
<1> QED
  BY <1>1, ExplainAlways, PTL

-----------------------------------------------------------------------------
(* Answers.  A joiner whose GET failed may have joined a fetch that began  *)
(* before it did, and then PermissionService is not kept; what is kept of  *)
(* it is the promise to the fetcher.                                       *)

(* explain runs, which reads no list and joins nobody.                     *)
Explaining(c) == pc[c] \in {"ask", "asked"}

(* Whatever has been readable since a fetcher began is in its window, and  *)
(* so is each list on its way to it and to those who joined it.            *)
FitInv ==
    /\ \A c \in Calls :
          /\ Running(c) /\ ~Explaining(c) => Readable(key[c]) \subseteq window[c]
          /\ Running(c) /\ reply[c].kind = "list" => reply[c].perms \in window[c]
          /\ Leads(c) /\ answer[c] \in Resolution => ResolutionToPerms(answer[c]) \in window[c]
          /\ fut[c].st = "result" => FitFor(c, fut[c].perms)
    /\ AnswersFitTheirFetch

LEMMA InitFit == SysInit => FitInv
BY DEF SysInit, Init, FitInv, AnswersFitTheirFetch, Readable, Current, Running, Leads,
       Absent, NoFuture, Raised

LEMMA NextFit ==
    SysTypeOK /\ FlightInv /\ ListInv /\ FreshInv /\ FitInv /\ [SysNext]_systemVars => FitInv'
<1> SUFFICES ASSUME SysTypeOK, FlightInv, ListInv, FreshInv, FitInv, [SysNext]_systemVars
             PROVE  FitInv'
  OBVIOUS
<1> USE DEF FitInv, AnswersFitTheirFetch, SysTypeOK, TypeOK
<1>1. ASSUME UNCHANGED <<truth, pending>> PROVE \A k \in Keys : Readable(k)' = Readable(k)
  BY <1>1 DEF Readable, Current, Replaced
<1>2. ASSUME NEW d \in Calls PROVE Fetcher(d) \in Calls
  BY DEF Fetcher
<1>3. CASE UNCHANGED systemVars
  BY <1>1, <1>3 DEF Running, Explaining, Leads, FitFor, Fetcher
\* A call goes on to its next await.
<1>4. ASSUME NEW c \in Calls, NEW p \in Points \ {"idle", "done"},
             pc[c] \notin {"idle", "done"}, pc' = [pc EXCEPT ![c] = p],
             Explaining(c) => Explaining(c)', Leads(c)' => Leads(c) \/ answer[c] \notin Resolution,
             \A d \in Calls : fut'[d].st = "result" => fut'[d] = fut[d],
             \A d \in Calls : outcome[d].kind = "perms" => waits'[d] = waits[d],
             UNCHANGED <<truth, key, reply, answer, outcome, pending, window>>
      PROVE FitInv'
  BY <1>1, <1>4 DEF Running, Explaining, Leads, FitFor, Fetcher
\* A call returns.
<1>5. ASSUME NEW c \in Calls, NEW o \in Outcome, Return(c, o),
             o.kind = "perms" => FitFor(Fetcher(c), o.perms),
             \A d \in Calls : fut'[d].st = "result" => fut'[d] = fut[d] \/ FitFor(d, fut'[d].perms),
             UNCHANGED <<truth, key, reply, answer, waits, pending, window>>
      PROVE FitInv'
  BY <1>1, <1>5 DEF Return, Running, Explaining, Leads, FitFor, Fetcher
<1>6. ASSUME NEW c \in Calls, NEW k \in Keys, NEW i \in Instances,
             Ask(c, k, i) \/ AskExplain(c, k, i)
      PROVE FitInv'
  <2>1. pc[c] = "idle" /\ reply[c].kind # "list" /\ fut[c].st = "none"
    BY <1>6 DEF Ask, AskExplain, Start, Explain, ListInv, FlightInv, FutureInv
  <2>2. \A d \in Calls : outcome[d].kind = "perms" => Fetcher(d) # c
    <3> SUFFICES ASSUME NEW d \in Calls, Fetcher(d) = c, outcome[d].kind # "none" PROVE FALSE
      BY DEF Outcome
    <3>1. pc[d] = "done" /\ waits[d] = c
      BY <2>1 DEF ListInv, Fetcher
    <3> QED
      BY <2>1, <3>1, NoCallAssumption DEF FlightInv, JoinInv
  <2>3. PICK p \in {"get", "ask"} :
            /\ pc' = [pc EXCEPT ![c] = p] /\ key' = [key EXCEPT ![c] = k]
            /\ p = "get" => window' = [window EXCEPT ![c] = Readable(k)]
            /\ \A d \in Calls \ {c} : window'[d] = window[d]
            /\ UNCHANGED <<truth, reply, answer, fut, waits, outcome, pending>>
    BY <1>6 DEF Ask, AskExplain, Start, Explain, Readable
  <2> QED
    BY <1>1, <1>2, <2>1, <2>2, <2>3 DEF Running, Explaining, Leads, FitFor, Fetcher
<1>7. ASSUME NEW c \in Calls, SdkStep(c), RedisGet(c) \/ RedisGetFails(c) PROVE FitInv'
  <2>1. PICK e \in Entry :
            /\ reply' = [reply EXCEPT ![c] = e]
            /\ e.kind = "list" => e.perms \in Readable(key[c])
    <3>1. CASE RedisGet(c)
      BY <3>1, EntryTypes DEF RedisGet, Get, Absent, FreshInv
    <3>2. CASE RedisGetFails(c)
      BY <3>2, EntryTypes DEF RedisGetFails, Absent
    <3> QED
      BY <1>7, <3>1, <3>2
  <2>2. /\ pc[c] = "get" /\ pc' = [pc EXCEPT ![c] = "got"]
        /\ UNCHANGED <<truth, key, answer, fut, waits, outcome, pending, window>>
    BY <1>7 DEF SdkStep, RedisGet, RedisGetFails
  <2> QED
    BY <1>1, <2>1, <2>2 DEF Running, Explaining, Leads, FitFor, Fetcher
<1>8. ASSUME NEW c \in Calls, SdkStep(c), HeliosAnswers(c) \/ HeliosFails(c) PROVE FitInv'
  <2>1. PICK r : answer' = [answer EXCEPT ![c] = r] /\ (r \in Resolution => r = truth[key[c]])
    <3>1. CASE HeliosAnswers(c)
      BY <3>1 DEF HeliosAnswers
    <3>2. CASE HeliosFails(c)
      <4>1. \A st \in {"unreachable", "malformed"} :
                [status |-> st, perms |-> {}] \notin Resolution
        BY DEF Resolution
      <4> QED
        BY <3>2, <4>1 DEF HeliosFails
    <3> QED
      BY <1>8, <3>1, <3>2
  <2>2. /\ answer[c].status = "none"
        /\ \/ pc[c] = "fetch" /\ pc' = [pc EXCEPT ![c] = "fetched"]
           \/ pc[c] = "ask" /\ pc' = [pc EXCEPT ![c] = "asked"]
        /\ UNCHANGED <<truth, key, reply, fut, waits, outcome, pending, window>>
    BY <1>8 DEF SdkStep, HeliosAnswers, HeliosFails, Asks, Answered, ListInv
  <2>3. r \in Resolution => ResolutionToPerms(r) \in Readable(key[c])
    BY <2>1 DEF Readable, Current
  <2>4. \A d \in Calls : \A v : FitFor(d, v) => FitFor(d, v)'
    BY <2>1, <2>2 DEF FitFor
  <2>5. AnswersFitTheirFetch'
    BY <1>2, <2>2, <2>4 DEF FitFor, Fetcher
  <2> QED
    BY <1>1, <2>1, <2>2, <2>3, <2>4, <2>5 DEF Running, Explaining, Leads, FitFor
<1>9. ASSUME NEW c \in Calls, SdkStep(c),
             Populate(c) \/ RedisSet(c) \/ RedisSetFails(c) \/ Join(c) \/ Lead(c)
      PROVE FitInv'
  <2>1. pc[c] = "got" => answer[c] \notin Resolution /\ outcome[c].kind # "perms"
    BY DEF ListInv, Resolution
  <2>2. PICK p \in {"join", "fetch", "set", "stored"} :
            /\ pc' = [pc EXCEPT ![c] = p]
            /\ pc[c] = "got" \/ (Leads(c) /\ p # "join" /\ waits' = waits)
            /\ \E d \in Calls \cup {NoCall} : waits' = waits \/ waits' = [waits EXCEPT ![c] = d]
            /\ fut' = fut \/ fut' = [fut EXCEPT ![c] = Pending]
            /\ UNCHANGED <<truth, key, reply, answer, outcome, pending, window>>
    BY <1>9 DEF SdkStep, Populate, RedisSet, RedisSetFails, Join, Lead, Leads, Slots, Slot
  <2>3. Pending.st # "result"
    BY DEF Pending
  <2>4. \A d \in Calls : fut'[d].st = "result" => fut'[d] = fut[d]
    BY <2>2, <2>3
  <2>5. \A d \in Calls : outcome[d].kind = "perms" => waits'[d] = waits[d]
    BY <2>1, <2>2
  <2>6. /\ p \in Points \ {"idle", "done"} /\ pc[c] \notin {"idle", "done"} /\ ~Explaining(c)
        /\ Leads(c) \/ answer[c] \notin Resolution
    BY <2>1, <2>2 DEF Points, Leads, Explaining
  <2> QED
    BY <1>4, <2>2, <2>4, <2>5, <2>6
<1>10. ASSUME NEW c \in Calls, SdkStep(c), Hit(c) PROVE FitInv'
  <2>1. Returned(reply[c].perms) \in Outcome
    BY OutcomeTypes DEF Entry
  <2>2. reply[c].perms \in window[c]
    BY <1>10 DEF Hit, Running
  <2>3. Fetcher(c) = c
    BY <1>10 DEF Hit, FlightInv, JoinInv, Fetcher
  <2> QED
    BY <1>5, <1>10, <2>1, <2>2, <2>3 DEF SdkStep, Hit, Returned, FitFor
<1>11. ASSUME NEW c \in Calls, NEW f \in Future, SdkStep(c), Leads(c), Settle(c, f),
              f.st = "result" => FitFor(c, f.perms),
              UNCHANGED <<truth, key, reply, answer, waits, pending, window>>
       PROVE FitInv'
  <2>1. Awaited(f) \in Outcome /\ Raised("invalid_state") \in Outcome
    BY AwaitedType, OutcomeTypes
  <2>2. Awaited(f).kind = "perms" => f.st = "result" /\ Awaited(f).perms = f.perms
    BY DEF Awaited, Returned, Raised
  <2>3. Raised("invalid_state").kind # "perms"
    BY DEF Raised
  <2>4. Fetcher(c) = c
    BY <1>11 DEF Leads, FlightInv, JoinInv, Fetcher
  <2> QED
    BY <1>5, <1>11, <2>1, <2>2, <2>3, <2>4 DEF Settle
<1>12. ASSUME NEW c \in Calls, SdkStep(c), FetchFailed(c) PROVE FitInv'
  <2> DEFINE f == IF StaleOnError THEN Result({}) ELSE Error
  <2>1. f \in Future /\ (f.st = "result" => StaleOnError /\ f.perms = {})
    BY FutureTypes DEF PermList, Result, Error
  <2>2. /\ answer[c].status = "unreachable" /\ Leads(c) /\ Settle(c, f)
        /\ UNCHANGED <<truth, key, reply, answer, waits, pending, window>>
    BY <1>12 DEF SdkStep, FetchFailed, Leads
  <2> HIDE DEF f
  <2> QED
    BY <1>11, <1>12, <2>1, <2>2 DEF FitFor
<1>13. ASSUME NEW c \in Calls, SdkStep(c), Populated(c) PROVE FitInv'
  <2>1. Result(ResolutionToPerms(answer[c])) \in Future
    BY ResolutionType, FutureTypes
  <2>2. Leads(c) /\ ResolutionToPerms(answer[c]) \in window[c]
    BY <1>13 DEF Populated, ListInv, Leads
  <2> QED
    BY <1>11, <1>13, <2>1, <2>2 DEF SdkStep, Populated, Result, FitFor
<1>14. ASSUME NEW c \in Calls, SdkStep(c), FetchRaised(c) \/ Cancelled(c) \/ Explained(c)
       PROVE FitInv'
  <2>1. PICK o \in Outcome : Return(c, o) /\ o.kind # "perms"
    <3>1. /\ Raised("malformed") \in Outcome /\ Raised("malformed").kind # "perms"
          /\ Raised("cancelled") \in Outcome /\ Raised("cancelled").kind # "perms"
      BY OutcomeTypes DEF Raised
    <3>2. \A v \in PermList : Explanation(v) \in Outcome /\ Explanation(v).kind # "perms"
      BY OutcomeTypes DEF Explanation
    <3> QED
      BY <1>14, <3>1, <3>2, ResolutionType DEF FetchRaised, Cancelled, Explained
  <2> QED
    BY <1>5, <1>14, <2>1 DEF SdkStep, FetchRaised, Cancelled, Explained
<1>15. ASSUME NEW c \in Calls, SdkStep(c), Wake(c) PROVE FitInv'
  <2>1. waits[c] \in Calls /\ Fetcher(c) = waits[c]
    BY <1>15 DEF Wake, FlightInv, JoinInv, Fetcher
  <2>2. Awaited(fut[waits[c]]) \in Outcome /\ Raised("cancelled") \in Outcome
    BY <2>1, AwaitedType, OutcomeTypes
  <2>3. /\ Raised("cancelled").kind # "perms"
        /\ Awaited(fut[waits[c]]).kind = "perms" =>
              /\ fut[waits[c]].st = "result"
              /\ Awaited(fut[waits[c]]).perms = fut[waits[c]].perms
    BY DEF Awaited, Returned, Raised
  <2> QED
    BY <1>5, <1>15, <2>1, <2>2, <2>3 DEF SdkStep, Wake
<1>16. ASSUME NEW c \in Calls, SdkStep(c), Cancel(c) PROVE FitInv'
  <2>1. \A d \in Calls : fut'[d].st = "result" => fut'[d] = fut[d]
    <3>1. CancelledFuture.st # "result"
      BY DEF CancelledFuture
    <3> QED
      BY <1>16, <3>1 DEF Cancel
  <2> QED
    BY <1>1, <1>16, <2>1 DEF SdkStep, Cancel, Running, Explaining, Leads, FitFor, Fetcher
<1>17. ASSUME NEW k \in Keys, NEW r \in Resolution, Commit(k, r) PROVE FitInv'
  <2>1. UNCHANGED <<pc, key, reply, answer, fut, waits, outcome>>
    BY <1>17 DEF Commit, RoleChange
  <2>2. Readable(k)' = {ResolutionToPerms(r), Current(k)} /\ Readable(k) = {Current(k)}
    BY <1>17 DEF Commit, RoleChange, Current, Replaced, Readable
  <2>3. \A j \in Keys \ {k} : Readable(j)' = Readable(j)
    BY <1>17 DEF Commit, RoleChange, Current, Replaced, Readable
  <2>4. window' = [c \in Calls |->
            IF Running(c) /\ key[c] = k
              THEN window[c] \cup {ResolutionToPerms(r)} ELSE window[c]]
    BY <1>17 DEF Commit
  <2>5. \A d \in Calls : window[d] \subseteq window'[d]
    BY <2>4
  <2>6. AnswersFitTheirFetch'
    BY <1>2, <2>1, <2>5 DEF FitFor, Fetcher
  <2> QED
    BY <2>1, <2>2, <2>3, <2>4, <2>5, <2>6 DEF Running, Explaining, Leads, FitFor
<1>18. ASSUME NEW k \in Keys, WriteThroughDone(k) \/ WriteThroughFails(k) PROVE FitInv'
  <2>1. \A j \in Keys : Readable(j)' \subseteq Readable(j)
    BY <1>18, ReadableStep DEF Readable
  <2> QED
    BY <1>18, <2>1 DEF WriteThroughDone, WriteThroughFails, Overwrite, Running, Explaining, Leads,
                       FitFor, Fetcher
<1>19. ASSUME NEW K \in SUBSET Keys, Deliver(K) PROVE FitInv'
  BY <1>1, <1>19 DEF Deliver, Drop, Running, Explaining, Leads, FitFor, Fetcher
<1>20. ASSUME NEW m \in stray, StraySet(m) PROVE FitInv'
  BY <1>1, <1>20 DEF StraySet, Running, Explaining, Leads, FitFor, Fetcher
<1> QED
  BY <1>3, <1>6, <1>7, <1>8, <1>9, <1>10, <1>12, <1>13, <1>14, <1>15, <1>16, <1>17, <1>18, <1>19,
     <1>20
     DEF SysNext, SdkStep, Run, Serve

(* As long as every write_through succeeds, and no event overtakes a       *)
(* fetch, an answer is never older than the fetch it comes from, also      *)
(* while GETs fail: the joiner of an older fetch is the only caller whom a *)
(* failing GET can give a list that was replaced before it called.         *)
THEOREM NoAnswerOlderThanItsFetch ==
    ASSUME ~WriteMayFail
    PROVE  InOrderSpec => []AnswersFitTheirFetch
<1>1. SysInit => FreshInv /\ FitInv
  BY InitFresh, InitFit
<1>2. SysTypeOK /\ ListInv /\ FreshInv /\ [InOrderNext]_systemVars => FreshInv'
  BY NextFresh
<1>3. SysTypeOK /\ FlightInv /\ ListInv /\ FreshInv /\ FitInv /\ [InOrderNext]_systemVars => FitInv'
  BY NextFit, InOrderStep
<1>4. FitInv => AnswersFitTheirFetch
  BY DEF FitInv
<1> QED
  BY <1>1, <1>2, <1>3, <1>4, InOrderAlways, PTL DEF InOrderSpec
-----------------------------------------------------------------------------
(* A call after a miss.                                                    *)

(* The GET of c has been executed and found no list; c has not returned.   *)
Missed(c) == Running(c) /\ ~Explaining(c) /\ pc[c] # "get" /\ reply[c].kind # "list"

(* What is on its way to a call that missed is in its window: every answer *)
(* that Helios has given to a fetch of its key, which it may join, and the *)
(* result of the future it awaits.                                         *)
MissInv ==
    \A c \in Calls :
        /\ Missed(c) =>
              \A d \in Calls : Fetched(d) /\ key[d] = key[c] => Found(d) \in window[c]
        /\ pc[c] = "join" /\ fut[waits[c]].st = "result" =>
              fut[waits[c]].perms \in window[c] \cup {{}}

(* The result of a future is the list its creator fetched, or a denial.    *)
LEMMA SettledStep ==
    ASSUME SysTypeOK, ListInv, [SysNext]_systemVars, NEW e \in Calls, fut'[e].st = "result"
    PROVE  \/ fut'[e] = fut[e]
           \/ fut'[e].perms = {} \/ (Fetched(e) /\ fut'[e].perms = Found(e))
<1> USE DEF SysTypeOK, TypeOK
<1>1. ASSUME NEW c \in Calls, SdkStep(c), Populated(c)
      PROVE  fut'[e] = fut[e] \/ (Fetched(e) /\ fut'[e].perms = Found(e))
  BY <1>1 DEF Populated, Settle, Result, Fetched, Found, Leads, ListInv
<1>2. ASSUME NEW c \in Calls, SdkStep(c), FetchFailed(c)
      PROVE  fut'[e] = fut[e] \/ fut'[e].perms = {}
  BY <1>2 DEF FetchFailed, Settle, Result, Error
<1>3. ASSUME NEW c \in Calls, SdkStep(c), Cancel(c) PROVE fut'[e] = fut[e]
  BY <1>3 DEF Cancel, CancelledFuture
<1>4. ASSUME NEW c \in Calls, SdkStep(c), Lead(c) PROVE fut'[e] = fut[e]
  BY <1>4 DEF Lead, Pending
<1>5. ASSUME NEW c \in Calls, SdkStep(c),
             ~Populated(c), ~FetchFailed(c), ~Cancel(c), ~Lead(c)
      PROVE  fut' = fut
  BY <1>5 DEF SdkStep, Run, Serve, Hit, Join, FetchRaised, Populate, Wake, Explained, Cancelled,
              RedisGet, RedisGetFails, HeliosAnswers, HeliosFails, RedisSet, RedisSetFails
<1>6. ASSUME NEW c \in Calls, NEW k \in Keys, NEW i \in Instances,
             Ask(c, k, i) \/ AskExplain(c, k, i)
      PROVE  fut' = fut
  BY <1>6 DEF Ask, AskExplain, Start, Explain
<1>7. ASSUME \/ \E k \in Keys : \/ \E r \in Resolution : Commit(k, r)
                                \/ WriteThroughDone(k) \/ WriteThroughFails(k)
             \/ \E K \in SUBSET Keys : Deliver(K)
             \/ \E m \in stray : StraySet(m)
      PROVE  fut' = fut
  BY <1>7 DEF Commit, RoleChange, WriteThroughDone, Overwrite, WriteThroughFails, Deliver, Drop,
              StraySet
<1> QED
  BY <1>1, <1>2, <1>3, <1>4, <1>5, <1>6, <1>7 DEF SysNext

(* A call joins a future that is not settled, and stays with it.           *)
LEMMA JoinStep ==
    ASSUME SysTypeOK, FlightInv, [SysNext]_systemVars, NEW c \in Calls, pc'[c] = "join"
    PROVE  /\ key'[c] = key[c]
           /\ \/ pc[c] = "join" /\ waits'[c] = waits[c]
              \/ waits'[c] \in Calls /\ fut'[waits'[c]].st # "result"
<1> USE DEF SysTypeOK, TypeOK
<1>1. ASSUME Join(c) PROVE key'[c] = key[c] /\ waits'[c] \in Calls /\ fut'[waits'[c]].st # "result"
  BY <1>1 DEF Join, FlightInv, NoLeakedEntry, FutureInv, Slot, Slots
<1>2. ASSUME NEW d \in Calls, SdkStep(d), d # c \/ ~Join(c)
      PROVE  key'[c] = key[c] /\ pc[c] = "join" /\ waits'[c] = waits[c]
  BY <1>2 DEF SdkStep, Run, Serve, Hit, Join, Lead, FetchFailed, FetchRaised, Populate, Populated,
              Wake, Explained, Cancelled, Cancel, RedisGet, RedisGetFails, HeliosAnswers,
              HeliosFails, Asks, Answered, RedisSet, RedisSetFails, Settle, Return
<1>3. ASSUME NEW d \in Calls, NEW k \in Keys, NEW i \in Instances,
             Ask(d, k, i) \/ AskExplain(d, k, i)
      PROVE  key'[c] = key[c] /\ pc[c] = "join" /\ waits'[c] = waits[c]
  BY <1>3 DEF Ask, AskExplain, Start, Explain
<1>4. ASSUME \/ \E k \in Keys : \/ \E r \in Resolution : Commit(k, r)
                                \/ WriteThroughDone(k) \/ WriteThroughFails(k)
             \/ \E K \in SUBSET Keys : Deliver(K)
             \/ \E m \in stray : StraySet(m)
      PROVE  key'[c] = key[c] /\ pc[c] = "join" /\ waits'[c] = waits[c]
  BY <1>4 DEF Commit, RoleChange, WriteThroughDone, Overwrite, WriteThroughFails, Deliver, Drop,
              StraySet
<1> QED
  BY <1>1, <1>2, <1>3, <1>4 DEF SysNext

(* A call misses when its GET finds no list, if no GET fails.              *)
LEMMA MissStep ==
    ASSUME ~GetMayFail, SysTypeOK, ListInv, [SysNext]_systemVars, NEW c \in Calls, Missed(c)'
    PROVE  /\ key'[c] = key[c] /\ Running(c) /\ ~Explaining(c)
           /\ Missed(c) \/ redis[key[c]].kind # "list"
<1> USE DEF SysTypeOK, TypeOK, Missed, Running, Explaining
<1>1. ASSUME SdkStep(c), RedisGet(c)
      PROVE  /\ key'[c] = key[c] /\ Running(c) /\ ~Explaining(c)
             /\ redis[key[c]].kind # "list"
  BY <1>1 DEF SdkStep, RedisGet, Get
<1>2. ASSUME NEW d \in Calls, SdkStep(d), d # c \/ ~RedisGet(c)
      PROVE  key'[c] = key[c] /\ Missed(c)
  BY <1>2 DEF SdkStep, Run, Serve, Hit, Join, Lead, FetchFailed, FetchRaised, Populate, Populated,
              Wake, Explained, Cancelled, Cancel, RedisGet, RedisGetFails, HeliosAnswers,
              HeliosFails, Asks, Answered, RedisSet, RedisSetFails, Settle, Return
<1>3. ASSUME NEW d \in Calls, NEW k \in Keys, NEW i \in Instances,
             Ask(d, k, i) \/ AskExplain(d, k, i)
      PROVE  key'[c] = key[c] /\ Missed(c)
  BY <1>3 DEF Ask, AskExplain, Start, Explain
<1>4. ASSUME \/ \E k \in Keys : \/ \E r \in Resolution : Commit(k, r)
                                \/ WriteThroughDone(k) \/ WriteThroughFails(k)
             \/ \E K \in SUBSET Keys : Deliver(K)
             \/ \E m \in stray : StraySet(m)
      PROVE  key'[c] = key[c] /\ Missed(c)
  BY <1>4 DEF Commit, RoleChange, WriteThroughDone, Overwrite, WriteThroughFails, Deliver, Drop,
              StraySet
<1> QED
  BY <1>1, <1>2, <1>3, <1>4 DEF SysNext

(* The window of a running call only grows.                                *)
LEMMA WindowGrows ==
    ASSUME SysTypeOK, [SysNext]_systemVars, NEW c \in Calls, Running(c)
    PROVE  window[c] \subseteq window'[c]
<1> USE DEF SysTypeOK, TypeOK, Running
<1>1. ASSUME NEW d \in Calls, NEW k \in Keys, NEW i \in Instances,
             Ask(d, k, i) \/ AskExplain(d, k, i)
      PROVE  window[c] \subseteq window'[c]
  BY <1>1 DEF Ask, AskExplain, Start, Explain
<1>2. ASSUME NEW k \in Keys, NEW r \in Resolution, Commit(k, r)
      PROVE  window[c] \subseteq window'[c]
  BY <1>2 DEF Commit
<1> QED
  BY <1>1, <1>2 DEF SysNext, SdkStep, WriteThroughDone, WriteThroughFails, Deliver, StraySet

LEMMA InitMiss == SysInit => MissInv
BY DEF SysInit, Init, MissInv, Missed, Running

LEMMA NextMiss ==
    ASSUME ~GetMayFail
    PROVE  SysTypeOK /\ FlightInv /\ ListInv /\ FreshInv /\ FitInv /\ MissInv
           /\ [SysNext]_systemVars => MissInv'
<1> SUFFICES ASSUME SysTypeOK, FlightInv, ListInv, FreshInv, FitInv, MissInv,
                    [SysNext]_systemVars, NEW c \in Calls
             PROVE  /\ Missed(c)' => \A d \in Calls : Fetched(d)' /\ key'[d] = key'[c] =>
                                         Found(d)' \in window'[c]
                    /\ pc'[c] = "join" /\ fut'[waits'[c]].st = "result" =>
                          fut'[waits'[c]].perms \in window'[c] \cup {{}}
  BY DEF MissInv
<1> USE DEF SysTypeOK, TypeOK
<1>1. ASSUME Missed(c)', NEW d \in Calls, Fetched(d)', key'[d] = key'[c]
      PROVE  Found(d)' \in window'[c]
  <2>1. /\ key'[c] = key[c] /\ Running(c) /\ ~Explaining(c)
        /\ Missed(c) \/ redis[key[c]].kind # "list"
    BY <1>1, MissStep
  <2>2. key[d] = key[c] /\ Readable(key[c]) \subseteq window[c] /\ window[c] \subseteq window'[c]
    BY <1>1, <2>1, FetchStep, WindowGrows DEF FitInv
  <2>3. CASE Fetched(d) /\ Found(d)' = Found(d)
    <3>1. CASE Missed(c)
      BY <2>2, <2>3, <3>1 DEF MissInv
    <3>2. CASE redis[key[c]].kind # "list"
      BY <2>2, <2>3, <3>2 DEF FreshInv
    <3> QED
      BY <2>1, <3>1, <3>2
  <2>4. CASE ~(Fetched(d) /\ Found(d)' = Found(d))
    BY <1>1, <2>2, <2>4, FetchStep DEF Readable
  <2> QED
    BY <2>3, <2>4
<1>2. ASSUME pc'[c] = "join", fut'[waits'[c]].st = "result"
      PROVE  fut'[waits'[c]].perms \in window'[c] \cup {{}}
  <2> DEFINE e == waits[c]
  <2>1. pc[c] = "join" /\ waits'[c] = e
    BY <1>2, JoinStep
  <2>2. e \in Calls /\ key[e] = key[c] /\ Missed(c)
    BY <2>1 DEF FlightInv, JoinInv, Slot, ListInv, Missed, Running, Explaining
  <2>3. window[c] \subseteq window'[c]
    BY <2>2, WindowGrows DEF Missed
  <2>4. CASE fut'[e] = fut[e]
    BY <1>2, <2>1, <2>3, <2>4 DEF MissInv
  <2>5. CASE fut'[e].perms = {}
    BY <2>1, <2>5
  <2>6. CASE Fetched(e) /\ fut'[e].perms = Found(e)
    BY <2>1, <2>2, <2>3, <2>6 DEF MissInv
  <2> HIDE DEF e
  <2> QED
    BY <1>2, <2>1, <2>2, <2>4, <2>5, <2>6, SettledStep
<1> QED
  BY <1>1, <1>2
-----------------------------------------------------------------------------
(* The system implements PermissionService.                                *)

LEMMA ServiceInitially == SysInit => Service!ServiceInit
<1> SUFFICES ASSUME SysInit PROVE Service!ServiceInit
  OBVIOUS
<1>1. Typed
  BY InitTyped DEF SysInit
<1>2. \A k \in Keys : Current(k) \in SUBSET Perm /\ Replaced(k) = {}
  BY <1>1, ResolutionType DEF SysInit, Typed, TypeOK, Current, Replaced, NoWrite, PermList
<1> QED
  BY <1>1, <1>2 DEF SysInit, Init, Service!ServiceInit, Service!Lists, Typed, TypeOK, Raised

(* A call of the SDK moves on without an answer: the service stutters.     *)
LEMMA SilentStep ==
    ASSUME SysTypeOK, NEW c \in Calls, NEW p \in Points \ {"idle", "done"},
           pc[c] \notin {"idle", "done"}, pc' = [pc EXCEPT ![c] = p],
           UNCHANGED <<truth, key, outcome, pending, window>>
    PROVE  UNCHANGED Service!serviceVars
<1>1. \A k \in Keys : Current(k)' = Current(k) /\ Replaced(k)' = Replaced(k)
  BY DEF Current, Replaced
<1> QED
  BY <1>1 DEF Service!serviceVars, SysTypeOK, TypeOK

(* A call returns one of the lists it may, or raises.                      *)
LEMMA AnswerStep ==
    ASSUME SysTypeOK, ListInv, NEW c \in Calls, NEW o \in Outcome,
           pc[c] \notin {"idle", "done"}, Return(c, o),
           o.kind \in {"perms", "explained"} => o.perms \in window[c] \cup {{}},
           UNCHANGED <<truth, key, pending, window>>
    PROVE  Service!Reply(c) \/ Service!Fail(c)
<1> USE DEF SysTypeOK, TypeOK, Return
<1>1. \A k \in Keys : Current(k)' = Current(k) /\ Replaced(k)' = Replaced(k)
  BY DEF Current, Replaced
<1>2. outcome[c].kind = "none"
  BY DEF ListInv
<1>3. CASE o.kind \in {"perms", "explained"}
  BY <1>1, <1>2, <1>3 DEF Service!Reply
<1>4. CASE o.kind \notin {"perms", "explained"}
  BY <1>1, <1>2, <1>4 DEF Service!Fail
<1> QED
  BY <1>3, <1>4

(* Settling a future that ends in a list the call may return.              *)
LEMMA SettleStep ==
    ASSUME SysTypeOK, ListInv, NEW c \in Calls, NEW f \in Future, Leads(c), Settle(c, f),
           f.st = "result" => f.perms \in window[c] \cup {{}},
           UNCHANGED <<truth, key, pending, window>>
    PROVE  Service!Reply(c) \/ Service!Fail(c)
<1>1. Awaited(f) \in Outcome /\ Raised("invalid_state") \in Outcome
  BY AwaitedType, OutcomeTypes
<1>2. Awaited(f).kind \in {"perms", "explained"} => f.st = "result" /\ Awaited(f).perms = f.perms
  BY DEF Awaited, Returned, Raised
<1>3. Raised("invalid_state").kind \notin {"perms", "explained"}
  BY DEF Raised
<1> QED
  BY <1>1, <1>2, <1>3, AnswerStep DEF Settle, Leads

LEMMA ServiceStep ==
    ASSUME ~WriteMayFail, SysTypeOK, FlightInv, ListInv, FitInv, MissInv, ExplainInv,
           [SysNext]_systemVars
    PROVE  [Service!ServiceNext]_Service!serviceVars
<1> USE DEF SysTypeOK, TypeOK
<1>1. CASE UNCHANGED systemVars
  <2>1. \A k \in Keys : Current(k)' = Current(k) /\ Replaced(k)' = Replaced(k)
    BY <1>1 DEF Current, Replaced
  <2> QED
    BY <1>1, <2>1 DEF Service!serviceVars
<1>2. ASSUME NEW c \in Calls, NEW k \in Keys, NEW i \in Instances, Ask(c, k, i)
      PROVE Service!ServiceNext
  <2>1. \A j \in Keys : Current(j)' = Current(j) /\ Replaced(j)' = Replaced(j)
    BY <1>2 DEF Ask, Start, Current, Replaced
  <2>2. Service!Ask(c, k)
    BY <1>2, <2>1 DEF Ask, Start, Service!Ask
  <2> QED
    BY <2>2 DEF Service!ServiceNext
<1>14. ASSUME NEW c \in Calls, NEW k \in Keys, NEW i \in Instances, AskExplain(c, k, i)
      PROVE Service!ServiceNext
  <2>1. \A j \in Keys : Current(j)' = Current(j) /\ Replaced(j)' = Replaced(j)
    BY <1>14 DEF AskExplain, Explain, Current, Replaced
  <2>2. Service!AskTruth(c, k)
    BY <1>14, <2>1 DEF AskExplain, Explain, Service!AskTruth
  <2> QED
    BY <2>2 DEF Service!ServiceNext
<1>3. ASSUME NEW c \in Calls, SdkStep(c),
             \/ RedisGet(c) \/ RedisGetFails(c) \/ HeliosAnswers(c) \/ HeliosFails(c)
             \/ Populate(c) \/ RedisSet(c) \/ RedisSetFails(c) \/ Join(c) \/ Lead(c)
      PROVE UNCHANGED Service!serviceVars
  <2>1. PICK p \in {"got", "join", "fetch", "fetched", "set", "stored", "asked"} :
            /\ pc' = [pc EXCEPT ![c] = p]
            /\ pc[c] \notin {"idle", "done"}
            /\ UNCHANGED <<truth, key, outcome, pending, window>>
    BY <1>3 DEF SdkStep, RedisGet, RedisGetFails, HeliosAnswers, HeliosFails, Asks, Answered,
                Populate, RedisSet, RedisSetFails, Join, Lead
  <2> QED
    BY <2>1, SilentStep DEF Points
<1>4. ASSUME NEW c \in Calls, SdkStep(c), Cancel(c) PROVE UNCHANGED Service!serviceVars
  <2>1. pc' = [pc EXCEPT ![c] = pc[c]]
    BY <1>4 DEF Cancel
  <2> QED
    BY <1>4, <2>1, SilentStep DEF SdkStep, Cancel
<1>5. ASSUME NEW c \in Calls, SdkStep(c), Hit(c) PROVE Service!Reply(c) \/ Service!Fail(c)
  <2>1. Returned(reply[c].perms) \in Outcome
    BY OutcomeTypes DEF Entry
  <2>2. reply[c].perms \in window[c]
    BY <1>5 DEF Hit, FitInv, Running
  <2> QED
    BY <1>5, <2>1, <2>2, AnswerStep DEF SdkStep, Hit, Returned
<1>6. ASSUME NEW c \in Calls, SdkStep(c), FetchFailed(c)
      PROVE Service!Reply(c) \/ Service!Fail(c)
  <2>1. /\ (IF StaleOnError THEN Result({}) ELSE Error) \in Future
        /\ (IF StaleOnError THEN Result({}) ELSE Error).perms = {}
    BY FutureTypes DEF PermList, Result, Error
  <2> QED
    BY <1>6, <2>1, SettleStep DEF SdkStep, FetchFailed, Leads
<1>7. ASSUME NEW c \in Calls, SdkStep(c), Populated(c)
      PROVE Service!Reply(c) \/ Service!Fail(c)
  <2>1. Result(ResolutionToPerms(answer[c])) \in Future
    BY ResolutionType, FutureTypes
  <2>3. ResolutionToPerms(answer[c]) \in window[c]
    BY <1>7 DEF Populated, ListInv, FitInv, Leads
  <2> QED
    BY <1>7, <2>1, <2>3, SettleStep DEF SdkStep, Populated, Leads, Result
<1>8. ASSUME NEW c \in Calls, SdkStep(c), FetchRaised(c) \/ Cancelled(c)
      PROVE Service!Reply(c) \/ Service!Fail(c)
  <2>1. /\ Raised("malformed") \in Outcome
        /\ Raised("malformed").kind \notin {"perms", "explained"}
        /\ Raised("cancelled") \in Outcome
        /\ Raised("cancelled").kind \notin {"perms", "explained"}
    BY OutcomeTypes DEF Raised
  <2> QED
    BY <1>8, <2>1, AnswerStep DEF SdkStep, FetchRaised, Cancelled, Leads
<1>9. ASSUME NEW c \in Calls, SdkStep(c), Wake(c)
      PROVE Service!Reply(c) \/ Service!Fail(c)
  <2>1. waits[c] \in Calls
    BY <1>9 DEF Wake, FlightInv, JoinInv
  <2>2. Awaited(fut[waits[c]]) \in Outcome /\ Raised("cancelled") \in Outcome
    BY <2>1, AwaitedType, OutcomeTypes
  <2>3. Awaited(fut[waits[c]]).kind \in {"perms", "explained"} =>
            /\ fut[waits[c]].st = "result"
            /\ Awaited(fut[waits[c]]).perms = fut[waits[c]].perms
    BY DEF Awaited, Returned, Raised
  <2>4. fut[waits[c]].st = "result" => fut[waits[c]].perms \in window[c] \cup {{}}
    BY <1>9 DEF Wake, MissInv
  <2>5. Raised("cancelled").kind \notin {"perms", "explained"}
    BY DEF Raised
  <2> QED
    BY <1>9, <2>2, <2>3, <2>4, <2>5, AnswerStep DEF SdkStep, Wake
<1>15. ASSUME NEW c \in Calls, SdkStep(c), Explained(c)
      PROVE Service!Reply(c) \/ Service!Fail(c)
  <2> DEFINE v == ResolutionToPerms(answer[c])
             o == IF answer[c].status = "malformed" THEN Raised("malformed") ELSE Explanation(v)
  <2>1. o \in Outcome
    BY ResolutionType, OutcomeTypes
  <2>2. o.kind \in {"perms", "explained"} => o.perms = v
    BY DEF Raised, Explanation
  <2>3. v \in window[c] \cup {{}}
    BY <1>15 DEF Explained, ExplainInv, Failure, ResolutionToPerms
  <2>4. pc[c] = "asked" /\ Return(c, o) /\ UNCHANGED <<truth, key, pending, window>>
    BY <1>15 DEF SdkStep, Explained
  <2> HIDE DEF o, v
  <2> QED
    BY <2>1, <2>2, <2>3, <2>4, AnswerStep
<1>10. ASSUME NEW k \in Keys, NEW r \in Resolution, Commit(k, r)
       PROVE Service!ServiceNext
  <2>1. ResolutionToPerms(r) \in Service!Lists
    BY ResolutionType DEF Service!Lists, PermList
  <2>2. /\ Replaced(k) = {} /\ Replaced(k)' = {Current(k)}
        /\ Current(k)' = ResolutionToPerms(r)
    BY <1>10 DEF Commit, RoleChange, Replaced, Current
  <2>3. \A j \in Keys \ {k} : Current(j)' = Current(j) /\ Replaced(j)' = Replaced(j)
    BY <1>10 DEF Commit, RoleChange, Replaced, Current
  <2>4. Service!Change(k, ResolutionToPerms(r))
    BY <1>10, <2>2, <2>3 DEF Commit, RoleChange, Running, Service!Change
  <2> QED
    BY <2>1, <2>4 DEF Service!ServiceNext
<1>11. ASSUME NEW k \in Keys, WriteThroughDone(k) PROVE Service!ServiceNext
  <2>1. \A j \in Keys : Current(j)' = Current(j)
    BY <1>11 DEF WriteThroughDone, Overwrite, Current
  <2>2. Replaced(k)' = {} /\ \A j \in Keys \ {k} : Replaced(j)' = Replaced(j)
    BY <1>11 DEF WriteThroughDone, Replaced, NoWrite
  <2>3. Service!Publish(k)
    BY <1>11, <2>1, <2>2 DEF WriteThroughDone, Overwrite, Service!Publish
  <2> QED
    BY <2>3 DEF Service!ServiceNext
<1>12. \A k \in Keys : ~WriteThroughFails(k)
  BY DEF WriteThroughFails
<1>16. ASSUME NEW K \in SUBSET Keys, Deliver(K) PROVE UNCHANGED Service!serviceVars
  <2>1. \A k \in Keys : Current(k)' = Current(k) /\ Replaced(k)' = Replaced(k)
    BY <1>16 DEF Deliver, Drop, Current, Replaced
  <2> QED
    BY <1>16, <2>1 DEF Deliver, Drop, Service!serviceVars
<1>17. ASSUME NEW m \in stray, StraySet(m) PROVE UNCHANGED Service!serviceVars
  <2>1. \A k \in Keys : Current(k)' = Current(k) /\ Replaced(k)' = Replaced(k)
    BY <1>17 DEF StraySet, Current, Replaced
  <2> QED
    BY <1>17, <2>1 DEF StraySet, Service!serviceVars
<1>13. ASSUME NEW c \in Calls, SdkStep(c)
       PROVE  Service!Reply(c) \/ Service!Fail(c) \/ UNCHANGED Service!serviceVars
  BY <1>3, <1>4, <1>5, <1>6, <1>7, <1>8, <1>9, <1>13, <1>15 DEF SdkStep, Run, Serve
<1> QED
  BY <1>1, <1>2, <1>10, <1>11, <1>12, <1>13, <1>14, <1>16, <1>17 DEF SysNext, Service!ServiceNext

(* While every GET and every write_through succeeds, and no event          *)
(* overtakes a fetch, callers get what PermissionService promises: an      *)
(* invalidation that comes early, late or again is not seen by any caller. *)
THEOREM SystemImplementsService ==
    ASSUME ~WriteMayFail, ~GetMayFail
    PROVE  InOrderSpec => ImplementsService
<1> DEFINE Inv == FreshInv /\ FitInv /\ MissInv
<1>1. SysInit => Inv
  BY InitFresh, InitFit, InitMiss
<1>2. SysTypeOK /\ FlightInv /\ ListInv /\ Inv /\ [InOrderNext]_systemVars => Inv'
  BY NextFresh, NextFit, NextMiss, InOrderStep
<1>3. SysTypeOK /\ FlightInv /\ ListInv /\ Inv /\ ExplainInv /\ [InOrderNext]_systemVars
        => [Service!ServiceNext]_Service!serviceVars
  BY ServiceStep, InOrderStep
<1> QED
  BY <1>1, <1>2, <1>3, ServiceInitially, ExplainAlways, InOrderAlways, InOrderIsSystem, PTL
     DEF InOrderSpec, ImplementsService, Service!ServiceSpec
-----------------------------------------------------------------------------
(* Revocation.                                                             *)

(* Where the list comes from that a call returns: a hit, the future it     *)
(* awaited, its own fetch, or a denial.                                    *)
LEMMA AnswerSource ==
    ASSUME SysTypeOK, ListInv, [SysNext]_systemVars, NEW c \in Calls, outcome'[c].kind = "perms"
    PROVE  \/ outcome'[c] = outcome[c]
           \/ outcome'[c].perms = {}
           \/ pc[c] = "got" /\ reply[c].kind = "list" /\ outcome'[c].perms = reply[c].perms
           \/ pc[c] = "join" /\ fut[waits[c]].st = "result"
              /\ outcome'[c].perms = fut[waits[c]].perms
           \/ Fetched(c) /\ outcome'[c].perms = Found(c)
<1> USE DEF SysTypeOK, TypeOK
<1>1. ASSUME NEW d \in Calls, SdkStep(d), Hit(d)
      PROVE  \/ outcome'[c] = outcome[c]
             \/ pc[c] = "got" /\ reply[c].kind = "list" /\ outcome'[c].perms = reply[c].perms
  BY <1>1 DEF Hit, Return, Returned
<1>2. ASSUME NEW d \in Calls, SdkStep(d), Wake(d)
      PROVE  \/ outcome'[c] = outcome[c]
             \/ pc[c] = "join" /\ fut[waits[c]].st = "result"
                /\ outcome'[c].perms = fut[waits[c]].perms
  BY <1>2 DEF Wake, Return, Awaited, Returned, Raised
<1>3. ASSUME NEW d \in Calls, SdkStep(d), FetchFailed(d)
      PROVE  outcome'[c] = outcome[c] \/ outcome'[c].perms = {}
  BY <1>3 DEF FetchFailed, Settle, Return, Awaited, Returned, Raised, Result, Error
<1>4. ASSUME NEW d \in Calls, SdkStep(d), Populated(d)
      PROVE  \/ outcome'[c] = outcome[c] \/ outcome'[c].perms = {}
             \/ Fetched(c) /\ outcome'[c].perms = Found(c)
  BY <1>4 DEF Populated, Settle, Return, Awaited, Returned, Raised, Result, ListInv,
              Fetched, Found, Leads
<1>5. ASSUME NEW d \in Calls, SdkStep(d), FetchRaised(d) \/ Explained(d) \/ Cancelled(d)
      PROVE  outcome'[c] = outcome[c]
  BY <1>5 DEF FetchRaised, Explained, Cancelled, Return, Raised, Explanation
<1>6. ASSUME NEW d \in Calls, SdkStep(d),
             ~Hit(d), ~Wake(d), ~FetchFailed(d), ~Populated(d), ~FetchRaised(d), ~Explained(d),
             ~Cancelled(d)
      PROVE  outcome' = outcome
  BY <1>6 DEF SdkStep, Run, Serve, Join, Lead, Populate, Cancel, RedisGet, RedisGetFails,
              HeliosAnswers, HeliosFails, RedisSet, RedisSetFails
<1>7. ASSUME NEW d \in Calls, NEW k \in Keys, NEW i \in Instances,
             Ask(d, k, i) \/ AskExplain(d, k, i)
      PROVE  outcome' = outcome
  BY <1>7 DEF Ask, AskExplain, Start, Explain
<1>8. ASSUME \/ \E k \in Keys : \/ \E r \in Resolution : Commit(k, r)
                                \/ WriteThroughDone(k) \/ WriteThroughFails(k)
             \/ \E K \in SUBSET Keys : Deliver(K)
             \/ \E m \in stray : StraySet(m)
      PROVE  outcome' = outcome
  BY <1>8 DEF Commit, RoleChange, WriteThroughDone, Overwrite, WriteThroughFails, Deliver, Drop,
              StraySet
<1> QED
  BY <1>1, <1>2, <1>3, <1>4, <1>5, <1>6, <1>7, <1>8 DEF SysNext

(* A call goes on from its GET to its end, with its arguments and with     *)
(* what its GET returned.                                                  *)
LEMMA CallStep ==
    ASSUME SysTypeOK, [SysNext]_systemVars, NEW c \in Calls, pc[c] # "idle"
    PROVE  /\ key'[c] = key[c] /\ pc'[c] # "idle"
           /\ pc[c] = "done" => pc'[c] = "done"
           /\ pc[c] # "get" => pc'[c] # "get" /\ reply'[c] = reply[c]
           /\ pc[c] = "get" => \/ pc'[c] \in {"get", "done"}
                               \/ SdkStep(c) /\ (RedisGet(c) \/ RedisGetFails(c))
<1> USE DEF SysTypeOK, TypeOK
<1>1. CASE UNCHANGED systemVars
  BY <1>1
<1>2. ASSUME SdkStep(c), ~RedisGet(c), ~RedisGetFails(c)
      PROVE  /\ key' = key /\ pc'[c] # "idle" /\ reply' = reply /\ pc[c] # "done"
             /\ pc'[c] = "get" => pc[c] = "get"
             /\ pc[c] = "get" => pc'[c] \in {"get", "done"}
  BY <1>2 DEF SdkStep, Run, Serve, Hit, Join, Lead, FetchFailed, FetchRaised, Populate, Populated,
              Wake, Explained, Cancelled, Cancel, HeliosAnswers,
              HeliosFails, Asks, Answered, RedisSet, RedisSetFails, Settle, Return, Leads
<1>3. ASSUME SdkStep(c), RedisGet(c) \/ RedisGetFails(c)
      PROVE  key' = key /\ pc'[c] = "got" /\ pc[c] = "get"
  BY <1>3 DEF SdkStep, RedisGet, RedisGetFails
<1>4. ASSUME NEW d \in Calls \ {c}, SdkStep(d)
      PROVE  key' = key /\ pc'[c] = pc[c] /\ reply'[c] = reply[c]
  BY <1>4 DEF SdkStep, Run, Serve, Hit, Join, Lead, FetchFailed, FetchRaised, Populate, Populated,
              Wake, Explained, Cancelled, Cancel, RedisGet, RedisGetFails, HeliosAnswers,
              HeliosFails, RedisSet, RedisSetFails, Settle, Return
<1>5. ASSUME NEW d \in Calls, NEW k \in Keys, NEW i \in Instances,
             Ask(d, k, i) \/ AskExplain(d, k, i)
      PROVE  key'[c] = key[c] /\ pc'[c] = pc[c] /\ reply'[c] = reply[c]
  BY <1>5 DEF Ask, AskExplain, Start, Explain
<1>6. ASSUME \/ \E k \in Keys : \/ \E r \in Resolution : Commit(k, r)
                                \/ WriteThroughDone(k) \/ WriteThroughFails(k)
             \/ \E K \in SUBSET Keys : Deliver(K)
             \/ \E m \in stray : StraySet(m)
      PROVE  UNCHANGED <<pc, key, reply>>
  BY <1>6 DEF Commit, RoleChange, WriteThroughDone, Overwrite, WriteThroughFails, Deliver, Drop,
              StraySet
<1>7. CASE SdkStep(c)
  <2>1. CASE RedisGet(c) \/ RedisGetFails(c)
    BY <1>3, <1>7, <2>1
  <2>2. CASE ~RedisGet(c) /\ ~RedisGetFails(c)
    BY <1>2, <1>7, <2>2
  <2> QED
    BY <2>1, <2>2
<1> QED
  BY <1>1, <1>4, <1>5, <1>6, <1>7 DEF SysNext

(* Nothing that c may still be answered with grants p: not what its GET    *)
(* returned, nor after a miss any answer of Helios to a fetch of its key,  *)
(* which it may join, nor the result of the future it awaits; and what it  *)
(* has returned does not.                                                  *)
OutOfReach(c, p) ==
    \/ pc[c] = "get"
    \/ pc[c] = "done" /\ NotGranted(c, p)
    \/ /\ pc[c] \notin {"idle", "get", "done"}
       /\ reply[c].kind = "list" => p \notin reply[c].perms
       /\ reply[c].kind # "list" => \A d \in Calls :
              Fetched(d) /\ key[d] = key[c] => p \notin Found(d)
       /\ pc[c] = "join" /\ fut[waits[c]].st = "result" => p \notin fut[waits[c]].perms

LEMMA OutOfReachStays ==
    ASSUME ~GetMayFail, SysTypeOK, FlightInv, ListInv, FreshInv,
           [SysNext]_systemVars, NEW c \in Calls, NEW p \in Perm,
           OutOfReach(c, p), ~Grantable(key[c], p), ~Grantable(key[c], p)'
    PROVE  OutOfReach(c, p)'
<1> USE DEF SysTypeOK, TypeOK, OutOfReach, NotGranted
<1>1. /\ pc[c] # "idle" /\ key'[c] = key[c] /\ pc'[c] # "idle"
      /\ pc[c] # "get" => pc'[c] # "get" /\ reply'[c] = reply[c]
  BY CallStep
<1>2. pc[c] # "done" => outcome[c].kind = "none"
  BY DEF ListInv
\* A call that returns, or has returned, is not answered with p.
<1>3. CASE pc'[c] = "done"
  <2>1. Fetched(c) => reply[c].kind # "list" /\ pc[c] \notin {"get", "done"}
    BY DEF ListInv, Fetched, Leads
  <2>2. ASSUME outcome'[c].kind = "perms" PROVE p \notin outcome'[c].perms
    BY <1>2, <2>1, <2>2, AnswerSource
  <2> QED
    BY <1>3, <2>2
\* Its GET is executed.
<1>4. CASE pc[c] = "get" /\ pc'[c] \notin {"get", "done"}
  <2>1. SdkStep(c) /\ RedisGet(c)
    BY <1>4, CallStep DEF RedisGetFails
  <2>2. /\ UNCHANGED <<key, answer>> /\ pc' = [pc EXCEPT ![c] = "got"]
        /\ reply' = [reply EXCEPT ![c] = Get(redis, key[c])]
    BY <2>1 DEF SdkStep, RedisGet
  <2>3. reply'[c].kind = "list" => p \notin reply'[c].perms
    BY <2>2 DEF Get, Absent, FreshInv, Grantable
  <2>4. ASSUME reply'[c].kind # "list", NEW d \in Calls, Fetched(d)', key'[d] = key'[c]
        PROVE  p \notin Found(d)'
    <3>1. redis[key[c]].kind # "list" /\ key[d] = key[c] /\ Fetched(d) /\ Found(d)' = Found(d)
      BY <2>2, <2>4 DEF Get, Fetched, Found, Leads
    <3> QED
      BY <3>1 DEF FreshInv, Grantable
  <2> QED
    BY <2>2, <2>3, <2>4
\* It goes on.
<1>5. CASE pc[c] # "get" /\ pc'[c] # "done"
  <2>1. pc[c] \notin {"idle", "get", "done"}
    BY <1>1, <1>5, CallStep
  <2>2. ASSUME reply'[c].kind # "list", NEW d \in Calls, Fetched(d)', key'[d] = key'[c]
        PROVE  p \notin Found(d)'
    <3>1. CASE Fetched(d) /\ Found(d)' = Found(d)
      BY <1>1, <1>5, <2>1, <2>2, <3>1, FetchStep
    <3>2. CASE ~(Fetched(d) /\ Found(d)' = Found(d))
      BY <1>1, <2>2, <3>2, FetchStep DEF Grantable, Readable
    <3> QED
      BY <3>1, <3>2
  <2>3. ASSUME pc'[c] = "join", fut'[waits'[c]].st = "result"
        PROVE  p \notin fut'[waits'[c]].perms
    <3> DEFINE e == waits[c]
    <3>1. pc[c] = "join" /\ waits'[c] = e
      BY <2>3, JoinStep
    <3>2. e \in Calls /\ key[e] = key[c] /\ reply[c].kind # "list"
      BY <3>1 DEF FlightInv, JoinInv, Slot, ListInv
    <3>3. fut[e].st = "result" => p \notin fut[e].perms
      BY <2>1, <3>1
    <3>4. Fetched(e) => p \notin Found(e)
      BY <2>1, <3>2
    <3> HIDE DEF e
    <3> QED
      BY <2>3, <3>1, <3>2, <3>3, <3>4, SettledStep
  <2> QED
    BY <1>1, <1>5, <2>1, <2>2, <2>3
<1> QED
  BY <1>3, <1>4, <1>5

(* While every GET and every write_through succeeds, and no event          *)
(* overtakes a fetch, a revoked permission is denied to every call that    *)
(* reads Redis after the revocation was written through, even to one that  *)
(* joins a fetch from before.                                              *)
THEOREM RevocationHolds ==
    ASSUME ~WriteMayFail, ~GetMayFail
    PROVE  InOrderSpec => RevokedIsDenied
<1> SUFFICES ASSUME NEW c \in Calls, NEW p \in Perm
             PROVE  InOrderSpec =>
                        [](pc[c] = "get" /\ []~Grantable(key[c], p) => []NotGranted(c, p))
  BY DEF RevokedIsDenied
<1>1. SysInit => FreshInv
  BY InitFresh
<1>2. SysTypeOK /\ ListInv /\ FreshInv /\ [InOrderNext]_systemVars => FreshInv'
  BY NextFresh
<1>3. SysTypeOK /\ FlightInv /\ ListInv /\ FreshInv /\ OutOfReach(c, p)
      /\ ~Grantable(key[c], p) /\ ~Grantable(key[c], p)' /\ [InOrderNext]_systemVars
        => OutOfReach(c, p)'
  BY OutOfReachStays, InOrderStep
<1>4. pc[c] = "get" => OutOfReach(c, p)
  BY DEF OutOfReach
<1>5. ListInv /\ OutOfReach(c, p) => NotGranted(c, p)
  BY DEF NotGranted, OutOfReach, ListInv
<1> QED
  BY <1>1, <1>2, <1>3, <1>4, <1>5, InOrderAlways, PTL DEF InOrderSpec
=============================================================================
